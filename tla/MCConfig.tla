------------------------------- MODULE MCConfig -------------------------------
(***************************************************************************)
(* A bench for the configuration pipeline: each initial state is a job     *)
(* (two lines in either order, a file with inclusions, the files of a      *)
(* zones-dir, a block whose reverse zones are wanted), its one step        *)
(* computes the answer, and the invariants compare it with a reference     *)
(* definition.  The names and the sockets the configuration decides about  *)
(* are checked the same way (MCNames).                                     *)
(***************************************************************************)
EXTENDS Config, Functions

CONSTANTS
    MAXLABEL,
    MaxName,
    MAXDNAME,
    Base,
    Bits

ASSUME NameLimits == MAXLABEL \in Nat \ {0} /\ MaxName \in Nat /\ MAXDNAME \in Nat
ASSUME SynthLimits == Base \in 2 .. 10 /\ Bits \in Nat \ {0}

VARIABLES job, answer, done
vars == <<job, answer, done>>

----------------------------------------------------------------------------
(* The words of the sample lines.                                          *)
MCNum == ("0" :> 0) @@ ("1" :> 1) @@ ("4" :> 4) @@ ("6" :> 6) @@ ("24" :> 24) @@ ("53" :> 53)
         @@ ("64" :> 64) @@ ("100" :> 100) @@ ("300" :> 300) @@ ("1500" :> 1500)
         @@ ("70000" :> 70000) @@ ("-1" :> -1) @@ ("-7" :> -7) @@ ("9999999" :> 9999999)
MCAddr4 == {"10.0.0.1", "10.0.0.2", "10.0.0.9", "255.0.0.0"}
MCAddr6 == {"fd00::1", "fd00::2"}
MCCanon == ("a.test" :> "a.test") @@ ("A.test." :> "a.test") @@ ("b.test" :> "b.test")
           @@ ("me" :> "me") @@ ("host" :> "host") @@ ("eth0" :> "eth0")
MCCut == (<<"tag:red", ":">> :> <<"tag", "red">>) @@ (<<"set:red", ":">> :> <<"set", "red">>)
         @@ (<<"set:blue", ":">> :> <<"set", "blue">>) @@ (<<"tag:", ":">> :> <<"tag", "">>)
         @@ (<<"option:router", ":">> :> <<"option", "router">>)
         @@ (<<"vendor:pxe", ":">> :> <<"vendor", "pxe">>) @@ (<<"encap:1", ":">> :> <<"encap", "1">>)
         @@ (<<"id:*", ":">> :> <<"id", "*">>) @@ (<<"01:02", ":">> :> <<"01", "02">>)
         @@ (<<"mtu:off", ":">> :> <<"mtu", "off">>) @@ (<<"mtu:100", ":">> :> <<"mtu", "100">>)
         @@ (<<"orgid:1", ":">> :> <<"orgid", "1">>) @@ (<<"exclude:10.0.0.1/24", ":">> :> <<"exclude", "10.0.0.1/24">>)
         @@ (<<"exclude:me", ":">> :> <<"exclude", "me">>) @@ (<<"10.0.0.1:53", ":">> :> <<"10.0.0.1", "53">>)
         @@ (<<"10.0.0.1/24", "/">> :> <<"10.0.0.1", "24">>) @@ (<<"fd00::1/64", "/">> :> <<"fd00::1", "64">>)
         @@ (<<"eth0/4", "/">> :> <<"eth0", "4">>) @@ (<<"/var/log", "/">> :> <<"", "var/log">>)
         @@ (<<"1/1", "/">> :> <<"1", "1">>) @@ (<<"4/1", "/">> :> <<"4", "1">>)
         @@ (<<"10.0.0.1#53", "#">> :> <<"10.0.0.1", "53">>) @@ (<<"10.0.0.1#70000", "#">> :> <<"10.0.0.1", "70000">>)
         @@ (<<"t#s", "#">> :> <<"t", "s">>) @@ (<<"p*", "*">> :> <<"p", "">>)
         @@ (<<"10.0.0.1-10.0.0.9", "-">> :> <<"10.0.0.1", "10.0.0.9">>)
MCSecs == ("100" :> 100) @@ ("300" :> 300) @@ ("1h" :> 3600)
MCHex == {"01:02", "ab"}
MCIfIndex == ("eth0" :> 2)
MCOptCode == ("router" :> 3)
MCOptKind == (3 :> "addr") @@ (1 :> "u8") @@ (6 :> "addr") @@ (24 :> "time")
MCFacility == ("daemon" :> 3)
MCMarkBits == ("1" :> {0}) @@ ("4" :> {2}) @@ ("0" :> {})

\* One directive per line, with values the parsers accept and values they refuse.
L(key, value) == [key |-> key, value |-> value]
Accepted ==
    <<L("no-resolv", None), L("log-queries", <<"extra">>), L("log-queries", <<"other">>),
     L("local-service", <<"host">>), L("local-service", None), L("add-mac", <<"text">>),
     L("strip-mac", None), L("enable-dbus", None), L("umbrella", <<"orgid:1">>),
     L("add-subnet", <<"24", "64">>), L("add-subnet", <<"10.0.0.1/24">>), L("dnssec", None),
     L("connmark-allowlist-enable", <<"1">>), L("connmark-allowlist", <<"1/1", "a.test">>),
     L("local-ttl", <<"300">>), L("local-ttl", None), L("port", <<"53">>), L("cache-size", <<"-7">>),
     L("cache-size", <<"9999999">>), L("use-stale-cache", <<"0">>), L("use-stale-cache", None),
     L("dhcp-ttl", <<"1">>), L("port-limit", <<"1">>), L("tftp-max", <<"4">>), L("log-async", None),
     L("fast-dns-retry", None), L("fast-dns-retry", <<"100", "1500">>), L("user", <<"">>),
     L("pid-file", <<"me">>), L("log-facility", <<"daemon">>), L("log-facility", <<"/var/log">>),
     L("auth-soa", <<"1", "me">>), L("dnssec-limits", <<"0", "4">>), L("mx-target", <<"b.test">>),
     L("localmx", None), L("auth-server", <<"a.test", "eth0/4">>), L("dhcp-duid", <<"1", "ab">>),
     L("tftp-port-range", <<"100", "53">>), L("dhcp-alternate-port", <<"100">>),
     L("dhcp-alternate-port", None), L("lease-file", <<"me">>), L("metrics-listen", <<"10.0.0.1:53">>),
     L("domain", <<"a.test">>), L("domain", <<"#">>), L("domain", <<"a.test", "10.0.0.1/24", "local">>),
     L("domain", <<"a.test", "eth0">>), L("bridge-interface", <<"eth0", "b1", "b2">>),
     L("no-rebind-localhost", None), L("conf-script", <<"me">>),
     L("ra-param", <<"eth0", "mtu:off", "high", "100">>), L("enable-tftp", <<"eth0">>), L("enable-tftp", None),
     L("resolv-file", <<"me">>), L("listen-address", <<"10.0.0.1">>), L("interface", <<"eth0">>),
     L("except-interface", <<"eth0">>), L("no-dhcpv4-interface", <<"eth0">>),
     L("server", <<"10.0.0.1#53">>), L("server", <<"", "a.test", "b.test", "10.0.0.2">>),
     L("local", <<"", "a.test", "">>), L("address", <<"", "a.test", "#">>),
     L("address", <<"", "#", "10.0.0.1">>), L("rev-server", <<"10.0.0.1/24", "10.0.0.2">>),
     L("synth-domain", <<"a.test", "10.0.0.1/24", "p*">>),
     L("shared-network", <<"eth0", "10.0.0.1">>), L("dhcp-range", <<"tag:red", "10.0.0.1", "10.0.0.9", "1h">>),
     L("dhcp-range", <<"set:red", "10.0.0.1", "10.0.0.9", "255.0.0.0">>),
     L("dhcp-host", <<"01:02", "10.0.0.2", "host">>), L("dhcp-host", <<"id:*", "set:red", "1h">>),
     L("dhcp-option", <<"option:router", "10.0.0.1">>), L("dhcp-option-force", <<"tag:red", "24", "1h">>),
     L("dhcp-option-pxe", <<"vendor:pxe", "1", "4">>), L("pxe-prompt", <<"me", "4">>),
     L("pxe-service", <<"x86PC", "menu", "base">>), L("dhcp-boot", <<"tag:red", "file", "", "10.0.0.1">>),
     L("dhcp-ignore", <<"tag:red">>), L("dhcp-broadcast", None), L("dhcp-proxy", <<"10.0.0.1">>),
     L("dhcp-pxe-vendor", <<"pxe">>), L("dhcp-vendorclass", <<"set:red", "me">>),
     L("tag-if", <<"set:red", "tag:red", "set:blue">>), L("dhcp-match", <<"set:red", "6">>),
     L("dhcp-name-match", <<"set:red", "p*">>), L("dhcp-userclass", <<"red", "me">>),
     L("dhcp-circuitid", <<"set:red", "01:02">>), L("dhcp-subscrid", <<"set:red", "me">>),
     L("dhcp-remoteid", <<"set:red", "me">>), L("dhcp-mac", <<"set:red", "01:02">>),
     L("dhcp-reply-delay", <<"tag:red", "4">>), L("dhcp-relay", <<"10.0.0.1", "10.0.0.2", "eth0">>),
     L("dhcp-split-relay", <<"10.0.0.1", "10.0.0.2", "10.0.0.9">>),
     L("mx-host", <<"a.test">>), L("mx-host", <<"me", "b.test", "4">>), L("srv-host", <<"a.test", "b.test", "53">>),
     L("txt-record", <<"a.test", "x">>), L("ptr-record", <<"a.test", "b.test">>),
     L("host-record", <<"a.test", "10.0.0.1">>), L("host-record", <<"b.test", "100", "fd00::1">>),
     L("interface-name", <<"a.test", "eth0/4">>), L("dynamic-host", <<"a.test", "10.0.0.1", "eth0">>),
     L("cname", <<"a.test", "b.test">>), L("cname", <<"me", "host", "b.test", "4">>),
     L("naptr-record", <<"a.test", "1", "1", "u", "s", "r", "b.test">>),
     L("dns-rr", <<"a.test", "TXT", "ab">>), L("caa-record", <<"a.test", "0", "issue", "ca">>),
     L("trust-anchor", <<"a.test", "1", "1", "1", "ab">>), L("addn-hosts", <<"h1">>),
     L("dhcp-hostsfile", <<"h2">>), L("hostsdir", <<"dir">>), L("zones-dir", <<"dir">>),
     L("auth-zone", <<"a.test", "exclude:10.0.0.1/24", "eth0/4">>), L("auth-sec-servers", <<"b.test">>),
     L("auth-peer", <<"10.0.0.1">>), L("ipset", <<"", "a.test", "/", "s">>),
     L("nftset", <<"", "a.test", "/", "t#s">>), L("alias", <<"10.0.0.1-10.0.0.9", "10.0.0.2">>),
     L("bogus-nxdomain", <<"10.0.0.1/24">>), L("leasequery", <<"10.0.0.1">>), L("leasequery", None),
     L("rebind-domain-ok", <<"a.test">>), L("filter-A", None), L("filter-rr", <<"TXT">>)>>
\* Values that are refused: out of range, of the wrong kind, or too many or too few.
Refused ==
    {L("strip-mac", <<"x">>), L("add-mac", <<"x">>), L("port", <<"70000">>), L("port-limit", <<"0">>),
     L("neg-ttl", None), L("fast-dns-retry", <<"1">>), L("log-facility", <<"me">>), L("dhcp-duid", <<"1">>),
     L("domain", <<"a.test", "10.0.0.1/24", "x">>), L("server", <<"me">>), L("listen-address", <<"me">>),
     L("rev-server", <<"10.0.0.1/64">>), L("dhcp-range", <<"10.0.0.1">>), L("dhcp-host", <<"10.0.0.1">>),
     L("dhcp-option", <<"encap:1", "vendor:pxe", "1", "4">>), L("dhcp-boot", <<"file", "", "me">>),
     L("dhcp-broadcast", <<"">>), L("tag-if", <<"tag:red">>), L("dhcp-split-relay", <<"10.0.0.1", "10.0.0.2">>),
     L("srv-host", <<"a.test", "b.test", "70000">>), L("host-record", <<"a.test">>),
     L("cname", <<"a.test", "a.test", "b.test">>), L("dynamic-host", <<"a.test", "eth0">>),
     L("auth-zone", <<"a.test", "exclude:me">>), L("connmark-allowlist", <<"4/1", "a.test">>),
     L("ipset", <<"", "a.test">>), L("alias", <<"me", "10.0.0.1">>), L("ra-param", <<"eth0", "mtu:100", "4">>),
     L("synth-domain", <<"a.test", "fd00::1", "fd00::2", "p*">>), L("dhcp-alternate-port", <<"70000">>),
     L("shared-network", <<"eth0", "me">>), L("zz", None)}
OrderJobs == UNION {{[op |-> "order", one |-> Accepted[i], two |-> Accepted[j]] : j \in 1..i} : i \in DOMAIN Accepted}
             \union [op : {"order"}, one : Refused, two : {L("no-resolv", None)}]

\* Files: chains of inclusions up to and beyond the limit, a cycle, a missing file.
Plain(i) == IF i % 2 = 0 THEN L("no-resolv", None) ELSE L("addn-hosts", <<"h1">>)
ChainNames == <<"c1", "c2", "c3", "c4", "c5", "c6", "c7", "c8", "c9", "c10", "c11">>
Chain == [n \in Range(ChainNames) |->
            LET i == CHOOSE k \in DOMAIN ChainNames : ChainNames[k] = n
            IN IF i = 1 THEN <<Plain(1)>>
               ELSE <<Plain(i), L("conf-file", <<ChainNames[i - 1]>>), Plain(i + 1)>>]
MCFiles == Chain @@ ("self" :> <<L("no-resolv", None), L("conf-file", <<"self">>)>>)
                 @@ ("gone" :> <<L("conf-file", <<"nowhere">>)>>) @@ ("empty" :> <<>>)
                 @@ ("zone" :> <<L("host-record", <<"a.test", "10.0.0.1">>), L("cname", <<"b.test", "a.test">>)>>)
MCDirs == ("dir" :> <<"c1", "empty">>)
Inclusions == {L("conf-file", <<f>>) : f \in DOMAIN MCFiles \union {"nowhere"}}
              \union {L("conf-file", None), L("no-hosts", None)}
FileJobs == [op : {"include"}, lines : {<<x>> : x \in Inclusions} \union {<<x, y>> : x, y \in Inclusions}]

\* YAML: documents that include others, and text files to be converted.
YamlNames == <<"y1", "y2", "y3", "y4", "y5", "y6", "y7", "y8", "y9", "y10", "y11", "y12">>
YamlDoc(i) == IF i = 1 THEN <<<<"port", Text(<<"53">>)>>>>
              ELSE <<<<"no-hosts", Flag(FALSE)>>, <<"conf-file", List(<<Text(<<YamlNames[i - 1]>>)>>)>>,
                     <<"server", List(<<Text(<<"10.0.0.1">>), Text(<<"10.0.0.2">>)>>)>>>>
MCYamlFiles == [n \in Range(YamlNames) |-> YamlDoc(CHOOSE i \in DOMAIN YamlNames : YamlNames[i] = n)]
               @@ ("mixed.yaml" :> <<<<"conf-file", Text(<<"c10">>)>>, <<"no-resolv", Null>>>>)
               @@ ("loop.yaml" :> <<<<"conf-file", Text(<<"loop.yaml">>)>>>>)
               @@ ("bad.yaml" :> <<<<"server", List(<<List(<<>>)>>)>>>>)
LoadJobs == [op : {"load"}, path : DOMAIN MCYamlFiles \union DOMAIN MCFiles \union {"nowhere"}]
TextLines == {L("no-resolv", None), L("port", <<"53">>), L("port", <<"100">>), L("server", <<"10.0.0.1">>),
              L("server", <<"", "a.test", "10.0.0.2">>), L("dhcp-broadcast", None), L("cname", <<"me", "b.test">>),
              L("host-record", <<"a.test", "10.0.0.1">>), L("conf-file", <<"zone">>), L("conf-file", <<"gone">>)}
YamlJobs == [op : {"yaml"}, text : UNION {[1..n -> TextLines] : n \in 0..3}]

\* A command line on top of a file of one or two of the sample lines.
CommandLines == {("port" :> <<"100">>) @@ ("no-hosts" :> None), "user" :> <<"">>, "local-ttl" :> <<"4">>,
                 ("domain" :> <<"b.test">>) @@ ("interface" :> <<<<"eth0">>, <<"me">>>>),
                 ("log-facility" :> <<"me">>), ("server" :> <<<<"10.0.0.2">>>>) @@ ("cache-size" :> <<"300">>),
                 ("use-stale-cache" :> <<"100">>) @@ ("lease-file" :> <<"host">>) @@ ("local-service" :> None)}
CliJobs == [op : {"cli"}, file : {<<>>} \union {<<Accepted[i]>> : i \in DOMAIN Accepted}, args : CommandLines]

\* The files of a zones-dir or networks-dir: None is a file that cannot be read.
ZoneLines == {L("host-record", <<"a.test", "10.0.0.1">>), L("cname", <<"b.test", "a.test">>),
              L("mx-host", <<"a.test">>), L("address", <<"", "a.test", "b.test", "#">>),
              L("txt-record", <<"me">>), L("srv-host", <<"a.test">>), L("no-resolv", None),
              L("conf-file", <<"zone">>), L("conf-file", <<"gone">>)}
NetworkLines == {L("dhcp-range", <<"10.0.0.1", "10.0.0.9">>), L("dhcp-host", <<"01:02", "host">>),
                 L("dhcp-relay", <<"fd00::1", "fd00::2">>), L("dhcp-relay", <<"10.0.0.1", "10.0.0.2">>),
                 L("dhcp-option", <<"6", "me">>), L("server", <<"10.0.0.1">>)}
SmallFiles(S) == {None, <<>>} \union {<<x>> : x \in S} \union {<<x, y>> : x, y \in S}
DirJobs == [op : {"zones"}, files : {<<f, g>> : f, g \in SmallFiles(ZoneLines)}]
           \union [op : {"networks"}, files : {<<f, g>> : f, g \in SmallFiles(NetworkLines)}]

\* Bank files read twice on top of a configuration with entries of its own.
HostValues == {<<"01:02", "10.0.0.2">>, <<"id:*", "host">>, <<"10.0.0.1">>}
OptValues == {<<"option:router", "10.0.0.1">>, <<"6", "me">>, <<"tag:red", "24", "1h">>}
OneLine(S) == {<<>>} \union {<<x>> : x \in S}
Banks(S) == OneLine(S) \union {<<x, y>> : x, y \in S}
OwnLines == {<<>>, <<L("dhcp-host", <<"01:02", "10.0.0.2">>), L("dhcp-option", <<"6", "10.0.0.1">>)>>}
BankJobs == [op : {"reread"}, own : OwnLines, hosts : OneLine(HostValues) \X Banks(HostValues),
             opts : {<<>>, <<<<"6", "10.0.0.2">>>>} \X OneLine(OptValues)]

\* Blocks of two small families, one with a label and one with two labels per octet.
Families == {[octets |-> 3, bits |-> 2, perOctet |-> 1], [octets |-> 2, bits |-> 2, perOctet |-> 2]}
Addresses(f) == [1..f.octets -> 0..(2^OctetBits(f) - 1)]
Bases(f) == [1..f.octets -> {0, 2^OctetBits(f) - 1, 1, 2^(OctetBits(f) - 1) - 2}]
RevJobs == UNION {[op : {"rev"}, family : {f}, addr : Bases(f), size : 0..(Width(f) + 1)] : f \in Families}

----------------------------------------------------------------------------
Lookups == INSTANCE MCNames

FilesInit == /\ job \in UNION {OrderJobs, FileJobs, LoadJobs, YamlJobs, CliJobs, DirJobs, BankJobs, RevJobs}
             /\ answer = None
             /\ done = FALSE
Init == FilesInit \/ Lookups!Init
Answer(op, x) == job.op = op /\ ~done /\ answer' = x /\ done' = TRUE /\ UNCHANGED job

Order == Answer("order", [i \in 1..2 |-> resolve_config(<<<<job.one, job.two>>, <<job.two, job.one>>>>[i])])
Include == Answer("include", parse_config_text(job.lines))
Load == Answer("load", load_top_level_conf_file(job.path))
Convert == Answer("yaml", convert_legacy_config_to_yaml(job.text))
Cli == Answer("cli", resolve_config(StartupLines(job.file, job.args)))
Zones == Answer("zones", rescan_zones_dirs(job.files))
Networks == Answer("networks", networks_d_records(job.files))
Reread == Answer("reread", FoldLeft(LAMBDA d, i : reread_dhcp(d, job.hosts[i], job.opts[i]),
                                    apply_lines(DefaultDaemon, job.own), <<1, 2>>))
Reverse_ == Answer("rev", domain_rev(job.family, job.addr, job.size))
Next == Order \/ Include \/ Load \/ Convert \/ Cli \/ Zones \/ Networks \/ Reread \/ Reverse_
        \/ Lookups!Next
Spec == Init /\ [][Next]_vars

----------------------------------------------------------------------------
(* Order of directives (apply_line, normalize_config): what a line changes  *)
(* on its own is all it changes, so two lines that change different         *)
(* settings give the same daemon in either order, whatever defaults are     *)
(* filled in from the other's settings once both are read.                  *)
Unset == [DefaultDaemon EXCEPT !.field = [f \in DOMAIN NumberDefaults |-> -99] @@ @]
Differs(d) == IF d = None THEN {} ELSE {f \in DOMAIN d.field : d.field[f] # Unset.field[f]}
                                       \union {x \in DOMAIN d.list : d.list[x] # Unset.list[x]}
Changed(lines) == [i \in DOMAIN lines |-> Differs(apply_line(Unset, lines[i]))]
Apart(changed, i, k) == changed[i] \intersect changed[k] = {}
OrderFree ==
    (done /\ job.op = "order" /\ Apart(Changed(<<job.one, job.two>>), 1, 2)) => answer[1] = answer[2]

(* Inclusion (parse_config_text_depth): conf-file means what replacing the  *)
(* line by the file's lines means, MAX_DEPTH times over; a file that still  *)
(* includes another then, or a file that is not there, is an error.         *)
Unreadable(l) == l.key = "conf-file" /\ (l.value = None \/ l.value[1] \notin DOMAIN Files)
InlineOnce(lines) ==
    IF lines = None \/ \E i \in DOMAIN lines : Unreadable(lines[i]) THEN None
    ELSE FlattenSeq([i \in DOMAIN lines |-> IF lines[i].key = "conf-file" THEN Files[lines[i].value[1]]
                                            ELSE <<lines[i]>>])
RECURSIVE Inlined(_, _)
Inlined(lines, n) == IF n = 0 THEN lines ELSE Inlined(InlineOnce(lines), n - 1)
ChainLines(i) == <<L("port", <<"53">>)>>
                 \o FlattenSeq([k \in 1..(i - 1) |-> <<L("server", <<"10.0.0.1">>), L("server", <<"10.0.0.2">>)>>])
InclusionInlines ==
    /\ (done /\ job.op = "include") =>
           LET whole == Inlined(job.lines, 10)
               left == whole # None /\ \E i \in DOMAIN whole : whole[i].key = "conf-file"
           IN answer = IF left THEN None ELSE whole
    /\ (done /\ job.op = "load") =>
           /\ \A i \in DOMAIN YamlNames :
                 job.path = YamlNames[i] => answer = IF i <= 11 THEN ChainLines(i) ELSE None
           /\ job.path = "mixed.yaml" => answer = Append(parse_config_text(Files["c10"]), L("no-resolv", None))
           /\ job.path \in {"loop.yaml", "bad.yaml", "nowhere", "self", "gone"} => answer = None

(* Conversion to YAML (config_lines_to_yaml, parse_yaml_config_text): the   *)
(* converted file means what the text file means, as long as no bare        *)
(* directive is repeated (its list of booleans comes back as the word       *)
(* "true") and no two directives extend the same list.                      *)
Repeats(lines, l) == Cardinality({i \in DOMAIN lines : lines[i].key = l.key}) > 1
Convertible(lines, changed) ==
    /\ \A i \in DOMAIN lines : lines[i].value # None \/ ~Repeats(lines, lines[i])
    /\ \A i, k \in DOMAIN lines : lines[i].key = lines[k].key \/ Apart(changed, i, k)
SameMeaning(resolved) == resolved[1] = resolved[2]
ConvertedWell(lines) ==
    IF lines = None THEN answer = None
    ELSE Convertible(lines, Changed(lines)) => SameMeaning(Each(resolve_config, <<parse_yaml_config_text(answer), lines>>))
YamlMeansText == (done /\ job.op = "yaml") => ConvertedWell(parse_config_text(job.text))

(* Command line (main.rs start, config_lines_from_cli): what it sets wins   *)
(* over the file, and what it adds comes after what the file added.         *)
CliHeld(cli) ==
    IF cli = None THEN answer = None
    ELSE answer # None =>
         /\ cli.opts \ {"LOCAL_SERVICE"} \subseteq answer.opts
         /\ \A f \in DOMAIN cli.field : cli.field[f] # Unset.field[f] => answer.field[f] = cli.field[f]
         /\ \A x \in DOMAIN cli.list : IsSuffix(cli.list[x], answer.list[x])
CliWins == (done /\ job.op = "cli") => CliHeld(apply_lines(Unset, config_lines_from_cli(job.args)))

(* zones-dir and networks-dir (rescan_zones_dirs, rescan_networks_dirs): a  *)
(* directory's records are those of its good files, each whole and in       *)
(* order; a file with one bad line contributes nothing.                     *)
NoNewAlias == [list |-> [cnames |-> <<>>]]
GoodLine(l, allowed) ==
    /\ l.key \in DOMAIN allowed /\ l.value # None
    /\ Entries(l.key, l.value, NoNewAlias) # None
    /\ l.key = "dhcp-relay" => l.value[1] \in Addr4
Aliases(lines) == SelectSeq(lines, LAMBDA l : l.key = "cname")
GoodFile(lines, allowed) ==
    /\ lines # None
    /\ parse_config_text(lines) # None
    /\ \A l \in Range(parse_config_text(lines)) : GoodLine(l, allowed)
    /\ IsInjective(Each(LAMBDA l : l.value[1], Aliases(parse_config_text(lines))))
Records(lines, list, allowed) ==
    FlattenSeq(Each(LAMBDA l : Entries(l.key, l.value, NoNewAlias),
                    SelectSeq(parse_config_text(lines), LAMBDA l : allowed[l.key] = list)))
DirHolds(allowed) ==
    \A list \in Range(allowed) :
        answer.list[list] = FlattenSeq(Each(LAMBDA f : Records(f, list, allowed),
                                            SelectSeq(job.files, LAMBDA f : GoodFile(f, allowed))))
DirFilesWhole == /\ (done /\ job.op = "zones") => DirHolds(ZoneList)
                 /\ (done /\ job.op = "networks") => DirHolds(NetworkList)

(* Bank files (reread_dhcp): reading them again forgets what the last       *)
(* reading added and nothing else, so a reload leaves what a start with the *)
(* new files would have.                                                    *)
RereadForgets ==
    (done /\ job.op = "reread") =>
        answer = reread_dhcp(apply_lines(DefaultDaemon, job.own), job.hosts[2], job.opts[2])

(* The three together: where a setting stands decides nothing but what it   *)
(* should, be it among other lines, on the command line or in a bank file   *)
(* that is read a second time (apply_line, normalize_config,                *)
(* config_lines_from_cli, reread_dhcp).                                     *)
SourcesCompose == OrderFree /\ CliWins /\ RereadForgets

(* And of files: an included file, a converted file and the files of a      *)
(* directory mean what their lines mean (parse_config_text_depth,           *)
(* parse_yaml_config_text, rescan_zones_dirs, rescan_networks_dirs).        *)
FilesMeanLines == InclusionInlines /\ YamlMeansText /\ DirFilesWhole

(* Reverse zones (domain_rev4, domain_rev6): the zones generated for a      *)
(* block are disjoint and cover it, that is, the reverse name of an address *)
(* lies below exactly one of them if the address is in the block, and below *)
(* none otherwise.                                                          *)
Bit(f, octets, i) == (octets[(i \div OctetBits(f)) + 1] \div 2^(OctetBits(f) - 1 - (i % OctetBits(f)))) % 2
InBlock(f, x) == \A i \in 0..(job.size - 1) : Bit(f, x, i) = Bit(f, job.addr, i)
Below(f, x, zone) == \A k \in DOMAIN zone : zone[k] = Label(f, x, Len(zone) - k)
RevZonesCover ==
    (done /\ job.op = "rev" /\ job.size \in 1..Width(job.family)) =>
        \A x \in Addresses(job.family) :
            Cardinality({z \in DOMAIN answer : Below(job.family, x, answer[z])})
                = IF InBlock(job.family, x) THEN 1 ELSE 0

(* Names (MCNames): what is computed the fast way agrees with its plain     *)
(* definition: the matchers, the synthetic names and their inverses, the    *)
(* server of the longest matching domain and the reverse zones of a block   *)
(* (glob_match, hostname_issubdomain, synthesize_ipv4/6, ServerArray::      *)
(* lookup, domain_rev4/6).                                                  *)
NamesAgree ==
    Lookups!MatchersAgree /\ Lookups!SynthInverse /\ Lookups!LookupIsLongest /\ RevZonesCover

(* The binding modes serve the same queries (bind_dns_listeners).           *)
ModesAgree == Lookups!ModesAgree

=============================================================================

-------------------------------- MODULE Config --------------------------------
(***************************************************************************)
(* The configuration pipeline of option.rs: the lines of a file (with its  *)
(* conf-file inclusions) are applied one by one to a Daemon and the result *)
(* is normalised.  A line is [key, value]; a value is None or a sequence   *)
(* of tokens (see RecordValues), <<"">> being the empty value; a daemon is *)
(*   opts   the set of options that are on,                                *)
(*   field  the scalar settings,                                           *)
(*   list   the settings that accumulate, as sequences of entries.         *)
(* Every operator below maps a daemon to a daemon, or to None where the    *)
(* source returns a ConfigError (the daemon is then discarded).            *)
(***************************************************************************)
EXTENDS DhcpValues, TLC

CONSTANTS
    Files,      \* path -> lines of a configuration file
    Dirs,       \* path -> the paths of a conf-dir's files, in sorted order
    Hostname    \* gethostname()

\* Options set by a directive whatever its value.
LateFlags ==
    {<<"stop-dns-rebind", "NO_REBIND">>, <<"rebind-localhost-ok", "LOCAL_REBIND">>,
     <<"no-round-robin", "NORR">>, <<"bind-dynamic", "CLEVERBIND">>,
     <<"connmark-allowlist-enable", "CMARK_ALST_EN">>}
FlagTable ==
    {<<"no-resolv", "NO_RESOLV">>, <<"no-poll", "NO_POLL">>, <<"no-hosts", "NO_HOSTS">>,
     <<"bogus-priv", "BOGUSPRIV">>, <<"bogus-privv4", "BOGUSPRIV">>, <<"expand-hosts", "EXPAND">>,
     <<"filterwin2k", "FILTER">>, <<"filter-win2k", "FILTER">>, <<"localise-queries", "LOCALISE">>,
     <<"localize-queries", "LOCALISE">>, <<"log-queries", "LOG">>, <<"log-dhcp", "LOG_OPTS">>,
     <<"no-negcache", "NO_NEG">>, <<"strict-order", "ORDER">>, <<"all-servers", "ALL_SERVERS">>,
     <<"reload-acl", "RELOAD">>, <<"no-rebind", "NO_REBIND">>, <<"no-daemon", "DEBUG">>,
     <<"keep-in-foreground", "NO_FORK">>, <<"bind-interfaces", "NOWILD">>, <<"selfmx", "SELFMX">>,
     <<"localmx", "LOCALMX">>, <<"authoritative", "AUTHORITATIVE">>,
     <<"dhcp-authoritative", "AUTHORITATIVE">>, <<"read-ethers", "ETHERS">>,
     <<"dhcp-no-override", "NO_OVERRIDE">>, <<"dhcp-sequential-ip", "CONSEC_ADDR">>,
     <<"dhcp-ignore-clid", "IGNORE_CLID">>, <<"dhcp-client-update", "FQDN_UPDATE">>,
     <<"dhcp-fqdn", "DHCP_FQDN">>, <<"enable-dbus", "DBUS">>, <<"no-ping", "NO_PING">>,
     <<"lease-ro", "LEASE_RO">>, <<"leasefile-ro", "LEASE_RO">>, <<"conntrack", "CONNTRACK">>,
     <<"quiet-dhcp", "QUIET_DHCP">>, <<"quiet-dhcp6", "QUIET_DHCP6">>, <<"quiet-ra", "QUIET_RA">>,
     <<"dnssec", "DNSSEC_VALID">>, <<"proxy-dnssec", "DNSSEC_PROXY">>,
     <<"dnssec-debug", "DNSSEC_DEBUG">>, <<"dnssec-no-timecheck", "DNSSEC_TIME">>,
     <<"enable-ra", "RA">>, <<"enable-tftp", "TFTP">>, <<"tftp-secure", "TFTP_SECURE">>,
     <<"tftp-no-fail", "TFTP_NO_FAIL">>, <<"tftp-no-blocksize", "TFTP_NOBLOCK">>,
     <<"tftp-lowercase", "TFTP_LC">>, <<"tftp-single-port", "SINGLE_PORT">>,
     <<"client-subnet", "CLIENT_SUBNET">>, <<"loop-detect", "LOOP_DETECT">>,
     <<"dns-loop-detect", "LOOP_DETECT">>, <<"script-arp", "SCRIPT_ARP">>,
     <<"script-on-renewal", "LEASE_RENEW">>, <<"rapid-commit", "RAPID_COMMIT">>,
     <<"dhcp-rapid-commit", "RAPID_COMMIT">>, <<"log-debug", "LOG_DEBUG">>,
     <<"quiet-tftp", "QUIET_TFTP">>, <<"no-ident", "NO_IDENT">>, <<"no-0x20-encode", "NO_0X20">>,
     <<"do-0x20-encode", "DO_0X20">>, <<"log-malloc", "LOG_MALLOC">>, <<"ubus", "UBUS">>,
     <<"enable-ubus", "UBUS">>, <<"domain-needed", "NODOTS_LOCAL">>, <<"clear-on-reload", "RELOAD">>,
     <<"umbrella", "UMBRELLA">>, <<"strip-mac", "STRIP_MAC">>, <<"add-subnet", "CLIENT_SUBNET">>,
     <<"strip-subnet", "STRIP_ECS">>, <<"leasequery", "LEASEQUERY">>} \union LateFlags
FlagsOf(key) == {p[2] : p \in {q \in FlagTable : q[1] = key}}
\* The flag directives that refuse a value.
BareKeys == {"tftp-no-fail", "tftp-single-port", "strip-mac", "strip-subnet"}

\* Options chosen by the value: key, value, options.
ChoiceTable ==
    {<<"log-queries", "extra", {"EXTRALOG"}>>, <<"log-queries", "proto", {"EXTRALOG", "LOG_PROTO"}>>,
     <<"log-queries", "auth", {"AUTH_LOG"}>>, <<"log-queries", "only_failed", {"LOG_ONLY_FAILED"}>>,
     <<"local-service", None, {"LOCAL_SERVICE"}>>, <<"local-service", "net", {"LOCAL_SERVICE"}>>,
     <<"local-service", "host", {"LOCALHOST_SERVICE"}>>, <<"add-mac", None, {"ADD_MAC"}>>,
     <<"add-mac", "base64", {"MAC_B64"}>>, <<"add-mac", "text", {"MAC_HEX"}>>,
     <<"tftp-unique-root", None, {"TFTP_APREF_IP"}>>, <<"tftp-unique-root", "ip", {"TFTP_APREF_IP"}>>,
     <<"tftp-unique-root", "mac", {"TFTP_APREF_MAC"}>>, <<"dnssec-check-unsigned", None, {}>>,
     <<"dnssec-check-unsigned", "no", {"DNSSEC_IGN_NS"}>>}
\* Any other value is an error, except that log-queries ignores it.
StrictChoice == {"local-service", "add-mac", "tftp-unique-root", "dnssec-check-unsigned"}
ChoiceOf(l) ==
    UNION {c[3] : c \in {c \in ChoiceTable : c[1] = l.key /\ c[2] = (IF l.value = None THEN None ELSE l.value[1])}}
ChoiceKnown(l) ==
    \E c \in ChoiceTable : c[1] = l.key /\ c[2] = (IF l.value = None THEN None ELSE l.value[1])

----------------------------------------------------------------------------
(* Scalar settings.                                                        *)

\* Numbers: key, field, least and greatest value the parser accepts.
PortRows == {<<"port", "port", 0, MaxPort>>, <<"query-port", "query_port", 0, MaxPort>>,
             <<"min-port", "min_port", 0, MaxPort>>, <<"max-port", "max_port", 0, MaxPort>>}
CacheRows == {<<"cache-size", "cachesize", -I32Max, I32Max>>, <<"local-ttl", "local_ttl", 0, I32Max>>}
TtlRows == {<<"neg-ttl", "neg_ttl", 0, I32Max>>, <<"max-ttl", "max_ttl", 0, I32Max>>,
            <<"min-cache-ttl", "min_cache_ttl", 0, I32Max>>, <<"max-cache-ttl", "max_cache_ttl", 0, I32Max>>,
            <<"auth-ttl", "auth_ttl", 0, I32Max>>, <<"dhcp-ttl", "dhcp_ttl", 0, I32Max>>}
StaleRows == {<<"use-stale-cache", "cache_max_expiry", 0, I32Max>>, <<"edns-packet-max", "edns_pktsz", 0, MaxPort>>}
LogRows == {<<"log-async", "max_logs", -I32Max, I32Max>>, <<"dumpmask", "dump_mask", -I32Max, I32Max>>}
TableRows == {<<"dns-forward-max", "ftabsize", -I32Max, I32Max>>,
              <<"max-tcp-connections", "max_procs", -I32Max, I32Max>>}
TftpRows == {<<"tftp-max", "tftp_max", -I32Max, I32Max>>, <<"tftp-mtu", "tftp_mtu", -I32Max, I32Max>>}
LimitRows == {<<"dhcp-lease-max", "dhcp_max", -I32Max, I32Max>>, <<"port-limit", "randport_limit", 1, I32Max>>}
NumberTable == PortRows \union CacheRows \union TtlRows \union StaleRows \union LogRows
               \union TableRows \union TftpRows \union LimitRows
NumberRow(key) == CHOOSE r \in NumberTable : r[1] = key
NumberKeys == {r[1] : r \in NumberTable}

\* What becomes of the number: a clamp for cache-size, "for ever" for a stale time of 0.
MaxCacheSize == 5000000
Stored(key, n) ==
    CASE key = "cache-size" -> IF n < 0 THEN 0 ELSE IF n > MaxCacheSize THEN MaxCacheSize ELSE n
      [] key = "use-stale-cache" -> IF n = 0 THEN -1 ELSE n
      [] OTHER -> n
StaleCacheExpiry == 86400
DefaultFastRetryMs == 1000
UpstreamTimeout == 10

\* Text: key, field.  An empty value clears those of the second table.
TextTable ==
    {<<"dnssec-timestamp", "timestamp_file">>, <<"dhcp-scriptuser", "scriptuser">>,
     <<"dhcp-script", "lease_change_command">>, <<"dhcp-luascript", "luascript">>,
     <<"web-api-token-file", "web_api_token_file">>, <<"dumpfile", "dump_file">>,
     <<"add-cpe-id", "dns_client_id">>, <<"servers-file", "servers_file">>,
     <<"lease-file", "lease_file">>, <<"dhcp-leasefile", "lease_file">>, <<"tftp-root", "tftp_prefix">>}
ClearableTable == {<<"user", "username">>, <<"group", "groupname">>, <<"pid-file", "runfile">>}
SocketTable == {<<"metrics-listen", "metrics_listen">>, <<"web-api-listen", "web_api_listen">>}
FieldIn(table, key) == (CHOOSE r \in table : r[1] = key)[2]
KeysOf(table) == {r[1] : r \in table}

CONSTANT Facility   \* facility_by_name

----------------------------------------------------------------------------
(* Lists: the list each directive extends and the entries it adds.         *)
ListTable ==
    {<<"ra-param", "ra_interfaces">>, <<"enable-tftp", "tftp_interfaces">>, <<"resolv-file", "resolv_files">>,
     <<"listen-address", "if_addrs">>, <<"interface", "if_names">>, <<"except-interface", "if_except">>,
     <<"server", "servers">>, <<"local", "servers">>, <<"address", "servers">>,
     <<"rev-server", "servers">>, <<"synth-domain", "synth_domains">>,
     <<"shared-network", "shared_networks">>, <<"dhcp-range", "dhcp">>, <<"dhcp-host", "dhcp_conf">>,
     <<"dhcp-option", "dhcp_opts">>, <<"dhcp-option-force", "dhcp_opts">>,
     <<"dhcp-option-pxe", "dhcp_opts">>, <<"pxe-prompt", "dhcp_opts">>, <<"pxe-service", "pxe_services">>,
     <<"dhcp-boot", "boot_config">>, <<"dhcp-ignore", "dhcp_ignore">>,
     <<"dhcp-ignore-names", "dhcp_ignore_names">>, <<"dhcp-generate-names", "dhcp_gen_names">>,
     <<"dhcp-broadcast", "force_broadcast">>, <<"bootp-dynamic", "bootp_dynamic">>,
     <<"dhcp-vendorclass", "dhcp_vendors">>, <<"tag-if", "tag_if">>, <<"dhcp-match", "dhcp_match">>,
     <<"dhcp-name-match", "dhcp_name_match">>, <<"dhcp-userclass", "dhcp_userclasses">>,
     <<"dhcp-circuitid", "dhcp_relay_ids">>, <<"dhcp-subscrid", "dhcp_relay_ids">>,
     <<"dhcp-remoteid", "dhcp_relay_ids">>, <<"dhcp-mac", "dhcp_macs">>,
     <<"dhcp-reply-delay", "dhcp_reply_delays">>, <<"dhcp-relay", "relays">>,
     <<"dhcp-split-relay", "relays">>, <<"no-dhcp-interface", "dhcp_except">>,
     <<"no-dhcpv4-interface", "dhcp_except">>, <<"no-dhcpv6-interface", "dhcp_except">>,
     <<"mx-host", "mxnames">>, <<"srv-host", "mxnames">>, <<"txt-record", "txt">>, <<"ptr-record", "ptr">>,
     <<"host-record", "host_records">>, <<"interface-name", "int_names">>, <<"dynamic-host", "int_names">>,
     <<"cname", "cnames">>, <<"naptr-record", "naptr">>, <<"dns-rr", "rr">>, <<"caa-record", "rr">>,
     <<"trust-anchor", "ds">>, <<"addn-hosts", "addn_hosts">>, <<"dhcp-hostsfile", "dhcp_hosts_file">>,
     <<"dhcp-optsfile", "dhcp_opts_file">>, <<"hostsdir", "dynamic_dirs">>,
     <<"addn-hosts-dir", "dynamic_dirs">>, <<"hosts-dir", "dynamic_dirs">>,
     <<"dhcp-hostsdir", "dynamic_dirs">>, <<"dhcp-optsdir", "dynamic_dirs">>,
     <<"zones-dir", "dynamic_dirs">>, <<"networks-dir", "dynamic_dirs">>, <<"auth-zone", "auth_zones">>,
     <<"auth-sec-servers", "secondary_forward_servers">>, <<"auth-peer", "auth_peers">>,
     <<"ipset", "ipsets">>, <<"nftset", "nftsets">>, <<"alias", "doctors">>,
     <<"bogus-nxdomain", "bogus_addr">>, <<"ignore-address", "ignore_addr">>,
     <<"leasequery", "leasequery_addr">>, <<"rebind-domain-ok", "no_rebind">>,
     <<"connmark-allowlist", "allowlists">>, <<"dhcp-proxy", "override_relays">>,
     <<"dhcp-pxe-vendor", "dhcp_pxe_vendors">>, <<"filter-A", "rrlist_filter">>,
     <<"filter-AAAA", "rrlist_filter">>, <<"cache-rr", "rrlist_cache">>, <<"filter-rr", "rrlist_filter">>}
ListKeys == KeysOf(ListTable)
ListOf(key) == FieldIn(ListTable, key)
Lists == {r[2] : r \in ListTable} \union {"bridges", "cond_domain", "auth_interfaces"}
\* Lists a bare directive adds nothing, or an empty entry, to.
OptionalList == {"enable-tftp", "leasequery", "dhcp-proxy"}
BareEntry == {"dhcp-ignore-names", "dhcp-generate-names", "dhcp-broadcast", "bootp-dynamic"}
One(x) == IF x = None THEN None ELSE <<x>>

\* Names and networks: resolv-file ... shared-network, and the interface lists.
NetEntries(key, v) ==
    LET iname(flags) == <<[name |-> v[1], addr |-> None, flags |-> flags]>>
    IN CASE key = "ra-param" -> One(parse_ra_param(v))
         [] key = "enable-tftp" -> parse_tftp_interfaces(v)
         [] key = "resolv-file" -> <<v[1]>>
         [] key = "listen-address" -> IF Address(v[1]) THEN <<[name |-> None, addr |-> v[1], flags |-> {}]>> ELSE None
         [] key \in {"interface", "except-interface", "no-dhcp-interface"} -> iname({})
         [] key = "no-dhcpv4-interface" -> iname({4})
         [] key = "no-dhcpv6-interface" -> iname({6})
         [] key \in {"server", "local", "address"} -> build_server_or_address_entries(key, v)
         [] key = "rev-server" -> parse_rev_server(v)
         [] key = "synth-domain" -> One(parse_synth_domain(v))
         [] key = "shared-network" -> One(parse_shared_network(v))

\* DHCP pools, hosts, options, boot menus and lists of tags.
Subopt == ("dhcp-circuitid" :> 1) @@ ("dhcp-remoteid" :> 2) @@ ("dhcp-subscrid" :> 6)
OptionFlags == ("dhcp-option" :> {}) @@ ("dhcp-option-force" :> {"FORCE"}) @@ ("dhcp-option-pxe" :> {"PXE_OPT"})
DhcpEntries(key, v, d) ==
    CASE key = "dhcp-range" -> One(parse_dhcp_range(v))
      [] key = "dhcp-host" -> One(parse_dhcp_host(v))
      [] key \in DOMAIN OptionFlags -> One(parse_dhcp_option(v, OptionFlags[key]))
      [] key = "pxe-prompt" -> One(parse_pxe_prompt(v))
      [] key = "pxe-service" -> One(parse_pxe_service(v, d.field["pxe_boottype_next"]))
      [] key = "dhcp-boot" -> One(parse_dhcp_boot(v))
      [] key \in BareEntry \union {"dhcp-ignore"} -> One(parse_dhcp_netid_list(v))
      [] key = "dhcp-proxy" -> IF Range(SelectSeq(v, NonEmpty)) \subseteq Addr4 THEN SelectSeq(v, NonEmpty) ELSE None
      [] key = "dhcp-pxe-vendor" -> IF "" \in Range(v) THEN None ELSE v

\* DHCP rules: classes, matches, relay identifiers, delays and relays.
RuleEntries(key, v) ==
    CASE key = "dhcp-vendorclass" -> One(parse_dhcp_vendor(v))
      [] key = "tag-if" -> One(parse_tag_if(v))
      [] key = "dhcp-match" -> One(parse_dhcp_match(v))
      [] key = "dhcp-name-match" -> One(parse_dhcp_name_match(v))
      [] key = "dhcp-userclass" -> One(parse_dhcp_userclass(v))
      [] key \in DOMAIN Subopt -> One(parse_dhcp_relay_id(v, Subopt[key]))
      [] key = "dhcp-mac" -> One(parse_dhcp_mac(v))
      [] key = "dhcp-reply-delay" -> One(parse_dhcp_reply_delay(v))
      [] key \in {"dhcp-relay", "dhcp-split-relay"} -> One(parse_dhcp_relay(v, key = "dhcp-split-relay"))

\* DNS records, files and directories.  A file takes the next index of the daemon.
RecordKeys == {"mx-host", "srv-host", "txt-record", "ptr-record", "host-record", "interface-name",
               "dynamic-host", "cname", "naptr-record", "dns-rr", "caa-record", "trust-anchor"}
\* Fault: the default TTL is taken when the line is read, not when all are.
EagerHostRecord(v, d) ==
    LET r == parse_host_record(v)
    IN IF r = None THEN None
       ELSE <<[r EXCEPT !.ttl = IF @ = -1 /\ "field" \in DOMAIN d THEN d.field["local_ttl"] ELSE @]>>
HostRecordEntries(v, d) == One(parse_host_record(v))
RecordEntries(key, v, d) ==
    CASE key = "mx-host" -> One(parse_mx_host(v))
      [] key = "srv-host" -> One(parse_srv_host(v))
      [] key = "txt-record" -> One(parse_txt_record(v))
      [] key = "ptr-record" -> One(parse_ptr_record(v))
      [] key = "host-record" -> HostRecordEntries(v, d)
      [] key \in {"interface-name", "dynamic-host"} -> One(parse_interface_name(v, key = "dynamic-host"))
      [] key = "cname" -> parse_cname_records(v, d.list["cnames"])
      [] key = "naptr-record" -> One(parse_naptr_record(v))
      [] key = "dns-rr" -> One(parse_dns_rr(v))
      [] key = "caa-record" -> One(parse_caa_record(v))
      [] key = "trust-anchor" -> One(parse_trust_anchor(v))

FileKeys == {"addn-hosts", "dhcp-hostsfile", "dhcp-optsfile"}
DirKind == ("hostsdir" :> "HOSTS") @@ ("addn-hosts-dir" :> "HOSTS") @@ ("hosts-dir" :> "HOSTS")
           @@ ("dhcp-hostsdir" :> "DHCP_HST") @@ ("dhcp-optsdir" :> "DHCP_OPT")
           @@ ("zones-dir" :> "ZONES") @@ ("networks-dir" :> "NETWORKS")
make_hosts_file(d, fname) == [fname |-> fname, index |-> d.field["host_index"]]
FileEntries(key, v, d) ==
    IF key \in FileKeys THEN <<make_hosts_file(d, v[1])>>
    ELSE <<[dname |-> v[1], flags |-> DirKind[key]]>>

\* Authoritative zones, address sets, filters and the connmark allow list.  A mark is
\* given as the set of its bits, so that "subset of the mask" is inclusion.
CONSTANT MarkBits
AllowEntry(v) ==
    LET mark == Left(v[1], "/")
        mask == Right(v[1], "/")
        bits(t) == IF t \in DOMAIN MarkBits /\ MarkBits[t] # {} THEN MarkBits[t] ELSE None
    IN IF bits(mark) = None \/ (mask # None /\ bits(mask) = None) THEN None
       ELSE IF mask # None /\ ~(bits(mark) \subseteq bits(mask)) THEN None
       ELSE [mark |-> mark, mask |-> mask, patterns |-> Tail(v)]
FilterEntries(key, v) ==
    CASE key = "auth-zone" -> One(parse_auth_zone(v))
      [] key = "auth-sec-servers" -> parse_auth_sec_servers(v)
      [] key = "auth-peer" -> parse_auth_peers(v)
      [] key = "ipset" -> parse_ipset(v)
      [] key = "nftset" -> parse_nftset(v)
      [] key = "alias" -> One(parse_alias(v))
      [] key \in {"bogus-nxdomain", "ignore-address", "leasequery"} -> One(parse_bogus_addr(v[1]))
      [] key = "rebind-domain-ok" -> parse_rebind_domains(v)
      [] key = "connmark-allowlist" -> One(AllowEntry(v))
      [] key = "filter-A" -> <<1>>
      [] key = "filter-AAAA" -> <<28>>
      [] key \in {"cache-rr", "filter-rr"} -> parse_rrlist(v)

DhcpKeys == {"dhcp-range", "dhcp-host", "dhcp-option", "dhcp-option-force", "dhcp-option-pxe",
             "pxe-prompt", "pxe-service", "dhcp-boot", "dhcp-ignore", "dhcp-proxy", "dhcp-pxe-vendor"}
            \union BareEntry
RuleKeys == {"dhcp-vendorclass", "tag-if", "dhcp-match", "dhcp-name-match", "dhcp-userclass",
             "dhcp-circuitid", "dhcp-subscrid", "dhcp-remoteid", "dhcp-mac", "dhcp-reply-delay",
             "dhcp-relay", "dhcp-split-relay"}
FilterKeys == {"auth-zone", "auth-sec-servers", "auth-peer", "ipset", "nftset", "alias",
               "bogus-nxdomain", "ignore-address", "leasequery", "rebind-domain-ok",
               "connmark-allowlist", "filter-A", "filter-AAAA", "cache-rr", "filter-rr"}
Entries(key, v, d) ==
    CASE key \in DhcpKeys -> DhcpEntries(key, v, d)
      [] key \in RuleKeys -> RuleEntries(key, v)
      [] key \in RecordKeys -> RecordEntries(key, v, d)
      [] key \in FileKeys \union DOMAIN DirKind -> FileEntries(key, v, d)
      [] key \in FilterKeys -> FilterEntries(key, v)
      [] OTHER -> NetEntries(key, v)

----------------------------------------------------------------------------
(* One line.                                                               *)
SetOpts(d, o) == [d EXCEPT !.opts = @ \union o]
SetField(d, f, x) == [d EXCEPT !.field[f] = x]
Extend(d, l, es) == [d EXCEPT !.list[l] = @ \o es]

\* Flags, with the values some of them take.
WithUmbrellaArgs(on, umbrella) ==
    IF umbrella = None THEN None
    ELSE SetField(SetOpts(on, IF "deviceid" \in DOMAIN umbrella THEN {"UMBRELLA_DEVID"} ELSE {}),
                  "umbrella", umbrella @@ on.field["umbrella"])
WithSubnets(on, subnet) ==
    IF subnet = None THEN None
    ELSE SetField(on, "add_subnet", subnet \o SubSeq(on.field["add_subnet"], Len(subnet) + 1,
                                                      Len(on.field["add_subnet"])))
FlagSet(on, l) ==
    CASE l.key = "enable-dbus" ->
           SetField(on, "dbus_name", IF l.value = None THEN "uk.org.thekelleys.dnsmasq" ELSE l.value[1])
      [] l.key = "umbrella" /\ l.value # None -> WithUmbrellaArgs(on, parse_umbrella(l.value))
      [] l.key = "add-subnet" /\ l.value \notin {None, <<"">>} -> WithSubnets(on, parse_add_subnet(l.value))
      [] l.key = "connmark-allowlist-enable" ->
           IF l.value = None THEN SetField(on, "allowlist_mask", None)
           ELSE IF U32(l.value[1]) = None \/ U32(l.value[1]) < 1 THEN None
           ELSE SetField(on, "allowlist_mask", U32(l.value[1]))
      [] OTHER -> on
apply_flag(d, l) ==
    IF (l.key \in BareKeys /\ l.value # None) \/ (l.key \in StrictChoice /\ ~ChoiceKnown(l)) THEN None
    ELSE FlagSet(SetOpts(d, FlagsOf(l.key) \union ChoiceOf(l)), l)

\* Numbers and times.  local-ttl without a value is accepted and ignored.
NumberSet(d, key, n, row) ==
    IF n = None THEN None
    ELSE SetField(IF key = "dhcp-ttl" THEN SetField(d, "use_dhcp_ttl", 1) ELSE d, row[2], Stored(key, n))
NumberIn(d, l, row) == NumberSet(d, l.key, ParseIn(l.value[1], row[3], row[4]), row)
apply_number(d, l) ==
    IF l.value = None
    THEN CASE l.key = "local-ttl" -> d
           [] l.key = "log-async" -> SetField(d, "max_logs", 5)
           [] l.key = "use-stale-cache" -> SetField(d, "cache_max_expiry", StaleCacheExpiry)
           [] OTHER -> None
    ELSE NumberIn(d, l, NumberRow(l.key))

\* fast-dns-retry[=retry_ms[,timeout_ms]]; Rust's division truncates.
MinRetryMs == 50
apply_fast_retry(d, l) ==
    LET set(ms, secs) == SetField(SetField(d, "fast_retry_time", ms), "fast_retry_timeout", secs)
        ms == I32(l.value[1])
        timeout == IF Len(l.value) > 1 THEN I32(l.value[2]) ELSE UpstreamTimeout * 1000
    IN IF l.value = None THEN set(DefaultFastRetryMs, UpstreamTimeout)
       ELSE IF ms = None \/ ms < MinRetryMs \/ timeout = None THEN None
       ELSE set(ms, IF timeout >= 0 THEN timeout \div 1000 ELSE -((-timeout) \div 1000))

\* SOA fields and DNSSEC limits: each part given replaces one setting.
SoaGiven(d, soa) ==
    LET given == {SoaFields[i] : i \in DOMAIN soa}
    IN  IF soa = None THEN None
        ELSE [d EXCEPT !.field = [f \in DOMAIN @ |->
                IF f \in given THEN soa[CHOOSE i \in DOMAIN soa : SoaFields[i] = f] ELSE @[f]]]
LimitsGiven(d, limits) == IF limits = None THEN None ELSE SetField(d, "dnssec_limits", limits)
apply_limits(d, key, v) ==
    IF key = "auth-soa" THEN SoaGiven(d, parse_auth_soa(v))
    ELSE LimitsGiven(d, parse_dnssec_limits(v, d.field["dnssec_limits"]))

\* A path, "-", "stdout" or "journald" is a file, a name a facility.
apply_log_facility(d, v) ==
    IF v[1] \in {"-", "stdout", "journald"} \/ HasCut(v[1], "/") THEN SetField(d, "log_file", v[1])
    ELSE IF v[1] \in DOMAIN Facility THEN SetField(d, "log_fac", Facility[v[1]]) ELSE None

\* Port ranges; the server identifier of DHCPv6.
DhcpPorts(d, ports) ==
    IF ports = None THEN None
    ELSE SetField(SetField(d, "dhcp_server_port", ports.server), "dhcp_client_port", ports.client)
TftpPorts(d, range) ==
    IF range = None THEN None
    ELSE SetField(SetField(d, "start_tftp_port", range.start), "end_tftp_port", range.end)
apply_ports(d, key, v) ==
    IF key = "dhcp-alternate-port" THEN DhcpPorts(d, parse_dhcp_alternate_port(IF v = None THEN <<>> ELSE v))
    ELSE IF v = None THEN None ELSE TftpPorts(d, parse_tftp_port_range(v))
apply_duid(d, v) ==
    IF Len(v) = 2 /\ U32(v[1]) # None /\ v[2] \in Hex THEN SetField(d, "duid_config", <<U32(v[1]), v[2]>>) ELSE None

AuthServed(d, auth) ==
    IF auth = None THEN None
    ELSE Extend(SetField(d, "authserver", auth.authserver), "auth_interfaces", auth.interfaces)
apply_auth_server(d, v) == AuthServed(d, parse_auth_server(v))

apply_text(d, l) ==
    LET v == l.value
    IN IF l.key \in {"dhcp-alternate-port", "tftp-port-range"} THEN apply_ports(d, l.key, v)
       ELSE IF v = None THEN None
       ELSE CASE l.key \in KeysOf(TextTable) -> SetField(d, FieldIn(TextTable, l.key), v[1])
              [] l.key \in KeysOf(ClearableTable) ->
                   SetField(d, FieldIn(ClearableTable, l.key), IF v[1] = "" THEN None ELSE v[1])
              [] l.key \in KeysOf(SocketTable) ->
                   IF Address(Left(v[1], ":")) THEN SetField(d, FieldIn(SocketTable, l.key), v[1]) ELSE None
              [] l.key = "log-facility" -> apply_log_facility(d, v)
              [] l.key \in {"auth-soa", "dnssec-limits"} -> apply_limits(d, l.key, v)
              [] l.key = "auth-server" -> apply_auth_server(d, v)
              [] l.key = "dhcp-duid" -> apply_duid(d, v)
              [] l.key = "mx-target" ->
                   IF parse_domain_token(v[1]) = None THEN None
                   ELSE SetField(d, "mxtarget", parse_domain_token(v[1]))
TextKeys == KeysOf(TextTable) \union KeysOf(ClearableTable) \union KeysOf(SocketTable)
            \union {"log-facility", "auth-soa", "dnssec-limits", "mx-target", "auth-server",
                    "dhcp-duid", "tftp-port-range", "dhcp-alternate-port"}

\* domain=name|#|name,block: the suffix, an option, or a conditional domain.
WithDomain(d, v, c) ==
    CASE c = None -> None
      [] c # None /\ Len(v) > 1 -> Extend(d, "cond_domain", <<c>>)
      [] c # None /\ v = <<"#">> -> SetOpts(d, {"RESOLV_DOMAIN"})
      [] OTHER -> SetField(d, "domain_suffix", v[1])
apply_domain(d, v) == WithDomain(d, v, parse_domain(v))

\* A directive that extends a list, with the counters some of them advance.
ListAdded(d, key, es) ==
    IF es = None THEN None
    ELSE [Extend(SetOpts(d, FlagsOf(key)), ListOf(key), es) EXCEPT
            !.field["host_index"] = @ + (IF key \in FileKeys THEN 1 ELSE 0),
            !.field["dhcp_override"] = @ \/ key = "dhcp-proxy",
            !.field["enable_pxe"] = @ \/ key \in {"pxe-prompt", "pxe-service"},
            !.field["pxe_boottype_next"] = @ + (IF key = "pxe-service" /\ es[1].own THEN 1 ELSE 0)]
apply_list(d, l) ==
    CASE l.value = None /\ l.key \in OptionalList ->
           SetField(SetOpts(d, FlagsOf(l.key)), "dhcp_override",
                    l.key = "dhcp-proxy" \/ d.field["dhcp_override"])
      [] l.value = None /\ l.key \in BareEntry -> Extend(d, ListOf(l.key), <<<<>>>>)
      [] l.value = None /\ l.key \notin OptionalList \union BareEntry \union {"filter-A", "filter-AAAA"} -> None
      [] OTHER -> ListAdded(d, l.key, Entries(l.key, IF l.value = None THEN <<"">> ELSE l.value, d))

----------------------------------------------------------------------------
(* Files.                                                                  *)
MAX_DEPTH == 10

\* The lines of a file with every conf-file line replaced by the lines of the file it
\* names; an inclusion deeper than MAX_DEPTH, or of no readable file, is an error.
RECURSIVE parse_config_text_depth(_, _)
Joined(here, rest) == IF here = None \/ rest = None THEN None ELSE here \o rest
IncludedText(l, depth) ==
    IF l.key # "conf-file" THEN <<l>>
    ELSE IF depth < MAX_DEPTH /\ l.value # None /\ l.value[1] \in DOMAIN Files
    THEN parse_config_text_depth(Files[l.value[1]], depth + 1) ELSE None
parse_config_text_depth(lines, depth) ==
    IF lines = <<>> THEN <<>>
    ELSE Joined(IncludedText(lines[1], depth), parse_config_text_depth(Tail(lines), depth))
parse_config_text(lines) == parse_config_text_depth(lines, 0)

(* Defaults that depend on what was configured, in the order of the source. *)
apply_dnssec_fast_retry_defaults(d) ==
    IF "DNSSEC_VALID" \in d.opts /\ d.field["fast_retry_time"] = 0
    THEN [d EXCEPT !.field["fast_retry_timeout"] = UpstreamTimeout,
                   !.field["fast_retry_time"] = DefaultFastRetryMs] ELSE d

apply_local_ttl_defaults(d) ==
    LET filled(s) == [i \in DOMAIN s |-> IF s[i].ttl = -1 THEN [s[i] EXCEPT !.ttl = d.field["local_ttl"]] ELSE s[i]]
    IN [d EXCEPT !.list["host_records"] = filled(@), !.list["cnames"] = filled(@)]

MxFilled(d, mx, target) ==
    [d EXCEPT !.field["mxtarget"] = target,
              !.list["mxnames"] = [i \in DOMAIN mx |->
                  IF ~mx[i].isSrv /\ mx[i].target = "" THEN [mx[i] EXCEPT !.target = target] ELSE mx[i]]]
MxSelf == [name |-> Hostname, isSrv |-> FALSE, port |-> 0, weight |-> 0, target |-> "", priority |-> 1]
WithMxSelf(mx, wanted) ==
    IF wanted /\ ~\E i \in DOMAIN mx : ~mx[i].isSrv /\ mx[i].name = Hostname THEN Append(mx, MxSelf) ELSE mx
apply_mx_defaults(d) ==
    LET wanted == d.field["mxtarget"] # None \/ "LOCALMX" \in d.opts
    IN IF ~wanted /\ d.list["mxnames"] = <<>> THEN d
       ELSE MxFilled(d, WithMxSelf(d.list["mxnames"], wanted),
                     IF d.field["mxtarget"] = None THEN Hostname ELSE d.field["mxtarget"])

apply_auth_defaults(d) ==
    IF d.field["hostmaster"] = None /\ d.field["authserver"] # None
    THEN [d EXCEPT !.field["hostmaster"] = <<"hostmaster", d.field["authserver"]>>] ELSE d

\* local-service=host stands for a listener on the loopback interface (an entry without
\* a name); any explicit interface, address or auth-server turns local-service off.
apply_local_service_defaults(d) ==
    IF d.list["if_names"] # <<>> \/ d.list["if_except"] # <<>> \/ d.list["if_addrs"] # <<>>
       \/ d.field["authserver"] # None
    THEN [d EXCEPT !.opts = @ \ {"LOCAL_SERVICE", "LOCALHOST_SERVICE"}]
    ELSE IF "LOCALHOST_SERVICE" \in d.opts /\ "LOCAL_SERVICE" \notin d.opts
    THEN [d EXCEPT !.opts = @ \union {"NOWILD"},
                   !.list["if_names"] = Append(@, [name |-> None, addr |-> None, flags |-> {}])]
    ELSE d

DEFAULT_LEASEFILE == "/var/lib/misc/dnsmasq.leases"
apply_dhcp_leasefile_default(d) ==
    IF d.field["lease_file"] = None /\ d.list["dhcp"] # <<>>
    THEN [d EXCEPT !.field["lease_file"] = DEFAULT_LEASEFILE] ELSE d

TftpMaxDefault == 50
apply_tftp_defaults(d) ==
    IF d.field["tftp_max"] = 0 THEN [d EXCEPT !.field["tftp_max"] = TftpMaxDefault] ELSE d

validate_auth_config(d) == d.list["auth_zones"] = <<>> \/ d.field["authserver"] # None

\* No DHCPv6 context is ever configured, so apply_doing_ra_default returns at once.
Validated(d) == IF validate_auth_config(d) THEN d ELSE None
normalize_config(d) ==
    Validated(apply_tftp_defaults(apply_dhcp_leasefile_default(apply_local_service_defaults(
        apply_auth_defaults(apply_mx_defaults(apply_local_ttl_defaults(
           apply_dnssec_fast_retry_defaults(d))))))))
Normalized(applied) == IF applied = None THEN None ELSE normalize_config(applied)

\* The files of a conf-dir are read one after the other as configurations of their own:
\* each of them is normalised in the middle of the file that names the directory.
RECURSIVE apply_line(_, _), apply_lines(_, _), load_conf_dir(_, _)
ReadLines(d, lines) == IF lines = None THEN None ELSE Normalized(apply_lines(d, lines))
read_opts(d, path) == IF path \in DOMAIN Files THEN ReadLines(d, parse_config_text(Files[path])) ELSE None
load_conf_dir(d, paths) ==
    IF d = None \/ paths = <<>> THEN d ELSE load_conf_dir(read_opts(d, paths[1]), Tail(paths))
apply_conf_dir(d, dir) == IF dir \in DOMAIN Dirs THEN load_conf_dir(d, Dirs[dir]) ELSE None

FlagKeys == {p[1] : p \in FlagTable} \union {c[1] : c \in ChoiceTable}
Bridged(d, bridges) == IF bridges = None THEN None ELSE [d EXCEPT !.list["bridges"] = bridges]
apply_line(d, l) ==
    LET key == l.key
    IN CASE key \in ListKeys -> apply_list(d, l)
         [] key \notin ListKeys /\ key \in FlagKeys -> apply_flag(d, l)
         [] key \in NumberKeys -> apply_number(d, l)
         [] key \in TextKeys -> apply_text(d, l)
         [] key = "fast-dns-retry" -> apply_fast_retry(d, l)
         [] key = "no-rebind-localhost" -> d
         [] key \in {"domain", "bridge-interface", "conf-dir", "conf-script"} /\ l.value = None -> None
         [] key = "domain" /\ l.value # None -> apply_domain(d, l.value)
         [] key = "bridge-interface" /\ l.value # None ->
              Bridged(d, parse_bridge_interface(l.value, d.list["bridges"]))
         [] key = "conf-dir" /\ l.value # None -> apply_conf_dir(d, l.value[1])
         [] key = "conf-script" /\ l.value # None -> d
         [] OTHER -> None
apply_lines(d, lines) ==
    IF d = None \/ lines = <<>> THEN d ELSE apply_lines(apply_line(d, lines[1]), Tail(lines))

(* The daemon before any line, and after all of them.                      *)
NumberDefaults == [port |-> 53, min_port |-> 1024, max_port |-> 65535, auth_ttl |-> 600, cachesize |-> 150,
                   ftabsize |-> 150, cache_max_expiry |-> -1, edns_pktsz |-> 4096, max_logs |-> 5,
                   soa_refresh |-> 1200, soa_retry |-> 180, soa_expiry |-> 1209600, randport_limit |-> 1,
                   dhcp_max |-> 1000, dhcp_server_port |-> 67, dhcp_client_port |-> 68,
                   pxe_boottype_next |-> 32768]
ZeroFields == {"query_port", "local_ttl", "neg_ttl", "max_ttl", "min_cache_ttl", "max_cache_ttl", "dhcp_ttl",
               "use_dhcp_ttl", "dump_mask", "tftp_max", "max_procs", "tftp_mtu", "fast_retry_time",
               "fast_retry_timeout", "soa_sn", "host_index", "start_tftp_port", "end_tftp_port"}
TextFields == {r[2] : r \in TextTable \union ClearableTable \union SocketTable}
              \union {"dbus_name", "log_file", "log_fac", "mxtarget", "authserver", "hostmaster",
                      "duid_config", "domain_suffix", "allowlist_mask"}
DefaultDaemon ==
    [opts |-> {},
     field |-> NumberDefaults @@ [f \in ZeroFields |-> 0] @@ [f \in TextFields |-> None]
               @@ [umbrella |-> <<>>, add_subnet |-> <<>>, dnssec_limits |-> <<20, 200, 40, 150>>,
                   dhcp_override |-> FALSE, enable_pxe |-> FALSE],
     list |-> [l \in Lists |-> <<>>]]
seed_startup_defaults(d) ==
    [d EXCEPT !.field["username"] = "nobody", !.field["runfile"] = "/var/run/dnsmasq.pid"]
apply_config(d, lines) == Normalized(apply_lines(d, lines))
resolve_config(lines) == apply_config(seed_startup_defaults(DefaultDaemon), lines)

----------------------------------------------------------------------------
(* The command line: a function from the arguments given to their values,  *)
(* a sequence of values for the repeatable ones.  Its lines come in a      *)
(* fixed order, after those of the configuration file.                     *)
CliPorts == <<"port", "query-port", "min-port", "max-port">>
CliFlags == <<"no-resolv", "no-poll", "no-hosts", "bogus-priv", "expand-hosts", "log-queries", "no-negcache",
              "all-servers", "strict-order", "dnssec", "local-service", "no-rebind", "no-daemon",
              "keep-in-foreground", "bind-interfaces", "dnssec-debug">>
CliValues == <<"cache-size", "local-ttl", "neg-ttl", "max-ttl", "min-cache-ttl", "max-cache-ttl",
               "use-stale-cache", "edns-packet-max", "fast-dns-retry", "domain", "user", "group", "pid-file",
               "web-api-listen", "web-api-token-file", "metrics-listen", "log-facility", "log-async",
               "servers-file", "lease-file", "dns-forward-max", "dhcp-alternate-port">>
CliLists == <<"resolv-file", "interface", "except-interface", "listen-address", "server", "rev-server",
              "synth-domain", "bridge-interface", "shared-network">>
config_lines_from_cli(args) ==
    LET lines(key) == CASE key \notin DOMAIN args -> <<>>
                        [] key \in DOMAIN args /\ key \in Range(CliFlags) -> <<[key |-> key, value |-> None]>>
                        [] key \in DOMAIN args /\ key \in Range(CliLists) ->
                             [i \in DOMAIN args[key] |-> [key |-> key, value |-> args[key][i]]]
                        [] OTHER -> <<[key |-> key, value |-> args[key]]>>
    IN FlattenSeq(Each(lines, CliPorts \o CliFlags \o CliValues \o CliLists))
StartupLines(file, args) == file \o config_lines_from_cli(args)

----------------------------------------------------------------------------
(* zones-dir and networks-dir files: a fixed set of directives, applied to  *)
(* records of their own; one bad line rejects the whole file.              *)
ZoneList == ("host-record" :> "host_records") @@ ("cname" :> "cnames") @@ ("txt-record" :> "txt")
            @@ ("srv-host" :> "mxnames") @@ ("mx-host" :> "mxnames") @@ ("naptr-record" :> "naptr")
            @@ ("ptr-record" :> "ptr") @@ ("address" :> "servers")
NetworkList == ("dhcp-range" :> "dhcp") @@ ("dhcp-relay" :> "relays") @@ ("dhcp-split-relay" :> "relays")
               @@ ("dhcp-host" :> "dhcp_conf") @@ ("dhcp-option" :> "dhcp_opts")
EmptyRecords(allowed) == [list |-> [l \in Range(allowed) |-> <<>>]]
DirectiveAdded(target, key, list, es) ==
    IF es = None THEN None
    ELSE IF key \in {"dhcp-relay", "dhcp-split-relay"} /\ es[1].v6 THEN None
    ELSE [target EXCEPT !.list[list] = @ \o es]
apply_directive(target, l, allowed) ==
    IF l.key \notin DOMAIN allowed \/ l.value = None THEN None
    ELSE DirectiveAdded(target, l.key, allowed[l.key], Entries(l.key, l.value, target))
apply_zone_directive(target, l) == apply_directive(target, l, ZoneList)
apply_network_directive(target, l) == apply_directive(target, l, NetworkList)

RECURSIVE ParseFile(_, _, _)
ParseFile(target, lines, allowed) ==
    IF target = None \/ lines = <<>> THEN target
    ELSE ParseFile(apply_directive(target, lines[1], allowed), Tail(lines), allowed)
\* Fault: a bad line is skipped and the rest of its file kept.
SkipBadLines(lines) ==
    LET good(l) == apply_directive(EmptyRecords(ZoneList), l, ZoneList) # None
    IN IF parse_config_text(lines) = None THEN None
       ELSE ParseFile(EmptyRecords(ZoneList), SelectSeq(parse_config_text(lines), good), ZoneList)
FileRecords(lines, allowed) == IF lines = None THEN None ELSE ParseFile(EmptyRecords(allowed), lines, allowed)
parse_zone_file(lines) == FileRecords(parse_config_text(lines), ZoneList)
parse_network_file(lines) == FileRecords(parse_config_text(lines), NetworkList)

\* The records of every readable file of a directory, in the order of the paths.
WithRecords(acc, file) ==
    IF file = None THEN acc ELSE [acc EXCEPT !.list = [l \in DOMAIN @ |-> @[l] \o file.list[l]]]
Rescan(contents, allowed, Parse(_)) ==
    FoldLeft(LAMBDA acc, c : WithRecords(acc, IF c = None THEN None ELSE Parse(c)), EmptyRecords(allowed), contents)
rescan_zones_dirs(contents) == Rescan(contents, ZoneList, parse_zone_file)
networks_d_records(contents) == Rescan(contents, NetworkList, parse_network_file)

----------------------------------------------------------------------------
(* Bank files: dhcp-hostsfile and dhcp-optsfile.  A line is the value of a *)
(* directive; a bad line is skipped.                                       *)
read_dhcp_bank_file(lines, Parse(_)) ==
    SelectSeq([i \in DOMAIN lines |-> Parse(lines[i])], LAMBDA e : e # None)
parse_bank_option(v) == parse_dhcp_option(v, {})
\* hosts, opts: the contents of the configured bank files, one after the other.
reread_dhcp(d, hosts, opts) ==
    LET banked(c) == [c EXCEPT !.bank = TRUE]
        flagged(o) == [o EXCEPT !.flags = @ \union {"BANK"}]
    IN [d EXCEPT
          !.list["dhcp_conf"] = SelectSeq(@, LAMBDA c : ~c.bank)
                                \o Each(banked, read_dhcp_bank_file(hosts, parse_dhcp_host)),
          !.list["dhcp_opts"] = SelectSeq(@, LAMBDA o : "BANK" \notin o.flags)
                                \o Each(flagged, read_dhcp_bank_file(opts, parse_bank_option))]

----------------------------------------------------------------------------
(***************************************************************************)
(* Configuration files in YAML (yaml_config.rs) and their conversion from  *)
(* the text format (main.rs).  A document is a sequence of <<key, node>>;  *)
(* a node is [kind, of]: "flag" a boolean, "null", "text" a scalar with    *)
(* the tokens of its text, "list" a sequence of nodes, "map" anything      *)
(* nested deeper.  A path of YamlFiles has a .yaml or .yml extension.      *)
(***************************************************************************)

CONSTANT YamlFiles   \* path -> document

Flag(b) == [kind |-> "flag", of |-> b]
Text(v) == [kind |-> "text", of |-> v]
List(s) == [kind |-> "list", of |-> s]
Null == [kind |-> "null", of |-> None]

\* A scalar's text; a boolean inside a list is the word "true" or "false".
yaml_scalar_to_string(node) ==
    CASE node.kind = "text" -> node.of
      [] node.kind = "flag" -> <<IF node.of THEN "true" ELSE "false">>
      [] OTHER -> None
yaml_value_to_strings(node) ==
    IF node.kind = "list" THEN Each(yaml_scalar_to_string, node.of) ELSE <<yaml_scalar_to_string(node)>>

push_value_as_lines(key, node) ==
    LET line(v) == [key |-> key, value |-> v]
        texts == yaml_value_to_strings(node)
    IN CASE node.kind = "null" -> <<line(None)>>
         [] node.kind = "flag" -> IF node.of THEN <<line(None)>> ELSE <<>>
         [] OTHER -> IF AllParsed(texts) THEN Each(line, texts) ELSE None

\* Inclusions: a YAML file goes one level deeper, a text file starts again at level 0.
RECURSIVE parse_yaml_config_text_depth(_, _), load_included(_, _)
load_included(paths, depth) ==
    IF paths = <<>> THEN <<>>
    ELSE LET path == paths[1][1]
             here == IF paths[1] = None \/ depth >= MAX_DEPTH THEN None
                     ELSE IF path \in DOMAIN YamlFiles
                     THEN parse_yaml_config_text_depth(YamlFiles[path], depth + 1)
                     ELSE IF path \in DOMAIN Files THEN parse_config_text(Files[path]) ELSE None
             rest == load_included(Tail(paths), depth)
         IN IF here = None \/ rest = None THEN None ELSE here \o rest
parse_yaml_config_text_depth(doc, depth) ==
    IF doc = <<>> THEN <<>>
    ELSE LET key == doc[1][1]
             here == IF key = "conf-file" THEN load_included(yaml_value_to_strings(doc[1][2]), depth)
                     ELSE push_value_as_lines(key, doc[1][2])
             rest == parse_yaml_config_text_depth(Tail(doc), depth)
         IN IF here = None \/ rest = None THEN None ELSE here \o rest
parse_yaml_config_text(doc) == parse_yaml_config_text_depth(doc, 0)

config_value_to_yaml(v) == IF v = None THEN Flag(TRUE) ELSE Text(v)
\* The lines grouped by key, the keys in the order of their first lines.
config_lines_to_yaml(lines) ==
    LET first(l) == SelectInSeq(lines, LAMBDA k : k.key = l.key)
        heads == SelectSeq([i \in DOMAIN lines |-> i], LAMBDA i : first(lines[i]) = i)
        values(key) == Each(LAMBDA l : config_value_to_yaml(l.value), SelectSeq(lines, LAMBDA l : l.key = key))
        node(key) == IF Len(values(key)) = 1 THEN values(key)[1] ELSE List(values(key))
    IN [i \in DOMAIN heads |-> <<lines[heads[i]].key, node(lines[heads[i]].key)>>]
convert_legacy_config_to_yaml(text) ==
    IF parse_config_text(text) = None THEN None ELSE config_lines_to_yaml(parse_config_text(text))

load_top_level_conf_file(path) ==
    IF path \in DOMAIN YamlFiles THEN parse_yaml_config_text(YamlFiles[path])
    ELSE IF path \in DOMAIN Files THEN parse_config_text(Files[path]) ELSE None

----------------------------------------------------------------------------
(***************************************************************************)
(* The reverse zones of an address block (option.rs domain_rev4 and        *)
(* domain_rev6).  An address is a sequence of octets, the most significant *)
(* first; a zone is the sequence of its labels, the least significant      *)
(* first.  A family is the number of octets of an address, the bits of a   *)
(* label and the labels of an octet: 4, 8, 1 for IPv4 and 16, 4, 2 for     *)
(* IPv6.                                                                   *)
(***************************************************************************)

OctetBits(f) == f.bits * f.perOctet
Width(f) == f.octets * OctetBits(f)

\* Label j of the address, counted from the most significant one.
Label(f, octets, j) ==
    LET low == (f.perOctet - 1 - (j % f.perOctet)) * f.bits
    IN (octets[(j \div f.perOctet) + 1] \div 2^low) % 2^f.bits

\* The octet in which the block ends, with its host bits cleared.
ClearHostBits(octets, at, hostBits) == [octets EXCEPT ![at] = @ - (@ % 2^hostBits)]

\* A prefix that ends inside a label gives a zone for each value of the label's other bits.
domain_rev(f, addr, size) ==
    LET rem == size % f.bits
        host == Width(f) - size
        octets == ClearHostBits(addr, f.octets - (host \div OctetBits(f)), host % OctetBits(f))
        msize == size \div f.bits
        count == IF rem # 0 THEN 2^(f.bits - rem) ELSE 1
        start == IF rem = 0 THEN msize - 1 ELSE msize
        zone(i) == [k \in 1..(start + 1) |->
                      LET j == start + 1 - k IN Label(f, octets, j) + (IF j = msize THEN i ELSE 0)]
    IN IF size \in 1..Width(f) THEN [i \in 1..count |-> zone(i - 1)] ELSE <<>>

=============================================================================

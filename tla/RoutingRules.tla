---------------------------- MODULE RoutingRules ----------------------------
(***************************************************************************)
(* Routing: the rules buildRoutingRulesWithConfig writes for the core      *)
(* (internal/service/native/config_gen.go), the routing test of the API    *)
(* that predicts what the core does with a target (routing_test_tool.go),  *)
(* and the updates between which both have to stay together.               *)
(*                                                                         *)
(* A rule is a record of conditions, each a set of what it lets through -  *)
(* of patterns, for names and addresses - and {} where the rule has no     *)
(* such condition.  Names and addresses are a few representatives, and a   *)
(* port stands for a range.  The test does not read a pattern the way the  *)
(* core does: both readings are here.                                      *)
(***************************************************************************)
EXTENDS Naturals, Sequences, FiniteSets, SequencesExt, Picks

CONSTANTS Names,       \* representatives of domain names
          Addrs,       \* representatives of addresses
          Localhost, Loopback,  \* the ones local bypass is about
          Private,     \* addresses of the private networks, loopback included
          BuiltinCn,   \* addresses of builtinCNIPs
          CnNames,     \* names of geosite:cn
          DotCn,       \* names that end in .cn
          Codes,       \* lists of geoip.dat
          GeoFiles,    \* what geoip.dat may say: the addresses of each list
          Resolve,     \* what a lookup of a name gives; {} where it fails
          Ports,
          CustomRules, \* lists of user rules: [type, values, out]
          MaxRoutingUpdates  \* bound: updates of each kind

Protocols == {"tcp", "bittorrent"}

(* What a pattern on names says: the names the core takes it for, and the  *)
(* ones that are its text or below it.                                     *)
NamePatterns ==
  [kind : {"full", "domain", "keyword", "regexp", "word", "geosite", "geosite:cn"},
   names : SUBSET Names, under : SUBSET Names]

GeositeCn == [kind |-> "geosite:cn", names |-> CnNames, under |-> {}]

(* A pattern on addresses: networks, or a list of geoip.dat.               *)
Net(addrs) == [code |-> "net", net |-> addrs]
Listed(code) == [code |-> code, net |-> {}]

AddrPatterns == {Net(addrs) : addrs \in SUBSET Addrs} \cup {Listed(code) : code \in Codes}

(* A rule of a user: of the kinds buildRoutingRulesWithConfig knows, with   *)
(* values of that kind.  The core refuses a rule without values.           *)
UserRules ==
  LET OfKind(types, values) ==
        [type : types, values : SUBSET values, out : {"proxy", "direct", "block"}]
  IN  {rule \in OfKind({"domain", "geosite"}, NamePatterns)
                  \cup OfKind({"ip", "geoip"}, AddrPatterns)
                  \cup OfKind({"port"}, Ports) \cup OfKind({"protocol"}, Protocols) :
         rule.values # {}}

ASSUME RoutingValues ==
  /\ Names \cap Addrs = {} /\ IsFiniteSet(Ports)
  /\ Localhost \in Names /\ Loopback \in Addrs
  /\ Private \cup BuiltinCn \subseteq Addrs /\ CnNames \cup DotCn \subseteq Names
  /\ {"cn", "private"} \subseteq Codes /\ "net" \notin Codes
  /\ GeoFiles \subseteq [Codes -> SUBSET Addrs]
  /\ Resolve \in [Names -> SUBSET Addrs]
  /\ \A list \in CustomRules : list \in Seq(UserRules)
  /\ <<>> \in CustomRules
  /\ MaxRoutingUpdates \in Nat

VARIABLES routing,   \* routing.json: [mode, strategy, bypass, rules]
          force,     \* localProxyMode of the configuration is force-proxy
          geo,       \* the asset files that exist
          lists,     \* geoip.dat: what it says, or what a download is to bring
          cached,    \* geoIPMatcherCache: the lists the test has read so far
          installed, \* what the running core was given: [strategy, rules]
          coreLists, \* ... and the lists it read at its start
          running,
          pending,   \* an update is saved and its restart is still to come
          updates,   \* how many updates of each kind there were
          drifted    \* history: an asset appeared under a running core

routingVars == <<routing, force, geo, lists, cached, installed, coreLists, running,
                 pending, updates, drifted>>

Modes == {"global", "bypass_cn", "direct"}
Strategies == {"asis", "ipifnonmatch", "ipondemand"}
Assets == {"geosite", "geoip"}
RoutingConfigs ==
  [mode : Modes, strategy : Strategies, bypass : BOOLEAN, rules : CustomRules]

-----------------------------------------------------------------------------
(* The rules.                                                              *)
Always(out) ==
  [tags |-> {}, nets |-> {}, protos |-> {}, ports |-> {}, names |-> {}, addrs |-> {},
   out |-> out]

LocalBypass ==
  << [Always("direct") EXCEPT !.names = {[kind |-> "full", names |-> {Localhost},
                                          under |-> {Localhost}]}],
     [Always("direct") EXCEPT !.addrs = {Net({Loopback})}] >>

(* Without geoip.dat the networks are spelled out.                         *)
BypassCn(assets) ==
  LET Bypassed(code, addrs) ==
        [Always("direct") EXCEPT !.addrs =
           {IF "geoip" \in assets THEN Listed(code) ELSE Net(addrs)}]
  IN  << Bypassed("private", Private), Bypassed("cn", BuiltinCn) >> \o
      (IF "geosite" \in assets THEN << [Always("direct") EXCEPT !.names = {GeositeCn}] >>
                               ELSE <<>>)

(* Rules on geo data are left out while the file is missing.               *)
Usable(rule, assets) == rule.type \in Assets => rule.type \in assets

Custom(rule) ==
  LET r == Always(rule.out)
  IN  CASE rule.type \in {"domain", "geosite"} -> [r EXCEPT !.names = rule.values]
        [] rule.type \in {"ip", "geoip"} -> [r EXCEPT !.addrs = rule.values]
        [] rule.type = "port" -> [r EXCEPT !.ports = rule.values]
        [] rule.type = "protocol" -> [r EXCEPT !.protos = rule.values]

UserPart(list, assets) ==
  LET usable == Picked(list, {i \in DOMAIN list : Usable(list[i], assets)})
  IN  [i \in DOMAIN usable |-> Custom(usable[i])]

Closing(mode) ==
  IF mode = "direct" THEN << [Always("direct") EXCEPT !.nets = {"tcp", "udp"}] >> ELSE <<>>

BuildRules(rc, forced, assets) ==
  << [Always("api") EXCEPT !.tags = {"api"}] >>
  \o (IF rc.bypass THEN LocalBypass ELSE <<>>)
  \o (IF forced THEN << [Always("proxy") EXCEPT !.tags = {"http", "socks"}] >> ELSE <<>>)
  \o (IF rc.mode = "bypass_cn" THEN BypassCn(assets) ELSE <<>>)
  \o UserPart(rc.rules, assets)
  \o Closing(rc.mode)

-----------------------------------------------------------------------------
(* The core's router (external): a rule applies when all its conditions    *)
(* do; an address condition on a name looks at what it resolves to, from   *)
(* the first rule on (ipondemand), in a second pass (ipifnonmatch) or      *)
(* never (asis); the first outbound, proxy, takes what no rule takes.      *)
Queries ==
  [target : Names \cup Addrs, tag : {"", "http"}, proto : Protocols,
   port : Ports]

Among(x, cond) == cond = {} \/ x \in cond

Network(q) == "tcp"

KnownAddrs(q, resolved) ==
  IF q.target \in Addrs THEN {q.target} ELSE
  IF resolved THEN Resolve[q.target] ELSE {}

CoreName(n, p) == n \in p.names

InList(a, p, all) == IF p.code = "net" THEN a \in p.net ELSE a \in all[p.code]

CoreAddr(a, p) == InList(a, p, coreLists)

Applies(r, q, resolved) ==
  /\ Among(q.tag, r.tags)
  /\ Among(Network(q), r.nets)
  /\ Among(q.proto, r.protos)
  /\ Among(q.port, r.ports)
  /\ r.names # {} => \E p \in r.names : CoreName(q.target, p)
  /\ r.addrs # {} => \E p \in r.addrs, a \in KnownAddrs(q, resolved) : CoreAddr(a, p)

FirstOf(rules, Test(_)) ==
  LET hits == {i \in DOMAIN rules : Test(rules[i])}
  IN  IF hits = {} THEN "none" ELSE rules[Min(hits)].out

CoreRoute(core, q) ==
  LET first == FirstOf(core.rules, LAMBDA r : Applies(r, q, core.strategy = "ipondemand"))
      second == FirstOf(core.rules, LAMBDA r : Applies(r, q, TRUE))
  IN  IF first # "none" THEN first ELSE
      IF core.strategy = "ipifnonmatch" /\ second # "none" THEN second ELSE "proxy"

-----------------------------------------------------------------------------
(* The test.  Network, protocol and port of a rule are compared with one   *)
(* text each, a list of protocols apart: a joined list of ports or of      *)
(* networks matches nothing.  An empty inbound matches no inbound rule.    *)
OneText(x, cond) == cond = {} \/ cond = {x}

Conditions(r, q) ==
  /\ Among(q.tag, r.tags)
  /\ OneText(q.proto, r.nets)
  /\ Among(q.proto, r.protos)
  /\ OneText(q.port, r.ports)

(* ruleMatchesDomain: no regular expressions, of geosite.dat only cn, by   *)
(* its suffix, and a bare word as a suffix, where the core looks for it    *)
(* anywhere in the name.                                                   *)
TestName(n, p) ==
  \/ p.kind \in {"full", "domain", "keyword"} /\ n \in p.names
  \/ p.kind = "word" /\ n \in p.under
  \/ p.kind = "geosite:cn" /\ n \in DotCn

(* ruleMatchesIP: a list of geoip.dat as it was when it was first needed,  *)
(* none while there is no file, and what is built in besides.              *)
TestLists ==
  [c \in Codes |->
     (IF c \in DOMAIN cached THEN cached[c] ELSE IF "geoip" \in geo THEN lists[c] ELSE {})
       \cup [cn |-> BuiltinCn, private |-> Private, other |-> {}]
              [IF c \in {"cn", "private"} THEN c ELSE "other"]]

TestAddr(a, p) == InList(a, p, TestLists)

RuleMatchesDomain(r, q) == r.names # {} => \E p \in r.names : TestName(q.target, p)

RuleMatchesIP(r, addrs) == \E p \in r.addrs, a \in addrs : TestAddr(a, p)

(* matchRoutingRule: whether the rule decides at once ...                  *)
MatchRoutingRule(r, q, strategy) ==
  /\ Conditions(r, q)
  /\ IF q.target \in Addrs
     THEN r.names = {} /\ (r.addrs # {} => RuleMatchesIP(r, {q.target}))
     ELSE /\ RuleMatchesDomain(r, q)
          /\ r.addrs # {} => strategy = "ipondemand" /\ RuleMatchesIP(r, Resolve[q.target])

(* A deferral that does not look at the strategy ...                       *)
DeferredAlways(r, q, strategy) ==
  Conditions(r, q) /\ q.target \in Names /\ r.addrs # {}

(* ... or is put off until the addresses of the name are known.            *)
Deferred(r, q, strategy) ==
  /\ Conditions(r, q)
  /\ q.target \in Names /\ r.addrs # {} /\ strategy = "ipifnonmatch"

MatchResolved(r, q) == r.names = {} /\ RuleMatchesIP(r, Resolve[q.target])

TestRouting(rc, rules, q) ==
  LET first == FirstOf(rules, LAMBDA r : MatchRoutingRule(r, q, rc.strategy))
      later == FirstOf(rules, LAMBDA r : Deferred(r, q, rc.strategy) /\ MatchResolved(r, q))
  IN  IF first # "none" THEN first ELSE
      IF later # "none" THEN later ELSE
      IF rc.mode = "direct" THEN "direct" ELSE "proxy"

-----------------------------------------------------------------------------
RoutingTypeOK ==
  /\ routing \in RoutingConfigs
  /\ force \in BOOLEAN /\ running \in BOOLEAN /\ pending \in BOOLEAN /\ drifted \in BOOLEAN
  /\ geo \subseteq Assets /\ {lists, coreLists} \subseteq GeoFiles
  /\ DOMAIN cached \subseteq Codes /\ \A c \in DOMAIN cached : cached[c] \subseteq Addrs
  /\ installed.strategy \in Strategies
  /\ updates \in [{"routing", "config", "geo"} -> 0 .. MaxRoutingUpdates]

Built(assets) ==
  [strategy |-> routing.strategy, rules |-> BuildRules(routing, force, assets)]

(* DefaultRoutingConfig, on a host that may have brought its own assets.   *)
RoutingInit ==
  /\ routing = [mode |-> "bypass_cn", strategy |-> "ipifnonmatch", bypass |-> TRUE,
                rules |-> <<>>]
  /\ force = FALSE
  /\ geo \in SUBSET Assets
  /\ lists \in GeoFiles
  /\ cached = [c \in {} |-> {}]
  /\ installed = Built(geo)
  /\ coreLists = lists
  /\ running = FALSE
  /\ pending = FALSE
  /\ updates = [k \in {"routing", "config", "geo"} |-> 0]
  /\ drifted = FALSE

Counts(kind) ==
  /\ updates[kind] < MaxRoutingUpdates
  /\ updates' = [updates EXCEPT ![kind] = @ + 1]

Required(rc) ==
  IF rc.mode = "bypass_cn" THEN Assets
  ELSE Assets \cap {rc.rules[i].type : i \in DOMAIN rc.rules}

(* ensureGeoSiteData, for a configuration that needs what is missing:      *)
(* geosite.dat, then geoip.dat; the first failure ends it, and what was    *)
(* written stays.                                                          *)
Ensured(rc) ==
  IF Required(rc) \subseteq geo THEN {geo} ELSE {geo, geo \cup {"geosite"}, Assets}

(* UpdateRoutingConfig: assets first, then the file, then the restart; a   *)
(* save that fails is logged and the restart goes on.                      *)
UpdateRoutingConfig(rc) ==
  /\ Counts("routing")
  /\ ~pending
  /\ geo' \in Ensured(rc)
  /\ drifted' = (drifted \/ (running /\ geo' # geo))
  /\ routing' \in {rc, routing}
  /\ pending' = running
  /\ UNCHANGED <<force, lists, cached, installed, coreLists, running>>

(* UpdateConfig of localProxyMode.                                         *)
UpdateLocalProxyMode(forced) ==
  /\ Counts("config")
  /\ ~pending
  /\ force' = forced
  /\ pending' = running
  /\ UNCHANGED <<routing, geo, lists, cached, installed, coreLists, running, drifted>>

(* UpdateRoutingGeoData: both files anew; no restart follows, and the      *)
(* lists the test has read are kept.                                       *)
UpdateRoutingGeoData ==
  /\ Counts("geo")
  /\ \/ geo' \in {geo, geo \cup {"geosite"}} /\ UNCHANGED lists
     \/ geo' = Assets /\ lists' \in GeoFiles
  /\ drifted' = (drifted \/ (running /\ geo' # geo))
  /\ UNCHANGED <<routing, force, cached, installed, coreLists, running, pending>>

(* A test of some target gets to a rule on a list of geoip.dat.            *)
LoadGeoIPMatcher(c) ==
  /\ "geoip" \in geo /\ c \notin DOMAIN cached
  /\ LET rules == BuildRules(routing, force, geo)
     IN  \E i \in DOMAIN rules : \E p \in rules[i].addrs : p.code = c
  /\ cached' = [d \in DOMAIN cached \cup {c} |-> IF d = c THEN lists[c] ELSE cached[d]]
  /\ UNCHANGED <<routing, force, geo, lists, installed, coreLists, running, pending,
                 updates, drifted>>

(* startCore: the assets, then the configuration of the core.              *)
StartCore ==
  /\ ~running \/ pending
  /\ geo' \in Ensured(routing)
  /\ running' = TRUE
  /\ installed' = Built(geo')
  /\ coreLists' = lists
  /\ pending' = FALSE
  /\ drifted' = FALSE
  /\ UNCHANGED <<routing, force, lists, cached, updates>>

StopCore ==
  /\ running
  /\ running' = FALSE
  /\ pending' = FALSE
  /\ drifted' = FALSE
  /\ UNCHANGED <<routing, force, geo, lists, cached, installed, coreLists, updates>>

RoutingNext ==
  \/ \E rc \in RoutingConfigs : UpdateRoutingConfig(rc)
  \/ \E forced \in BOOLEAN : UpdateLocalProxyMode(forced)
  \/ UpdateRoutingGeoData
  \/ \E c \in Codes : LoadGeoIPMatcher(c)
  \/ StartCore
  \/ StopCore

RoutingSpec == RoutingInit /\ [][RoutingNext]_routingVars

-----------------------------------------------------------------------------
(* Nothing a rule says of the target, of what it resolves to or of the     *)
(* port is read in two ways.                                               *)
ReadAlike(r, q) ==
  /\ \A p \in r.names : CoreName(q.target, p) <=> TestName(q.target, p)
  /\ \A p \in r.addrs, a \in KnownAddrs(q, TRUE) : CoreAddr(a, p) <=> TestAddr(a, p)
  /\ q.port \in r.ports => Cardinality(r.ports) = 1

DirectBeforeAddrs(q) ==
  /\ routing.mode = "direct" /\ routing.strategy = "ipifnonmatch"
  /\ q.target \in Names

(* The test predicts the core: it names the outbound the running core uses *)
(* for the target, inbound, protocol and port, whichever rules the order,  *)
(* the strategy and the resolution of names let decide and whatever        *)
(* updates came before - unless                                            *)
(*   - a restart is still to come, or an asset appeared under the core;    *)
(*   - the mode is direct and an address rule could take the name: the     *)
(*     core's closing rule is first, the test looks at the addresses first *)
(*     (routing_test_tool.go:83-104);                                      *)
(*   - a rule says of this target or port what the two read differently.   *)
(*     It can be a regular expression, a list of geosite.dat or a bare     *)
(*     word (routing_test_tool.go:450-457), geoip:cn on an address that is *)
(*     built in and not in the file (476-479), a list the test has read    *)
(*     from an older file (511), or one port of several (396).             *)
TesterAgrees ==
  running /\ ~pending /\ ~drifted =>
    LET rules == BuildRules(routing, force, geo)
    IN  \A q \in Queries :
          ~DirectBeforeAddrs(q) /\ (\A i \in DOMAIN rules : ReadAlike(rules[i], q)) =>
            TestRouting(routing, rules, q) = CoreRoute(installed, q)
=============================================================================

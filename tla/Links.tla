------------------------------- MODULE Links -------------------------------
(***************************************************************************)
(* From a share link to the outbound of the core: the parsers of           *)
(* sub_parse.go, the form of the console that edits what they stored, and  *)
(* buildOutbound and buildStreamSettings of config_gen.go.                 *)
(*                                                                         *)
(* Each of the three has its own list of fields per protocol.  Kept here   *)
(* are those that decide how the server is authenticated and reached:      *)
(* security, server name, verification, network and path.  A name is       *)
(* "none", "named" or "address"; a path is the field that holds it.        *)
(* Links that do not parse store nothing.                                  *)
(***************************************************************************)
EXTENDS Naturals

CONSTANT MaxFormSaves \* bound: saves of the form after an import

ASSUME FormSavesBound == MaxFormSaves \in Nat

VARIABLES server,  \* the profile: protocol, its own TLS fields, its transport
          skipAll, \* skipCertVerify of the config
          saves,
          \* history
          wanted   \* what the link, and the user since, have asked for

linkVars == <<server, skipAll, saves, wanted>>

Streamed == {"vmess", "vless", "trojan"}   \* protocols with a transport
Quic == {"hysteria2", "tuic"}              \* protocols with TLS of their own
Networks == {"tcp", "ws", "grpc", "h2", "xhttp", "splithttp"}
Security == {"none", "tls", "reality"}

ShareLinks ==
  [proto : Streamed, net : Networks, sec : Security, sni : {"none", "named"},
   insecure : BOOLEAN, key : BOOLEAN]
  \cup
  [proto : Quic \cup {"shadowsocks"}, net : {"tcp"}, sec : {"none"},
   sni : {"none", "named"}, insecure : BOOLEAN, key : {FALSE}]

NoTransport == [net |-> "tcp", tls |-> FALSE, sni |-> "none", skip |-> FALSE,
                key |-> FALSE, path |-> "none"]

(* Which field of the transport a network takes its path from.             *)
PathField(net) ==
  CASE net \in {"ws", "xhttp", "splithttp"} -> "ws"
    [] net \in {"grpc", "h2"} -> net
    [] OTHER -> "none"

(* The networks whose path the parser of a protocol reads.                 *)
PathRead(proto) ==
  CASE proto = "vmess" -> {"ws", "grpc", "h2"}
    [] proto = "vless" -> {"ws", "grpc", "xhttp", "splithttp"}
    [] OTHER -> {"ws", "grpc"}

ParsedPath(l) == IF l.net \in PathRead(l.proto) THEN PathField(l.net) ELSE "none"

-----------------------------------------------------------------------------
ParseVMess(l) ==
  [net |-> l.net, tls |-> l.sec = "tls",
   sni |-> IF l.sec = "tls" THEN l.sni ELSE "none",
   skip |-> FALSE, key |-> FALSE, path |-> ParsedPath(l)]

(* A link with security=reality and no key is served as plain TLS.         *)
ParseVLESS(l) ==
  [net |-> IF l.net = "splithttp" THEN "xhttp" ELSE l.net,
   tls |-> l.sec # "none",
   sni |-> IF l.sec # "none" THEN l.sni ELSE "none",
   skip |-> FALSE, key |-> l.sec = "reality" /\ l.key, path |-> ParsedPath(l)]

ParseTrojan(l) ==
  [net |-> l.net, tls |-> TRUE,
   sni |-> IF l.sni = "none" THEN "address" ELSE l.sni,
   skip |-> l.insecure, key |-> FALSE, path |-> ParsedPath(l)]

(* hysteria2, hy2 and tuic links say it in fields of their own.            *)
ParseHysteria2(l) == [sni |-> l.sni, insecure |-> l.insecure]

ParseProfile(l) ==
  [proto |-> l.proto,
   own |-> IF l.proto \in Quic THEN ParseHysteria2(l)
           ELSE [sni |-> "none", insecure |-> FALSE],
   transport |-> CASE l.proto = "vmess" -> ParseVMess(l)
                   [] l.proto = "vless" -> ParseVLESS(l)
                   [] l.proto = "trojan" -> ParseTrojan(l)
                   [] OTHER -> NoTransport]

-----------------------------------------------------------------------------
(* The core checks the address when no server name is given.               *)
ServerName(sni) == IF sni = "none" THEN "address" ELSE sni

BuildStreamSettings(t, skipCertVerify) ==
  [security |-> IF t.key THEN "reality" ELSE IF t.tls THEN "tls" ELSE "none",
   name |-> ServerName(t.sni),
   insecure |-> skipCertVerify \/ t.skip,
   path |-> t.path = PathField(t.net)]

(* hysteria2 and tuic do not look at skipCertVerify, nor at the transport; *)
(* shadowsocks has neither.                                                *)
BuildOutbound(p, skipCertVerify) ==
  IF p.proto \in Streamed THEN BuildStreamSettings(p.transport, skipCertVerify) ELSE
  [security |-> IF p.proto \in Quic THEN "tls" ELSE "none",
   name |-> ServerName(p.own.sni),
   insecure |-> p.own.insecure,
   path |-> TRUE]

-----------------------------------------------------------------------------
(* What a link asks for, whatever its protocol calls it: vmess and vless   *)
(* links have no field that turns the verification off.                    *)
AsksTLS(l) == l.proto \in Quic \cup {"trojan"}

AskedSecurity(l) ==
  IF AsksTLS(l) THEN "tls"
  ELSE IF l.proto = "vless" /\ l.sec # "none"
  THEN IF l.sec = "reality" /\ l.key THEN "reality" ELSE "tls"
  ELSE IF l.sec = "tls" THEN "tls" ELSE "none"

Asks(l) ==
  [security |-> AskedSecurity(l),
   name |-> ServerName(IF AskedSecurity(l) = "none" THEN "none" ELSE l.sni),
   insecure |-> l.insecure /\ AsksTLS(l),
   path |-> l.proto \in Streamed => l.net \in PathRead(l.proto) \cup {"tcp"}]

Unlinked == [proto |-> "shadowsocks", net |-> "tcp", sec |-> "none", sni |-> "none",
             insecure |-> FALSE, key |-> FALSE]

LinksInit ==
  /\ server = ParseProfile(Unlinked)
  /\ wanted = Asks(Unlinked)
  /\ skipAll = FALSE
  /\ saves = MaxFormSaves

ImportLink(l) ==
  /\ server' = ParseProfile(l)
  /\ wanted' = Asks(l)
  /\ saves' = 0
  /\ UNCHANGED skipAll

(* syncProfileEditorFromSelection: what the form shows.                    *)
FormOf(p) ==
  [net |-> p.transport.net, tls |-> p.transport.tls, skip |-> p.transport.skip,
   sni |-> p.transport.sni, key |-> p.transport.key, path |-> p.transport.path,
   ownSni |-> p.own.sni, ownInsecure |-> p.own.insecure]

Written(p, f, key) ==
  [p EXCEPT !.transport = [net |-> f.net, tls |-> f.tls, sni |-> f.sni,
                           skip |-> f.skip, key |-> key, path |-> f.path],
            !.own = IF p.proto \in Quic
                    THEN [sni |-> f.ownSni, insecure |-> f.ownInsecure] ELSE @]

(* A save that forgets the key of reality, and the one of the code.        *)
SavedWithoutKey(p, f) == Written(p, f, FALSE)

Saved(p, f) == Written(p, f, f.key)

(* The networks the form accepts do not include splithttp.                 *)
FormSaves ==
  /\ saves < MaxFormSaves /\ saves' = saves + 1
  /\ server.transport.net # "splithttp"
  /\ UNCHANGED skipAll

(* The user saves the form as it is, or with one of its fields changed.    *)
SaveUnchanged ==
  /\ FormSaves
  /\ server' = Saved(server, FormOf(server))
  /\ UNCHANGED wanted

SaveTLS(on) ==
  /\ FormSaves
  /\ server' = Saved(server, [FormOf(server) EXCEPT !.tls = on])
  /\ wanted' = IF server.proto \notin Streamed \/ wanted.security = "reality" THEN wanted
               ELSE [wanted EXCEPT !.security = IF on THEN "tls" ELSE "none"]

SaveSkipCert(on) ==
  /\ FormSaves
  /\ server' = Saved(server, [FormOf(server) EXCEPT !.skip = on])
  /\ wanted' = IF server.proto \in Streamed THEN [wanted EXCEPT !.insecure = on] ELSE wanted

SaveInsecure(on) ==
  /\ FormSaves
  /\ server' = Saved(server, [FormOf(server) EXCEPT !.ownInsecure = on])
  /\ wanted' = IF server.proto \in Quic THEN [wanted EXCEPT !.insecure = on] ELSE wanted

SetSkipCertVerify ==
  /\ skipAll' = ~skipAll
  /\ UNCHANGED <<server, saves, wanted>>

LinksNext ==
  \/ \E l \in ShareLinks : ImportLink(l)
  \/ SaveUnchanged
  \/ \E on \in BOOLEAN : SaveTLS(on) \/ SaveSkipCert(on) \/ SaveInsecure(on)
  \/ SetSkipCertVerify

LinksSpec == LinksInit /\ [][LinksNext]_linkVars

LinksTypeOK ==
  /\ server \in [proto : Streamed \cup Quic \cup {"shadowsocks"},
                 own : [sni : {"none", "named"}, insecure : BOOLEAN],
                 transport : [net : Networks, tls : BOOLEAN, skip : BOOLEAN,
                              sni : {"none", "named", "address"}, key : BOOLEAN,
                              path : {"none", "ws", "grpc", "h2"}]]
  /\ skipAll \in BOOLEAN
  /\ saves \in 0 .. MaxFormSaves

(* Whenever the core is started, it authenticates the server the way the   *)
(* link and the user's later edits ask: neither a protocol's own spelling  *)
(* of a field, nor a save of the form, nor the generator loses the         *)
(* security or the server name, and verification is off exactly when the   *)
(* link or the form said so - or the setting for all, which only turns it  *)
(* off (config_gen.go:480).  A path that was read arrives as well.         *)
LinkIsHonoured ==
  LET out == BuildOutbound(server, skipAll)
  IN  /\ out.security = wanted.security
      /\ out.security # "none" => out.name = wanted.name
      /\ wanted.insecure => out.insecure
      /\ out.insecure => wanted.insecure \/ skipAll
      /\ wanted.path => out.path
=============================================================================

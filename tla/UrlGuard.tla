------------------------------- MODULE UrlGuard -------------------------------
(***************************************************************************)
(* Which URLs the MCP client may contact (core/mcp/url_guard.py).  The     *)
(* module has no state: client.py asks before it opens a session, and the  *)
(* transport of its HTTP client asks again at every redirect.              *)
(*                                                                         *)
(* A host is a sequence of characters, in lower case, because the          *)
(* allowlist compares text.  Of the rest of a URL, and of an address, only *)
(* what the checks ask is kept.                                            *)
(***************************************************************************)
EXTENDS Naturals, SequencesExt

Dot == "."
Schemes == {"http", "https", "other"}
Ports == {"none", "valid", "out of range"}

(* The properties of ipaddress.ip_address that are read; v4 is what an     *)
(* IPv4-mapped IPv6 address stands for, <<>> in any other.                 *)
Flags == {"loopback", "link_local", "multicast", "reserved", "unspecified"}
V4Addresses == [flags : SUBSET Flags, v4 : {<<>>}]

(* normalize_endpoint_url *)
WellFormed(url) ==
    /\ ~url.malformed
    /\ url.scheme \in {"http", "https"}
    /\ url.host # <<>>

(* host.rstrip(".") *)
WithoutFinalDots(host) ==
    LET mayEnd == {n \in 0 .. Len(host) : \A i \in n + 1 .. Len(host) : host[i] = Dot}
    IN  SubSeq(host, 1, CHOOSE n \in mayEnd : \A m \in mayEnd : n <= m)

(* _host_matches *)
HostMatches(host, patterns) ==
    LET h == WithoutFinalDots(host)
    IN  \E p \in patterns : IF Head(p) = Dot THEN IsSuffix(p, h) ELSE p = h

(* check_url_without_dns; without an allowlist every host will do. *)
PassesWithoutDns(url, patterns) ==
    WellFormed(url) /\ (patterns = {} \/ HostMatches(url.host, patterns))

(* _is_blocked_address *)
IsBlockedAddress(ip) ==
    LET judged == IF ip.v4 = <<>> THEN ip.flags ELSE Head(ip.v4).flags
    IN  "loopback" \notin judged /\ judged # {}

(* _resolve_all: addresses is the answer of DNS, {} if it has none. *)
Resolves(addresses) == addresses # {}

(* assert_url_allowed; DNS is asked last. *)
AsksDns(url, patterns) == PassesWithoutDns(url, patterns) /\ url.port # "out of range"

UrlAllowed(url, patterns, addresses) ==
    /\ AsksDns(url, patterns)
    /\ Resolves(addresses)
    /\ \A ip \in addresses : ~IsBlockedAddress(ip)

(* handle_async_request of guarded_transport: the hops of a redirect chain *)
(* that a request is sent to, when allowed says what the guard says of     *)
(* each.                                                                   *)
Contacted(allowed) ==
    {i \in DOMAIN allowed : \A j \in 1 .. i : allowed[j]}
=============================================================================

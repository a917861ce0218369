------------------------------ MODULE MCUrlGuard ------------------------------
(***************************************************************************)
(* UrlGuard against definitions of what it should do, over bounded inputs. *)
(* TLC evaluates the assumptions in every run that extends this module.    *)
(***************************************************************************)
EXTENDS UrlGuard

Letters == {"a", "b", Dot}
TextUpTo(n) == UNION {[1 .. k -> Letters] : k \in 1 .. n}

(* The labels of a name: what is between the dots. *)
Labels(name) ==
    LET dots == SetToSortSeq({0, Len(name) + 1} \cup {i \in DOMAIN name : name[i] = Dot}, <)
    IN  [k \in 1 .. Len(dots) - 1 |-> SubSeq(name, dots[k] + 1, dots[k + 1] - 1)]

(* What the allowlist promises, in terms of DNS: ".d" admits the names     *)
(* with at least one label below d, "d" admits d alone.                    *)
Below(name, d) == Len(Labels(name)) > Len(Labels(d)) /\ IsSuffix(Labels(d), Labels(name))
Admits(pattern, name) ==
    IF Head(pattern) = Dot THEN Below(name, Tail(pattern)) ELSE Labels(pattern) = Labels(name)

(* A host matches a pattern label by label (url_guard.py:98-103): no name  *)
(* that only ends in the same letters passes, a final dot makes no         *)
(* difference, and a domain is not below itself.                           *)
ASSUME HostsMatchByLabels ==
    \A host \in TextUpTo(5), pattern \in TextUpTo(3) :
      HostMatches(host, {pattern}) <=> Admits(pattern, WithoutFinalDots(host))

(* What ipaddress says of some addresses; ::1 is reserved too, and so is   *)
(* every mapped address itself.                                            *)
V4(flags) == [flags |-> flags, v4 |-> <<>>]
V6(flags) == V4(flags)
Mapped(ip) == [flags |-> {"reserved"}, v4 |-> <<ip>>]

HasServers == {V4({}), V4({"loopback"}), V6({}), V6({"loopback", "reserved"})}
HasNone == {V4({"link_local"}), V4({"multicast"}), V4({"reserved"}), V4({"unspecified"}),
            V6({"link_local"}), V6({"multicast"}), V6({"unspecified", "reserved"})}
MappedAlike(S) == S \cup {Mapped(ip) : ip \in S \cap V4Addresses}

(* Only addresses where no server can run are refused, one that can run on *)
(* this host or nearby is not, and writing a v4 address as v6 changes      *)
(* nothing (url_guard.py:114-127).                                         *)
ASSUME ServersRunThere ==
    /\ \A ip \in MappedAlike(HasServers) : ~IsBlockedAddress(ip)
    /\ \A ip \in MappedAlike(HasNone) : IsBlockedAddress(ip)

Urls == [malformed : {FALSE}, scheme : {"https"}, host : {<<"a">>, <<"b">>}, port : Ports]

(* A name is refused for any of its addresses, and for having none         *)
(* (url_guard.py:144-151, 184-194): more answers of DNS allow no more.     *)
ASSUME EveryAddressCounts ==
    \A url \in Urls, patterns \in SUBSET {<<"a">>}, S \in SUBSET (HasServers \cup HasNone) :
      UrlAllowed(url, patterns, S) <=>
        /\ S # {} /\ S \subseteq HasServers
        /\ url.port # "out of range"
        /\ patterns = {} \/ url.host = <<"a">>

(* A request follows redirects as far as the hop before the first that is  *)
(* refused (url_guard.py:217-219).                                         *)
ASSUME RedirectsAreChecked ==
    \A n \in 1 .. 4 : \A allowed \in [1 .. n -> BOOLEAN] : \E k \in 0 .. n :
      /\ Contacted(allowed) = 1 .. k
      /\ \A i \in 1 .. k : allowed[i]
      /\ k < n => ~allowed[k + 1]
=============================================================================

--------------------------- MODULE IntrospectCache ---------------------------
(***************************************************************************)
(* The introspection cache of SiteAuthClient (core/site_auth.py).          *)
(*                                                                         *)
(* introspect takes the time, looks the token up, and on a miss asks Site  *)
(* Auth over HTTP; the answer is stored with an expiry counted from the    *)
(* time taken before the call.  Nothing else runs between two awaits, but  *)
(* calls for one token overlap across the await, so an older answer may be *)
(* stored over a newer one.                                                *)
(*                                                                         *)
(* What Site Auth would say of a token (active or not, its role and teams) *)
(* is a version: number 1 first, one more at each login, logout or change  *)
(* of teams.  superseded[t][v] is the time version v stopped being true.   *)
(***************************************************************************)
EXTENDS Naturals, Sequences

CONSTANTS
    Tokens,
    Calls,          \* introspections that may be open at once
    CacheSec,       \* site_auth_introspect_cache_sec
    MaxTime,        \* bound: the last tick
    MaxVersions,    \* bound: versions of a token's session
    None

ASSUME CacheAssumption ==
    /\ CacheSec \in Nat \ {0}
    /\ MaxTime \in Nat /\ MaxVersions \in Nat
    /\ None \notin Tokens
    /\ None \notin [version : Nat, expires : Nat]

VARIABLES
    now,            \* time.monotonic()
    superseded,     \* Site Auth: when each version but the last ended
    cache,          \* _introspect
    call            \* each caller's introspect

introspectVars == <<now, superseded, cache, call>>

Entries == [version : Nat, expires : Nat]
CallStates == [stage : {"idle", "asking", "answered", "served"},
               token : Tokens \cup {None}, at : Nat, version : Nat]
NoCall == [stage |-> "idle", token |-> None, at |-> 0, version |-> 0]

TypeOK ==
    /\ now \in Nat
    /\ superseded \in [Tokens -> Seq(Nat)]
    /\ cache \in [Tokens -> Entries \cup {None}]
    /\ call \in [Calls -> CallStates]

Init ==
    /\ now = 0
    /\ superseded = [t \in Tokens |-> <<>>]
    /\ cache = [t \in Tokens |-> None]
    /\ call = [r \in Calls |-> NoCall]

Current(t) == Len(superseded[t]) + 1

Tick ==
    /\ now < MaxTime
    /\ now' = now + 1
    /\ UNCHANGED <<superseded, cache, call>>

(* Login, logout, a team joined or left: Site Auth's business alone. *)
SessionChanges(t) ==
    /\ Current(t) < MaxVersions
    /\ superseded' = [superseded EXCEPT ![t] = Append(@, now)]
    /\ UNCHANGED <<now, cache, call>>

(* Mutant: an entry is good until the end of its last second. *)
FreshInclusive(t) == cache[t] # None /\ cache[t].expires >= now

Fresh(t) == cache[t] # None /\ cache[t].expires > now

Serve(r, t, at, version) ==
    call' = [call EXCEPT ![r] = [stage |-> "served", token |-> t, at |-> at,
                                 version |-> version]]

Hit(r) ==
    /\ call[r].stage = "idle"
    /\ \E t \in Tokens : Fresh(t) /\ Serve(r, t, now, cache[t].version)
    /\ UNCHANGED <<now, superseded, cache>>

Ask(r) ==
    /\ call[r].stage = "idle"
    /\ \E t \in Tokens :
         /\ ~Fresh(t)
         /\ call' = [call EXCEPT ![r] = [stage |-> "asking", token |-> t, at |-> now,
                                         version |-> 0]]
    /\ UNCHANGED <<now, superseded, cache>>

(* Site Auth answers; the answer is on its way. *)
Answer(r) ==
    /\ call[r].stage = "asking"
    /\ call' = [call EXCEPT ![r].stage = "answered", ![r].version = Current(call[r].token)]
    /\ UNCHANGED <<now, superseded, cache>>

(* Timeout, refused connection or an HTTP error: the caller gets the       *)
(* exception and nothing is stored.                                        *)
AskFails(r) ==
    /\ call[r].stage \in {"asking", "answered"}
    /\ call' = [call EXCEPT ![r] = NoCall]
    /\ UNCHANGED <<now, superseded, cache>>

(* Mutants: the expiry counts from the answer, not from the question; an   *)
(* entry that does not expire.                                             *)
ExpiresFromAnswer(at) == now + CacheSec
ExpiresNever(at) == None

Expires(at) == at + CacheSec

Store(r) ==
    /\ call[r].stage = "answered"
    /\ cache' = [cache EXCEPT ![call[r].token] =
                   [version |-> call[r].version, expires |-> Expires(call[r].at)]]
    /\ Serve(r, call[r].token, call[r].at, call[r].version)
    /\ UNCHANGED <<now, superseded>>

(* The request goes on with the session it was given. *)
Leave(r) ==
    /\ call[r].stage = "served"
    /\ call' = [call EXCEPT ![r] = NoCall]
    /\ UNCHANGED <<now, superseded, cache>>

Next ==
    \/ Tick
    \/ \E t \in Tokens : SessionChanges(t)
    \/ \E r \in Calls : Hit(r) \/ Ask(r) \/ Answer(r) \/ AskFails(r) \/ Store(r) \/ Leave(r)

Spec == Init /\ [][Next]_introspectVars

-----------------------------------------------------------------------------
(* Version v of t was still true at some time after `since`. *)
TrueAfter(t, v, since) ==
    v = Current(t) \/ (v \in DOMAIN superseded[t] /\ superseded[t][v] + CacheSec > since)

(* A logout or a change of teams shows after CacheSec at the latest (the   *)
(* trade-off of settings.py:40), however long the call to Site Auth took   *)
(* and in whatever order overlapping calls stored their answers: whoever   *)
(* asks is served what was true less than CacheSec before.                 *)
LogoutShowsInTime ==
    \A r \in Calls :
      call[r].stage = "served" => TrueAfter(call[r].token, call[r].version, call[r].at)
=============================================================================

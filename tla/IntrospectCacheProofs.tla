------------------------ MODULE IntrospectCacheProofs ------------------------
(***************************************************************************)
(* LogoutShowsInTime for every number of tokens and calls and every        *)
(* CacheSec.  The invariant follows one answer: what an answered call      *)
(* carries was true at or after its question; what is stored was true at   *)
(* or after the moment its expiry counts from; so what a hit serves was    *)
(* true less than CacheSec before the hit.                                 *)
(***************************************************************************)
EXTENDS IntrospectCache, TLAPS

USE CacheAssumption

(* Version v of t was still true at time `at`, or became true later. *)
TrueSince(t, v, at) ==
    v = Current(t) \/ (v \in DOMAIN superseded[t] /\ superseded[t][v] >= at)

CacheInv ==
    \A t \in Tokens : cache[t] # None =>
      \E at \in Nat :
        at <= now /\ cache[t].expires = at + CacheSec /\ TrueSince(t, cache[t].version, at)

CallInv(r) ==
    /\ call[r].stage # "idle" => call[r].token \in Tokens
    /\ call[r].at <= now
    /\ call[r].stage = "answered" => TrueSince(call[r].token, call[r].version, call[r].at)
    /\ call[r].stage = "served" => TrueAfter(call[r].token, call[r].version, call[r].at)

Inv == TypeOK /\ CacheInv /\ \A r \in Calls : CallInv(r)

(* A call whose own state and whose token's past are untouched keeps its part. *)
LEMMA CallKept ==
    ASSUME NEW r \in Calls, CallInv(r),
           call'[r] = call[r], superseded' = superseded, TypeOK, now' \in {now, now + 1}
    PROVE  CallInv(r)'
BY DEF CallInv, TrueSince, TrueAfter, Current, TypeOK, CallStates

LEMMA CacheKept ==
    ASSUME CacheInv, cache' = cache, superseded' = superseded, now \in Nat, now' \in {now, now + 1}
    PROVE  CacheInv'
BY DEF CacheInv, TrueSince, Current

(* A new version ends the one before it now; what was true stays on record. *)
LEMMA PastGrows ==
    ASSUME NEW t \in Tokens, NEW u \in Tokens, NEW v \in Nat, NEW at \in Nat,
           TypeOK, superseded' = [superseded EXCEPT ![t] = Append(@, now)]
    PROVE  /\ TrueSince(u, v, at) /\ at <= now => TrueSince(u, v, at)'
           /\ TrueAfter(u, v, at) /\ at <= now => TrueAfter(u, v, at)'
<1>1. superseded[t] \in Seq(Nat) /\ superseded[u] \in Seq(Nat) /\ now \in Nat
  BY DEF TypeOK
<1>2. superseded'[t] = Append(superseded[t], now) /\ (u # t => superseded'[u] = superseded[u])
  BY DEF TypeOK
<1>3. CASE u # t
  BY <1>2, <1>3 DEF TrueSince, TrueAfter, Current
<1>4. CASE u = t
  <2>1. Len(superseded'[u]) = Len(superseded[u]) + 1
    BY <1>1, <1>2, <1>4
  <2>2. superseded'[u][Len(superseded[u]) + 1] = now
    BY <1>1, <1>2, <1>4
  <2>3. \A i \in DOMAIN superseded[u] :
           i \in DOMAIN superseded'[u] /\ superseded'[u][i] = superseded[u][i]
    BY <1>1, <1>2, <1>4
  <2>4. Len(superseded[u]) + 1 \in DOMAIN superseded'[u]
    BY <1>1, <1>2, <1>4
  <2> QED
    BY <1>1, <2>2, <2>3, <2>4 DEF TrueSince, TrueAfter, Current
<1> QED
  BY <1>3, <1>4

LEMMA InitInv == Init => Inv
BY DEF Init, Inv, TypeOK, CacheInv, CallInv, CallStates, NoCall

LEMMA NextInv == Inv /\ [Next]_introspectVars => Inv'
<1> SUFFICES ASSUME Inv, [Next]_introspectVars PROVE Inv'
  OBVIOUS
<1>0. TypeOK /\ CacheInv /\ (\A r \in Calls : CallInv(r)) /\ now \in Nat
  BY DEF Inv, TypeOK
<1>1. CASE Tick
  <2>1. TypeOK'
    BY <1>0, <1>1 DEF Tick, TypeOK
  <2>2. CacheInv'
    BY <1>0, <1>1, CacheKept DEF Tick
  <2>3. \A r \in Calls : CallInv(r)'
    BY <1>0, <1>1, CallKept DEF Tick
  <2> QED
    BY <2>1, <2>2, <2>3 DEF Inv
<1>2. ASSUME NEW t \in Tokens, SessionChanges(t) PROVE Inv'
  <2>1. TypeOK'
    BY <1>0, <1>2 DEF SessionChanges, TypeOK
  <2>2. superseded' = [superseded EXCEPT ![t] = Append(@, now)]
    BY <1>2 DEF SessionChanges
  <2>3. CacheInv'
    <3> SUFFICES ASSUME NEW u \in Tokens, cache[u] # None
                 PROVE  \E at \in Nat : /\ at <= now
                                       /\ cache[u].expires = at + CacheSec
                                       /\ TrueSince(u, cache[u].version, at)'
      BY <1>2 DEF CacheInv, SessionChanges
    <3>1. PICK at \in Nat : /\ at <= now
                            /\ cache[u].expires = at + CacheSec
                            /\ TrueSince(u, cache[u].version, at)
      BY <1>0 DEF CacheInv
    <3>2. cache[u].version \in Nat
      BY <1>0 DEF TypeOK, Entries
    <3>3. TrueSince(u, cache[u].version, at)'
      <4>1. \A v \in Nat : TrueSince(u, v, at) /\ at <= now => TrueSince(u, v, at)'
        BY <1>0, <2>2, PastGrows
      <4>2. cache' = cache
        BY <1>2 DEF SessionChanges
      <4> QED
        BY <3>1, <3>2, <4>1, <4>2 DEF TrueSince
    <3> QED
      BY <3>1, <3>3
  <2>4. ASSUME NEW r \in Calls PROVE CallInv(r)'
    <3>1. call' = call /\ now' = now
      BY <1>2 DEF SessionChanges
    <3>2. call[r].version \in Nat /\ call[r].at \in Nat /\ call[r].at <= now
      BY <1>0 DEF TypeOK, CallStates, CallInv
    <3>3. CASE call[r].stage \notin {"answered", "served"}
      BY <1>0, <3>1, <3>3 DEF CallInv
    <3>4. CASE call[r].stage \in {"answered", "served"}
      <4> DEFINE u == call[r].token
                 v == call[r].version
                 at == call[r].at
      <4>1. u \in Tokens
        BY <1>0, <3>4 DEF CallInv
      <4>2. PICK u2 \in Tokens, v2 \in Nat, at2 \in Nat : u2 = u /\ v2 = v /\ at2 = at
        BY <3>2, <4>1
      <4>3. /\ TrueSince(u2, v2, at2) => TrueSince(u2, v2, at2)'
            /\ TrueAfter(u2, v2, at2) => TrueAfter(u2, v2, at2)'
        BY <1>0, <2>2, <3>2, <4>2, PastGrows
      <4>4. u' = u2 /\ v' = v2 /\ at' = at2
        BY <3>1, <4>2
      <4> QED
        BY <1>0, <3>1, <3>2, <4>1, <4>2, <4>3, <4>4 DEF CallInv, TrueSince, TrueAfter, Current
    <3> QED
      BY <3>3, <3>4
  <2> QED
    BY <2>1, <2>3, <2>4 DEF Inv
<1>3. ASSUME NEW r \in Calls, Hit(r) \/ Ask(r) \/ Answer(r) \/ AskFails(r) \/ Store(r) \/ Leave(r)
      PROVE  Inv'
  <2>0. superseded' = superseded /\ now' = now
    BY <1>3 DEF Hit, Ask, Answer, AskFails, Store, Leave
  <2>1. \A q \in Calls \ {r} : call'[q] = call[q]
    BY <1>0, <1>3 DEF Hit, Ask, Answer, AskFails, Store, Leave, Serve, TypeOK
  <2>2. \A q \in Calls \ {r} : CallInv(q)'
    BY <1>0, <2>0, <2>1, CallKept
  <2>3. SUFFICES TypeOK' /\ CacheInv' /\ CallInv(r)'
    BY <2>2 DEF Inv
  <2>4. CASE Hit(r)
    <3>1. PICK t \in Tokens : Fresh(t) /\ Serve(r, t, now, cache[t].version)
      BY <2>4 DEF Hit
    <3>2. cache[t].version \in Nat /\ cache[t] # None /\ cache[t].expires > now
      BY <1>0, <3>1 DEF Fresh, Entries, TypeOK
    <3>3. call' = [call EXCEPT ![r] = [stage |-> "served", token |-> t, at |-> now,
                                       version |-> cache[t].version]]
      BY <3>1 DEF Serve
    <3>4. TypeOK'
      <4>1. [stage |-> "served", token |-> t, at |-> now, version |-> cache[t].version]
              \in CallStates
        BY <1>0, <3>2 DEF CallStates
      <4> QED
        BY <1>0, <2>4, <3>3, <4>1 DEF Hit, TypeOK
    <3>5. CacheInv'
      BY <1>0, <2>4, CacheKept DEF Hit
    <3>6. CallInv(r)'
      <4>1. TrueAfter(t, cache[t].version, now)
        BY <1>0, <3>2 DEF CacheInv, TrueSince, TrueAfter, TypeOK
      <4>2. call'[r] = [stage |-> "served", token |-> t, at |-> now,
                        version |-> cache[t].version]
        BY <1>0, <3>3 DEF TypeOK
      <4> QED
        BY <1>0, <2>0, <4>1, <4>2 DEF CallInv, TrueAfter, Current
    <3> QED
      BY <3>4, <3>5, <3>6
  <2>5. CASE Ask(r)
    <3>1. TypeOK'
      BY <1>0, <2>5 DEF Ask, TypeOK, CallStates
    <3>2. CacheInv'
      BY <1>0, <2>5, CacheKept DEF Ask
    <3>3. CallInv(r)'
      BY <1>0, <2>5 DEF Ask, CallInv, TypeOK
    <3> QED
      BY <3>1, <3>2, <3>3
  <2>6. CASE Answer(r)
    <3>1. call[r].token \in Tokens /\ call[r].stage = "asking" /\ call[r].at <= now
      BY <1>0, <2>6 DEF Answer, CallInv
    <3>2. Current(call[r].token) \in Nat
      BY <1>0, <3>1 DEF Current, TypeOK
    <3>3. TypeOK'
      BY <1>0, <2>6, <3>1, <3>2 DEF Answer, TypeOK, CallStates
    <3>4. CacheInv'
      BY <1>0, <2>6, CacheKept DEF Answer
    <3>5. CallInv(r)'
      <4>1. /\ call'[r].stage = "answered" /\ call'[r].version = Current(call[r].token)
            /\ call'[r].token = call[r].token /\ call'[r].at = call[r].at
        BY <1>0, <2>6 DEF Answer, TypeOK, CallStates
      <4> QED
        BY <2>0, <3>1, <4>1 DEF CallInv, TrueSince, Current
    <3> QED
      BY <3>3, <3>4, <3>5
  <2>7. CASE AskFails(r) \/ Leave(r)
    <3>1. cache' = cache /\ call'[r] = NoCall
      BY <1>0, <2>7 DEF AskFails, Leave, TypeOK
    <3>2. TypeOK'
      <4>1. NoCall \in CallStates
        BY DEF NoCall, CallStates
      <4> QED
        BY <1>0, <2>7, <4>1 DEF AskFails, Leave, TypeOK
    <3>3. CacheInv'
      BY <1>0, <2>0, <3>1, CacheKept
    <3>4. CallInv(r)'
      BY <1>0, <2>0, <3>1 DEF CallInv, NoCall
    <3> QED
      BY <3>2, <3>3, <3>4
  <2>8. CASE Store(r)
    <3> DEFINE entry == [version |-> call[r].version, expires |-> call[r].at + CacheSec]
    <3>1. /\ call[r].stage = "answered" /\ call[r].token \in Tokens /\ call[r].at <= now
          /\ call[r].version \in Nat /\ call[r].at \in Nat
          /\ TrueSince(call[r].token, call[r].version, call[r].at)
      BY <1>0, <2>8 DEF Store, CallInv, TypeOK, CallStates
    <3>2. cache' = [cache EXCEPT ![call[r].token] = entry]
      BY <2>8 DEF Store, Expires
    <3>3. call'[r] = [stage |-> "served", token |-> call[r].token, at |-> call[r].at,
                      version |-> call[r].version]
      BY <1>0, <2>8 DEF Store, Serve, TypeOK
    <3>4. TypeOK'
      <4>1. entry \in Entries
        BY <3>1 DEF Entries
      <4>2. [stage |-> "served", token |-> call[r].token, at |-> call[r].at,
             version |-> call[r].version] \in CallStates
        BY <3>1 DEF CallStates
      <4>3. cache' \in [Tokens -> Entries \cup {None}]
        BY <1>0, <3>2, <4>1 DEF TypeOK
      <4>4. call' \in [Calls -> CallStates]
        BY <1>0, <2>8, <4>2 DEF Store, Serve, TypeOK
      <4> QED
        BY <1>0, <2>0, <4>3, <4>4 DEF TypeOK
    <3>5. CacheInv'
      <4> SUFFICES ASSUME NEW t \in Tokens, cache'[t] # None
                   PROVE  \E at \in Nat : /\ at <= now'
                                         /\ cache'[t].expires = at + CacheSec
                                         /\ TrueSince(t, cache[t].version, at)'
        BY DEF CacheInv
      <4>1. CASE t = call[r].token
        <5>1. cache'[t].version = call[r].version /\ cache'[t].expires = call[r].at + CacheSec
          BY <1>0, <3>2, <4>1 DEF TypeOK
        <5> QED
          BY <2>0, <3>1, <4>1, <5>1 DEF TrueSince, Current
      <4>2. CASE t # call[r].token
        <5>1. cache'[t] = cache[t]
          BY <1>0, <3>2, <4>2 DEF TypeOK
        <5> QED
          BY <1>0, <2>0, <5>1 DEF CacheInv, TrueSince, Current
      <4> QED
        BY <4>1, <4>2
    <3>6. CallInv(r)'
      <4>1. TrueAfter(call[r].token, call[r].version, call[r].at)
        BY <1>0, <3>1 DEF TrueSince, TrueAfter, TypeOK
      <4> QED
        BY <2>0, <3>1, <3>3, <4>1 DEF CallInv, TrueAfter, Current
    <3> QED
      BY <3>4, <3>5, <3>6
  <2> QED
    BY <1>3, <2>4, <2>5, <2>6, <2>7, <2>8
<1>4. CASE UNCHANGED introspectVars
  BY <1>0, <1>4, CallKept, CacheKept DEF Inv, introspectVars, TypeOK
<1> QED
  BY <1>1, <1>2, <1>3, <1>4 DEF Next

THEOREM Invariance == Spec => []Inv
<1> QED
  BY InitInv, NextInv, PTL DEF Spec

(* Every variable keeps its type. *)
THEOREM TypeCorrect == Spec => []TypeOK
<1>1. Inv => TypeOK
  BY DEF Inv
<1> QED
  BY <1>1, Invariance, PTL

(* Whoever asks is served what was true less than CacheSec before. *)
THEOREM LogoutShows == Spec => []LogoutShowsInTime
<1>1. Inv => LogoutShowsInTime
  BY DEF Inv, CallInv, LogoutShowsInTime
<1> QED
  BY <1>1, Invariance, PTL
=============================================================================

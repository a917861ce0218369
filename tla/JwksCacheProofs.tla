---------------------------- MODULE JwksCacheProofs ----------------------------
(***************************************************************************)
(* The safety properties of JwksCache for every number of requests, every  *)
(* CacheSec and every cooldown.  The invariant says who may be fetching    *)
(* (only the head of the queue, and unforced only while the cache is       *)
(* stale), what the cooldown remembers (the last decision), and what a     *)
(* fetched key set must hold (every kid listed all the while).             *)
(***************************************************************************)
EXTENDS JwksCache, TLAPS

USE JwksAssumption

CooldownInv ==
    /\ lastForced <= now
    /\ refetches = <<>> => lastForced = 0 /\ MinRefetch <= now
    /\ refetches # <<>> => lastForced \in {refetches[i] : i \in DOMAIN refetches}
    /\ \A i \in DOMAIN refetches : refetches[i] <= lastForced
    /\ ForcedRefetchesApart

CallInv(r) ==
    /\ call[r].stage \in {"fetching", "fetched"} =>
         Holds(r) /\ (~call[r].force => ~Fresh)
    /\ call[r].stage = "fetched" /\ call[r].listed => call[r].kid \in call[r].keys
    /\ call[r].listed => call[r].kid \in published

Inv == TypeOK /\ CooldownInv /\ \A r \in Calls : CallInv(r)

LEMMA InitInv == Init => Inv
<1> SUFFICES ASSUME Init PROVE Inv
  OBVIOUS
<1>1. NoCall \in CallStates
  BY DEF NoCall, CallStates
<1>2. TypeOK
  BY <1>1 DEF Init, TypeOK
<1>3. CooldownInv
  BY DEF Init, CooldownInv, ForcedRefetchesApart
<1>4. \A r \in Calls : CallInv(r)
  BY DEF Init, CallInv, NoCall
<1> QED
  BY <1>2, <1>3, <1>4 DEF Inv

(* What Conclude does, whoever calls it. *)
LEMMA Concluding ==
    ASSUME NEW r \in Calls, NEW c \in CallStates, NEW keys \in SUBSET Kids,
           NEW q \in Seq(Calls), Inv, Conclude(r, c, keys, q), now' = now
    PROVE  /\ lastForced' \in Nat /\ refetches' \in Seq(Nat)
           /\ queue' \in Seq(Calls) /\ call' \in [Calls -> CallStates]
           /\ CooldownInv'
           /\ queue' \in {q, Append(q, r)}
           /\ \A s \in Calls \ {r} : call'[s] = call[s]
           /\ call'[r].stage \in {"done", "waiting"}
           /\ call'[r].listed = c.listed /\ call'[r].kid = c.kid
           /\ call'[r].outcome = "unknown" /\ c.outcome # "unknown" =>
                c.kid \notin keys /\ (c.force \/ CoolingDown)
<1>1. TypeOK /\ CooldownInv
  BY DEF Inv
<1>2. ASSUME NEW o \in {"known", "unknown"}, Ends(r, c, o), UNCHANGED <<lastForced, refetches>>
      PROVE  /\ call' \in [Calls -> CallStates]
             /\ CooldownInv'
             /\ \A s \in Calls \ {r} : call'[s] = call[s]
             /\ call'[r].stage = "done" /\ call'[r].outcome = o
             /\ call'[r].listed = c.listed /\ call'[r].kid = c.kid
  <2>1. [c EXCEPT !.stage = "done", !.outcome = o] \in CallStates
    BY DEF CallStates
  <2>2. CooldownInv'
    BY <1>1, <1>2 DEF CooldownInv, ForcedRefetchesApart
  <2>3. call'[r] = [c EXCEPT !.stage = "done", !.outcome = o]
    BY <1>1, <1>2 DEF Ends, TypeOK
  <2> QED
    BY <1>1, <1>2, <2>1, <2>2, <2>3 DEF Ends, TypeOK, CallStates
<1>3. CASE /\ c.kid \in keys
           /\ Ends(r, c, "known") /\ queue' = q
           /\ UNCHANGED <<lastForced, refetches>>
  <2>1. "known" \in {"known", "unknown"}
    OBVIOUS
  <2> QED
    BY <1>1, <1>2, <1>3, <2>1 DEF TypeOK
<1>4. CASE /\ c.kid \notin keys
           /\ c.force \/ CoolingDown
           /\ Ends(r, c, "unknown") /\ queue' = q
           /\ UNCHANGED <<lastForced, refetches>>
  <2>1. "unknown" \in {"known", "unknown"}
    OBVIOUS
  <2> QED
    BY <1>1, <1>2, <1>4, <2>1 DEF TypeOK
<1>5. CASE /\ c.kid \notin keys
           /\ ~c.force /\ ~CoolingDown
           /\ lastForced' = now /\ refetches' = Append(refetches, now)
           /\ Waits(r, c, TRUE) /\ queue' = Append(q, r)
  <2>1. [c EXCEPT !.stage = "waiting", !.force = TRUE] \in CallStates
    BY DEF CallStates
  <2>2. call'[r] = [c EXCEPT !.stage = "waiting", !.force = TRUE]
    BY <1>1, <1>5 DEF Waits, TypeOK
  <2>3. call' \in [Calls -> CallStates] /\ \A s \in Calls \ {r} : call'[s] = call[s]
    BY <1>1, <1>5, <2>1 DEF Waits, TypeOK
  <2>4. CooldownInv'
    <3>1. /\ now \in Nat /\ lastForced \in Nat /\ refetches \in Seq(Nat)
          /\ lastForced + MinRefetch <= now
      BY <1>1, <1>5 DEF TypeOK, CoolingDown, CooldownInv
    <3>2. /\ Len(refetches') = Len(refetches) + 1 /\ refetches' # <<>>
          /\ refetches'[Len(refetches) + 1] = now
          /\ Len(refetches) + 1 \in DOMAIN refetches'
          /\ \A i \in DOMAIN refetches' :
               i # Len(refetches) + 1 =>
                 i \in DOMAIN refetches /\ refetches'[i] = refetches[i] /\ i < Len(refetches) + 1
      BY <1>5, <3>1
    <3>3. \A i \in DOMAIN refetches' : refetches'[i] <= now
      <4> SUFFICES ASSUME NEW i \in DOMAIN refetches' PROVE refetches'[i] <= now
        OBVIOUS
      <4>1. CASE i = Len(refetches) + 1
        BY <3>1, <3>2, <4>1
      <4>2. CASE i # Len(refetches) + 1
        <5>1. i \in DOMAIN refetches /\ refetches'[i] = refetches[i] /\ refetches[i] \in Nat
          BY <3>1, <3>2, <4>2
        <5> QED
          BY <1>1, <3>1, <5>1 DEF CooldownInv
      <4> QED
        BY <4>1, <4>2
    <3>4. ForcedRefetchesApart'
      <4> SUFFICES ASSUME NEW i \in DOMAIN refetches', NEW j \in DOMAIN refetches', i < j
                   PROVE  refetches'[j] >= refetches'[i] + MinRefetch
        BY DEF ForcedRefetchesApart
      <4>1. i \in DOMAIN refetches /\ refetches'[i] = refetches[i]
        BY <1>5, <3>1, <3>2
      <4>2. CASE j = Len(refetches) + 1
        BY <1>1, <3>1, <3>2, <4>1, <4>2 DEF CooldownInv
      <4>3. CASE j # Len(refetches) + 1
        BY <1>1, <3>2, <4>1, <4>3 DEF CooldownInv, ForcedRefetchesApart
      <4> QED
        BY <4>2, <4>3
    <3> QED
      BY <1>5, <3>1, <3>2, <3>3, <3>4 DEF CooldownInv
  <2> QED
    BY <1>1, <1>5, <2>2, <2>3, <2>4 DEF TypeOK, CallStates
<1> QED
  BY <1>3, <1>4, <1>5 DEF Conclude

LEMMA ArrivedType ==
    ASSUME NEW k \in Kids
    PROVE  /\ Arrived(k) \in CallStates
           /\ Arrived(k).kid = k /\ Arrived(k).listed = (k \in published)
           /\ Arrived(k).outcome = "none" /\ ~Arrived(k).force
<1> DEFINE listed == k \in published
<1>1. listed \in BOOLEAN
  OBVIOUS
<1> HIDE DEF listed
<1>2. [NoCall EXCEPT !.kid = k, !.listed = listed] \in CallStates
  BY <1>1 DEF NoCall, CallStates
<1>3. Arrived(k) = [NoCall EXCEPT !.kid = k, !.listed = listed]
  BY DEF Arrived, listed
<1>4. /\ Arrived(k).kid = k /\ Arrived(k).listed = listed
      /\ Arrived(k).outcome = "none" /\ ~Arrived(k).force
  BY <1>3 DEF NoCall
<1> QED
  BY <1>2, <1>3, <1>4 DEF listed

(* A request whose own state is untouched keeps its part if the lock's     *)
(* holder stays the same and the cache does not become good.               *)
LEMMA CallKept ==
    ASSUME NEW s \in Calls, CallInv(s), call'[s] = call[s], published' = published,
           call[s].stage \in {"fetching", "fetched"} =>
             Holds(s)' /\ (~call[s].force => ~Fresh')
    PROVE  CallInv(s)'
BY DEF CallInv

LEMMA HeadKept ==
    ASSUME NEW q \in Seq(Calls), q # <<>>, NEW r \in Calls
    PROVE  Append(q, r) # <<>> /\ Head(Append(q, r)) = Head(q)
<1>1. Len(q) >= 1 /\ Append(q, r)[1] = q[1] /\ Len(Append(q, r)) = Len(q) + 1
  OBVIOUS
<1>2. Append(q, r) # <<>>
  BY <1>1
<1> QED
  BY <1>1, <1>2

LEMMA NextInv == Inv /\ [Next]_jwksVars => Inv'
<1> SUFFICES ASSUME Inv, [Next]_jwksVars PROVE Inv'
  OBVIOUS
<1>0. TypeOK /\ CooldownInv /\ (\A r \in Calls : CallInv(r)) /\ now \in Nat
  BY DEF Inv, TypeOK
<1>1. CASE Tick
  <2>1. TypeOK' /\ CooldownInv'
    BY <1>0, <1>1 DEF Tick, TypeOK, CooldownInv, ForcedRefetchesApart
  <2>2. Fresh' => Fresh
    BY <1>0, <1>1 DEF Tick, Fresh, TypeOK, KeySets
  <2>3. ASSUME NEW s \in Calls PROVE CallInv(s)'
    BY <1>0, <1>1, <2>2, CallKept DEF Tick, CallInv, Holds
  <2> QED
    BY <2>1, <2>3 DEF Inv
<1>2. CASE RotateKeys
  <2>1. \A s \in Calls : (call[s].listed /\ call[s].kid \in published') \in BOOLEAN
    OBVIOUS
  <2>2. \A s \in Calls : /\ call'[s] \in CallStates
                         /\ call'[s].stage = call[s].stage /\ call'[s].force = call[s].force
                         /\ call'[s].keys = call[s].keys /\ call'[s].kid = call[s].kid
                         /\ call'[s].listed =>
                              call[s].listed /\ call[s].kid \in published'
    <3> SUFFICES ASSUME NEW s \in Calls
                 PROVE  /\ call'[s] \in CallStates
                        /\ call'[s].stage = call[s].stage /\ call'[s].force = call[s].force
                        /\ call'[s].keys = call[s].keys /\ call'[s].kid = call[s].kid
                        /\ call'[s].listed =>
                             call[s].listed /\ call[s].kid \in published'
      OBVIOUS
    <3> DEFINE listed == call[s].listed /\ call[s].kid \in published'
    <3>1. listed \in BOOLEAN
      OBVIOUS
    <3>2. call'[s] = [call[s] EXCEPT !.listed = listed]
      BY <1>2 DEF RotateKeys
    <3>3. call[s] \in CallStates
      BY <1>0 DEF TypeOK
    <3> HIDE DEF listed
    <3>4. /\ call'[s] \in CallStates /\ call'[s].listed = listed
          /\ call'[s].stage = call[s].stage /\ call'[s].force = call[s].force
          /\ call'[s].keys = call[s].keys /\ call'[s].kid = call[s].kid
      BY <3>1, <3>2, <3>3 DEF CallStates
    <3> QED
      BY <3>4 DEF listed
  <2>3. TypeOK'
    <3>1. call' \in [Calls -> CallStates]
      BY <1>2, <2>2 DEF RotateKeys
    <3> QED
      BY <1>0, <1>2, <3>1 DEF RotateKeys, TypeOK
  <2>4. CooldownInv'
    BY <1>0, <1>2 DEF RotateKeys, CooldownInv, ForcedRefetchesApart
  <2>5. ASSUME NEW s \in Calls PROVE CallInv(s)'
    BY <1>0, <1>2, <2>2 DEF RotateKeys, CallInv, Holds, Fresh
  <2> QED
    BY <2>3, <2>4, <2>5 DEF Inv
<1>3. ASSUME NEW r \in Calls, VerifySignature(r) PROVE Inv'
  <2>0. UNCHANGED <<now, published, rotations, jwks>> /\ call[r].stage = "idle"
    BY <1>3 DEF VerifySignature
  <2>1. PICK k \in Kids :
          \/ Fresh /\ Conclude(r, Arrived(k), jwks.keys, queue)
          \/ ~Fresh /\ Waits(r, Arrived(k), FALSE) /\ queue' = Append(queue, r)
                    /\ UNCHANGED <<lastForced, refetches>>
    BY <1>3 DEF VerifySignature
  <2>2. PICK c \in CallStates : c = Arrived(k) /\ c.kid = k /\ c.listed = (k \in published)
    BY ArrivedType
  <2>3. /\ TypeOK' /\ CooldownInv'
        /\ queue' \in {queue, Append(queue, r)}
        /\ \A s \in Calls \ {r} : call'[s] = call[s]
        /\ call'[r].stage \in {"done", "waiting"}
        /\ call'[r].listed = c.listed /\ call'[r].kid = c.kid
    <3>1. CASE Fresh /\ Conclude(r, Arrived(k), jwks.keys, queue)
      <4>1. jwks.keys \in SUBSET Kids /\ queue \in Seq(Calls)
        BY <1>0, <3>1 DEF Fresh, TypeOK, KeySets
      <4>2. Conclude(r, c, jwks.keys, queue) /\ now' = now
        BY <2>0, <2>2, <3>1
      <4> QED
        BY <1>0, <2>0, <4>1, <4>2, Concluding DEF TypeOK
    <3>2. CASE ~Fresh /\ Waits(r, Arrived(k), FALSE) /\ queue' = Append(queue, r)
                      /\ UNCHANGED <<lastForced, refetches>>
      <4>1. [c EXCEPT !.stage = "waiting", !.force = FALSE] \in CallStates
        BY DEF CallStates
      <4>2. call' = [call EXCEPT ![r] = [c EXCEPT !.stage = "waiting", !.force = FALSE]]
        BY <2>2, <3>2 DEF Waits
      <4>3. call'[r] = [c EXCEPT !.stage = "waiting", !.force = FALSE]
        BY <1>0, <4>2 DEF TypeOK
      <4>4. TypeOK'
        BY <1>0, <2>0, <3>2, <4>1, <4>2 DEF TypeOK
      <4>5. CooldownInv'
        BY <1>0, <2>0, <3>2 DEF CooldownInv, ForcedRefetchesApart
      <4> QED
        BY <1>0, <3>2, <4>2, <4>3, <4>4, <4>5 DEF TypeOK, CallStates
    <3> QED
      BY <2>1, <3>1, <3>2
  <2>4. ASSUME NEW s \in Calls \ {r} PROVE CallInv(s)'
    <3>1. Holds(s) => Holds(s)'
      BY <1>0, <2>3, HeadKept DEF Holds, TypeOK
    <3> QED
      BY <1>0, <2>0, <2>3, <3>1, CallKept DEF CallInv, Fresh
  <2>5. CallInv(r)'
    BY <2>0, <2>2, <2>3 DEF CallInv
  <2> QED
    BY <2>3, <2>4, <2>5 DEF Inv
<1>4. ASSUME NEW r \in Calls, Acquire(r) PROVE Inv'
  <2>0. /\ UNCHANGED <<now, published, rotations, jwks>>
        /\ call[r].stage = "waiting" /\ Holds(r) /\ call[r] \in CallStates
        /\ queue \in Seq(Calls)
    BY <1>0, <1>4 DEF Acquire, TypeOK
  <2>1. CASE ~call[r].force /\ Fresh /\ Conclude(r, call[r], jwks.keys, Tail(queue))
    <3>1. jwks.keys \in SUBSET Kids /\ Tail(queue) \in Seq(Calls)
      BY <1>0, <2>0, <2>1 DEF Fresh, TypeOK, KeySets, Holds
    <3>2. /\ TypeOK' /\ CooldownInv'
          /\ \A s \in Calls \ {r} : call'[s] = call[s]
          /\ call'[r].stage \in {"done", "waiting"}
          /\ call'[r].listed = call[r].listed /\ call'[r].kid = call[r].kid
      BY <1>0, <2>0, <2>1, <3>1, Concluding DEF TypeOK
    <3>3. ASSUME NEW s \in Calls \ {r} PROVE CallInv(s)'
      BY <1>0, <2>0, <3>2, CallKept DEF CallInv, Holds
    <3>4. CallInv(r)'
      BY <1>0, <2>0, <3>2 DEF CallInv
    <3> QED
      BY <3>2, <3>3, <3>4 DEF Inv
  <2>2. CASE (call[r].force \/ ~Fresh) /\ Fetching(r)
    <3>1. TypeOK' /\ CooldownInv'
      BY <1>0, <2>0, <2>2 DEF Fetching, TypeOK, CallStates, CooldownInv, ForcedRefetchesApart
    <3>2. /\ \A s \in Calls \ {r} : call'[s] = call[s]
          /\ call'[r].stage = "fetching" /\ call'[r].force = call[r].force
          /\ call'[r].listed = call[r].listed /\ call'[r].kid = call[r].kid
      BY <1>0, <2>0, <2>2 DEF Fetching, TypeOK, CallStates
    <3>3. ASSUME NEW s \in Calls \ {r} PROVE CallInv(s)'
      BY <1>0, <2>0, <3>2, CallKept DEF CallInv, Holds
    <3>4. CallInv(r)'
      BY <1>0, <2>0, <2>2, <3>2 DEF CallInv, Fetching, Holds, Fresh
    <3> QED
      BY <3>1, <3>3, <3>4 DEF Inv
  <2> QED
    BY <1>4, <2>1, <2>2 DEF Acquire
<1>5. ASSUME NEW r \in Calls, FetchJwks(r) PROVE Inv'
  <2>0. /\ UNCHANGED <<now, published, rotations, jwks, lastForced, queue, refetches>>
        /\ call[r].stage = "fetching" /\ call[r] \in CallStates
    BY <1>0, <1>5 DEF FetchJwks, TypeOK
  <2>1. TypeOK' /\ CooldownInv'
    <3>1. published \in SUBSET Kids
      BY <1>0 DEF TypeOK
    <3>2. [call[r] EXCEPT !.stage = "fetched", !.keys = published] \in CallStates
      BY <2>0, <3>1 DEF CallStates
    <3>3. call' = [call EXCEPT ![r] = [call[r] EXCEPT !.stage = "fetched", !.keys = published]]
      BY <1>0, <1>5, <2>0 DEF FetchJwks, TypeOK
    <3>4. call' \in [Calls -> CallStates]
      BY <1>0, <3>2, <3>3 DEF TypeOK
    <3> QED
      BY <1>0, <2>0, <3>4 DEF TypeOK, CooldownInv, ForcedRefetchesApart
  <2>2. /\ \A s \in Calls \ {r} : call'[s] = call[s]
        /\ call'[r].stage = "fetched" /\ call'[r].force = call[r].force
        /\ call'[r].listed = call[r].listed /\ call'[r].kid = call[r].kid
        /\ call'[r].keys = published
    BY <1>0, <1>5, <2>0 DEF FetchJwks, TypeOK, CallStates
  <2>3. ASSUME NEW s \in Calls PROVE CallInv(s)'
    BY <1>0, <2>0, <2>2 DEF CallInv, Holds, Fresh
  <2> QED
    BY <2>1, <2>3 DEF Inv
<1>6. ASSUME NEW r \in Calls, FetchFails(r) PROVE Inv'
  <2>0. /\ UNCHANGED <<now, published, rotations, jwks, lastForced, refetches>>
        /\ call[r].stage \in {"fetching", "fetched"} /\ call[r] \in CallStates
        /\ queue' = Tail(queue) /\ queue \in Seq(Calls) /\ Holds(r)
        /\ call' = [call EXCEPT ![r] = [call[r] EXCEPT !.stage = "done", !.outcome = "error"]]
    BY <1>0, <1>6 DEF FetchFails, Ends, TypeOK, CallInv
  <2>1. [call[r] EXCEPT !.stage = "done", !.outcome = "error"] \in CallStates
    BY <2>0 DEF CallStates
  <2>2. TypeOK'
    <3>1. queue' \in Seq(Calls)
      BY <2>0 DEF Holds
    <3> QED
      BY <1>0, <2>0, <2>1, <3>1 DEF TypeOK
  <2>3. CooldownInv'
    BY <1>0, <2>0 DEF CooldownInv, ForcedRefetchesApart
  <2>4. /\ \A s \in Calls \ {r} : call'[s] = call[s]
        /\ call'[r].stage = "done"
        /\ call'[r].listed = call[r].listed /\ call'[r].kid = call[r].kid
    BY <1>0, <2>0 DEF TypeOK, CallStates
  <2>5. ASSUME NEW s \in Calls \ {r} PROVE CallInv(s)'
    BY <1>0, <2>0, <2>4, CallKept DEF CallInv, Holds
  <2>6. CallInv(r)'
    BY <1>0, <2>0, <2>4 DEF CallInv
  <2> QED
    BY <2>2, <2>3, <2>5, <2>6 DEF Inv
<1>7. ASSUME NEW r \in Calls, StoreKeys(r) PROVE Inv'
  <2>0. /\ UNCHANGED <<now, published, rotations>>
        /\ call[r].stage = "fetched" /\ call[r] \in CallStates
        /\ queue \in Seq(Calls) /\ Holds(r)
        /\ jwks' = [keys |-> call[r].keys, expires |-> now + CacheSec]
        /\ Conclude(r, call[r], call[r].keys, Tail(queue))
    BY <1>0, <1>7 DEF StoreKeys, TypeOK, CallInv
  <2>1. /\ call[r].keys \in SUBSET Kids /\ Tail(queue) \in Seq(Calls)
        /\ jwks' \in KeySets
    BY <1>0, <2>0 DEF CallStates, KeySets, Holds
  <2>2. /\ TypeOK' /\ CooldownInv'
        /\ \A s \in Calls \ {r} : call'[s] = call[s]
        /\ call'[r].stage \in {"done", "waiting"}
        /\ call'[r].listed = call[r].listed /\ call'[r].kid = call[r].kid
    BY <1>0, <2>0, <2>1, Concluding DEF TypeOK
  <2>3. ASSUME NEW s \in Calls \ {r} PROVE CallInv(s)'
    BY <1>0, <2>0, <2>2, CallKept DEF CallInv, Holds
  <2>4. CallInv(r)'
    BY <1>0, <2>0, <2>2 DEF CallInv
  <2> QED
    BY <2>2, <2>3, <2>4 DEF Inv
<1>8. ASSUME NEW r \in Calls, Leave(r) PROVE Inv'
  <2>1. NoCall \in CallStates
    BY DEF NoCall, CallStates
  <2>2. TypeOK' /\ CooldownInv'
    BY <1>0, <1>8, <2>1 DEF Leave, TypeOK, CooldownInv, ForcedRefetchesApart
  <2>3. call'[r] = NoCall /\ \A s \in Calls \ {r} : call'[s] = call[s]
    BY <1>0, <1>8 DEF Leave, TypeOK
  <2>4. ASSUME NEW s \in Calls \ {r} PROVE CallInv(s)'
    BY <1>0, <1>8, <2>3, CallKept DEF Leave, CallInv, Holds, Fresh
  <2>5. CallInv(r)'
    BY <2>3 DEF CallInv, NoCall
  <2> QED
    BY <2>2, <2>4, <2>5 DEF Inv
<1>9. CASE UNCHANGED jwksVars
  BY <1>0, <1>9 DEF Inv, jwksVars, TypeOK, CooldownInv, ForcedRefetchesApart, CallInv,
                    Holds, Fresh
<1> QED
  BY <1>1, <1>2, <1>3, <1>4, <1>5, <1>6, <1>7, <1>8, <1>9 DEF Next, CallStep

THEOREM Invariance == Spec => []Inv
<1> QED
  BY InitInv, NextInv, PTL DEF Spec

(* Every variable keeps its type. *)
THEOREM TypeCorrect == Spec => []TypeOK
<1>1. Inv => TypeOK
  BY DEF Inv
<1> QED
  BY <1>1, Invariance, PTL

(* Two forced refetches are decided on at least a cooldown apart. *)
THEOREM NoAmplification == Spec => []ForcedRefetchesApart
<1>1. Inv => ForcedRefetchesApart
  BY DEF Inv, CooldownInv
<1> QED
  BY <1>1, Invariance, PTL

(* No unforced fetch is on its way while the cache is good. *)
THEOREM DoubleChecked == Spec => []FetchOnlyWhenStale
<1>1. Inv => FetchOnlyWhenStale
  BY DEF Inv, CallInv, FetchOnlyWhenStale
<1> QED
  BY <1>1, Invariance, PTL

(* An unknown verdict has a cause: the kid was not listed all the while,   *)
(* or a cooldown is running that a real refetch started.                   *)
THEOREM RotationIsNoOutage == Spec => RejectedForCause
<1>1. Inv /\ [Next]_jwksVars =>
        [\A r \in Calls : TurnedAway(r) => ~call'[r].listed \/ RecentRefetch]_jwksVars
  <2> SUFFICES ASSUME Inv, Next, NEW r \in Calls, TurnedAway(r)
               PROVE  ~call'[r].listed \/ RecentRefetch
    OBVIOUS
  <2>0. TypeOK /\ CooldownInv /\ (\A s \in Calls : CallInv(s)) /\ now \in Nat
    BY DEF Inv, TypeOK
  <2>1. CoolingDown => RecentRefetch
    BY <2>0 DEF CoolingDown, CooldownInv, TypeOK, RecentRefetch
  <2>2. ASSUME NEW s \in Calls, NEW c \in CallStates, NEW keys \in SUBSET Kids,
               NEW q \in Seq(Calls), Conclude(s, c, keys, q), now' = now,
               c.outcome # "unknown" \/ c = call[s],
               c.force /\ c.listed => c.kid \in keys
        PROVE  ~call'[r].listed \/ RecentRefetch
    <3>1. /\ \A u \in Calls \ {s} : call'[u] = call[u]
          /\ call'[s].listed = c.listed
          /\ call'[s].outcome = "unknown" /\ c.outcome # "unknown" =>
               c.kid \notin keys /\ (c.force \/ CoolingDown)
      BY <2>2, Concluding
    <3> QED
      BY <2>1, <2>2, <3>1 DEF TurnedAway
  <2>3. CASE Tick \/ RotateKeys
    <3>1. call'[r].outcome = call[r].outcome
      <4>1. call[r] \in CallStates
        BY <2>0 DEF TypeOK
      <4> QED
        BY <2>3, <4>1 DEF Tick, RotateKeys, CallStates
    <3> QED
      BY <3>1 DEF TurnedAway
  <2>4. ASSUME NEW s \in Calls, VerifySignature(s)
        PROVE  ~call'[r].listed \/ RecentRefetch
    <3>1. PICK k \in Kids :
            \/ Fresh /\ Conclude(s, Arrived(k), jwks.keys, queue)
            \/ ~Fresh /\ Waits(s, Arrived(k), FALSE)
      BY <2>4 DEF VerifySignature
    <3>2. /\ Arrived(k) \in CallStates /\ Arrived(k).outcome = "none"
          /\ ~Arrived(k).force
      BY ArrivedType
    <3>3. CASE Fresh /\ Conclude(s, Arrived(k), jwks.keys, queue)
      <4>1. jwks.keys \in SUBSET Kids /\ queue \in Seq(Calls) /\ now' = now
        BY <2>0, <2>4, <3>3 DEF VerifySignature, Fresh, TypeOK, KeySets
      <4> QED
        BY <2>2, <3>2, <3>3, <4>1
    <3>4. CASE ~Fresh /\ Waits(s, Arrived(k), FALSE)
      <4>1. call' = [call EXCEPT ![s] = [Arrived(k) EXCEPT !.stage = "waiting", !.force = FALSE]]
        BY <3>4 DEF Waits
      <4>2. [Arrived(k) EXCEPT !.stage = "waiting", !.force = FALSE].outcome = "none"
        BY <3>2 DEF CallStates
      <4> QED
        BY <2>0, <4>1, <4>2 DEF TurnedAway, TypeOK
    <3> QED
      BY <3>1, <3>3, <3>4
  <2>5. ASSUME NEW s \in Calls, Acquire(s)
        PROVE  ~call'[r].listed \/ RecentRefetch
    <3>1. call[s] \in CallStates /\ queue \in Seq(Calls) /\ now' = now /\ Holds(s)
      BY <2>0, <2>5 DEF Acquire, TypeOK
    <3>2. CASE ~call[s].force /\ Fresh /\ Conclude(s, call[s], jwks.keys, Tail(queue))
      <4>1. jwks.keys \in SUBSET Kids /\ Tail(queue) \in Seq(Calls)
        BY <2>0, <3>1, <3>2 DEF Fresh, TypeOK, KeySets, Holds
      <4> QED
        BY <2>2, <3>1, <3>2, <4>1
    <3>3. CASE Fetching(s)
      BY <2>0, <3>1, <3>3 DEF Fetching, TurnedAway, TypeOK, CallStates
    <3> QED
      BY <2>5, <3>2, <3>3 DEF Acquire
  <2>6. ASSUME NEW s \in Calls, StoreKeys(s)
        PROVE  ~call'[r].listed \/ RecentRefetch
    <3>1. /\ call[s] \in CallStates /\ queue \in Seq(Calls) /\ Holds(s)
          /\ call[s].stage = "fetched" /\ now' = now
          /\ Conclude(s, call[s], call[s].keys, Tail(queue))
          /\ call[s].listed => call[s].kid \in call[s].keys
      BY <2>0, <2>6 DEF StoreKeys, TypeOK, CallInv
    <3>2. call[s].keys \in SUBSET Kids /\ Tail(queue) \in Seq(Calls)
      BY <3>1 DEF CallStates, Holds
    <3> QED
      BY <2>2, <3>1, <3>2
  <2>7. ASSUME NEW s \in Calls, FetchJwks(s) \/ FetchFails(s) \/ Leave(s)
        PROVE  ~call'[r].listed \/ RecentRefetch
    <3>1. call[s] \in CallStates
      BY <2>0 DEF TypeOK
    <3>2. r # s => call'[r] = call[r]
      BY <2>0, <2>7 DEF FetchJwks, FetchFails, Leave, Ends, TypeOK
    <3>3. CASE FetchJwks(s)
      <4>1. call'[s] = [call[s] EXCEPT !.stage = "fetched", !.keys = published]
        BY <2>0, <3>3 DEF FetchJwks, TypeOK
      <4> QED
        BY <3>1, <3>2, <4>1 DEF TurnedAway, CallStates
    <3>4. CASE FetchFails(s)
      <4>1. call'[s] = [call[s] EXCEPT !.stage = "done", !.outcome = "error"]
        BY <2>0, <3>4 DEF FetchFails, Ends, TypeOK
      <4> QED
        BY <3>1, <3>2, <4>1 DEF TurnedAway, CallStates
    <3>5. CASE Leave(s)
      BY <2>0, <3>2, <3>5 DEF Leave, NoCall, TurnedAway, TypeOK
    <3> QED
      BY <2>7, <3>3, <3>4, <3>5
  <2> QED
    BY <2>3, <2>4, <2>5, <2>6, <2>7 DEF Next, CallStep
<1> QED
  BY <1>1, Invariance, PTL DEF Spec, RejectedForCause
-----------------------------------------------------------------------------
(***************************************************************************)
(* The lock, as far as waiting for it is a matter of safety.  That every   *)
(* request is answered is left to TLC.                                     *)
(***************************************************************************)
AtTheLock == {"waiting", "fetching", "fetched"}
Talking == {"fetching", "fetched"}

IsIn(q, r) == \E i \in DOMAIN q : q[i] = r
OnceEach(q) == \A i, j \in DOMAIN q : q[i] = q[j] => i = j

(* The queue is made of those who want the lock, each of them once.        *)
QueueInv ==
    /\ OnceEach(queue)
    /\ \A r \in Calls : IsIn(queue, r) <=> call[r].stage \in AtTheLock

(* Whoever waits for the lock waits behind a request that has a step to    *)
(* take, never behind one that has gone; and one request at a time talks   *)
(* to Site Auth.                                                           *)
LockIsServed ==
    /\ \A r \in Calls :
         call[r].stage = "waiting" =>
           queue # <<>> /\ Head(queue) \in Calls /\ call[Head(queue)].stage \in AtTheLock
    /\ \A r, s \in Calls : {call[r].stage, call[s].stage} \subseteq Talking => r = s

LEMMA Joining ==
    ASSUME NEW q \in Seq(Calls), NEW r \in Calls, OnceEach(q), ~IsIn(q, r)
    PROVE  /\ OnceEach(Append(q, r))
           /\ \A s \in Calls : IsIn(Append(q, r), s) <=> IsIn(q, s) \/ s = r
<1> DEFINE p == Append(q, r)
<1>1. /\ DOMAIN p = 1 .. Len(q) + 1 /\ DOMAIN q = 1 .. Len(q) /\ Len(q) \in Nat
      /\ p[Len(q) + 1] = r
      /\ \A i \in 1 .. Len(q) : p[i] = q[i]
  OBVIOUS
<1> HIDE DEF p
<1>2. OnceEach(p)
  BY <1>1 DEF OnceEach, IsIn
<1>3. \A s \in Calls : IsIn(p, s) <=> IsIn(q, s) \/ s = r
  BY <1>1 DEF IsIn
<1> QED
  BY <1>2, <1>3 DEF p

LEMMA Leaving ==
    ASSUME NEW q \in Seq(Calls), q # <<>>, OnceEach(q)
    PROVE  /\ Tail(q) \in Seq(Calls)
           /\ OnceEach(Tail(q))
           /\ \A s \in Calls : IsIn(Tail(q), s) <=> IsIn(q, s) /\ s # Head(q)
<1> DEFINE p == Tail(q)
<1>1. /\ DOMAIN p = 1 .. Len(q) - 1 /\ DOMAIN q = 1 .. Len(q) /\ Len(q) \in Nat \ {0}
      /\ Head(q) = q[1]
      /\ \A i \in 1 .. Len(q) - 1 : p[i] = q[i + 1]
      /\ p \in Seq(Calls)
  OBVIOUS
<1> HIDE DEF p
<1>2. OnceEach(p)
  <2> SUFFICES ASSUME NEW i \in DOMAIN p, NEW j \in DOMAIN p, p[i] = p[j] PROVE i = j
    BY DEF OnceEach
  <2>1. i + 1 \in DOMAIN q /\ j + 1 \in DOMAIN q /\ q[i + 1] = q[j + 1]
    BY <1>1
  <2>2. i + 1 = j + 1
    BY <2>1 DEF OnceEach
  <2> QED
    BY <1>1, <2>2
<1>3. ASSUME NEW s \in Calls, IsIn(p, s) PROVE IsIn(q, s) /\ s # Head(q)
  <2>1. PICK i \in 1 .. Len(q) - 1 : q[i + 1] = s
    BY <1>1, <1>3 DEF IsIn
  <2>2. i + 1 \in DOMAIN q /\ i + 1 # 1 /\ 1 \in DOMAIN q
    BY <1>1, <2>1
  <2> QED
    BY <1>1, <2>1, <2>2 DEF IsIn, OnceEach
<1>4. ASSUME NEW s \in Calls, IsIn(q, s), s # Head(q) PROVE IsIn(p, s)
  <2>1. PICK i \in 1 .. Len(q) : q[i] = s
    BY <1>1, <1>4 DEF IsIn
  <2>2. i - 1 \in 1 .. Len(q) - 1 /\ (i - 1) + 1 = i
    BY <1>1, <1>4, <2>1
  <2>3. p[i - 1] = s
    BY <1>1, <2>1, <2>2
  <2> QED
    BY <1>1, <2>2, <2>3 DEF IsIn
<1> QED
  BY <1>1, <1>2, <1>3, <1>4 DEF p

(* r is in no queue and ends, or goes to the end of q.                     *)
LEMMA ConcludingQueue ==
    ASSUME Inv, NEW r \in Calls, NEW c \in CallStates, NEW q \in Seq(Calls), OnceEach(q),
           \A s \in Calls : IsIn(q, s) <=> s # r /\ call[s].stage \in AtTheLock,
           \/ queue' = q /\ \E o : Ends(r, c, o)
           \/ queue' = Append(q, r) /\ \E force : Waits(r, c, force)
    PROVE  QueueInv'
<1>1. call \in [Calls -> CallStates]
  BY DEF Inv, TypeOK
<1>2. CASE queue' = q /\ \E o : Ends(r, c, o)
  <2>0. PICK o : call' = [call EXCEPT ![r] = [c EXCEPT !.stage = "done", !.outcome = o]]
    BY <1>2 DEF Ends
  <2>1. call'[r].stage = "done" /\ \A s \in Calls \ {r} : call'[s] = call[s]
    BY <1>1, <2>0 DEF CallStates
  <2> QED
    BY <1>2, <2>1 DEF QueueInv, AtTheLock
<1>3. CASE queue' = Append(q, r) /\ \E force : Waits(r, c, force)
  <2>0. PICK force : call' = [call EXCEPT ![r] = [c EXCEPT !.stage = "waiting", !.force = force]]
    BY <1>3 DEF Waits
  <2>1. call'[r].stage = "waiting" /\ \A s \in Calls \ {r} : call'[s] = call[s]
    BY <1>1, <2>0 DEF CallStates
  <2>2. OnceEach(queue') /\ \A s \in Calls : IsIn(queue', s) <=> IsIn(q, s) \/ s = r
    BY <1>3, Joining
  <2> QED
    BY <2>1, <2>2 DEF QueueInv, AtTheLock
<1> QED
  BY <1>2, <1>3

LEMMA QueueStep ==
    ASSUME Inv, QueueInv, [Next]_jwksVars
    PROVE  QueueInv'
<1>0. /\ call \in [Calls -> CallStates] /\ queue \in Seq(Calls)
      /\ \A r \in Calls : call[r].stage \in Talking => Holds(r)
  BY DEF Inv, TypeOK, CallInv, Talking
<1>1. ASSUME queue' = queue,
             \A r \in Calls : call'[r].stage \in AtTheLock <=> call[r].stage \in AtTheLock
      PROVE  QueueInv'
  BY <1>1 DEF QueueInv
<1>2. CASE Tick \/ RotateKeys \/ UNCHANGED jwksVars
  <2>1. queue' = queue /\ \A r \in Calls : call'[r].stage = call[r].stage
    BY <1>0, <1>2 DEF Tick, RotateKeys, jwksVars, CallStates
  <2> QED
    BY <1>1, <2>1
<1>3. ASSUME NEW r \in Calls, Holds(r), NEW c \in CallStates, NEW keys,
             call[r].stage \in AtTheLock, Conclude(r, c, keys, Tail(queue))
      PROVE  QueueInv'
  <2>1. /\ Tail(queue) \in Seq(Calls) /\ OnceEach(Tail(queue))
        /\ \A s \in Calls : IsIn(Tail(queue), s) <=> IsIn(queue, s) /\ s # r
    BY <1>0, <1>3, Leaving DEF Holds, QueueInv
  <2>2. \A s \in Calls : IsIn(Tail(queue), s) <=> s # r /\ call[s].stage \in AtTheLock
    BY <2>1 DEF QueueInv
  <2> QED
    BY <1>3, <2>1, <2>2, ConcludingQueue DEF Conclude
<1>4. ASSUME NEW r \in Calls, VerifySignature(r) PROVE QueueInv'
  <2>1. PICK k \in Kids :
          \/ Conclude(r, Arrived(k), jwks.keys, queue)
          \/ Waits(r, Arrived(k), FALSE) /\ queue' = Append(queue, r)
    BY <1>4 DEF VerifySignature
  <2>2. Arrived(k) \in CallStates
    BY ArrivedType
  <2>3. \A s \in Calls : IsIn(queue, s) <=> s # r /\ call[s].stage \in AtTheLock
    BY <1>4 DEF QueueInv, VerifySignature, AtTheLock
  <2>4. OnceEach(queue)
    BY DEF QueueInv
  <2>5. \/ queue' = queue /\ \E o : Ends(r, Arrived(k), o)
        \/ queue' = Append(queue, r) /\ \E force : Waits(r, Arrived(k), force)
    BY <2>1 DEF Conclude
  <2> QED
    BY <1>0, <2>2, <2>3, <2>4, <2>5, ConcludingQueue
<1>5. ASSUME NEW r \in Calls, Acquire(r) PROVE QueueInv'
  <2>1. CASE Fetching(r)
    <3>1. /\ queue' = queue /\ call[r].stage = "waiting" /\ call'[r].stage = "fetching"
          /\ \A s \in Calls \ {r} : call'[s] = call[s]
      BY <1>0, <1>5, <2>1 DEF Acquire, Fetching, CallStates
    <3> QED
      BY <1>1, <3>1 DEF AtTheLock
  <2>2. CASE Conclude(r, call[r], jwks.keys, Tail(queue))
    BY <1>0, <1>3, <1>5, <2>2 DEF Acquire, AtTheLock
  <2> QED
    BY <1>5, <2>1, <2>2 DEF Acquire
<1>6. ASSUME NEW r \in Calls, FetchJwks(r) \/ Leave(r) PROVE QueueInv'
  <2>1. /\ queue' = queue /\ \A s \in Calls \ {r} : call'[s] = call[s]
        /\ \/ call[r].stage = "fetching" /\ call'[r].stage = "fetched"
           \/ call[r].stage = "done" /\ call'[r].stage = "idle"
    BY <1>0, <1>6 DEF FetchJwks, Leave, NoCall, CallStates
  <2> QED
    BY <1>1, <2>1 DEF AtTheLock
<1>7. ASSUME NEW r \in Calls, FetchFails(r) PROVE QueueInv'
  <2>1. call[r].stage \in AtTheLock /\ Holds(r) /\ call[r] \in CallStates
    BY <1>0, <1>7 DEF FetchFails, AtTheLock, Talking
  <2>2. /\ Tail(queue) \in Seq(Calls) /\ OnceEach(Tail(queue))
        /\ \A s \in Calls : IsIn(Tail(queue), s) <=> IsIn(queue, s) /\ s # r
    BY <1>0, <2>1, Leaving DEF Holds, QueueInv
  <2>3. \A s \in Calls : IsIn(Tail(queue), s) <=> s # r /\ call[s].stage \in AtTheLock
    BY <2>2 DEF QueueInv
  <2>4. queue' = Tail(queue) /\ \E o : Ends(r, call[r], o)
    BY <1>7 DEF FetchFails
  <2> QED
    BY <2>1, <2>2, <2>3, <2>4, ConcludingQueue
<1>8. ASSUME NEW r \in Calls, StoreKeys(r) PROVE QueueInv'
  BY <1>0, <1>3, <1>8 DEF StoreKeys, AtTheLock, Talking
<1> QED
  BY <1>2, <1>4, <1>5, <1>6, <1>7, <1>8 DEF Next, CallStep

(* However fetches end (site_auth.py:97-107), the lock passes on: nobody   *)
(* is left behind a request that has gone, and one fetch is under way at a *)
(* time, for any number of requests.                                       *)
THEOREM TheLockPassesOn == Spec => []LockIsServed
<1>1. Init => QueueInv
  BY DEF Init, QueueInv, OnceEach, IsIn, NoCall, AtTheLock
<1>2. Inv /\ QueueInv /\ [Next]_jwksVars => QueueInv'
  BY QueueStep
<1>3. Inv /\ QueueInv => LockIsServed
  <2> SUFFICES ASSUME Inv, QueueInv PROVE LockIsServed
    OBVIOUS
  <2>1. ASSUME NEW r \in Calls, call[r].stage = "waiting"
        PROVE  queue # <<>> /\ Head(queue) \in Calls /\ call[Head(queue)].stage \in AtTheLock
    <3>1. IsIn(queue, r) /\ queue \in Seq(Calls)
      BY <2>1 DEF Inv, TypeOK, QueueInv, AtTheLock
    <3>2. queue # <<>> /\ Head(queue) \in Calls /\ IsIn(queue, Head(queue))
      BY <3>1 DEF IsIn
    <3> QED
      BY <3>2 DEF QueueInv
  <2>2. ASSUME NEW r \in Calls, NEW s \in Calls,
               {call[r].stage, call[s].stage} \subseteq Talking
        PROVE  r = s
    BY <2>2 DEF Inv, CallInv, Holds, Talking
  <2> QED
    BY <2>1, <2>2 DEF LockIsServed
<1> QED
  BY <1>1, <1>2, <1>3, InitInv, NextInv, PTL DEF Spec
=============================================================================

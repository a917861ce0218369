------------------------------- MODULE JwksCache -------------------------------
(***************************************************************************)
(* The signing keys SiteAuthClient keeps (core/site_auth.py): _keys,       *)
(* _key_for and _fetch_jwks.                                               *)
(*                                                                         *)
(* A request looks its kid up in the cached key set.  A stale set is       *)
(* fetched again under an asyncio lock that is checked twice; a kid the    *)
(* set does not have forces one more fetch, at most once per cooldown.     *)
(* Only the lock and the HTTP call suspend a coroutine, so everything      *)
(* between them is one action.  asyncio.Lock is first come, first served:  *)
(* the head of queue holds it.                                             *)
(***************************************************************************)
EXTENDS Naturals, Sequences

CONSTANTS
    Kids,
    Calls,          \* requests whose signature is being verified
    CacheSec,       \* site_auth_jwks_cache_sec
    MinRefetch,     \* jwks_min_refetch_sec
    MaxTime,        \* bound: the last tick
    MaxRotations,   \* bound: changes of the published key set
    None

ASSUME JwksAssumption ==
    /\ {CacheSec, MinRefetch} \subseteq Nat \ {0}
    /\ MaxTime \in Nat /\ MaxRotations \in Nat
    /\ None \notin Kids
    /\ None \notin [keys : SUBSET Kids, expires : Nat]

VARIABLES
    now,            \* time.monotonic()
    published,      \* Site Auth: the kids it lists with an allowed algorithm
    rotations,      \* how often that changed
    jwks,           \* _jwks
    lastForced,     \* _last_forced_refetch
    queue,          \* _lock: its holder and those who wait for it
    call,           \* each request's _key_for
    refetches       \* history variable: when forced refetches were decided on

jwksVars == <<now, published, rotations, jwks, lastForced, queue, call, refetches>>

KeySets == [keys : SUBSET Kids, expires : Nat]
CallStates == [stage : {"idle", "waiting", "fetching", "fetched", "done"},
               kid : Kids \cup {None}, force : BOOLEAN, keys : SUBSET Kids,
               listed : BOOLEAN, outcome : {"none", "known", "unknown", "error"}]

(* listed: the kid has been published ever since the request came. *)
NoCall == [stage |-> "idle", kid |-> None, force |-> FALSE, keys |-> {},
           listed |-> FALSE, outcome |-> "none"]
Arrived(k) == [NoCall EXCEPT !.kid = k, !.listed = k \in published]

TypeOK ==
    /\ now \in Nat /\ rotations \in Nat /\ lastForced \in Nat
    /\ published \in SUBSET Kids
    /\ jwks \in KeySets \cup {None}
    /\ queue \in Seq(Calls)
    /\ call \in [Calls -> CallStates]
    /\ refetches \in Seq(Nat)

(* The host has been up for a cooldown when the process starts. *)
Init ==
    /\ now = MinRefetch
    /\ published \in SUBSET Kids
    /\ rotations = 0
    /\ jwks = None
    /\ lastForced = 0
    /\ queue = <<>>
    /\ call = [r \in Calls |-> NoCall]
    /\ refetches = <<>>

Tick ==
    /\ now < MaxTime
    /\ now' = now + 1
    /\ UNCHANGED <<published, rotations, jwks, lastForced, queue, call, refetches>>

RotateKeys ==
    /\ rotations < MaxRotations
    /\ published' \in SUBSET Kids
    /\ rotations' = rotations + 1
    /\ call' = [r \in Calls |->
                  [call[r] EXCEPT !.listed = @ /\ call[r].kid \in published']]
    /\ UNCHANGED <<now, jwks, lastForced, queue, refetches>>

Fresh == jwks # None /\ jwks.expires > now

Ends(r, c, outcome) == call' = [call EXCEPT ![r] = [c EXCEPT !.stage = "done", !.outcome = outcome]]
Waits(r, c, force) == call' = [call EXCEPT ![r] = [c EXCEPT !.stage = "waiting", !.force = force]]

CoolingDown == now - lastForced < MinRefetch

(* Mutant: the cooldown is checked and never started. *)
ConcludeWithoutCooldown(r, c, keys, q) ==
    \/ /\ c.kid \in keys
       /\ Ends(r, c, "known") /\ queue' = q
       /\ UNCHANGED <<lastForced, refetches>>
    \/ /\ c.kid \notin keys
       /\ c.force \/ CoolingDown
       /\ Ends(r, c, "unknown") /\ queue' = q
       /\ UNCHANGED <<lastForced, refetches>>
    \/ /\ c.kid \notin keys
       /\ ~c.force /\ ~CoolingDown
       /\ refetches' = Append(refetches, now)
       /\ Waits(r, c, TRUE) /\ queue' = Append(q, r)
       /\ UNCHANGED lastForced

(* _keys has returned keys to request r, whose state is c, and q is what   *)
(* is left of the queue.  The kid is there, or the request gives up, or it *)
(* starts the cooldown and asks for the lock again.                        *)
Conclude(r, c, keys, q) ==
    \/ /\ c.kid \in keys
       /\ Ends(r, c, "known") /\ queue' = q
       /\ UNCHANGED <<lastForced, refetches>>
    \/ /\ c.kid \notin keys
       /\ c.force \/ CoolingDown
       /\ Ends(r, c, "unknown") /\ queue' = q
       /\ UNCHANGED <<lastForced, refetches>>
    \/ /\ c.kid \notin keys
       /\ ~c.force /\ ~CoolingDown
       /\ lastForced' = now /\ refetches' = Append(refetches, now)
       /\ Waits(r, c, TRUE) /\ queue' = Append(q, r)

VerifySignature(r) ==
    /\ call[r].stage = "idle"
    /\ \E k \in Kids :
         \/ Fresh /\ Conclude(r, Arrived(k), jwks.keys, queue)
         \/ ~Fresh /\ Waits(r, Arrived(k), FALSE) /\ queue' = Append(queue, r)
                   /\ UNCHANGED <<lastForced, refetches>>
    /\ UNCHANGED <<now, published, rotations, jwks>>

Holds(r) == queue # <<>> /\ Head(queue) = r

Fetching(r) ==
    /\ call' = [call EXCEPT ![r].stage = "fetching"]
    /\ UNCHANGED <<lastForced, queue, refetches>>

(* Mutants: the second check of the double-checked lock is missing; it     *)
(* also stops a forced fetch.                                              *)
AcquireBlind(r) ==
    /\ call[r].stage = "waiting" /\ Holds(r)
    /\ Fetching(r)
    /\ UNCHANGED <<now, published, rotations, jwks>>
AcquireIgnoringForce(r) ==
    /\ call[r].stage = "waiting" /\ Holds(r)
    /\ \/ Fresh /\ Conclude(r, call[r], jwks.keys, Tail(queue))
       \/ ~Fresh /\ Fetching(r)
    /\ UNCHANGED <<now, published, rotations, jwks>>

(* The lock is ours; whoever held it may have filled the cache. *)
Acquire(r) ==
    /\ call[r].stage = "waiting" /\ Holds(r)
    /\ \/ ~call[r].force /\ Fresh /\ Conclude(r, call[r], jwks.keys, Tail(queue))
       \/ (call[r].force \/ ~Fresh) /\ Fetching(r)
    /\ UNCHANGED <<now, published, rotations, jwks>>

(* Site Auth answers; the answer is on its way. *)
FetchJwks(r) ==
    /\ call[r].stage = "fetching"
    /\ call' = [call EXCEPT ![r].stage = "fetched", ![r].keys = published]
    /\ UNCHANGED <<now, published, rotations, jwks, lastForced, queue, refetches>>

(* Mutants: an error leaves the lock taken; an error is cached for good,   *)
(* as no keys at all.                                                      *)
FetchFailsHolding(r) ==
    /\ call[r].stage \in {"fetching", "fetched"}
    /\ Ends(r, call[r], "error")
    /\ UNCHANGED <<now, published, rotations, jwks, lastForced, queue, refetches>>
FetchFailsCaching(r) ==
    /\ call[r].stage \in {"fetching", "fetched"}
    /\ Ends(r, call[r], "error")
    /\ queue' = Tail(queue)
    /\ jwks' = [keys |-> {}, expires |-> None]
    /\ UNCHANGED <<now, published, rotations, lastForced, refetches>>

(* Timeout, refused connection, HTTP error or a body that does not parse:  *)
(* the lock is released, the caller gets the exception, and a cooldown     *)
(* once started stays started.                                             *)
FetchFails(r) ==
    /\ call[r].stage \in {"fetching", "fetched"}
    /\ Ends(r, call[r], "error")
    /\ queue' = Tail(queue)
    /\ UNCHANGED <<now, published, rotations, jwks, lastForced, refetches>>

StoreKeys(r) ==
    /\ call[r].stage = "fetched"
    /\ jwks' = [keys |-> call[r].keys, expires |-> now + CacheSec]
    /\ Conclude(r, call[r], call[r].keys, Tail(queue))
    /\ UNCHANGED <<now, published, rotations>>

Leave(r) ==
    /\ call[r].stage = "done"
    /\ call' = [call EXCEPT ![r] = NoCall]
    /\ UNCHANGED <<now, published, rotations, jwks, lastForced, queue, refetches>>

CallStep(r) == Acquire(r) \/ FetchJwks(r) \/ FetchFails(r) \/ StoreKeys(r)

Next ==
    \/ Tick
    \/ RotateKeys
    \/ \E r \in Calls : VerifySignature(r) \/ CallStep(r) \/ Leave(r)

Spec == Init /\ [][Next]_jwksVars

(* The HTTP client has a timeout and the event loop runs what is ready. *)
FairSpec == Spec /\ \A r \in Calls : WF_jwksVars(CallStep(r))

-----------------------------------------------------------------------------
(* An unknown kid is no lever on Site Auth (site_auth.py:71-74): however   *)
(* many requests bring one, and whatever becomes of the fetches, two       *)
(* forced refetches are decided on at least a cooldown apart.              *)
ForcedRefetchesApart ==
    \A i, j \in DOMAIN refetches :
      i < j => refetches[j] >= refetches[i] + MinRefetch

(* Those who waited for the lock use what its holder fetched: no unforced  *)
(* fetch is on its way while the cache is good.                            *)
FetchOnlyWhenStale ==
    \A r \in Calls :
      call[r].stage \in {"fetching", "fetched"} /\ ~call[r].force => ~Fresh

TurnedAway(r) == call'[r].outcome = "unknown" /\ call[r].outcome # "unknown"
RecentRefetch == \E i \in DOMAIN refetches : now < refetches[i] + MinRefetch

(* A key rotation is no outage (site_auth.py:112): a token is turned away  *)
(* as unknown only if its kid was not published all the while, or someone  *)
(* forced a refetch less than a cooldown ago.                              *)
RejectedForCause ==
    [][\A r \in Calls : TurnedAway(r) => ~call'[r].listed \/ RecentRefetch]_jwksVars

(* Every request gets its answer, also behind a holder whose fetch fails. *)
RequestAnswered == \A r \in Calls : call[r].stage = "waiting" ~> call[r].stage = "done"
=============================================================================

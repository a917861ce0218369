------------------------------ MODULE RateLimit ------------------------------
(***************************************************************************)
(* The fixed-window limit on endpoint probes (api/rate_limit.py), for one  *)
(* bucket of one process.                                                  *)
(*                                                                         *)
(* _hit takes the time, reads the caller's counter and writes it back.     *)
(* For the "refresh" bucket it runs on the event loop, one call at a time. *)
(* For "preview" and "health" it is a synchronous dependency, so the       *)
(* framework runs it in a thread pool, and nothing makes the three steps   *)
(* one: they are three actions here, and Threads says how many calls may   *)
(* be in them.  A limit of 0 or less returns before _hit and is left out.  *)
(***************************************************************************)
EXTENDS Integers, Sequences, FiniteSets

CONSTANTS
    Users,
    Threads,
    Limit,      \* connector_probe_rate_limit_per_min
    Window,     \* _WINDOW_SEC, in ticks of the model's clock
    Second,     \* ticks in a second: Retry-After counts whole seconds
    MaxTime,    \* bound: the last tick
    None

ASSUME RateAssumption ==
    /\ {Limit, Window, Second} \subseteq Nat \ {0}
    /\ MaxTime \in Nat
    /\ None \notin [started : Nat, count : Nat]
    /\ None \notin [until : Nat, admitted : Nat]

VARIABLES
    now,        \* time.monotonic()
    counter,    \* _COUNTERS[bucket]: None for a user never counted
    call,       \* each thread's _hit
    admitted,   \* history variable: when each user's calls were let through
    refused     \* history variable: what each user's last 429 said

rateVars == <<now, counter, call, admitted, refused>>

Counters == [started : Nat, count : Nat]
Idle == [stage |-> "idle", user |-> None, at |-> 0, started |-> 0, count |-> 0]

TypeOK ==
    /\ now \in Nat
    /\ counter \in [Users -> Counters \cup {None}]
    /\ call \in [Threads -> [stage : {"idle", "timed", "read"}, user : Users \cup {None},
                             at : Nat, started : Nat, count : Nat]]
    /\ admitted \in [Users -> Seq(Nat)]
    /\ refused \in [Users -> [until : Nat, admitted : Nat] \cup {None}]

Init ==
    /\ now = 0
    /\ counter = [u \in Users |-> None]
    /\ call = [t \in Threads |-> Idle]
    /\ admitted = [u \in Users |-> <<>>]
    /\ refused = [u \in Users |-> None]

(* No call is slower than the clock's tick. *)
Tick ==
    /\ now < MaxTime
    /\ \A t \in Threads : call[t].stage = "idle" \/ call[t].at = now
    /\ now' = now + 1
    /\ UNCHANGED <<counter, call, admitted, refused>>

TakeTime(t) ==
    /\ call[t].stage = "idle"
    /\ \E u \in Users :
         call' = [call EXCEPT ![t] = [Idle EXCEPT !.stage = "timed", !.user = u, !.at = now]]
    /\ UNCHANGED <<now, counter, admitted, refused>>

(* Mutants: a window that ends early, one that never ends, one that starts *)
(* in the past.                                                            *)
CurrentTooSoon(stored, at) ==
    IF stored # None /\ at + 2 < stored.started + Window THEN stored
    ELSE [started |-> at, count |-> 0]
CurrentForever(stored, at) ==
    IF stored # None THEN stored ELSE [started |-> at, count |-> 0]
CurrentBackdated(stored, at) ==
    IF stored # None /\ at < stored.started + Window THEN stored
    ELSE [started |-> at - Window, count |-> 0]

(* The counter a call goes on with: the stored one, or a new one if there  *)
(* is none or its window is over.                                          *)
Current(stored, at) ==
    IF stored # None /\ at < stored.started + Window THEN stored
    ELSE [started |-> at, count |-> 0]

ReadCounter(t) ==
    /\ call[t].stage = "timed"
    /\ LET c == Current(counter[call[t].user], call[t].at)
       IN  call' = [call EXCEPT ![t].stage = "read", ![t].started = c.started,
                                ![t].count = c.count]
    /\ UNCHANGED <<now, counter, admitted, refused>>

Admit(t) ==
    /\ call[t].stage = "read"
    /\ call[t].count < Limit
    /\ counter' = [counter EXCEPT ![call[t].user] =
                     [started |-> call[t].started, count |-> call[t].count + 1]]
    /\ admitted' = [admitted EXCEPT ![call[t].user] = Append(@, call[t].at)]
    /\ call' = [call EXCEPT ![t] = Idle]
    /\ UNCHANGED <<now, refused>>

(* Mutant: the remaining time is rounded down. *)
RetryAfterRoundedDown(remaining) == Second * (remaining \div Second)

(* Retry-After: max(1, int(remaining) + 1) seconds, in ticks *)
RetryAfter(remaining) == Second * ((remaining \div Second) + 1)

Refuse(t) ==
    /\ call[t].stage = "read"
    /\ call[t].count >= Limit
    /\ refused' = [refused EXCEPT ![call[t].user] =
                     [until |-> call[t].at
                                  + RetryAfter(call[t].started + Window - call[t].at),
                      admitted |-> Len(admitted[call[t].user])]]
    /\ call' = [call EXCEPT ![t] = Idle]
    /\ UNCHANGED <<now, counter, admitted>>

Next ==
    \/ Tick
    \/ \E t \in Threads : TakeTime(t) \/ ReadCounter(t) \/ Admit(t) \/ Refuse(t)

Spec == Init /\ [][Next]_rateVars

-----------------------------------------------------------------------------
AdmittedWithin(u, from, to) ==
    Cardinality({i \in 1 .. Len(admitted[u]) : admitted[u][i] \in from .. to})

(* "At a boundary at most twice the limit passes" (rate_limit.py:35): no   *)
(* stretch as long as a window lets more than 2 * Limit calls through.     *)
TwiceTheLimitAtMost ==
    \A u \in Users, from \in 0 .. now :
      AdmittedWithin(u, from, from + Window - 1) <= 2 * Limit

Refuses(t) == call[t].stage = "read" /\ call'[t].stage = "idle" /\ admitted' = admitted

(* A call is refused only for cause: Limit calls of the same user passed   *)
(* since one window's length before it.                                    *)
RefusedForCause ==
    [][\A t \in Threads : Refuses(t) =>
         AdmittedWithin(call[t].user, (call[t].at - Window) + 1, now) >= Limit]_rateVars

(* Retry-After is honest: who waits as long as the last 429 said is        *)
(* refused again only after Limit further calls of the same user passed.   *)
RetryAfterSuffices ==
    [][\A t \in Threads :
         LET u == call[t].user
         IN  Refuses(t) /\ refused[u] # None /\ call[t].at >= refused[u].until
               => Len(admitted[u]) >= refused[u].admitted + Limit]_rateVars
=============================================================================

--------------------------- MODULE ConnectorHealth ---------------------------
(***************************************************************************)
(* Who writes a connector's health row, and when.                          *)
(*                                                                         *)
(* Two kinds of prober write connector_health_checks: the sweep tasks of   *)
(* the liveness workers (worker/liveness.py) and the manual rechecks of    *)
(* the API (POST /connectors/{id}/health-check).  Both read the card,      *)
(* close their transaction, talk to the endpoint for seconds, then record  *)
(* the result in a short transaction.  Meanwhile the owner edits or        *)
(* deletes the card and other probers record their own results.            *)
(*                                                                         *)
(* A recording transaction is one action, because its first statement      *)
(* locks the health row until COMMIT: nothing that reads or writes the row *)
(* can come between.  Its BEGIN is an action of its own, because now() is  *)
(* the time of BEGIN and another transaction may commit before the row is  *)
(* locked.  Timestamps of distinct transactions are taken to be distinct   *)
(* (PostgreSQL's clock counts microseconds).                               *)
(***************************************************************************)
EXTENDS Naturals, Sequences, FiniteSets

CONSTANTS
    Cards,          \* numbers: the order of the cards' uuids
    Workers,        \* replicas of the worker process
    Requests,       \* manual recheck requests that may be open at once
    Endpoints,
    Transports,     \* {"streamable_http", "sse"}
    None,           \* SQL NULL; also "nobody holds the lock"
    Down,           \* the verdict of a probe that failed
    Concurrency,    \* connector_outbound_concurrency
    BatchLimit,     \* connector_liveness_batch_limit
    MaxClock,       \* bound: recording transactions in a behaviour
    MaxDrops        \* bound: lost lock sessions in a behaviour

SweepTasks == Workers \X Cards
Probers == SweepTasks \cup Requests

ASSUME CardsAssumption == Cards \subseteq Nat
ASSUME NoneAssumption ==
    /\ None \notin Nat \cup Workers \cup Endpoints \cup Transports \cup Cards
    /\ Down \notin Transports \cup {None}
ASSUME ProbersAssumption == Requests \cap SweepTasks = {}
ASSUME NoneIsNoRow ==
    /\ None \notin [status : {"unknown", "healthy", "unhealthy"}, fails : Nat, posts : Nat]
    /\ None \notin [card : Cards, posts : Nat]
ASSUME LimitsAssumption ==
    /\ Concurrency \in Nat \ {0}
    /\ BatchLimit \in Nat \ {0}
    /\ MaxClock \in Nat
    /\ MaxDrops \in Nat

VARIABLES
    card,       \* connectors: the columns this component reads or writes
    health,     \* connector_health_checks
    history,    \* history variable: every result committed for a card
    clock,      \* the time the next recording transaction will begin at
    lock,       \* the worker whose session holds the advisory lock
    drops,      \* lock sessions lost so far
    sweep,      \* where each worker is in its tick
    probe       \* where each prober is, and what it has read so far

vars == <<card, health, history, clock, lock, drops, sweep, probe>>

Times == Nat \cup {None}
Verdicts == Transports \cup {Down}

NeverChecked == [status |-> "unknown", at |-> None, fails |-> 0]

Idle(outcome) ==
    [stage |-> "idle", card |-> None, seen |-> None, read |-> 0,
     transport |-> None, verdict |-> None, at |-> None, outcome |-> outcome]

(* A prober that has read card c; only sweep tasks keep what they saw.     *)
Assigned(stage, c, seen, read) ==
    [stage |-> stage, card |-> c, seen |-> seen, read |-> read,
     transport |-> card[c].transport, verdict |-> None, at |-> None, outcome |-> "none"]

(* The same prober one step further. *)
Moved(p, stage, verdict, at) ==
    [stage |-> stage, card |-> p.card, seen |-> p.seen, read |-> p.read,
     transport |-> p.transport, verdict |-> verdict, at |-> at, outcome |-> "none"]

(***************************************************************************)
(* What a PATCH or POST body may say after check_consistency: a transport  *)
(* needs an endpoint.  The database CHECK endpoint_anchor says the same.   *)
(***************************************************************************)
Anchored(row) == row.transport # None => row.endpoint # None

Payloads ==
    {p \in [endpoint : Endpoints \cup {None}, transport : Transports \cup {None}] :
        Anchored(p)}

CardRows == [state : {"unborn", "live", "gone"},
             endpoint : Endpoints \cup {None}, transport : Transports \cup {None}]
HealthRows == [status : {"unknown", "healthy", "unhealthy"}, at : Times, fails : Nat]
Stages == {"idle", "queued", "probing", "answered", "begun"}
Outcomes == {"none", "healthy", "unhealthy", "superseded", "error"}
ProbeStates == [stage : Stages, card : Cards \cup {None}, seen : Times, read : Nat,
                transport : Transports \cup {None}, verdict : Verdicts \cup {None},
                at : Times, outcome : Outcomes]

TypeOK ==
    /\ card \in [Cards -> CardRows]
    /\ health \in [Cards -> HealthRows]
    /\ history \in [Cards -> Seq(BOOLEAN)]
    /\ clock \in Nat
    /\ lock \in Workers \cup {None}
    /\ drops \in Nat
    /\ sweep \in [Workers -> {"idle", "locked", "sweeping"}]
    /\ probe \in [Probers -> ProbeStates]

-----------------------------------------------------------------------------
Init ==
    /\ card = [c \in Cards |-> [state |-> "unborn", endpoint |-> None, transport |-> None]]
    /\ health = [c \in Cards |-> NeverChecked]
    /\ history = [c \in Cards |-> <<>>]
    /\ clock = 1
    /\ lock = None
    /\ drops = 0
    /\ sweep = [w \in Workers |-> "idle"]
    /\ probe = [a \in Probers |-> Idle("none")]

Live(c) == card[c].state = "live"
Probeable(c) == Live(c) /\ card[c].endpoint # None /\ card[c].transport # None

(***************************************************************************)
(* Bound: nothing starts that MaxClock leaves no timestamp for, so         *)
(* whatever has started can also finish.                                   *)
(***************************************************************************)
NextBatch ==
    LET n == Cardinality({c \in Cards : card[c].state # "gone"})
    IN  IF n < BatchLimit THEN n ELSE BatchLimit
Promised ==
    Cardinality({a \in Probers : probe[a].stage \in {"queued", "probing", "answered"}})
      + NextBatch * Cardinality({w \in Workers : sweep[w] = "locked"})
TimeLeftFor(n) == clock + Promised + n <= MaxClock + 1

-----------------------------------------------------------------------------
(***************************************************************************)
(* The owner of a card.                                                    *)
(***************************************************************************)

(* POST: card and health row in one transaction. *)
CreateConnector(c) ==
    /\ card[c].state = "unborn"
    /\ \E p \in Payloads :
         card' = [card EXCEPT ![c] = [state |-> "live", endpoint |-> p.endpoint,
                                      transport |-> p.transport]]
    /\ health' = [health EXCEPT ![c] = NeverChecked]
    /\ history' = [history EXCEPT ![c] = <<>>]
    /\ UNCHANGED <<clock, lock, drops, sweep, probe>>

(* PATCH: the body only; what was observed about the old endpoint stays. *)
UpdateConnector(c) ==
    /\ Live(c)
    /\ \E p \in Payloads :
         card' = [card EXCEPT ![c] = [state |-> "live", endpoint |-> p.endpoint,
                                      transport |-> p.transport]]
    /\ UNCHANGED <<health, history, clock, lock, drops, sweep, probe>>

(* DELETE: the health row goes with the card; the uuid never comes back. *)
DeleteConnector(c) ==
    /\ Live(c)
    /\ card' = [card EXCEPT ![c] = [state |-> "gone", endpoint |-> None, transport |-> None]]
    /\ health' = [health EXCEPT ![c] = NeverChecked]
    /\ history' = [history EXCEPT ![c] = <<>>]
    /\ UNCHANGED <<clock, lock, drops, sweep, probe>>

(* A tools refresh that fell back to the other transport: it began before  *)
(* this step, so any transport may be written; the CHECK wants an anchor.  *)
RefreshCorrectsTransport(c) ==
    /\ Live(c) /\ card[c].endpoint # None
    /\ \E t \in Transports : card' = [card EXCEPT ![c].transport = t]
    /\ UNCHANGED <<health, history, clock, lock, drops, sweep, probe>>

-----------------------------------------------------------------------------
(***************************************************************************)
(* A worker's tick.  A tick that finds the lock taken is skipped, which    *)
(* changes nothing here.                                                   *)
(***************************************************************************)
(* Mutant: the result of pg_try_advisory_lock is ignored. *)
TryLockIgnoringAnswer(w) ==
    /\ sweep[w] = "idle"
    /\ TimeLeftFor(NextBatch)
    /\ lock' = IF lock = None THEN w ELSE lock
    /\ sweep' = [sweep EXCEPT ![w] = "locked"]
    /\ UNCHANGED <<card, health, history, clock, drops, probe>>

TryLock(w) ==
    /\ sweep[w] = "idle"
    /\ lock = None
    /\ TimeLeftFor(NextBatch)
    /\ lock' = w
    /\ sweep' = [sweep EXCEPT ![w] = "locked"]
    /\ UNCHANGED <<card, health, history, clock, drops, probe>>

(* ORDER BY last_checked_at NULLS FIRST, connector_id *)
Before(c, d) ==
    \/ health[c].at = None /\ health[d].at # None
    \/ health[c].at # None /\ health[d].at # None /\ health[c].at < health[d].at
    \/ health[c].at = health[d].at /\ c < d

(* The first BatchLimit probeable cards in that order. *)
IsBatch(batch) ==
    LET eligible == {c \in Cards : Probeable(c)}
        left == eligible \ batch
    IN  /\ batch \subseteq eligible
        /\ \A c \in batch, d \in left : Before(c, d)
        /\ Cardinality(batch) <= BatchLimit
        /\ left # {} => Cardinality(batch) = BatchLimit

Queued(c) == Assigned("queued", c, health[c].at, Len(history[c]))

FetchCandidates(w) ==
    /\ sweep[w] = "locked"
    /\ \E batch \in SUBSET Cards :
         /\ IsBatch(batch)
         /\ probe' = [a \in Probers |->
               IF a \in {w} \X Cards
                 THEN IF a[2] \in batch THEN Queued(a[2]) ELSE Idle("none")
                 ELSE probe[a]]
    /\ sweep' = [sweep EXCEPT ![w] = "sweeping"]
    /\ UNCHANGED <<card, health, history, clock, lock, drops>>

InFlight(w) ==
    {c \in Cards : probe[<<w, c>>].stage \in {"probing", "answered", "begun"}}

(* The batch semaphore covers the probe and the recording. *)
StartProbe(w, c) ==
    /\ probe[<<w, c>>].stage = "queued"
    /\ Cardinality(InFlight(w)) < Concurrency
    /\ probe' = [probe EXCEPT ![<<w, c>>] = Moved(probe[<<w, c>>], "probing", None, None)]
    /\ UNCHANGED <<card, health, history, clock, lock, drops, sweep>>

ReleasedBy(w) == IF lock = w THEN None ELSE lock

(* gather has collected every task; the session's unlock runs. *)
FinishTick(w) ==
    /\ sweep[w] = "sweeping"
    /\ \A c \in Cards : probe[<<w, c>>].stage = "idle"
    /\ sweep' = [sweep EXCEPT ![w] = "idle"]
    /\ lock' = ReleasedBy(w)
    /\ UNCHANGED <<card, health, history, clock, drops, probe>>

(* The candidate query fails; finally still unlocks. *)
FetchFails(w) ==
    /\ sweep[w] = "locked"
    /\ sweep' = [sweep EXCEPT ![w] = "idle"]
    /\ lock' = ReleasedBy(w)
    /\ UNCHANGED <<card, health, history, clock, drops, probe>>

(* The database drops the idle lock session; the sweep does not notice. *)
LoseLockSession(w) ==
    /\ lock = w
    /\ drops < MaxDrops
    /\ lock' = None
    /\ drops' = drops + 1
    /\ UNCHANGED <<card, health, history, clock, sweep, probe>>

(* The process dies: open transactions roll back, its session ends. *)
CrashWorker(w) ==
    /\ sweep[w] # "idle"
    /\ sweep' = [sweep EXCEPT ![w] = "idle"]
    /\ lock' = ReleasedBy(w)
    /\ probe' = [a \in Probers |-> IF a \in {w} \X Cards THEN Idle("none") ELSE probe[a]]
    /\ UNCHANGED <<card, health, history, clock, drops>>

-----------------------------------------------------------------------------
(***************************************************************************)
(* A manual recheck reads the card, rolls back and probes at once.  A card *)
(* that is gone or has nothing to probe is answered without a change.      *)
(***************************************************************************)
RecheckHealth(r) ==
    /\ probe[r].stage = "idle"
    /\ TimeLeftFor(1)
    /\ \E c \in Cards :
         /\ Probeable(c)
         /\ probe' = [probe EXCEPT ![r] = Assigned("probing", c, None, 0)]
    /\ UNCHANGED <<card, health, history, clock, lock, drops, sweep>>

(* The API process dies with every request it is serving. *)
CrashApi ==
    /\ \E r \in Requests : probe[r].stage # "idle"
    /\ probe' = [a \in Probers |-> IF a \in Requests THEN Idle("none") ELSE probe[a]]
    /\ UNCHANGED <<card, health, history, clock, lock, drops, sweep>>

-----------------------------------------------------------------------------
(***************************************************************************)
(* Steps shared by both kinds of prober.                                   *)
(***************************************************************************)

(* check_liveness always answers: the transport that worked, or Down. *)
CheckLiveness(a) ==
    /\ probe[a].stage = "probing"
    /\ \E v \in Verdicts :
         probe' = [probe EXCEPT ![a] = Moved(probe[a], "answered", v, None)]
    /\ UNCHANGED <<card, health, history, clock, lock, drops, sweep>>

(* Mutant: a clock so coarse that two transactions get the same time. *)
BeginRecordingCoarse(a) ==
    /\ probe[a].stage = "answered"
    /\ probe' = [probe EXCEPT ![a] = Moved(probe[a], "begun", probe[a].verdict, clock)]
    /\ clock' \in {clock, clock + 1}
    /\ UNCHANGED <<card, health, history, lock, drops, sweep>>

(* BEGIN fixes now() for the recording transaction. *)
BeginRecording(a) ==
    /\ probe[a].stage = "answered"
    /\ probe' = [probe EXCEPT ![a] = Moved(probe[a], "begun", probe[a].verdict, clock)]
    /\ clock' = clock + 1
    /\ UNCHANGED <<card, health, history, lock, drops, sweep>>

(* Mutants: no guard at all; a guard that takes NULL for "don't care". *)
CasAlways(a) == TRUE
CasUnlessNull(a) ==
    a \in SweepTasks /\ probe[a].seen # None => health[probe[a].card].at = probe[a].seen

(* WHERE last_checked_at IS NOT DISTINCT FROM :seen, for sweep tasks only *)
CasHolds(a) == a \in SweepTasks => health[probe[a].card].at = probe[a].seen

Healthy(a) == probe[a].verdict # Down

(* Mutants: a status outside the vocabulary; a run of failures that a      *)
(* healthy result does not end.                                            *)
RecordedInOtherWords(a) ==
    [status |-> IF Healthy(a) THEN "ok" ELSE "unhealthy",
     at |-> probe[a].at,
     fails |-> IF Healthy(a) THEN 0 ELSE health[probe[a].card].fails + 1]

RecordedNeverResets(a) ==
    [status |-> IF Healthy(a) THEN "healthy" ELSE "unhealthy",
     at |-> probe[a].at,
     fails |-> health[probe[a].card].fails + IF Healthy(a) THEN 0 ELSE 1]

(* The upsert of record_health *)
Recorded(a) ==
    [status |-> IF Healthy(a) THEN "healthy" ELSE "unhealthy",
     at |-> probe[a].at,
     fails |-> IF Healthy(a) THEN 0 ELSE health[probe[a].card].fails + 1]

(* The fallback succeeded with another transport than the one read. *)
Corrects(a) == Healthy(a) /\ probe[a].verdict # probe[a].transport

CorrectedCard(a) ==
    LET row == card[probe[a].card]
    IN  IF Corrects(a) THEN [row EXCEPT !.transport = probe[a].verdict] ELSE row

Ends(a, outcome) == probe' = [probe EXCEPT ![a] = Idle(outcome)]

(* Foreign key: the card was deleted meanwhile.  CHECK: its endpoint was   *)
(* removed meanwhile.  Either rolls back the whole transaction.            *)
Rejected(a) ==
    \/ ~Live(probe[a].card)
    \/ CasHolds(a) /\ ~Anchored(CorrectedCard(a))

RecordRejected(a) ==
    /\ probe[a].stage = "begun"
    /\ Rejected(a)
    /\ Ends(a, "error")
    /\ UNCHANGED <<card, health, history, clock, lock, drops, sweep>>

(* The database fails, or picks this transaction as a deadlock victim. *)
RecordFails(a) ==
    /\ probe[a].stage = "begun"
    /\ Ends(a, "error")
    /\ UNCHANGED <<card, health, history, clock, lock, drops, sweep>>

(* Mutant: correct_transport runs whatever record_health answered. *)
RecordSupersededCorrecting(a) ==
    /\ probe[a].stage = "begun"
    /\ Live(probe[a].card) /\ ~CasHolds(a)
    /\ card' = [card EXCEPT ![probe[a].card] = CorrectedCard(a)]
    /\ Ends(a, "superseded")
    /\ UNCHANGED <<health, history, clock, lock, drops, sweep>>

RecordSuperseded(a) ==
    /\ probe[a].stage = "begun"
    /\ Live(probe[a].card) /\ ~CasHolds(a)
    /\ Ends(a, "superseded")
    /\ UNCHANGED <<card, health, history, clock, lock, drops, sweep>>

RecordHealth(a) ==
    /\ probe[a].stage = "begun"
    /\ ~Rejected(a) /\ CasHolds(a)
    /\ health' = [health EXCEPT ![probe[a].card] = Recorded(a)]
    /\ history' = [history EXCEPT ![probe[a].card] = Append(@, Healthy(a))]
    /\ card' = [card EXCEPT ![probe[a].card] = CorrectedCard(a)]
    /\ Ends(a, Recorded(a).status)
    /\ UNCHANGED <<clock, lock, drops, sweep>>

-----------------------------------------------------------------------------
OwnerStep(c) ==
    \/ CreateConnector(c)
    \/ UpdateConnector(c)
    \/ DeleteConnector(c)
    \/ RefreshCorrectsTransport(c)

TickStep(w) ==
    \/ TryLock(w)
    \/ FetchCandidates(w)
    \/ \E c \in Cards : StartProbe(w, c)
    \/ FinishTick(w)

ProbeStep(a) ==
    \/ CheckLiveness(a)
    \/ BeginRecording(a)
    \/ RecordRejected(a)
    \/ RecordSuperseded(a)
    \/ RecordHealth(a)

Fault ==
    \/ \E w \in Workers : FetchFails(w) \/ LoseLockSession(w) \/ CrashWorker(w)
    \/ CrashApi
    \/ \E a \in Probers : RecordFails(a)

Next ==
    \/ \E c \in Cards : OwnerStep(c)
    \/ \E w \in Workers : TickStep(w)
    \/ \E r \in Requests : RecheckHealth(r)
    \/ \E a \in Probers : ProbeStep(a)
    \/ Fault

Spec == Init /\ [][Next]_vars

-----------------------------------------------------------------------------
(***************************************************************************)
(* Safety                                                                  *)
(***************************************************************************)

(* The row is a faithful summary of the results committed for the card:    *)
(* its status is the last one, consecutive_failures is the length of the   *)
(* run of failures at the end, whatever the order the probers came in      *)
(* (record_health adds one inside the statement, never to a value it read).*)
RowSummarisesHistory ==
    \A c \in Cards :
      LET h == health[c]
          past == history[c]
          n == Len(past)
      IN  /\ h.status = IF n = 0 THEN "unknown"
                        ELSE IF past[n] THEN "healthy" ELSE "unhealthy"
          /\ h.at = None <=> n = 0
          /\ h.fails \in 0 .. n
          /\ \A i \in (n - h.fails) + 1 .. n : ~past[i]
          /\ h.fails < n => past[n - h.fails]

(* connectors_endpoint_anchor survives a probe that began before the owner *)
(* removed the endpoint and that wants to correct the transport.           *)
TransportAnchored == \A c \in Cards : Anchored(card[c])

(* The compare-and-set token is exact: while a sweep task is out, the row  *)
(* carries the last_checked_at it read if and only if nobody recorded a    *)
(* result for the card since.  (Neither NULL nor a time can come back.)    *)
TokenIsExact ==
    \A a \in SweepTasks :
      probe[a].stage # "idle" /\ Live(probe[a].card) =>
        (health[probe[a].card].at = probe[a].seen
           <=> Len(history[probe[a].card]) = probe[a].read)

(* "Even with several replicas one tick runs at a time" (worker/main.py:9) *)
SingleSweep ==
    \A v, w \in Workers : sweep[v] # "idle" /\ sweep[w] # "idle" => v = w

(* ... which holds as long as no advisory lock session is lost mid-sweep.  *)
SingleSweepWhileLocked == drops = 0 => SingleSweep

Closes(a) == probe[a].stage = "begun" /\ probe'[a].stage = "idle"
Writes(a) == Closes(a) /\ history'[probe[a].card] # history[probe[a].card]

(* The background yields to the foreground: a sweep task records only if   *)
(* nobody recorded a result for the card since the batch was read, and it  *)
(* reports "superseded" only if somebody did.                              *)
SweepYields ==
    [][\A a \in SweepTasks :
         /\ Writes(a) => Len(history[probe[a].card]) = probe[a].read
         /\ Closes(a) /\ probe'[a].outcome = "superseded"
              => Len(history[probe[a].card]) # probe[a].read]_vars

(* A sweep never moves last_checked_at back, although now() is the time    *)
(* its transaction began and rechecks may commit out of that order.        *)
SweepMovesForward ==
    [][\A a \in SweepTasks :
         Writes(a) /\ health[probe[a].card].at # None
           => health'[probe[a].card].at > health[probe[a].card].at]_vars

(* All or nothing: when a probe changes the registered transport, the same *)
(* step records the healthy result that showed it; a probe that yields or  *)
(* fails leaves card and row as they were.                                 *)
CorrectionIsWitnessed ==
    [][\A a \in Probers :
         Closes(a) =>
           LET c == probe[a].card
           IN  /\ card'[c] # card[c] =>
                    /\ health'[c].status = "healthy"
                    /\ health'[c].at = probe[a].at
               /\ probe'[a].outcome \in {"superseded", "error"} =>
                    card'[c] = card[c] /\ health'[c] = health[c]]_vars

-----------------------------------------------------------------------------
(***************************************************************************)
(* Refinement: the rows are a HealthBoard.  The compare-and-set on         *)
(* last_checked_at implements the board's rule on posts, which the code    *)
(* never counts; history supplies the count.                               *)
(***************************************************************************)
BoardRow(c) ==
    IF Live(c) THEN [status |-> health[c].status, fails |-> health[c].fails,
                     posts |-> Len(history[c])]
    ELSE None

LookedAt(a) ==
    IF probe[a].stage # "idle" THEN [card |-> probe[a].card, posts |-> probe[a].read]
    ELSE None

Board == INSTANCE HealthBoard WITH
    Background <- SweepTasks,
    Foreground <- Requests,
    board <- [c \in Cards |-> BoardRow(c)],
    look <- [a \in Probers |-> LookedAt(a)]

(* Sweeps, rechecks, owners, crashes and lost locks together show a reader *)
(* nothing but a HealthBoard.                                              *)
ImplementsHealthBoard == Board!BoardSpec
=============================================================================

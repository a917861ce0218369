--------------------------- MODULE CardTransactions ---------------------------
(***************************************************************************)
(* The transactions that write the rows of a card, statement by statement, *)
(* with the row locks PostgreSQL takes for them at READ COMMITTED.         *)
(*                                                                         *)
(* A card is a row of connectors with its tags, its visible teams, a row   *)
(* of connector_health_checks and, once its tools were fetched, a row of   *)
(* connector_tools_cache.  Five kinds of transaction write them: POST,     *)
(* PATCH and DELETE (core/connectors/mutations.py), the recording of a     *)
(* probe by a sweep task or a recheck, and the saving of fetched tools     *)
(* (core/connectors/probes.py); the last three may go on to correct the    *)
(* transport, in the card's own row.  ConnectorHealth takes a recording    *)
(* for one step.  Here it is not, and what may block what is the question. *)
(* The semaphore of a sweep, its lock and its replicas stay over there: a  *)
(* task of the batch is probing at once, and one worker sweeps.            *)
(*                                                                         *)
(* A statement that would wait is an action that is not enabled.  The last *)
(* statement and its COMMIT are one action: whoever has all its locks      *)
(* waits for nobody.  UPDATE takes FOR NO KEY UPDATE, DELETE takes FOR     *)
(* UPDATE, and the foreign key of an inserted row takes FOR KEY SHARE,     *)
(* which only FOR UPDATE conflicts with.  Tags and teams need no locks of  *)
(* their own here: whoever touches them has locked the card's row first.   *)
(*                                                                         *)
(* Time is an order (older), not a number, so ticks can go on for ever.    *)
(***************************************************************************)
EXTENDS Naturals, FiniteSets

CONSTANTS
    Cards,          \* numbers: the order of the cards' uuids
    Requests,       \* API requests that may be open at once
    Bodies,         \* contents of POST and PATCH bodies
    Addressed,      \* bodies with an endpoint_url
    Reachable,      \* bodies with an endpoint_url and a transport
    Childless,      \* bodies without tags and visible teams
    None,           \* SQL NULL; also "nobody holds the lock"
    BatchLimit,     \* connector_liveness_batch_limit
    Edited,         \* bound: cards of all requests; the others are registered with a
                    \* transport, checked as registered, and deleted
    MaxLoad         \* bound: cards and open requests together

SweepTasks == {"sweep"} \X Cards
Actors == SweepTasks \cup Requests
Rows == {"card", "cache", "health"} \X Cards

ASSUME CardsAssumption == Cards \subseteq Nat
ASSUME BodiesAssumption ==
    /\ Reachable \subseteq Addressed
    /\ Addressed \subseteq Bodies
    /\ Childless \subseteq Bodies
ASSUME ActorsAssumption ==
    /\ Requests \cap (SweepTasks \cup Rows) = {}
    /\ None \notin Actors \cup Cards \cup Bodies
ASSUME LimitsAssumption ==
    BatchLimit \in Nat \ {0} /\ MaxLoad \in Nat /\ Edited \subseteq Cards

VARIABLES
    life,       \* connectors: does the row exist?
    body,       \* connectors: the columns the owner writes, as the body they came in
    transport,  \* connectors.transport: NULL, as written by the owner, or as found by a probe
    tags,       \* connector_tags: the bodies its rows came in
    teams,      \* connector_visibility_teams: the bodies its rows came in
    kids,       \* which of the health row and the cache row exist
    older,      \* order in time of health rows (last_checked_at) and open recordings (BEGIN)
    held,       \* rows locked by UPDATE, DELETE or an upsert
    shared,     \* whose foreign keys hold FOR KEY SHARE on the card's row
    sweep,      \* is the worker in a tick?
    stale,      \* cards of the batch somebody has recorded since it was read
    tx          \* where each actor is

cardVars == <<life, body, transport, tags, teams, kids>>
lockVars == <<held, shared>>
vars == <<life, body, transport, tags, teams, kids, older, held, shared, sweep, stale, tx>>

Kinds == {"none", "sweep", "recheck", "refresh", "create", "patch", "delete"}
Stages == {"idle", "probing", "begun", "recorded", "allowed", "updated", "tagged",
           "deleting", "uncached"}

ASSUME NoneAssumption ==
    None \notin [kind : Kinds, card : Cards \cup {None}, body : Bodies \cup {None}]

Blank == [kind |-> "none", stage |-> "idle", card |-> None, body |-> None,
          dropped |-> {}]

(* An actor at work on card c *)
At(kind, stage, c, b) ==
    [kind |-> kind, stage |-> stage, card |-> c, body |-> b, dropped |-> {}]

TypeOK ==
    /\ life \in [Cards -> {"unborn", "live", "gone"}]
    /\ body \in [Cards -> Bodies \cup {None}]
    /\ transport \in [Cards -> {"none", "written", "found"}]
    /\ tags \in [Cards -> SUBSET Bodies]
    /\ teams \in [Cards -> SUBSET Bodies]
    /\ kids \in [Cards -> SUBSET {"cache", "health"}]
    /\ older \in SUBSET ((Rows \cup Actors) \X (Rows \cup Actors))
    /\ held \in [Rows -> Actors \cup {None}]
    /\ shared \in [Cards -> SUBSET Actors]
    /\ sweep \in {"idle", "sweeping"}
    /\ stale \subseteq Cards
    /\ tx \in [Actors -> [kind : Kinds, stage : Stages, card : Cards \cup {None},
                          body : Bodies \cup {None},
                          dropped : SUBSET Bodies]]

Init ==
    /\ life = [c \in Cards |-> "unborn"]
    /\ body = [c \in Cards |-> None]
    /\ transport = [c \in Cards |-> "none"]
    /\ tags = [c \in Cards |-> {}]
    /\ teams = [c \in Cards |-> {}]
    /\ kids = [c \in Cards |-> {}]
    /\ older = {}
    /\ held = [r \in Rows |-> None]
    /\ shared = [c \in Cards |-> {}]
    /\ sweep = "idle"
    /\ stale = {}
    /\ tx = [a \in Actors |-> Blank]

Live(c) == life[c] = "live"
Anchored(c) == Live(c) /\ body[c] \in Addressed
Probeable(c) == Anchored(c) /\ transport[c] # "none"
Given(b) == IF b \in Reachable THEN "written" ELSE "none"

(* What a card with body b may have as its transport *)
Fits(t, b) == t = Given(b) \/ (t = "found" /\ b \in Addressed)

Children(b) == IF b \in Childless THEN {} ELSE {b}

CardOf(a) == tx[a].card
Stage(a) == tx[a].stage
To(a, stage) == tx' = [tx EXCEPT ![a].stage = stage]

(* Bound: so much may start only while the load stays within MaxLoad. *)
HasRoomFor(n) ==
    Cardinality({c \in Cards : life[c] # "unborn"})
      + Cardinality({r \in Requests : Stage(r) # "idle"}) + n <= MaxLoad

-----------------------------------------------------------------------------
(***************************************************************************)
(* Locks                                                                   *)
(***************************************************************************)
ChildOf(a) == IF tx[a].kind \in {"sweep", "recheck"} THEN "health" ELSE "cache"

(* Mutant: a recheck corrects the card first and then records its health. *)
WantsTheCardFirst(a) ==
    CASE Stage(a) = "begun"      -> {<<IF tx[a].kind = "recheck" THEN "card" ELSE ChildOf(a),
                                       CardOf(a)>>}
      [] Stage(a) = "recorded"   -> {<<IF tx[a].kind = "recheck" THEN "health" ELSE "card",
                                       CardOf(a)>>}
      [] Stage(a) = "allowed"    -> {<<"card", CardOf(a)>>}
      [] Stage(a) = "deleting"   -> {<<"cache", CardOf(a)>>}
      [] Stage(a) = "uncached"   -> {<<"health", CardOf(a)>>}
      [] OTHER                   -> {}

(* The row the next statement of a locks, if it locks one *)
Wants(a) ==
    CASE Stage(a) = "begun"                    -> {<<ChildOf(a), CardOf(a)>>}
      [] Stage(a) \in {"recorded", "allowed"} -> {<<"card", CardOf(a)>>}
      [] Stage(a) = "deleting"                 -> {<<"cache", CardOf(a)>>}
      [] Stage(a) = "uncached"                 -> {<<"health", CardOf(a)>>}
      [] OTHER                                 -> {}

(* The tools of this card were never saved: the upsert inserts a row, and  *)
(* the row's foreign key needs FOR KEY SHARE on the card.                  *)
FirstSave(a) ==
    /\ Stage(a) = "begun"
    /\ ChildOf(a) = "cache"
    /\ "cache" \notin kids[CardOf(a)]

Deletes(a) == tx[a].kind = "delete"

WaitsFor(a, b) ==
    /\ a # b
    /\ \/ \E row \in Wants(a) : held[row] = b
       \/ Deletes(a) /\ Stage(a) = "allowed" /\ b \in shared[CardOf(a)]
       \/ FirstSave(a) /\ held[<<"card", CardOf(a)>>] = b /\ Deletes(b)

Blocked(a) == \E b \in Actors : WaitsFor(a, b)

Taken(a) == [row \in Rows |-> IF row \in Wants(a) THEN a ELSE held[row]]
Released(a) == [row \in Rows |-> IF held[row] = a THEN None ELSE held[row]]
Unshared(a) == [c \in Cards |-> shared[c] \ {a}]

Without(x) == {p \in older : p[1] # x /\ p[2] # x}

(* Mutant: an answered request stays around in a stage nobody knows. *)
EndsAnswered(a) ==
    /\ tx' = [tx EXCEPT ![a] = [Blank EXCEPT !.stage = "answered"]]
    /\ held' = Released(a)
    /\ shared' = Unshared(a)

(* COMMIT or ROLLBACK, and the end of what a did.  What a request reads    *)
(* after that for its answer changes nothing.                              *)
Ends(a) ==
    /\ tx' = [tx EXCEPT ![a] = Blank]
    /\ held' = Released(a)
    /\ shared' = Unshared(a)

(* Everybody in S waits for somebody in S. *)
Stuck(S) == S # {} /\ \A a \in S : \E b \in S : WaitsFor(a, b)

(* a is part of a cycle: a member of a smallest such set *)
InCycle(a) ==
    /\ Blocked(a)
    /\ \E S \in SUBSET {b \in Actors : Blocked(b)} :
         /\ a \in S
         /\ Stuck(S)
         /\ \A T \in SUBSET S : Stuck(T) => T = S

-----------------------------------------------------------------------------
(***************************************************************************)
(* The tick of the worker that has the advisory lock                       *)
(***************************************************************************)
HealthRow(c) == <<"health", c>>
Checked(c) == <<HealthRow(c), HealthRow(c)>> \in older

(* Mutant: the batch is taken in the order of the uuids. *)
BeforeById(c, d) == c < d

(* ORDER BY last_checked_at ASC NULLS FIRST, connector_id *)
Before(c, d) ==
    \/ c # d /\ <<HealthRow(c), HealthRow(d)>> \in older
    \/ ~Checked(c) /\ Checked(d)
    \/ ~Checked(c) /\ ~Checked(d) /\ c < d

IsBatch(batch) ==
    /\ Cardinality(batch) <= BatchLimit
    /\ \A c \in batch : Probeable(c)
    /\ \A d \in Cards \ batch :
         Probeable(d) =>
           Cardinality(batch) = BatchLimit /\ \A c \in batch : Before(c, d)

FetchCandidates ==
    /\ sweep = "idle"
    /\ \E batch \in SUBSET Cards :
         /\ IsBatch(batch)
         /\ tx' = [a \in Actors |->
                     IF a \in SweepTasks /\ a[2] \in batch
                     THEN At("sweep", "probing", a[2], None) ELSE tx[a]]
    /\ sweep' = "sweeping"
    /\ UNCHANGED <<cardVars, older, lockVars, stale>>

FinishTick ==
    /\ sweep = "sweeping"
    /\ \A t \in SweepTasks : Stage(t) = "idle"
    /\ sweep' = "idle"
    /\ stale' = {}
    /\ UNCHANGED <<cardVars, older, lockVars, tx>>

(* The worker dies with tasks under way; without any it ends the tick just *)
(* like FinishTick.                                                        *)
CrashWorker ==
    /\ \E t \in SweepTasks : Stage(t) # "idle"
    /\ sweep' = "idle"
    /\ tx' = [a \in Actors |-> IF a \in SweepTasks THEN Blank ELSE tx[a]]
    /\ held' = [row \in Rows |-> IF held[row] \in SweepTasks THEN None ELSE held[row]]
    /\ older' = {p \in older : p[1] \notin SweepTasks /\ p[2] \notin SweepTasks}
    /\ stale' = {}
    /\ UNCHANGED <<cardVars, shared>>

-----------------------------------------------------------------------------
(***************************************************************************)
(* Recording a probe, saving tools                                         *)
(***************************************************************************)

(* A request takes a free slot; which one is all the same. *)
FreeSlot(r) == r = CHOOSE x \in Requests : Stage(x) = "idle"

(* POST /health-check and GET /tools?refresh=true read the card, end that  *)
(* transaction, and talk to the endpoint.  Only a recheck needs to say     *)
(* when it is done with that: its BEGIN fixes a time.                      *)
StartRequest(r) ==
    /\ Stage(r) = "idle" /\ FreeSlot(r) /\ HasRoomFor(1)
    /\ \E c \in Cards, kind \in {"recheck", "refresh"} :
         /\ Probeable(c)
         /\ c \in Edited \/ kind = "recheck"
         /\ tx' = [tx EXCEPT ![r] =
                     At(kind, IF kind = "recheck" THEN "probing" ELSE "begun", c, None)]
    /\ UNCHANGED <<cardVars, older, lockVars, sweep, stale>>

(* The endpoint has answered or not; BEGIN fixes the time the health       *)
(* record will carry, behind every time there is.                          *)
Begin(a) ==
    /\ Stage(a) = "probing"
    /\ To(a, "begun")
    /\ older' = older \cup {<<x, a>> : x \in {a} \cup {p[1] : p \in older}}
    /\ UNCHANGED <<cardVars, lockVars, sweep, stale>>

(* Cards whose sweep task has not ended *)
InBatch == {c \in Cards : Stage(<<"sweep", c>>) # "idle"}

(* What a recording leaves: its time in the health row, or a cache row *)
SavesIn(a, c) ==
    IF ChildOf(a) = "health"
    THEN /\ older' = LET It(x) == IF x = a THEN HealthRow(c) ELSE x
                     IN  {<<It(p[1]), It(p[2])>> : p \in Without(HealthRow(c))}
         /\ stale' = stale \cup ({c} \cap InBatch)
         /\ UNCHANGED kids
    ELSE /\ kids' = [kids EXCEPT ![c] = @ \cup {"cache"}]
         /\ UNCHANGED <<older, stale>>

Superseded(a) == a \in SweepTasks /\ CardOf(a) \in stale

(* Foreign key: the card is gone. *)
Orphaned(a) == ~Live(CardOf(a))

Accepted(a) == ~Orphaned(a) /\ ~Superseded(a)

(* The upsert alone: the endpoint answered on another transport than the   *)
(* registered one, and the transaction goes on to the card's row.          *)
Record(a) ==
    /\ Stage(a) = "begun"
    /\ ~Blocked(a) /\ Accepted(a) /\ CardOf(a) \in Edited
    /\ held' = Taken(a)
    /\ shared' = IF FirstSave(a) THEN [shared EXCEPT ![CardOf(a)] = @ \cup {a}] ELSE shared
    /\ To(a, "recorded")
    /\ UNCHANGED <<cardVars, older, sweep, stale>>

RecordAndCommit(a) ==
    /\ Stage(a) = "begun"
    /\ ~Blocked(a) /\ Accepted(a)
    /\ SavesIn(a, CardOf(a))
    /\ Ends(a)
    /\ UNCHANGED <<life, body, transport, tags, teams, sweep>>

(* correct_transport, and the COMMIT of what was recorded before.  It asks *)
(* neither for the address it has talked to nor for the transport it has   *)
(* started from: what it found may go over a PATCH made in the meantime,   *)
(* also one that took the transport away and left an address.              *)
CorrectAndCommit(a) ==
    /\ Stage(a) = "recorded"
    /\ ~Blocked(a) /\ Anchored(CardOf(a))
    /\ transport' = [transport EXCEPT ![CardOf(a)] = "found"]
    /\ SavesIn(a, CardOf(a))
    /\ Ends(a)
    /\ UNCHANGED <<life, body, tags, teams, sweep>>

(* Mutant: the connection goes back to the pool with its transaction open. *)
LeavesItOpen(a) ==
    /\ tx' = [tx EXCEPT ![a] = Blank]
    /\ older' = Without(a)
    /\ UNCHANGED <<cardVars, lockVars, sweep, stale>>

RollsBack(a) ==
    /\ Ends(a)
    /\ older' = Without(a)
    /\ UNCHANGED <<cardVars, sweep, stale>>

(* Mutant: who was overtaken tries again, with the time it has read before. *)
TriesAgain(a) ==
    /\ Stage(a) = "begun" /\ ~Blocked(a)
    /\ Orphaned(a)
    /\ RollsBack(a)

(* The upsert writes nothing: the card is gone or the sweep yields. *)
RecordsNothing(a) ==
    /\ Stage(a) = "begun" /\ ~Blocked(a)
    /\ Orphaned(a) \/ Superseded(a)
    /\ RollsBack(a)

(* The owner removed the address: connectors_endpoint_anchor refuses the   *)
(* transport, and the record goes with it.                                 *)
CorrectionRefused(a) ==
    /\ Stage(a) = "recorded" /\ ~Blocked(a)
    /\ ~Anchored(CardOf(a))
    /\ RollsBack(a)

-----------------------------------------------------------------------------
(***************************************************************************)
(* POST, PATCH and DELETE of a card                                        *)
(***************************************************************************)

(* Card, tags, teams and health row in one transaction nobody else can see *)
(* into; then the tools are fetched, if there is something to fetch from.  *)
CreateConnector(r) ==
    /\ Stage(r) = "idle" /\ FreeSlot(r) /\ HasRoomFor(2)
    /\ \E c \in Cards, b \in Bodies :
         /\ life[c] = "unborn"
         /\ c \in Edited \/ b \in Reachable
         /\ life' = [life EXCEPT ![c] = "live"]
         /\ body' = [body EXCEPT ![c] = b]
         /\ transport' = [transport EXCEPT ![c] = Given(b)]
         /\ tags' = [tags EXCEPT ![c] = Children(b)]
         /\ teams' = [teams EXCEPT ![c] = Children(b)]
         /\ kids' = [kids EXCEPT ![c] = {"health"}]
         /\ tx' = [tx EXCEPT ![r] =
                     IF b \in Reachable /\ c \in Edited
                     THEN At("create", "begun", c, None) ELSE Blank]
    /\ UNCHANGED <<older, lockVars, sweep, stale>>

(* _require_owner finds the card and its owner in a statement of its own.  *)
RequireOwner(r) ==
    /\ Stage(r) = "idle" /\ FreeSlot(r) /\ HasRoomFor(1)
    /\ \E c \in Cards :
         /\ Live(c)
         /\ \/ c \in Edited /\ \E b \in Bodies : tx' = [tx EXCEPT ![r] = At("patch", "allowed", c, b)]
            \/ tx' = [tx EXCEPT ![r] = At("delete", "allowed", c, None)]
    /\ UNCHANGED <<cardVars, older, lockVars, sweep, stale>>

(* Mutant: tags and teams are replaced before the row is updated. *)
UpdateCardLater(r) ==
    /\ Stage(r) = "allowed" /\ tx[r].kind = "patch"
    /\ ~Blocked(r) /\ Live(CardOf(r))
    /\ To(r, "updated")
    /\ UNCHANGED <<cardVars, older, lockVars, sweep, stale>>

(* _UPDATE, which locks the card's row until COMMIT *)
UpdateCard(r) ==
    /\ Stage(r) = "allowed" /\ tx[r].kind = "patch"
    /\ ~Blocked(r) /\ Live(CardOf(r))
    /\ held' = Taken(r)
    /\ To(r, "updated")
    /\ UNCHANGED <<cardVars, older, shared, sweep, stale>>

(* The card was deleted: _UPDATE hits no row, and the first tag or team    *)
(* fails its foreign key.  Without any, an empty transaction commits, the  *)
(* card is not there to be read back, and the answer is 404.               *)
UpdateNothing(r) ==
    /\ Stage(r) = "allowed" /\ tx[r].kind = "patch"
    /\ ~Blocked(r) /\ ~Live(CardOf(r))
    /\ tx' = [tx EXCEPT ![r] = Blank]
    /\ UNCHANGED <<cardVars, older, lockVars, sweep, stale>>

(* DELETE and INSERT of the tags: what the statement saw goes. *)
ReplaceTags(r) ==
    /\ Stage(r) = "updated"
    /\ tx' = [tx EXCEPT ![r].stage = "tagged", ![r].dropped = tags[CardOf(r)]]
    /\ UNCHANGED <<cardVars, older, lockVars, sweep, stale>>

(* The same for the teams, and COMMIT *)
ReplaceTeams(r) ==
    /\ Stage(r) = "tagged"
    /\ LET c == CardOf(r)
           b == tx[r].body
       IN  /\ body' = [body EXCEPT ![c] = b]
           /\ transport' = [transport EXCEPT ![c] = Given(b)]
           /\ tags' = [tags EXCEPT ![c] = (@ \ tx[r].dropped) \cup Children(b)]
           /\ teams' = [teams EXCEPT ![c] = Children(b)]
    /\ Ends(r)
    /\ UNCHANGED <<life, kids, older, sweep, stale>>

DeleteNothing(r) ==
    /\ Stage(r) = "allowed" /\ Deletes(r)
    /\ ~Blocked(r) /\ ~Live(CardOf(r))
    /\ tx' = [tx EXCEPT ![r] = Blank]
    /\ UNCHANGED <<cardVars, older, lockVars, sweep, stale>>

(* DELETE locks the card, then the cascade locks child after child. *)
DeleteCard(r) ==
    /\ Stage(r) = "allowed" /\ Deletes(r)
    /\ ~Blocked(r) /\ Live(CardOf(r))
    /\ held' = Taken(r)
    /\ To(r, "deleting")
    /\ UNCHANGED <<cardVars, older, shared, sweep, stale>>

CascadeToCache(r) ==
    /\ Stage(r) = "deleting" /\ ~Blocked(r)
    /\ held' = Taken(r)
    /\ To(r, "uncached")
    /\ UNCHANGED <<cardVars, older, shared, sweep, stale>>

CascadeToHealth(r) ==
    /\ Stage(r) = "uncached" /\ ~Blocked(r)
    /\ LET c == CardOf(r)
       IN  /\ life' = [life EXCEPT ![c] = "gone"]
           /\ body' = [body EXCEPT ![c] = None]
           /\ transport' = [transport EXCEPT ![c] = "none"]
           /\ tags' = [tags EXCEPT ![c] = {}]
           /\ teams' = [teams EXCEPT ![c] = {}]
           /\ kids' = [kids EXCEPT ![c] = {}]
           /\ older' = Without(HealthRow(c))
    /\ Ends(r)
    /\ UNCHANGED <<sweep, stale>>

-----------------------------------------------------------------------------
(***************************************************************************)
(* Failures                                                                *)
(***************************************************************************)
Open(a) ==
    Stage(a) \in {"begun", "recorded", "allowed", "updated", "tagged", "deleting", "uncached"}

(* A statement fails: the connection, or a constraint such as a visible    *)
(* team named twice.  The session's end rolls everything back.             *)
StatementFails(a) == Open(a) /\ RollsBack(a)

(* PostgreSQL's deadlock detector gives up one member of a cycle. *)
DeadlockVictim(a) == InCycle(a) /\ RollsBack(a)

(* The API process dies with every request it is serving. *)
CrashApi ==
    /\ \E r \in Requests : Stage(r) # "idle"
    /\ tx' = [a \in Actors |-> IF a \in Requests THEN Blank ELSE tx[a]]
    /\ held' = [row \in Rows |-> IF held[row] \in Requests THEN None ELSE held[row]]
    /\ shared' = [c \in Cards |-> shared[c] \ Requests]
    /\ older' = {p \in older : p[1] \notin Requests /\ p[2] \notin Requests}
    /\ UNCHANGED <<cardVars, sweep, stale>>

-----------------------------------------------------------------------------
RecordStep(a) ==
    \/ Begin(a)
    \/ Record(a)
    \/ RecordAndCommit(a)
    \/ CorrectAndCommit(a)
    \/ RecordsNothing(a)
    \/ CorrectionRefused(a)

OwnerStep(r) ==
    \/ UpdateCard(r)
    \/ UpdateNothing(r)
    \/ ReplaceTags(r)
    \/ ReplaceTeams(r)
    \/ DeleteNothing(r)
    \/ DeleteCard(r)
    \/ CascadeToCache(r)
    \/ CascadeToHealth(r)

RequestStep(r) == RecordStep(r) \/ OwnerStep(r)

Next ==
    \/ FetchCandidates
    \/ FinishTick
    \/ \E t \in SweepTasks : RecordStep(t)
    \/ \E r \in Requests :
         StartRequest(r) \/ CreateConnector(r) \/ RequireOwner(r) \/ RequestStep(r)
    \/ \E a \in Actors : DeadlockVictim(a) \/ StatementFails(a)
    \/ CrashWorker
    \/ CrashApi

Spec == Init /\ [][Next]_vars

(***************************************************************************)
(* run_forever starts tick after tick; a probe ends (wait_for); those who  *)
(* wait for a row get it in turn (the tuple lock is a queue), hence strong *)
(* fairness; and the detector finds every cycle.                           *)
(***************************************************************************)
FairSpec ==
    /\ Spec
    /\ WF_vars(FetchCandidates) /\ WF_vars(FinishTick)
    /\ \A t \in SweepTasks : SF_vars(RecordStep(t))
    /\ \A r \in Requests : SF_vars(RequestStep(r))
    /\ WF_vars(\E a \in Actors : DeadlockVictim(a))

-----------------------------------------------------------------------------
(***************************************************************************)
(* Safety                                                                  *)
(***************************************************************************)

(* A card, its tags and its visible teams always come from one body,       *)
(* however two PATCHes interleave and wherever one of them fails           *)
(* ("split up, a state shows in which only the tags have changed",         *)
(* mutations.py:3-4); a transport stands only next to an address, whoever  *)
(* corrected it, and is the body's own unless a probe has found another;   *)
(* and nothing of a card is left when it is gone, whoever was about to     *)
(* record, to save, to correct or to edit it.                              *)
WholeOrGone ==
    \A c \in Cards :
      IF Live(c)
      THEN /\ tags[c] = Children(body[c]) /\ teams[c] = Children(body[c])
           /\ Fits(transport[c], body[c])
      ELSE /\ tags[c] = {} /\ teams[c] = {} /\ kids[c] = {} /\ ~Checked(c)
           /\ transport[c] = "none"

Shelf(c) ==
    [life |-> life[c], body |-> body[c], transport |-> transport[c], tags |-> tags[c],
     teams |-> teams[c], kids |-> kids[c], checked |-> Checked(c)]

(* What a request wants while it is under way *)
Wish(r) ==
    IF Stage(r) = "idle" THEN None
    ELSE [kind |-> tx[r].kind, card |-> tx[r].card, body |-> tx[r].body]

Store == INSTANCE CardStore WITH
    shelf <- [c \in Cards |-> Shelf(c)],
    wish <- [r \in Requests |-> Wish(r)]

(* Though they take several statements, wait for each other's rows, fail   *)
(* half way and are picked as victims, requests change cards in one step   *)
(* each or not at all: none shows half done, none is done twice, nothing   *)
(* is put back on a card that was deleted under way (mutations.py:3-4,     *)
(* router.py:242-253), and of what its owner wrote a probe changes the     *)
(* transport alone, together with what it records.  This implies           *)
(* WholeOrGone.                                                            *)
ImplementsCardStore == Store!StoreSpec

(* Recordings, saved tools, edits and registrations never deadlock among   *)
(* themselves, although they lock two rows: a deadlock takes a DELETE.     *)
DeadlocksAreDeletions ==
    \A S \in SUBSET Actors : Stuck(S) => \E a \in S : Deletes(a)

-----------------------------------------------------------------------------
(***************************************************************************)
(* Liveness                                                                *)
(***************************************************************************)

(* A tick ends though its recordings wait for owners' transactions. *)
TickEnds == []<>(sweep = "idle")

(* Every request is answered, deadlock or not. *)
RequestsEnd == \A r \in Requests : []<>(Stage(r) = "idle")

RecordsHealthOf(c) ==
    \E a \in Actors :
      /\ CardOf(a) = c
      /\ ChildOf(a) = "health"
      /\ RecordAndCommit(a) \/ CorrectAndCommit(a)

(* A sweep task that ends without a recording and without a reason to      *)
(* yield: its card keeps its place in front of the queue.                  *)
SweepFails ==
    \/ CrashWorker
    \/ \E t \in SweepTasks : StatementFails(t) /\ ~RecordsNothing(t)

(* However small the batch, every card that can be probed is recorded      *)
(* again and again, provided that sweeps stop failing.                     *)
EveryCardsTurnComes ==
    <>[][~SweepFails]_vars =>
      \A c \in Cards : <>[]Probeable(c) => []<><<RecordsHealthOf(c)>>_vars
=============================================================================

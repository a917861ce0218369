------------------------------ MODULE ToolsRefresh ------------------------------
(***************************************************************************)
(* Refreshing the tools of one card: _refresh_tools (api/connectors/       *)
(* router.py), the outbound gate and _run_with_fallback (core/mcp/         *)
(* client.py), save_tools_cache and correct_transport (core/connectors/    *)
(* probes.py).  check_liveness goes through the same gate and fallback.    *)
(*                                                                         *)
(* A refresh reads the card, waits for a slot of the gate, tries the       *)
(* card's transport and, if the endpoint answered but not in that one, the *)
(* other; then one transaction saves the outcome, dated with the moment it *)
(* began.  What an attempt meets is decided by the endpoint, for each      *)
(* transport on its own: a server may speak one and refuse the other, or   *)
(* leave it hanging.  The endpoint changes while refreshes are under way.  *)
(* The card itself stays; if the owner deletes it, the foreign key turns   *)
(* the outcome away (SaveFails).                                           *)
(***************************************************************************)
EXTENDS Naturals

CONSTANTS
    Refreshes,      \* refreshes that may be under way at once
    Transports,
    Tools,          \* lists an endpoint may answer with
    Endpoints,      \* what the address may be: to each transport, an answer
    Slots,          \* connector_outbound_concurrency
    MaxChanges,     \* bound: changes of the endpoint
    MaxSaves,       \* bound: transactions that begin to save
    None

(* How a request of one transport ends: the server speaks it, answers but  *)
(* not in it, leaves it hanging until wait_for ends, cannot be reached, or *)
(* is turned away by the guard (client.py:182-191).                        *)
Answers == {"speaks", "protocol", "timeout", "network", "guard"}

ASSUME RefreshAssumption ==
    /\ Slots \in Nat \ {0}
    /\ {MaxChanges, MaxSaves} \subseteq Nat
    /\ \E s, t \in Transports : Transports = {s, t}      \* TransportType
    /\ Endpoints \subseteq [Transports -> Answers]
    /\ None \notin Transports \cup Tools

VARIABLES
    endpoint,       \* what answers at the card's address
    changes,        \* how often that changed
    card,           \* the columns endpoint_url (is there one?) and transport
    slots,          \* free slots of the gate
    refresh,        \* each refresh
    clock,          \* now() of the last transaction that began to save
    cache           \* the row of connector_tools_cache

refreshVars == <<endpoint, changes, card, slots, refresh, clock, cache>>

Cards == [url : BOOLEAN, transport : Transports \cup {None}]
Codes == {"timeout", "unreachable", "protocol_error", "url_not_allowed"}
Outcomes == [tools : Tools \cup {None}, error : Codes \cup {None}]
Caches == [tools : Tools \cup {None}, fetchedAt : Nat, error : Codes \cup {None}]


ASSUME NoneAssumption == None \notin Codes \cup Caches

Tasks == [stage : {"idle", "queued", "opening", "open", "ended", "saving"},
          first : Transports \cup {None}, candidate : Transports \cup {None},
          handshake : BOOLEAN,
          outcome : Outcomes,
          at : Nat,                         \* BEGIN of the transaction that saves it
          met : [Transports -> SUBSET Answers]]   \* history: in the gate
Nothing == [tools |-> None, error |-> None]
Unmet == [t \in Transports |-> {}]
Idle == [stage |-> "idle", first |-> None, candidate |-> None,
         handshake |-> FALSE, outcome |-> Nothing, at |-> 0, met |-> Unmet]

TypeOK ==
    /\ endpoint \in Endpoints
    /\ card \in Cards
    /\ changes \in Nat /\ slots \in 0 .. Slots
    /\ refresh \in [Refreshes -> Tasks]
    /\ clock \in Nat
    /\ cache \in Caches \cup {None}

Init ==
    /\ endpoint \in Endpoints
    /\ card \in [url : {TRUE}, transport : Transports]
    /\ changes = 0
    /\ slots = Slots
    /\ refresh = [r \in Refreshes |-> Idle]
    /\ clock = 0
    /\ cache = None

-----------------------------------------------------------------------------
(* The world outside *)

(* What a refresh has met once the endpoint is e *)
Meets(met, e) == [t \in Transports |-> met[t] \cup {e[t]}]

(* A server is started, stopped, replaced, slow; a name resolves elsewhere. *)
EndpointChanges ==
    /\ changes < MaxChanges
    /\ changes' = changes + 1
    /\ endpoint' \in Endpoints
    /\ refresh' = [r \in Refreshes |->
         IF refresh[r].stage \in {"opening", "open"}
         THEN [refresh[r] EXCEPT !.met = Meets(@, endpoint')] ELSE refresh[r]]
    /\ UNCHANGED <<card, slots, clock, cache>>

(* PATCH /connectors/{id}; a transport needs an address. *)
UpdateConnector ==
    /\ card' \in {c \in Cards : c.transport # None => c.url}
    /\ UNCHANGED <<endpoint, changes, slots, refresh, clock, cache>>

-----------------------------------------------------------------------------
(* Why an attempt fails; a server that speaks may answer with an error. *)
Cause(t) ==
    IF endpoint[t.candidate] = "speaks" THEN "protocol" ELSE endpoint[t.candidate]

(* _leaf_exceptions of the failure: the cause, alone or with what the      *)
(* SDK's task group adds.                                                  *)
Failures(t) == {{Cause(t)}, {Cause(t), "protocol"}}

(* Mutant: the endpoint answered if any leaf says so. *)
MeansWrongTransportAny(leaves) == "protocol" \in leaves

MeansWrongTransport(leaves) == leaves \cap {"timeout", "network", "guard"} = {}

(* Mutant: what remains is tested before what is narrower. *)
ClassifyProtocolFirst(leaves) ==
    CASE "guard" \in leaves -> "url_not_allowed"
      [] "guard" \notin leaves /\ "protocol" \in leaves -> "protocol_error"
      [] leaves = {"timeout"} -> "timeout"
      [] leaves = {"network"} -> "unreachable"

ClassifyFailure(leaves) ==
    CASE "guard" \in leaves -> "url_not_allowed"
      [] "guard" \notin leaves /\ "timeout" \in leaves -> "timeout"
      [] leaves \cap {"guard", "timeout"} = {} /\ "network" \in leaves -> "unreachable"
      [] leaves = {"protocol"} -> "protocol_error"

(* Mutant: only the transport that was asked for. *)
NextCandidatesNone(t) == {}

(* _transport_candidates: after the first, the other. *)
NextCandidates(t) == IF t.candidate = t.first THEN Transports \ {t.first} ELSE {}

StartRefresh(r) ==
    /\ refresh[r].stage = "idle"
    /\ card.url /\ card.transport # None
    /\ refresh' = [refresh EXCEPT ![r] =
         [Idle EXCEPT !.stage = "queued", !.first = card.transport]]
    /\ UNCHANGED <<endpoint, changes, card, slots, clock, cache>>

EnterGate(r) ==
    /\ refresh[r].stage = "queued"
    /\ slots > 0
    /\ slots' = slots - 1
    /\ refresh' = [refresh EXCEPT ![r].stage = "opening", ![r].candidate = refresh[r].first,
                                  ![r].met = Meets(Unmet, endpoint)]
    /\ UNCHANGED <<endpoint, changes, card, clock, cache>>

(* initialize has answered. *)
Handshake(r) ==
    /\ refresh[r].stage = "opening"
    /\ endpoint[refresh[r].candidate] = "speaks"
    /\ refresh' = [refresh EXCEPT ![r].stage = "open", ![r].handshake = TRUE]
    /\ UNCHANGED <<endpoint, changes, card, slots, clock, cache>>

Ends(r, outcome) ==
    refresh' = [refresh EXCEPT ![r].stage = "ended", ![r].outcome = outcome]

(* Before the handshake: once more with the other transport, or never      *)
(* mind.  An attempt that wait_for ends is the last one, also at a server  *)
(* that speaks the other transport: its failure is a timeout.              *)
OpenFails(r) ==
    /\ refresh[r].stage = "opening"
    /\ endpoint[refresh[r].candidate] # "speaks"
    /\ \E leaves \in Failures(refresh[r]) :
         \/ \E t \in NextCandidates(refresh[r]) :
              /\ MeansWrongTransport(leaves)
              /\ refresh' = [refresh EXCEPT ![r].candidate = t]
              /\ UNCHANGED slots
         \/ /\ NextCandidates(refresh[r]) = {} \/ ~MeansWrongTransport(leaves)
            /\ Ends(r, [Nothing EXCEPT !.error = ClassifyFailure(leaves)])
            /\ slots' = slots + 1
    /\ UNCHANGED <<endpoint, changes, card, clock, cache>>

ListTools(r) ==
    /\ refresh[r].stage = "open"
    /\ endpoint[refresh[r].candidate] = "speaks"
    /\ \E tools \in Tools : Ends(r, [Nothing EXCEPT !.tools = tools])
    /\ slots' = slots + 1
    /\ UNCHANGED <<endpoint, changes, card, clock, cache>>

(* Mutant: a session that breaks off keeps its slot. *)
ListToolsFailsInside(r) ==
    /\ refresh[r].stage = "open"
    /\ \E leaves \in Failures(refresh[r]) :
         Ends(r, [Nothing EXCEPT !.error = ClassifyFailure(leaves)])
    /\ UNCHANGED <<endpoint, changes, card, slots, clock, cache>>

(* After the handshake there is no fallback; a server that speaks may still *)
(* answer with an error.                                                   *)
ListToolsFails(r) ==
    /\ refresh[r].stage = "open"
    /\ \E leaves \in Failures(refresh[r]) :
         Ends(r, [Nothing EXCEPT !.error = ClassifyFailure(leaves)])
    /\ slots' = slots + 1
    /\ UNCHANGED <<endpoint, changes, card, clock, cache>>

-----------------------------------------------------------------------------
(* The transaction begins: that is the now() of whatever it saves. *)
BeginSaving(r) ==
    /\ refresh[r].stage = "ended"
    /\ clock < MaxSaves
    /\ clock' = clock + 1
    /\ refresh' = [refresh EXCEPT ![r].stage = "saving", ![r].at = clock',
                                  ![r].handshake = FALSE, ![r].met = Unmet]
    /\ UNCHANGED <<endpoint, changes, card, slots, cache>>

(* Mutant: no time is kept. *)
UpsertUntyped(t) == [tools |-> t.outcome.tools, error |-> t.outcome.error]

(* _SAVE_TOOLS: fetched_at comes with the list, 0 for none.  Transactions  *)
(* commit in any order, and it may be earlier than the one in the row.     *)
Upsert(t) ==
    IF t.outcome.tools # None
    THEN [tools |-> t.outcome.tools, fetchedAt |-> t.at, error |-> None]
    ELSE IF cache = None THEN [tools |-> None, fetchedAt |-> 0, error |-> t.outcome.error]
    ELSE [cache EXCEPT !.error = t.outcome.error]

(* Mutant: every list writes its transport, also over an owner's edit. *)
CorrectsAlways(t) == t.outcome.tools # None

(* A fallback that worked *)
Corrects(t) == t.outcome.tools # None /\ t.candidate # t.first

(* The upsert, the transport and COMMIT; connectors_endpoint_anchor turns  *)
(* a transport without an address away, and the whole transaction with it. *)
SaveOutcome(r) ==
    /\ refresh[r].stage = "saving"
    /\ Corrects(refresh[r]) => card.url
    /\ cache' = Upsert(refresh[r])
    /\ card' = IF Corrects(refresh[r]) THEN [card EXCEPT !.transport = refresh[r].candidate]
               ELSE card
    /\ refresh' = [refresh EXCEPT ![r] = Idle]
    /\ UNCHANGED <<endpoint, changes, slots, clock>>

(* The card is gone, the transport was turned away, the database is. *)
SaveFails(r) ==
    /\ refresh[r].stage \in {"ended", "saving"}
    /\ refresh' = [refresh EXCEPT ![r] = Idle]
    /\ UNCHANGED <<endpoint, changes, card, slots, clock, cache>>

RefreshStep(r) ==
    \/ EnterGate(r) \/ Handshake(r) \/ OpenFails(r) \/ ListTools(r) \/ ListToolsFails(r)
    \/ BeginSaving(r) \/ SaveOutcome(r) \/ SaveFails(r)

Next ==
    \/ EndpointChanges
    \/ UpdateConnector
    \/ \E r \in Refreshes : StartRefresh(r) \/ RefreshStep(r)

Spec == Init /\ [][Next]_refreshVars

(* Every attempt has its timeout; asyncio.Semaphore serves in turn. *)
FairSpec ==
    /\ Spec
    /\ \A r \in Refreshes : WF_refreshVars(RefreshStep(r)) /\ SF_refreshVars(EnterGate(r))

-----------------------------------------------------------------------------
(* What a refresh brings: the outcome, the transport of a list, the date *)
Brought(r) ==
    LET t == refresh[r]
    IN  [at |-> CASE t.stage = "idle" -> "home"
                  [] t.stage = "ended" -> "back"
                  [] t.stage = "saving" -> "posting"
                  [] OTHER -> "out",
         asked |-> t.first,
         found |-> IF t.outcome.tools = None THEN None ELSE t.candidate,
         tools |-> t.outcome.tools,
         error |-> t.outcome.error,
         date |-> t.at]

Board == INSTANCE ToolsBoard WITH
    server <- endpoint,
    row <- cache,
    today <- clock,
    news <- [r \in Refreshes |-> Brought(r)]

(* However refreshes overlap, wait for the gate, try twice and fail while  *)
(* the endpoint and the card change under them, what the card shows is     *)
(* what one of them met in one moment, with a date after that moment       *)
(* (client.py:263-312, probes.py:48-60, router.py:286-305).                *)
ImplementsToolsBoard == Board!BoardSpec

(* A server that spoke a transport all the while is found if the card      *)
(* names that transport, or if the one it names was refused all the while  *)
(* and not left to time out: a refusal leads to the other one, a timeout   *)
(* ends the refresh (client.py:153-160, 194-212, 291-304).                 *)
FallbackFindsTheWay ==
    \A r \in Refreshes :
      LET t == refresh[r]
      IN  t.stage = "ended" /\ t.outcome.error # None /\ ~t.handshake =>
            ~ \E way \in Transports :
                /\ t.met[way] = {"speaks"}
                /\ way = t.first \/ t.met[t.first] \subseteq {"speaks", "protocol"}

(* Nobody waits twice for a dead endpoint (client.py:201-203, 272-274):    *)
(* a second attempt is made only where the first was answered.             *)
AnsweredBeforeFallback ==
    \A r \in Refreshes :
      LET t == refresh[r]
      IN  t.stage \in {"opening", "open", "ended"} /\ t.candidate # t.first
            => "protocol" \in t.met[t.first]

(* The reason a user is given is one that occurred, in the transport that  *)
(* was tried last (client.py:214-220).                                     *)
ErrorNamesCause ==
    LET causes == [timeout |-> {"timeout"}, unreachable |-> {"network"},
                   url_not_allowed |-> {"guard"}, protocol_error |-> {"protocol", "speaks"}]
    IN  \A r \in Refreshes :
          LET t == refresh[r]
          IN  t.stage = "ended" /\ t.outcome.error # None
                => causes[t.outcome.error] \cap t.met[t.candidate] # {}

(* Whoever waits for a slot gets one, and is done some time. *)
RefreshEnds == \A r \in Refreshes : []<>(refresh[r].stage = "idle")
=============================================================================

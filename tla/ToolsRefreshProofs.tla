--------------------------- MODULE ToolsRefreshProofs ---------------------------
(***************************************************************************)
(* The refreshing of tools for any number of refreshes, slots, lists,      *)
(* changes and outcomes, and for any endpoints.  What makes the invariant  *)
(* inductive is a refresh's own history: while it is in the gate it has    *)
(* met what the endpoint is now, and the first transport was refused once  *)
(* the second is tried (TaskOk).  A slot is missing for every refresh      *)
(* inside the gate and for no other (SlotsOk).                             *)
(***************************************************************************)
EXTENDS ToolsRefresh, UrlGuard, FiniteSetTheorems, SequenceTheorems, WellFoundedInduction, TLAPS

USE RefreshAssumption, NoneAssumption

UnderWay == {"queued", "opening", "open"}
Holding == {"opening", "open"}

Done == {"ended", "saving"}

(* The reason is one the endpoint gave in the transport tried last. *)
Named(t) ==
    LET met == t.met[t.candidate]
    IN  /\ t.outcome.error = "timeout" => "timeout" \in met
        /\ t.outcome.error = "unreachable" => "network" \in met
        /\ t.outcome.error = "protocol_error" => met \cap {"protocol", "speaks"} # {}
        /\ t.outcome.error = "url_not_allowed" => "guard" \in met

(* No transport was spoken all the while that the refresh should find. *)
NoWay(t) ==
    \A way \in Transports :
      t.met[way] = {"speaks"} =>
        way # t.first /\ ~(t.met[t.first] \subseteq {"speaks", "protocol"})

TaskOk(t) ==
    /\ t.stage \in Holding => \A w \in Transports : endpoint[w] \in t.met[w]
    /\ t.stage \in {"queued", "opening"} => ~t.handshake
    /\ t.stage = "open" => t.handshake
    /\ t.stage \in Done => (t.outcome.tools = None <=> t.outcome.error # None)
    /\ t.stage \notin Done => t.outcome = Nothing
    /\ t.stage # "saving" => t.at = 0
    /\ t.stage # "idle" => t.first \in Transports
    /\ t.stage \in Holding \cup Done => t.candidate \in Transports
    /\ t.stage \in Holding \cup {"ended"} /\ t.candidate # t.first
         => "protocol" \in t.met[t.first]
    /\ t.stage = "ended" /\ t.outcome.error # None => Named(t) /\ (~t.handshake => NoWay(t))

Inside == {r \in Refreshes : refresh[r].stage \in Holding}
SlotsOk == IsFiniteSet(Inside) /\ slots + Cardinality(Inside) = Slots

Inv ==
    /\ TypeOK
    /\ \A r \in Refreshes : TaskOk(refresh[r])
    /\ SlotsOk

(* One refresh goes on, the others and the endpoint stay. *)
LEMMA TasksKept ==
    ASSUME Inv, NEW r \in Refreshes, NEW t \in Tasks, TaskOk(t), UNCHANGED endpoint,
           refresh' = [refresh EXCEPT ![r] = t]
    PROVE  /\ refresh' \in [Refreshes -> Tasks]
           /\ refresh'[r] = t
           /\ \A q \in Refreshes : TaskOk(refresh[q])'
<1>1. refresh \in [Refreshes -> Tasks]
  BY DEF Inv, TypeOK
<1>2. TaskOk(t)'
  BY DEF TaskOk
<1>3. ASSUME NEW q \in Refreshes, q # r PROVE TaskOk(refresh[q])'
  <2>1. refresh'[q] = refresh[q] /\ TaskOk(refresh[q])
    BY <1>1, <1>3 DEF Inv
  <2> QED
    BY <2>1 DEF TaskOk
<1> QED
  BY <1>1, <1>2, <1>3

(* Its slot is taken when it enters and given back when it ends. *)
LEMMA SlotTaken ==
    ASSUME Inv, NEW r \in Refreshes, NEW t \in Tasks, refresh' = [refresh EXCEPT ![r] = t],
           refresh[r].stage \notin Holding, t.stage \in Holding, slots' = slots - 1
    PROVE  SlotsOk'
<1>1. refresh \in [Refreshes -> Tasks] /\ slots \in Int
  BY DEF Inv, TypeOK
<1>2. Inside' = Inside \cup {r} /\ r \notin Inside
  BY <1>1 DEF Inside
<1>3. IsFiniteSet(Inside) /\ slots + Cardinality(Inside) = Slots /\ Cardinality(Inside) \in Nat
  BY FS_CardinalityType DEF Inv, SlotsOk
<1>4. IsFiniteSet(Inside \cup {r}) /\ Cardinality(Inside \cup {r}) = Cardinality(Inside) + 1
  BY <1>2, <1>3, FS_AddElement
<1> QED
  BY <1>1, <1>2, <1>3, <1>4 DEF SlotsOk

LEMMA SlotReturned ==
    ASSUME Inv, NEW r \in Refreshes, NEW t \in Tasks, refresh' = [refresh EXCEPT ![r] = t],
           refresh[r].stage \in Holding, t.stage \notin Holding, slots' = slots + 1
    PROVE  SlotsOk' /\ slots' \in 0 .. Slots
<1>1. refresh \in [Refreshes -> Tasks] /\ slots \in 0 .. Slots
  BY DEF Inv, TypeOK
<1>2. Inside' = Inside \ {r} /\ r \in Inside
  BY <1>1 DEF Inside
<1>3. IsFiniteSet(Inside) /\ slots + Cardinality(Inside) = Slots /\ Cardinality(Inside) \in Nat
  BY FS_CardinalityType DEF Inv, SlotsOk
<1>4. IsFiniteSet(Inside \ {r}) /\ Cardinality(Inside \ {r}) = Cardinality(Inside) - 1
  BY <1>2, <1>3, FS_RemoveElement
<1>5. Cardinality(Inside \ {r}) \in Nat
  BY <1>4, FS_CardinalityType
<1> QED
  BY <1>1, <1>2, <1>3, <1>4, <1>5 DEF SlotsOk

LEMMA SlotKept ==
    ASSUME Inv, NEW r \in Refreshes, NEW t \in Tasks, refresh' = [refresh EXCEPT ![r] = t],
           refresh[r].stage \in Holding <=> t.stage \in Holding, UNCHANGED slots
    PROVE  SlotsOk'
<1>1. refresh \in [Refreshes -> Tasks]
  BY DEF Inv, TypeOK
<1>2. Inside' = Inside
  BY <1>1 DEF Inside
<1> QED
  BY <1>2 DEF Inv, SlotsOk

(* A step of one refresh that touches neither the row nor the card *)
LEMMA TaskStepKeeps ==
    ASSUME Inv, NEW r \in Refreshes, NEW t \in Tasks, TaskOk(t),
           refresh' = [refresh EXCEPT ![r] = t],
           UNCHANGED <<endpoint, changes, card, clock, cache>>,
           \/ /\ refresh[r].stage \in Holding <=> t.stage \in Holding
              /\ UNCHANGED slots
           \/ /\ refresh[r].stage \notin Holding /\ t.stage \in Holding
              /\ slots > 0 /\ slots' = slots - 1
           \/ /\ refresh[r].stage \in Holding /\ t.stage \notin Holding
              /\ slots' = slots + 1
    PROVE  Inv'
<1>1. SlotsOk' /\ slots' \in 0 .. Slots
  <2>1. slots \in 0 .. Slots
    BY DEF Inv, TypeOK
  <2>2. CASE (refresh[r].stage \in Holding <=> t.stage \in Holding) /\ UNCHANGED slots
    BY <2>1, <2>2, SlotKept
  <2>3. CASE refresh[r].stage \notin Holding /\ t.stage \in Holding
               /\ slots > 0 /\ slots' = slots - 1
    <3>1. SlotsOk'
      BY <2>3, SlotTaken
    <3>2. slots' \in 0 .. Slots
      BY <2>1, <2>3
    <3> QED
      BY <3>1, <3>2
  <2>4. CASE refresh[r].stage \in Holding /\ t.stage \notin Holding /\ slots' = slots + 1
    BY <2>4, SlotReturned
  <2> QED
    BY <2>2, <2>3, <2>4
<1>2. TypeOK'
  BY <1>1, TasksKept DEF Inv, TypeOK
<1> QED
  BY <1>1, <1>2, TasksKept DEF Inv

-----------------------------------------------------------------------------
LEMMA IdleIsOk == Idle \in Tasks /\ TaskOk(Idle) /\ Idle.stage = "idle"
BY DEF Idle, Unmet, Nothing, Tasks, Outcomes, Codes, TaskOk, Done, Holding

(* What a refresh has met includes what the endpoint is now. *)
LEMMA MeetsNow ==
    ASSUME NEW met \in [Transports -> SUBSET Answers], NEW e \in [Transports -> Answers]
    PROVE  /\ Meets(met, e) \in [Transports -> SUBSET Answers]
           /\ \A w \in Transports : e[w] \in Meets(met, e)[w] /\ met[w] \subseteq Meets(met, e)[w]
BY DEF Meets

LEMMA StartRefreshKeeps ==
    ASSUME Inv, NEW r \in Refreshes, StartRefresh(r)
    PROVE  Inv'
<1> DEFINE t == [Idle EXCEPT !.stage = "queued", !.first = card.transport]
<1>1. card.transport \in Transports
  BY DEF Inv, TypeOK, StartRefresh, Cards
<1>2. t \in Tasks
  BY <1>1 DEF Idle, Unmet, Nothing, Tasks, Outcomes, Codes
<1>3. TaskOk(t) /\ t.stage = "queued"
  BY <1>1 DEF Idle, Nothing, Codes, TaskOk, Done, Holding
<1>4. /\ refresh' = [refresh EXCEPT ![r] = t]
      /\ refresh[r].stage \notin Holding /\ t.stage \notin Holding
      /\ UNCHANGED <<endpoint, changes, card, slots, clock, cache>>
  BY <1>3 DEF StartRefresh, Holding
<1> HIDE DEF t
<1> QED
  BY <1>2, <1>3, <1>4, TaskStepKeeps

LEMMA EnterGateKeeps ==
    ASSUME Inv, NEW r \in Refreshes, EnterGate(r)
    PROVE  Inv'
<1>1. /\ refresh \in [Refreshes -> Tasks] /\ refresh[r] \in Tasks /\ TaskOk(refresh[r])
      /\ refresh[r].stage = "queued" /\ endpoint \in [Transports -> Answers]
  BY DEF Inv, TypeOK, EnterGate
<1>2. Unmet \in [Transports -> SUBSET Answers]
  BY DEF Unmet
<1>3. PICK met \in [Transports -> SUBSET Answers] :
        met = Meets(Unmet, endpoint) /\ \A w \in Transports : endpoint[w] \in met[w]
  BY <1>1, <1>2, MeetsNow
<1> DEFINE t == [refresh[r] EXCEPT !.stage = "opening", !.candidate = refresh[r].first,
                                   !.met = met]
<1>4. t \in Tasks
  BY <1>1 DEF Tasks
<1>5. TaskOk(t) /\ t.stage = "opening"
  BY <1>1, <1>3 DEF Tasks, TaskOk, Done, Holding
<1>6. refresh' = [refresh EXCEPT ![r] = t]
  BY <1>1, <1>3 DEF EnterGate
<1>7. /\ refresh[r].stage \notin Holding /\ t.stage \in Holding
      /\ slots > 0 /\ slots' = slots - 1
      /\ UNCHANGED <<endpoint, changes, card, clock, cache>>
  BY <1>1, <1>5 DEF EnterGate, Holding
<1> HIDE DEF t
<1> QED
  BY <1>4, <1>5, <1>6, <1>7, TaskStepKeeps

LEMMA HandshakeKeeps ==
    ASSUME Inv, NEW r \in Refreshes, Handshake(r)
    PROVE  Inv'
<1> DEFINE t == [refresh[r] EXCEPT !.stage = "open", !.handshake = TRUE]
<1>1. refresh \in [Refreshes -> Tasks] /\ refresh[r] \in Tasks /\ TaskOk(refresh[r])
      /\ refresh[r].stage = "opening"
  BY DEF Inv, TypeOK, Handshake
<1>2. t \in Tasks
  BY <1>1 DEF Tasks
<1>3. TaskOk(t) /\ t.stage = "open"
  BY <1>1 DEF Tasks, TaskOk, Done, Holding, Nothing
<1>4. refresh' = [refresh EXCEPT ![r] = t]
  BY <1>1 DEF Handshake
<1>5. /\ refresh[r].stage \in Holding /\ t.stage \in Holding
      /\ UNCHANGED <<endpoint, changes, card, slots, clock, cache>>
  BY <1>1, <1>3 DEF Handshake, Holding
<1> HIDE DEF t
<1> QED
  BY <1>2, <1>3, <1>4, <1>5, TaskStepKeeps

(* What an attempt can meet: the code names the cause, and only an answer  *)
(* makes the other transport worth a try.                                  *)
LEMMA FailuresAreClassified ==
    ASSUME endpoint \in [Transports -> Answers], NEW t, t.candidate \in Transports,
           NEW leaves \in Failures(t)
    PROVE  LET a == endpoint[t.candidate]
               code == ClassifyFailure(leaves)
           IN  /\ code \in Codes
               /\ code = "timeout" <=> a = "timeout"
               /\ code = "unreachable" <=> a = "network"
               /\ code = "url_not_allowed" <=> a = "guard"
               /\ code = "protocol_error" <=> a \in {"protocol", "speaks"}
               /\ MeansWrongTransport(leaves) <=> a \in {"protocol", "speaks"}
<1>0. PICK a \in Answers : a = endpoint[t.candidate]
  OBVIOUS
<1>1. CASE a = "timeout"
  <2>1. Cause(t) = "timeout"
    BY <1>0, <1>1 DEF Cause
  <2>2. ClassifyFailure(leaves) = "timeout" /\ ~MeansWrongTransport(leaves)
    BY <2>1 DEF Failures, ClassifyFailure, MeansWrongTransport
  <2> QED
    BY <1>0, <1>1, <2>2 DEF Codes
<1>2. CASE a = "network"
  <2>1. Cause(t) = "network"
    BY <1>0, <1>2 DEF Cause
  <2>2. ClassifyFailure(leaves) = "unreachable" /\ ~MeansWrongTransport(leaves)
    BY <2>1 DEF Failures, ClassifyFailure, MeansWrongTransport
  <2> QED
    BY <1>0, <1>2, <2>2 DEF Codes
<1>3. CASE a = "guard"
  <2>1. Cause(t) = "guard"
    BY <1>0, <1>3 DEF Cause
  <2>2. ClassifyFailure(leaves) = "url_not_allowed" /\ ~MeansWrongTransport(leaves)
    BY <2>1 DEF Failures, ClassifyFailure, MeansWrongTransport
  <2> QED
    BY <1>0, <1>3, <2>2 DEF Codes
<1>4. CASE a \in {"protocol", "speaks"}
  <2>1. Cause(t) = "protocol"
    BY <1>0, <1>4 DEF Cause
  <2>2. ClassifyFailure(leaves) = "protocol_error" /\ MeansWrongTransport(leaves)
    BY <2>1 DEF Failures, ClassifyFailure, MeansWrongTransport
  <2> QED
    BY <1>0, <1>4, <2>2 DEF Codes
<1> QED
  BY <1>0, <1>1, <1>2, <1>3, <1>4 DEF Answers

LEMMA OpenFailsKeeps ==
    ASSUME Inv, NEW r \in Refreshes, OpenFails(r)
    PROVE  Inv'
<1>1. /\ refresh \in [Refreshes -> Tasks] /\ refresh[r] \in Tasks /\ TaskOk(refresh[r])
      /\ refresh[r].stage = "opening" /\ endpoint[refresh[r].candidate] # "speaks"
      /\ UNCHANGED <<endpoint, changes, card, clock, cache>>
      /\ endpoint \in [Transports -> Answers]
  BY DEF Inv, TypeOK, OpenFails
<1>2. PICK leaves \in Failures(refresh[r]) :
        \/ \E t \in NextCandidates(refresh[r]) :
             /\ MeansWrongTransport(leaves)
             /\ refresh' = [refresh EXCEPT ![r].candidate = t]
             /\ UNCHANGED slots
        \/ /\ NextCandidates(refresh[r]) = {} \/ ~MeansWrongTransport(leaves)
           /\ Ends(r, [Nothing EXCEPT !.error = ClassifyFailure(leaves)])
           /\ slots' = slots + 1
  BY DEF OpenFails
<1>3. /\ \A w \in Transports : endpoint[w] \in refresh[r].met[w]
      /\ refresh[r].first \in Transports /\ refresh[r].candidate \in Transports
      /\ ~refresh[r].handshake /\ refresh[r].outcome = Nothing /\ refresh[r].at = 0
      /\ refresh[r].candidate # refresh[r].first => "protocol" \in refresh[r].met[refresh[r].first]
  BY <1>1 DEF TaskOk, Holding, Done
<1>4. PICK a \in Answers :
        /\ a = endpoint[refresh[r].candidate] /\ a # "speaks"
        /\ a \in refresh[r].met[refresh[r].candidate]
        /\ MeansWrongTransport(leaves) <=> a = "protocol"
  BY <1>1, <1>3, FailuresAreClassified
<1>5. ASSUME NEW u \in NextCandidates(refresh[r]), MeansWrongTransport(leaves),
             refresh' = [refresh EXCEPT ![r].candidate = u], UNCHANGED slots
      PROVE  Inv'
  <2> DEFINE t == [refresh[r] EXCEPT !.candidate = u]
  <2>1. /\ u \in Transports /\ refresh[r].candidate = refresh[r].first
        /\ "protocol" \in refresh[r].met[refresh[r].first]
    BY <1>4, <1>5 DEF NextCandidates
  <2>2. t \in Tasks
    BY <1>1, <2>1 DEF Tasks
  <2>3. TaskOk(t) /\ t.stage = "opening"
    BY <1>1, <1>3, <2>1 DEF Tasks, TaskOk, Done, Holding
  <2>4. refresh' = [refresh EXCEPT ![r] = t]
    BY <1>1, <1>5
  <2>5. refresh[r].stage \in Holding /\ t.stage \in Holding
    BY <1>1, <2>3 DEF Holding
  <2> HIDE DEF t
  <2> QED
    BY <1>1, <1>5, <2>2, <2>3, <2>4, <2>5, TaskStepKeeps
<1>6. ASSUME NextCandidates(refresh[r]) = {} \/ ~MeansWrongTransport(leaves),
             Ends(r, [Nothing EXCEPT !.error = ClassifyFailure(leaves)]), slots' = slots + 1
      PROVE  Inv'
  <2>1. PICK code \in Codes : code = ClassifyFailure(leaves)
    BY <1>1, <1>3, FailuresAreClassified
  <2> DEFINE outcome == [Nothing EXCEPT !.error = code]
             t == [refresh[r] EXCEPT !.stage = "ended", !.outcome = outcome]
  <2>2. outcome \in Outcomes /\ outcome.tools = None /\ outcome.error = code /\ code # None
    BY DEF Nothing, Outcomes
  <2>3. NoWay(refresh[r])
    <3>1. ASSUME NEW way \in Transports, refresh[r].met[way] = {"speaks"}
          PROVE  /\ way # refresh[r].first
                 /\ ~(refresh[r].met[refresh[r].first] \subseteq {"speaks", "protocol"})
      <4>1. way # refresh[r].candidate
        BY <1>4, <3>1
      <4>2. way # refresh[r].first
        BY <1>3, <3>1, <4>1
      <4>3. refresh[r].candidate = refresh[r].first
        BY <1>3, <4>1, <4>2
      <4>4. NextCandidates(refresh[r]) # {}
        BY <4>2, <4>3 DEF NextCandidates
      <4>5. a \notin {"speaks", "protocol"}
        BY <1>4, <1>6, <4>4
      <4> QED
        BY <1>4, <4>2, <4>3, <4>5
    <3> QED
      BY <3>1 DEF NoWay
  <2> HIDE DEF outcome
  <2>4. t \in Tasks
    BY <1>1, <2>2 DEF Tasks
  <2>5. /\ t.stage = "ended" /\ t.outcome = outcome /\ t.first = refresh[r].first
        /\ t.candidate = refresh[r].candidate /\ t.met = refresh[r].met
        /\ t.at = 0
    BY <1>1, <1>3 DEF Tasks
  <2>6. refresh' = [refresh EXCEPT ![r] = t]
    BY <1>1, <1>6, <2>1 DEF Ends, outcome
  <2> HIDE DEF t
  <2>7. Named(t)
    BY <1>1, <1>3, <1>4, <2>1, <2>2, <2>5, FailuresAreClassified DEF Named
  <2>8. NoWay(t)
    BY <2>3, <2>5 DEF NoWay
  <2>9. TaskOk(t)
    BY <1>3, <2>2, <2>5, <2>7, <2>8 DEF TaskOk, Done, Holding
  <2>10. refresh[r].stage \in Holding /\ t.stage \notin Holding
    BY <1>1, <2>5 DEF Holding
  <2> QED
    BY <1>1, <1>6, <2>4, <2>6, <2>9, <2>10, TaskStepKeeps
<1> QED
  BY <1>2, <1>5, <1>6

LEMMA ListToolsKeeps ==
    ASSUME Inv, NEW r \in Refreshes, ListTools(r)
    PROVE  Inv'
<1>1. /\ refresh \in [Refreshes -> Tasks] /\ refresh[r] \in Tasks /\ TaskOk(refresh[r])
      /\ refresh[r].stage = "open"
      /\ UNCHANGED <<endpoint, changes, card, clock, cache>> /\ slots' = slots + 1
  BY DEF Inv, TypeOK, ListTools
<1>2. PICK tools \in Tools : Ends(r, [Nothing EXCEPT !.tools = tools])
  BY DEF ListTools
<1> DEFINE outcome == [Nothing EXCEPT !.tools = tools]
           t == [refresh[r] EXCEPT !.stage = "ended", !.outcome = outcome]
<1>3. outcome \in Outcomes /\ outcome.tools # None /\ outcome.error = None
  BY DEF Nothing, Outcomes
<1> HIDE DEF outcome
<1>4. t \in Tasks
  BY <1>1, <1>3 DEF Tasks
<1>5. /\ t.stage = "ended" /\ t.outcome = outcome /\ t.first = refresh[r].first
      /\ t.candidate = refresh[r].candidate /\ t.met = refresh[r].met
      /\ t.at = refresh[r].at
  BY <1>1 DEF Tasks
<1>6. refresh' = [refresh EXCEPT ![r] = t]
  BY <1>1, <1>2 DEF Ends, outcome
<1> HIDE DEF t
<1>7. TaskOk(t)
  BY <1>1, <1>3, <1>5 DEF TaskOk, Done, Holding
<1>8. refresh[r].stage \in Holding /\ t.stage \notin Holding
  BY <1>1, <1>5 DEF Holding
<1> QED
  BY <1>1, <1>4, <1>6, <1>7, <1>8, TaskStepKeeps

LEMMA ListToolsFailsKeeps ==
    ASSUME Inv, NEW r \in Refreshes, ListToolsFails(r)
    PROVE  Inv'
<1>1. /\ refresh \in [Refreshes -> Tasks] /\ refresh[r] \in Tasks /\ TaskOk(refresh[r])
      /\ refresh[r].stage = "open" /\ endpoint \in [Transports -> Answers]
      /\ UNCHANGED <<endpoint, changes, card, clock, cache>> /\ slots' = slots + 1
  BY DEF Inv, TypeOK, ListToolsFails
<1>2. PICK leaves \in Failures(refresh[r]) : Ends(r, [Nothing EXCEPT !.error = ClassifyFailure(leaves)])
  BY DEF ListToolsFails
<1>a. refresh[r].candidate \in Transports
      /\ endpoint[refresh[r].candidate] \in refresh[r].met[refresh[r].candidate]
  BY <1>1 DEF TaskOk, Holding
<1>3. PICK code \in Codes : code = ClassifyFailure(leaves)
  BY <1>1, <1>a, FailuresAreClassified
<1> DEFINE outcome == [Nothing EXCEPT !.error = code]
           t == [refresh[r] EXCEPT !.stage = "ended", !.outcome = outcome]
<1>4. outcome \in Outcomes /\ outcome.tools = None /\ outcome.error = code /\ code # None
  BY DEF Nothing, Outcomes
<1> HIDE DEF outcome
<1>5. t \in Tasks
  BY <1>1, <1>4 DEF Tasks
<1>6. /\ t.stage = "ended" /\ t.outcome = outcome /\ t.first = refresh[r].first
      /\ t.candidate = refresh[r].candidate /\ t.met = refresh[r].met
      /\ t.handshake = refresh[r].handshake /\ t.at = refresh[r].at
  BY <1>1 DEF Tasks
<1>7. refresh' = [refresh EXCEPT ![r] = t]
  BY <1>1, <1>2, <1>3 DEF Ends, outcome
<1> HIDE DEF t
<1>9. Named(t)
  BY <1>1, <1>a, <1>3, <1>4, <1>6, FailuresAreClassified DEF Named
<1>10. TaskOk(t)
  BY <1>1, <1>4, <1>6, <1>9 DEF TaskOk, Done, Holding
<1>11. refresh[r].stage \in Holding /\ t.stage \notin Holding
  BY <1>1, <1>6 DEF Holding
<1> QED
  BY <1>1, <1>5, <1>7, <1>10, <1>11, TaskStepKeeps

-----------------------------------------------------------------------------
LEMMA BeginSavingKeeps ==
    ASSUME Inv, NEW r \in Refreshes, BeginSaving(r)
    PROVE  Inv'
<1>1. /\ refresh \in [Refreshes -> Tasks] /\ refresh[r] \in Tasks /\ TaskOk(refresh[r])
      /\ refresh[r].stage = "ended" /\ clock' \in Nat
      /\ UNCHANGED <<endpoint, changes, card, slots, cache>>
  BY DEF Inv, TypeOK, BeginSaving
<1>2. PICK n \in Nat : n = clock'
  BY <1>1
<1> DEFINE t == [refresh[r] EXCEPT !.stage = "saving", !.at = n, !.handshake = FALSE,
                                   !.met = Unmet]
<1>3. t \in Tasks
  BY <1>1 DEF Tasks, Unmet
<1>4. TaskOk(t) /\ t.stage = "saving"
  BY <1>1 DEF Tasks, TaskOk, Done, Holding
<1>5. refresh' = [refresh EXCEPT ![r] = t]
  BY <1>1, <1>2 DEF BeginSaving
<1>6. refresh[r].stage \in Holding <=> t.stage \in Holding
  BY <1>1, <1>4 DEF Holding
<1> HIDE DEF t
<1>7. SlotsOk'
  BY <1>1, <1>3, <1>5, <1>6, SlotKept
<1>8. /\ refresh' \in [Refreshes -> Tasks]
      /\ \A q \in Refreshes : TaskOk(refresh[q])'
  BY <1>1, <1>3, <1>4, <1>5, TasksKept
<1> QED
  BY <1>1, <1>7, <1>8 DEF Inv, TypeOK

LEMMA UpsertIsARow ==
    ASSUME Inv, NEW r \in Refreshes
    PROVE  Upsert(refresh[r]) \in Caches
<1>1. PICK t \in Tasks : t = refresh[r]
  BY DEF Inv, TypeOK
<1>2. cache \in Caches \cup {None}
  BY DEF Inv, TypeOK
<1> QED
  BY <1>1, <1>2 DEF Upsert, Caches, Tasks, Outcomes

LEMMA SaveOutcomeKeeps ==
    ASSUME Inv, NEW r \in Refreshes, SaveOutcome(r)
    PROVE  Inv'
<1>1. /\ refresh \in [Refreshes -> Tasks] /\ refresh[r] \in Tasks /\ TaskOk(refresh[r])
      /\ refresh[r].stage = "saving" /\ card \in Cards
      /\ refresh' = [refresh EXCEPT ![r] = Idle]
      /\ UNCHANGED <<endpoint, changes, slots, clock>>
  BY DEF Inv, TypeOK, SaveOutcome
<1>2. cache' \in Caches
  BY UpsertIsARow DEF SaveOutcome
<1>3. card' \in Cards
  <2>1. refresh[r].candidate \in Transports
    BY <1>1 DEF TaskOk, Done
  <2> QED
    BY <1>1, <2>1 DEF SaveOutcome, Cards
<1>4. SlotsOk'
  BY <1>1, IdleIsOk, SlotKept DEF Holding
<1>5. /\ refresh' \in [Refreshes -> Tasks]
      /\ \A q \in Refreshes : TaskOk(refresh[q])'
  BY <1>1, IdleIsOk, TasksKept
<1>6. TypeOK'
  BY <1>1, <1>2, <1>3, <1>5 DEF Inv, TypeOK
<1> QED
  BY <1>4, <1>5, <1>6 DEF Inv

LEMMA SaveFailsKeeps ==
    ASSUME Inv, NEW r \in Refreshes, SaveFails(r)
    PROVE  Inv'
<1>1. /\ refresh[r].stage \in Done
      /\ refresh' = [refresh EXCEPT ![r] = Idle]
      /\ UNCHANGED <<endpoint, changes, card, slots, clock, cache>>
  BY DEF SaveFails, Done
<1>2. refresh[r].stage \in Holding <=> Idle.stage \in Holding
  BY <1>1, IdleIsOk DEF Holding, Done
<1> QED
  BY <1>1, <1>2, IdleIsOk, TaskStepKeeps

(* The endpoint changes: refreshes in the gate take note. *)
LEMMA EndpointChangesKeeps ==
    ASSUME Inv, EndpointChanges
    PROVE  Inv'
<1>1. /\ refresh \in [Refreshes -> Tasks] /\ endpoint' \in Endpoints
      /\ endpoint' \in [Transports -> Answers]
      /\ UNCHANGED <<card, slots, clock, cache>>
      /\ changes \in Nat /\ changes' = changes + 1
  BY DEF Inv, TypeOK, EndpointChanges
<1>2. ASSUME NEW q \in Refreshes
      PROVE  /\ refresh'[q] \in Tasks /\ TaskOk(refresh[q])'
             /\ refresh'[q].stage = refresh[q].stage
  <2>1. PICK t \in Tasks : t = refresh[q]
    BY <1>1
  <2>2. TaskOk(t)
    BY <2>1 DEF Inv
  <2>3. CASE t.stage \notin Holding
    <3>1. refresh'[q] = t
      BY <2>1, <2>3 DEF EndpointChanges, Holding
    <3> QED
      BY <2>1, <2>2, <2>3, <3>1 DEF TaskOk
  <2>4. CASE t.stage \in Holding
    <3>1. PICK met \in [Transports -> SUBSET Answers] : met = Meets(t.met, endpoint')
      BY <1>1, MeetsNow DEF Tasks
    <3>2. \A w \in Transports : endpoint'[w] \in met[w] /\ t.met[w] \subseteq met[w]
      BY <1>1, <3>1, MeetsNow DEF Tasks
    <3>3. refresh'[q] = [t EXCEPT !.met = met]
      BY <2>1, <2>4, <3>1 DEF EndpointChanges, Holding
    <3>4. PICK u : u = refresh'[q]
      OBVIOUS
    <3>5. /\ u \in Tasks /\ u.stage = t.stage /\ u.first = t.first
          /\ u.candidate = t.candidate /\ u.handshake = t.handshake
          /\ u.outcome = t.outcome /\ u.at = t.at /\ u.met = met
      BY <3>3, <3>4 DEF Tasks
    <3>6. TaskOk(refresh[q])'
      BY <2>2, <2>4, <3>2, <3>4, <3>5 DEF TaskOk, Done, Holding
    <3> QED
      BY <2>1, <3>4, <3>5, <3>6
  <2> QED
    BY <2>3, <2>4
<1>3. refresh' \in [Refreshes -> Tasks]
  BY <1>2 DEF EndpointChanges
<1>4. SlotsOk'
  <2>1. Inside' = Inside
    BY <1>2 DEF Inside
  <2> QED
    BY <1>1, <2>1 DEF Inv, SlotsOk
<1>5. TypeOK'
  BY <1>1, <1>3 DEF Inv, TypeOK
<1> QED
  BY <1>2, <1>4, <1>5 DEF Inv

LEMMA UpdateConnectorKeeps ==
    ASSUME Inv, UpdateConnector
    PROVE  Inv'
<1>1. card' \in Cards /\ UNCHANGED <<endpoint, changes, slots, refresh, clock, cache>>
  BY DEF UpdateConnector
<1> QED
  BY <1>1 DEF Inv, TypeOK, TaskOk, SlotsOk, Inside

-----------------------------------------------------------------------------
(* The invariant *)

LEMMA InitInv == Init => Inv
<1> SUFFICES ASSUME Init PROVE Inv
  OBVIOUS
<1>1. TypeOK
  <2>1. card \in Cards
    BY DEF Init, Cards
  <2>2. refresh \in [Refreshes -> Tasks] /\ slots \in 0 .. Slots
    BY IdleIsOk DEF Init
  <2> QED
    BY <2>1, <2>2 DEF Init, TypeOK
<1>2. \A r \in Refreshes : TaskOk(refresh[r])
  BY IdleIsOk DEF Init
<1>3. SlotsOk
  <2>1. Inside = {}
    BY IdleIsOk DEF Init, Inside, Holding
  <2> QED
    BY <2>1, FS_EmptySet DEF Init, SlotsOk
<1> QED
  BY <1>1, <1>2, <1>3 DEF Inv

LEMMA NextInv == Inv /\ [Next]_refreshVars => Inv'
<1> SUFFICES ASSUME Inv, [Next]_refreshVars PROVE Inv'
  OBVIOUS
<1>1. CASE UNCHANGED refreshVars
  BY <1>1 DEF refreshVars, Inv, TypeOK, TaskOk, SlotsOk, Inside
<1>2. CASE EndpointChanges
  BY <1>2, EndpointChangesKeeps
<1>3. CASE UpdateConnector
  BY <1>3, UpdateConnectorKeeps
<1>4. ASSUME NEW r \in Refreshes, StartRefresh(r) PROVE Inv'
  BY <1>4, StartRefreshKeeps
<1>5. ASSUME NEW r \in Refreshes, EnterGate(r) PROVE Inv'
  BY <1>5, EnterGateKeeps
<1>6. ASSUME NEW r \in Refreshes, Handshake(r) PROVE Inv'
  BY <1>6, HandshakeKeeps
<1>7. ASSUME NEW r \in Refreshes, OpenFails(r) PROVE Inv'
  BY <1>7, OpenFailsKeeps
<1>8. ASSUME NEW r \in Refreshes, ListTools(r) PROVE Inv'
  BY <1>8, ListToolsKeeps
<1>9. ASSUME NEW r \in Refreshes, ListToolsFails(r) PROVE Inv'
  BY <1>9, ListToolsFailsKeeps
<1>10. ASSUME NEW r \in Refreshes, SaveOutcome(r) PROVE Inv'
  BY <1>10, SaveOutcomeKeeps
<1>11. ASSUME NEW r \in Refreshes, SaveFails(r) PROVE Inv'
  BY <1>11, SaveFailsKeeps
<1>12. ASSUME NEW r \in Refreshes, BeginSaving(r) PROVE Inv'
  BY <1>12, BeginSavingKeeps
<1> QED
  BY <1>1, <1>2, <1>3, <1>4, <1>5, <1>6, <1>7, <1>8, <1>9, <1>10, <1>11, <1>12 DEF Next, RefreshStep

LEMMA InvHolds == Spec => []Inv
BY InitInv, NextInv, PTL DEF Spec

-----------------------------------------------------------------------------
(* Type correctness, for any number of refreshes, slots, lists and changes. *)
THEOREM TypeCorrect == Spec => []TypeOK
BY InvHolds, PTL DEF Inv

(* The gate adds up, however sessions break off: no more refreshes talk to *)
(* endpoints at once than it has slots, and one that finds none waits for  *)
(* a refresh that holds one and will give it back (client.py:133-147).     *)
NoSlotIsLost ==
    /\ Cardinality(Inside) <= Slots
    /\ \A r \in Refreshes :
         refresh[r].stage = "queued" /\ slots = 0 => \E s \in Refreshes \ {r} : s \in Inside

THEOREM GateAddsUp == Spec => []NoSlotIsLost
<1>1. Inv => NoSlotIsLost
  <2> SUFFICES ASSUME Inv PROVE NoSlotIsLost
    OBVIOUS
  <2>1. slots \in Nat /\ Cardinality(Inside) \in Nat /\ slots + Cardinality(Inside) = Slots
    BY FS_CardinalityType DEF Inv, TypeOK, SlotsOk
  <2>2. Cardinality(Inside) <= Slots
    BY <2>1
  <2>3. ASSUME NEW r \in Refreshes, refresh[r].stage = "queued", slots = 0
        PROVE  \E s \in Refreshes \ {r} : s \in Inside
    <3>1. Inside # {}
      BY <2>1, <2>3, FS_EmptySet DEF SlotsOk, Inv
    <3>2. r \notin Inside
      BY <2>3 DEF Inside, Holding
    <3> QED
      BY <3>1, <3>2 DEF Inside
  <2> QED
    BY <2>2, <2>3 DEF NoSlotIsLost
<1> QED
  BY <1>1, InvHolds, PTL

(* A transport spoken all the while is found if it is the card's, or if    *)
(* the card's is refused all the while and not left to time out            *)
(* (client.py:153-160, 194-212, 291-304).                                  *)
THEOREM AWayIsFound == Spec => []FallbackFindsTheWay
<1>1. Inv => FallbackFindsTheWay
  BY DEF Inv, TaskOk, NoWay, FallbackFindsTheWay
<1> QED
  BY <1>1, InvHolds, PTL

(* No second attempt at a dead endpoint (client.py:201-203).               *)
THEOREM SecondTriesAnswered == Spec => []AnsweredBeforeFallback
<1>1. Inv => AnsweredBeforeFallback
  BY DEF Inv, TaskOk, Holding, AnsweredBeforeFallback
<1> QED
  BY <1>1, InvHolds, PTL

(* The error a user reads is one that occurred (client.py:214-247).        *)
THEOREM ErrorsNameCauses == Spec => []ErrorNamesCause
<1>1. Inv => ErrorNamesCause
  <2> DEFINE causes == [timeout |-> {"timeout"}, unreachable |-> {"network"},
                        url_not_allowed |-> {"guard"},
                        protocol_error |-> {"protocol", "speaks"}]
  <2> SUFFICES ASSUME Inv, NEW r \in Refreshes,
                      refresh[r].stage = "ended", refresh[r].outcome.error # None
               PROVE  causes[refresh[r].outcome.error]
                        \cap refresh[r].met[refresh[r].candidate] # {}
    BY DEF ErrorNamesCause
  <2>1. refresh[r].outcome.error \in Codes /\ Named(refresh[r])
    BY DEF Inv, TypeOK, Tasks, Outcomes, TaskOk
  <2> QED
    BY <2>1 DEF Codes, Named
<1> QED
  BY <1>1, InvHolds, PTL

-----------------------------------------------------------------------------
(***************************************************************************)
(* The row and the outcomes behind it.  A history variable, which only     *)
(* looks on, keeps what was committed, in order.                           *)
(***************************************************************************)
VARIABLE saved

Good == {i \in DOMAIN saved : saved[i].outcome.tools # None}

(* The row tells what was seen last and what happened last (probes.py:     *)
(* 48-49): the list of the last fetch that worked, with the date of that   *)
(* fetch, and the error of the last one, however refreshes overlapped and  *)
(* failed.                                                                 *)
CacheSummarisesOutcomes ==
    IF saved = <<>> THEN cache = None
    ELSE /\ cache.error = saved[Len(saved)].outcome.error
         /\ IF Good = {} THEN cache.tools = None /\ cache.fetchedAt = 0
            ELSE \E last \in Good :
                   /\ \A i \in Good : i <= last
                   /\ cache.tools = saved[last].outcome.tools
                   /\ cache.fetchedAt = saved[last].at

Saves == [outcome : Outcomes, at : Nat]

Logged(r) ==
    SaveOutcome(r) /\ saved' = Append(saved, [outcome |-> refresh[r].outcome,
                                             at |-> refresh[r].at])

LogNext ==
    \/ \E r \in Refreshes : Logged(r)
    \/ /\ EndpointChanges \/ UpdateConnector
       /\ UNCHANGED saved
    \/ \E r \in Refreshes :
         /\ \/ StartRefresh(r) \/ EnterGate(r) \/ Handshake(r) \/ OpenFails(r)
            \/ ListTools(r) \/ ListToolsFails(r) \/ BeginSaving(r) \/ SaveFails(r)
         /\ UNCHANGED saved

LogSpec == Init /\ saved = <<>> /\ [][LogNext]_<<refreshVars, saved>>

LogInv ==
    /\ Inv
    /\ saved \in Seq(Saves)
    /\ saved # <<>> => cache \in Caches
    /\ CacheSummarisesOutcomes

(* The row after one more outcome *)
LEMMA UpsertSummarises ==
    ASSUME LogInv, NEW r \in Refreshes, Logged(r)
    PROVE  CacheSummarisesOutcomes' /\ cache' \in Caches /\ saved' \in Seq(Saves)
<1>1. /\ saved \in Seq(Saves) /\ cache \in Caches \cup {None} /\ CacheSummarisesOutcomes
      /\ cache' = Upsert(refresh[r])
  BY DEF LogInv, Inv, TypeOK, Logged, SaveOutcome
<1>a. PICK o \in Outcomes, at \in Nat : o = refresh[r].outcome /\ at = refresh[r].at
  BY DEF LogInv, Inv, TypeOK, Tasks
<1>b. o.tools = None <=> o.error # None
  BY <1>a DEF LogInv, Inv, TaskOk, Logged, SaveOutcome, Done
<1> DEFINE s == [outcome |-> o, at |-> at]
<1>c. s \in Saves /\ s.outcome = o /\ s.at = at /\ saved' = Append(saved, s)
  BY <1>a DEF Saves, Logged
<1> HIDE DEF s
<1>2. PICK n \in Nat : n = Len(saved)
  BY <1>1
<1>3. /\ saved' \in Seq(Saves) /\ saved' # <<>> /\ Len(saved') = n + 1
      /\ saved'[n + 1] = s /\ DOMAIN saved = 1 .. n /\ DOMAIN saved' = 1 .. (n + 1)
      /\ \A i \in 1 .. n : saved'[i] = saved[i]
      /\ n = 0 <=> saved = <<>>
  BY <1>1, <1>2, <1>c
<1>4. Good' = IF o.tools # None THEN Good \cup {n + 1} ELSE Good
  <2>1. \A i \in 1 .. (n + 1) : i \in Good' <=> saved'[i].outcome.tools # None
    BY <1>3 DEF Good
  <2>2. \A i \in 1 .. n : i \in Good' <=> i \in Good
    BY <1>3, <2>1 DEF Good
  <2>3. n + 1 \in Good' <=> o.tools # None
    BY <1>3, <1>c, <2>1
  <2>4. Good \subseteq 1 .. n /\ Good' \subseteq 1 .. (n + 1)
    BY <1>3 DEF Good
  <2>a. \A i : i \in 1 .. (n + 1) <=> i \in 1 .. n \/ i = n + 1
    OBVIOUS
  <2>b. \A i : i \in Good' <=> i \in Good \/ (i = n + 1 /\ o.tools # None)
    BY <2>2, <2>3, <2>4, <2>a, Zenon
  <2>5. CASE o.tools # None
    BY <2>b, <2>5, Zenon
  <2>6. CASE o.tools = None
    BY <2>b, <2>6, Zenon
  <2> QED
    BY <2>5, <2>6
<1>5. Good \subseteq 1 .. n
  BY <1>3 DEF Good
<1>d. saved'[Len(saved')].outcome.error = o.error
  BY <1>3, <1>c
<1>6. CASE o.tools # None
  <2>1. cache' = [tools |-> o.tools, fetchedAt |-> at, error |-> None]
    BY <1>1, <1>a, <1>6 DEF Upsert
  <2>2. n + 1 \in Good' /\ \A i \in Good' : i <= n + 1
    BY <1>4, <1>5, <1>6
  <2>3. /\ cache' \in Caches /\ cache'.error = o.error
        /\ cache'.tools = o.tools /\ cache'.fetchedAt = at
    BY <1>b, <1>6, <2>1 DEF Caches, Outcomes
  <2>4. saved'[n + 1].outcome.tools = o.tools /\ saved'[n + 1].at = at
    BY <1>3, <1>c
  <2> QED
    BY <1>3, <1>d, <2>2, <2>3, <2>4 DEF CacheSummarisesOutcomes
<1>7. CASE o.tools = None /\ cache = None
  <2>1. cache' = [tools |-> None, fetchedAt |-> 0, error |-> o.error]
    BY <1>1, <1>a, <1>7 DEF Upsert
  <2>2. Good' = {}
    <3>1. saved = <<>>
      BY <1>7 DEF LogInv
    <3> QED
      BY <1>3, <1>4, <1>5, <1>7, <3>1
  <2>3. cache' \in Caches
    BY <2>1 DEF Caches, Outcomes
  <2> QED
    BY <1>3, <1>d, <2>1, <2>2, <2>3 DEF CacheSummarisesOutcomes
<1>8. CASE o.tools = None /\ cache # None
  <2>1. cache \in Caches /\ cache' = [cache EXCEPT !.error = o.error]
    BY <1>1, <1>a, <1>8 DEF Upsert
  <2>2. /\ cache' \in Caches /\ cache'.error = o.error
        /\ cache'.tools = cache.tools /\ cache'.fetchedAt = cache.fetchedAt
    BY <2>1 DEF Caches, Outcomes
  <2>3. Good' = Good /\ saved # <<>>
    BY <1>1, <1>4, <1>8 DEF CacheSummarisesOutcomes
  <2>4. CASE Good = {}
    BY <1>1, <1>3, <1>d, <2>2, <2>3, <2>4 DEF CacheSummarisesOutcomes
  <2>5. CASE Good # {}
    <3>1. PICK last \in Good :
            /\ \A i \in Good : i <= last
            /\ cache.tools = saved[last].outcome.tools
            /\ cache.fetchedAt = saved[last].at
      BY <1>1, <2>3, <2>5 DEF CacheSummarisesOutcomes
    <3>2. saved'[last] = saved[last]
      BY <1>3, <1>5, <3>1
    <3> QED
      BY <1>3, <1>d, <2>2, <2>3, <2>5, <3>1, <3>2 DEF CacheSummarisesOutcomes
  <2> QED
    BY <2>2, <2>4, <2>5, <1>3
<1> QED
  BY <1>3, <1>6, <1>7, <1>8

(* The cache row tells the last success and the last outcome, however many *)
(* refreshes overlapped and failed (probes.py:48-78).                      *)
THEOREM CacheIsASummary == LogSpec => []CacheSummarisesOutcomes
<1>1. Init /\ saved = <<>> => LogInv
  <2> SUFFICES ASSUME Init, saved = <<>> PROVE LogInv
    OBVIOUS
  <2>1. Inv /\ cache = None
    BY InitInv DEF Init
  <2>2. saved \in Seq(Saves)
    OBVIOUS
  <2> QED
    BY <2>1, <2>2 DEF LogInv, CacheSummarisesOutcomes
<1>2. LogInv /\ [LogNext]_<<refreshVars, saved>> => LogInv'
  <2> SUFFICES ASSUME LogInv, [LogNext]_<<refreshVars, saved>> PROVE LogInv'
    OBVIOUS
  <2>1. [Next]_refreshVars
    BY DEF LogNext, Logged, Next, RefreshStep
  <2>2. Inv'
    BY <2>1, NextInv DEF LogInv
  <2>3. ASSUME NEW r \in Refreshes, Logged(r) PROVE LogInv'
    BY <2>2, <2>3, UpsertSummarises DEF LogInv
  <2>4. CASE UNCHANGED <<cache, saved>>
    BY <2>2, <2>4 DEF LogInv, CacheSummarisesOutcomes, Good
  <2>5. (\E r \in Refreshes : Logged(r)) \/ UNCHANGED <<cache, saved>>
    BY DEF LogNext, refreshVars, EndpointChanges, UpdateConnector, StartRefresh, EnterGate,
           Handshake, OpenFails, ListTools, ListToolsFails, BeginSaving, SaveFails
  <2> QED
    BY <2>3, <2>4, <2>5
<1>3. LogInv => CacheSummarisesOutcomes
  BY DEF LogInv
<1> QED
  BY <1>1, <1>2, <1>3, PTL DEF LogSpec

-----------------------------------------------------------------------------
(***************************************************************************)
(* Refinement.  The messenger of ToolsBoard is out from StartRefresh until *)
(* the last attempt ends; all that happens in between, in the gate and     *)
(* with the transports, is a stutter.  It dates its news when the          *)
(* transaction begins, and posts them when that commits.                   *)
(***************************************************************************)
HomeIsBlank == \A r \in Refreshes : refresh[r].stage = "idle" => refresh[r] = Idle

BoardInv == Inv /\ HomeIsBlank

(* One refresh goes on to t, and all others bring what they brought. *)
LEMMA OneTurns ==
    ASSUME Inv, NEW r \in Refreshes, NEW t, refresh' = [refresh EXCEPT ![r] = t],
           HomeIsBlank, t.stage = "idle" => t = Idle
    PROVE  /\ HomeIsBlank'
           /\ refresh'[r] = t
           /\ \A n : Brought(r)' = n => Board!Turns(r, n)
<1>1. \A q \in Refreshes : refresh'[q] = IF q = r THEN t ELSE refresh[q]
  BY DEF Inv, TypeOK
<1>2. HomeIsBlank'
  BY <1>1 DEF HomeIsBlank
<1>3. \A q \in Refreshes : q # r => Brought(q)' = Brought(q)
  BY <1>1 DEF Brought
<1>4. ASSUME NEW n, Brought(r)' = n PROVE Board!Turns(r, n)
  BY <1>3, <1>4 DEF Board!Turns
<1> QED BY <1>1, <1>2, <1>4

LEMMA NobodyTurns ==
    ASSUME \A r \in Refreshes : Brought(r)' = Brought(r)
    PROVE  UNCHANGED [r \in Refreshes |-> Brought(r)]
  OBVIOUS

(* An attempt that is not the last: the other transport, or the handshake *)
LEMMA StillOut ==
    ASSUME BoardInv, NEW r \in Refreshes, NEW t \in Tasks,
           refresh' = [refresh EXCEPT ![r] = t], UNCHANGED <<endpoint, card, clock, cache>>,
           refresh[r].stage \in UnderWay, t.stage \in UnderWay,
           t.first = refresh[r].first, t.outcome = refresh[r].outcome,
           t.at = refresh[r].at
    PROVE  HomeIsBlank' /\ UNCHANGED Board!boardVars
<1>1. /\ HomeIsBlank' /\ refresh'[r] = t
      /\ \A q \in Refreshes : q # r => refresh'[q] = refresh[q]
  BY OneTurns DEF BoardInv, Inv, TypeOK, UnderWay
<1>2. refresh[r].outcome = Nothing
  BY DEF BoardInv, Inv, TaskOk, UnderWay, Done
<1>3. Brought(r)' = Brought(r)
  BY <1>1, <1>2 DEF Brought, UnderWay, Nothing
<1>4. \A q \in Refreshes : Brought(q)' = Brought(q)
  BY <1>1, <1>3 DEF Brought
<1> QED BY <1>1, <1>4, NobodyTurns DEF Board!boardVars

(* The last attempt *)
LEMMA ComesBack ==
    ASSUME BoardInv, NEW r \in Refreshes, NEW o \in Outcomes, Ends(r, o),
           refresh[r].stage \in Holding, UNCHANGED <<endpoint, card, clock, cache>>,
           \/ /\ o.tools \in Tools /\ o.error = None
              /\ endpoint[refresh[r].candidate] = "speaks"
           \/ o.tools = None /\ o.error = Board!Reason[endpoint[refresh[r].candidate]]
    PROVE  HomeIsBlank' /\ Board!Hear(r)
<1>1. refresh[r] \in Tasks /\ TaskOk(refresh[r])
      /\ refresh[r].candidate \in Transports /\ refresh[r].at = 0
  BY DEF BoardInv, Inv, TypeOK, TaskOk, Holding
<1> DEFINE t == [refresh[r] EXCEPT !.stage = "ended", !.outcome = o]
<1>2. /\ refresh' = [refresh EXCEPT ![r] = t]
      /\ t.stage = "ended" /\ t.outcome = o /\ t.first = refresh[r].first
      /\ t.candidate = refresh[r].candidate /\ t.at = 0
  <2>1. refresh' = [refresh EXCEPT ![r] = t]
    BY <1>1 DEF Ends
  <2>2. PICK u \in Tasks : u = refresh[r]
    BY <1>1
  <2>3. u.at = 0
    BY <1>1, <2>2
  <2> QED BY <2>1, <2>2, <2>3 DEF Tasks
<1> HIDE DEF t
<1>3. /\ HomeIsBlank' /\ refresh'[r] = t
      /\ \A n : Brought(r)' = n => Board!Turns(r, n)
  BY <1>2, OneTurns DEF BoardInv
<1> DEFINE n == [q \in Refreshes |-> Brought(q)]
<1>4. n[r].at = "out" /\ n[r].asked = refresh[r].first
  BY DEF Brought, Holding
<1>5. CASE o.tools \in Tools /\ o.error = None /\ endpoint[refresh[r].candidate] = "speaks"
  <2>1. Brought(r)' = Board!News("back", refresh[r].first, refresh[r].candidate, o.tools, None)
    BY <1>2, <1>3, <1>5 DEF Brought, Board!News
  <2>2. Board!Turns(r, Board!News("back", n[r].asked, refresh[r].candidate, o.tools, None))
    BY <1>3, <1>4, <2>1
  <2> QED BY <1>1, <1>3, <1>4, <1>5, <2>2 DEF Board!Hear
<1>6. CASE o.tools = None /\ o.error = Board!Reason[endpoint[refresh[r].candidate]]
  <2>1. Brought(r)' = Board!News("back", refresh[r].first, None, None,
                                 Board!Reason[endpoint[refresh[r].candidate]])
    BY <1>2, <1>3, <1>6 DEF Brought, Board!News
  <2>2. Board!Turns(r, Board!News("back", n[r].asked, None, None,
                                  Board!Reason[endpoint[refresh[r].candidate]]))
    BY <1>3, <1>4, <2>1
  <2> QED BY <1>1, <1>3, <1>4, <2>2 DEF Board!Hear
<1> QED BY <1>5, <1>6

LEMMA SendRefines ==
    ASSUME BoardInv, NEW r \in Refreshes, StartRefresh(r)
    PROVE  HomeIsBlank' /\ Board!Send(r)
<1> DEFINE t == [Idle EXCEPT !.stage = "queued", !.first = card.transport]
           n == [q \in Refreshes |-> Brought(q)]
<1>1. /\ refresh' = [refresh EXCEPT ![r] = t] /\ UNCHANGED <<endpoint, card, clock, cache>>
      /\ t.stage = "queued" /\ t.first = card.transport /\ t.outcome = Nothing /\ t.at = 0
      /\ card.url /\ card.transport # None
  BY DEF StartRefresh, Idle
<1> HIDE DEF t
<1>2. /\ HomeIsBlank' /\ refresh'[r] = t
      /\ \A m : Brought(r)' = m => Board!Turns(r, m)
  BY <1>1, OneTurns DEF BoardInv
<1>3. Brought(r)' = Board!News("out", card.transport, None, None, None)
  BY <1>1, <1>2 DEF Brought, Nothing, Board!News
<1>4. n[r].at = "home"
  BY DEF Brought, StartRefresh
<1> QED BY <1>1, <1>2, <1>3, <1>4 DEF Board!Send

LEMMA AttemptRefines ==
    ASSUME BoardInv, NEW r \in Refreshes,
           EnterGate(r) \/ Handshake(r) \/ OpenFails(r) \/ ListTools(r) \/ ListToolsFails(r)
    PROVE  HomeIsBlank' /\ (Board!Hear(r) \/ UNCHANGED Board!boardVars)
<1>1. /\ refresh \in [Refreshes -> Tasks] /\ refresh[r] \in Tasks
      /\ endpoint \in [Transports -> Answers]
      /\ refresh[r].stage \in Holding => refresh[r].candidate \in Transports
  BY DEF BoardInv, Inv, TypeOK, TaskOk
<1>2. ASSUME EnterGate(r) PROVE HomeIsBlank' /\ UNCHANGED Board!boardVars
  <2> DEFINE t == [refresh[r] EXCEPT !.stage = "opening", !.candidate = refresh[r].first,
                                     !.met = Meets(Unmet, endpoint)]
  <2>1. /\ t \in Tasks /\ t.stage \in UnderWay /\ refresh[r].stage \in UnderWay
        /\ t.first = refresh[r].first /\ t.outcome = refresh[r].outcome
        /\ t.at = refresh[r].at
    <3>1. Meets(Unmet, endpoint) \in [Transports -> SUBSET Answers]
      BY <1>1, MeetsNow DEF Unmet
    <3> QED BY <1>1, <1>2, <3>1 DEF Tasks, UnderWay, EnterGate
  <2>2. refresh' = [refresh EXCEPT ![r] = t] /\ UNCHANGED <<endpoint, card, clock, cache>>
    BY <1>1, <1>2 DEF EnterGate
  <2> HIDE DEF t
  <2> QED BY <2>1, <2>2, StillOut
<1>3. ASSUME Handshake(r) PROVE HomeIsBlank' /\ UNCHANGED Board!boardVars
  <2> DEFINE t == [refresh[r] EXCEPT !.stage = "open", !.handshake = TRUE]
  <2>1. /\ t \in Tasks /\ t.stage \in UnderWay /\ refresh[r].stage \in UnderWay
        /\ t.first = refresh[r].first /\ t.outcome = refresh[r].outcome
        /\ t.at = refresh[r].at
    BY <1>1, <1>3 DEF Tasks, UnderWay, Handshake
  <2>2. refresh' = [refresh EXCEPT ![r] = t] /\ UNCHANGED <<endpoint, card, clock, cache>>
    BY <1>1, <1>3 DEF Handshake
  <2> HIDE DEF t
  <2> QED BY <2>1, <2>2, StillOut
<1>4. ASSUME NEW u \in NextCandidates(refresh[r]), refresh[r].stage = "opening",
             refresh' = [refresh EXCEPT ![r].candidate = u],
             UNCHANGED <<endpoint, card, clock, cache>>
      PROVE  HomeIsBlank' /\ UNCHANGED Board!boardVars
  <2> DEFINE t == [refresh[r] EXCEPT !.candidate = u]
  <2>1. /\ t \in Tasks /\ t.stage \in UnderWay /\ refresh[r].stage \in UnderWay
        /\ t.first = refresh[r].first /\ t.outcome = refresh[r].outcome
        /\ t.at = refresh[r].at
    BY <1>1, <1>4 DEF Tasks, UnderWay, NextCandidates
  <2>2. refresh' = [refresh EXCEPT ![r] = t]
    BY <1>1, <1>4
  <2> HIDE DEF t
  <2> QED BY <1>4, <2>1, <2>2, StillOut
<1>5. ASSUME NEW leaves \in Failures(refresh[r]), refresh[r].stage \in Holding,
             Ends(r, [Nothing EXCEPT !.error = ClassifyFailure(leaves)]),
             UNCHANGED <<endpoint, card, clock, cache>>
      PROVE  HomeIsBlank' /\ Board!Hear(r)
  <2>1. PICK code \in Codes : code = ClassifyFailure(leaves)
    BY <1>1, <1>5, FailuresAreClassified
  <2> DEFINE o == [Nothing EXCEPT !.error = code]
  <2>2. o \in Outcomes /\ o.tools = None /\ o.error = code
    BY DEF Nothing, Outcomes
  <2>3. Ends(r, o)
    BY <1>5, <2>1
  <2> HIDE DEF o
  <2>4. code = Board!Reason[endpoint[refresh[r].candidate]]
    BY <1>1, <1>5, <2>1, FailuresAreClassified DEF Answers, Board!Reason
  <2> QED BY <1>5, <2>2, <2>3, <2>4, ComesBack
<1>6. ASSUME OpenFails(r) PROVE HomeIsBlank' /\ (Board!Hear(r) \/ UNCHANGED Board!boardVars)
  <2>1. refresh[r].stage = "opening" /\ UNCHANGED <<endpoint, card, clock, cache>>
    BY <1>6 DEF OpenFails
  <2>2. PICK leaves \in Failures(refresh[r]) :
          \/ \E t \in NextCandidates(refresh[r]) : refresh' = [refresh EXCEPT ![r].candidate = t]
          \/ Ends(r, [Nothing EXCEPT !.error = ClassifyFailure(leaves)])
    BY <1>6 DEF OpenFails
  <2> QED BY <1>4, <1>5, <2>1, <2>2 DEF Holding
<1>7. ASSUME ListToolsFails(r) PROVE HomeIsBlank' /\ Board!Hear(r)
  BY <1>5, <1>7 DEF ListToolsFails, Holding
<1>8. ASSUME ListTools(r) PROVE HomeIsBlank' /\ Board!Hear(r)
  <2>1. /\ refresh[r].stage \in Holding /\ UNCHANGED <<endpoint, card, clock, cache>>
        /\ endpoint[refresh[r].candidate] = "speaks"
    BY <1>8 DEF ListTools, Holding
  <2>2. PICK tools \in Tools : Ends(r, [Nothing EXCEPT !.tools = tools])
    BY <1>8 DEF ListTools
  <2> DEFINE o == [Nothing EXCEPT !.tools = tools]
  <2>3. o \in Outcomes /\ o.tools = tools /\ o.error = None
    BY DEF Nothing, Outcomes
  <2> HIDE DEF o
  <2> QED BY <2>1, <2>2, <2>3, ComesBack DEF o
<1> QED BY <1>2, <1>3, <1>6, <1>7, <1>8

(* The row after an outcome is the row of the board. *)
LEMMA DateRefines ==
    ASSUME BoardInv, NEW r \in Refreshes, BeginSaving(r)
    PROVE  HomeIsBlank' /\ Board!Date(r)
<1> DEFINE n == [q \in Refreshes |-> Brought(q)]
           t == [refresh[r] EXCEPT !.stage = "saving", !.at = clock', !.handshake = FALSE,
                                   !.met = Unmet]
<1>1. /\ refresh[r] \in Tasks /\ refresh[r].stage = "ended"
      /\ clock' = clock + 1 /\ UNCHANGED <<endpoint, card, cache>>
      /\ refresh' = [refresh EXCEPT ![r] = t]
  BY DEF BoardInv, Inv, TypeOK, BeginSaving
<1>2. /\ t.stage = "saving" /\ t.at = clock' /\ t.first = refresh[r].first
      /\ t.candidate = refresh[r].candidate /\ t.outcome = refresh[r].outcome
  BY <1>1 DEF Tasks
<1> HIDE DEF t
<1>3. /\ HomeIsBlank' /\ refresh'[r] = t
      /\ \A m : Brought(r)' = m => Board!Turns(r, m)
  BY <1>1, <1>2, OneTurns DEF BoardInv
<1>4. PICK found, tools, error, date :
        n[r] = [at |-> "back", asked |-> refresh[r].first, found |-> found,
                tools |-> tools, error |-> error, date |-> date]
        /\ found = (IF refresh[r].outcome.tools = None THEN None ELSE refresh[r].candidate)
        /\ tools = refresh[r].outcome.tools /\ error = refresh[r].outcome.error
  BY <1>1 DEF Brought
<1>5. Brought(r)' = [n[r] EXCEPT !.at = "posting", !.date = clock']
  <2>1. Brought(r)' = [at |-> "posting", asked |-> refresh[r].first, found |-> found,
                       tools |-> tools, error |-> error, date |-> clock']
    BY <1>2, <1>3, <1>4 DEF Brought
  <2> HIDE DEF n
  <2>2. PICK m : m = n[r]
    OBVIOUS
  <2>3. m = [at |-> "back", asked |-> refresh[r].first, found |-> found,
             tools |-> tools, error |-> error, date |-> date]
    BY <1>4, <2>2
  <2>4. PICK k : k = [m EXCEPT !.at = "posting"]
    OBVIOUS
  <2>5. k = [at |-> "posting", asked |-> refresh[r].first, found |-> found,
             tools |-> tools, error |-> error, date |-> date]
    BY <2>3, <2>4
  <2>6. [k EXCEPT !.date = clock'] =
          [at |-> "posting", asked |-> refresh[r].first, found |-> found,
           tools |-> tools, error |-> error, date |-> clock']
    BY <2>5
  <2> QED BY <2>1, <2>2, <2>4, <2>6
<1> QED BY <1>1, <1>3, <1>4, <1>5 DEF Board!Date

LEMMA SaveRefines ==
    ASSUME BoardInv, NEW r \in Refreshes, SaveOutcome(r)
    PROVE  HomeIsBlank' /\ (Board!PublishList(r) \/ Board!PublishError(r))
<1> DEFINE n == [q \in Refreshes |-> Brought(q)]
<1>1. /\ refresh[r] \in Tasks /\ TaskOk(refresh[r]) /\ card \in Cards
      /\ cache \in Caches \cup {None}
      /\ refresh[r].stage = "saving" /\ refresh' = [refresh EXCEPT ![r] = Idle]
      /\ UNCHANGED <<endpoint, clock>> /\ cache' = Upsert(refresh[r])
      /\ Corrects(refresh[r]) => card.url
      /\ card' = IF Corrects(refresh[r])
                 THEN [card EXCEPT !.transport = refresh[r].candidate] ELSE card
  BY DEF BoardInv, Inv, TypeOK, SaveOutcome
<1>2. PICK o \in Outcomes : o = refresh[r].outcome
  BY <1>1 DEF Tasks
<1>3. o.tools = None <=> o.error # None
  BY <1>1, <1>2 DEF TaskOk, Done
<1>4. HomeIsBlank' /\ Board!Turns(r, Board!Home)
  <2>1. /\ HomeIsBlank' /\ refresh'[r] = Idle
        /\ \A m : Brought(r)' = m => Board!Turns(r, m)
    BY <1>1, OneTurns DEF BoardInv
  <2>2. Brought(r)' = Board!Home
    BY <2>1 DEF Brought, Idle, Nothing, Board!Home, Board!News
  <2> QED BY <2>1, <2>2
<1>5. /\ n[r].at = "posting" /\ n[r].date = refresh[r].at /\ n[r].asked = refresh[r].first
      /\ n[r].tools = o.tools /\ n[r].error = o.error
      /\ o.tools # None => n[r].found = refresh[r].candidate
  BY <1>1, <1>2 DEF Brought
<1>6. CASE o.tools # None
  <2>1. cache' = Board!Row(n[r].tools, n[r].date, None)
    BY <1>1, <1>2, <1>5, <1>6 DEF Upsert, Board!Row
  <2>2. IF n[r].found = n[r].asked THEN UNCHANGED card
        ELSE card.url /\ card' = [url |-> TRUE, transport |-> n[r].found]
    <3>1. Corrects(refresh[r]) <=> n[r].found # n[r].asked
      BY <1>2, <1>5, <1>6 DEF Corrects
    <3>2. CASE n[r].found = n[r].asked
      BY <1>1, <3>1, <3>2
    <3>3. CASE n[r].found # n[r].asked
      <4>1. card.url = TRUE /\ card' = [card EXCEPT !.transport = n[r].found]
        BY <1>1, <1>5, <1>6, <3>1, <3>3 DEF Cards
      <4> QED BY <1>1, <3>3, <4>1 DEF Cards
    <3> QED BY <3>2, <3>3
  <2> QED BY <1>1, <1>4, <1>5, <1>6, <2>1, <2>2 DEF Board!PublishList
<1>7. CASE o.tools = None
  <2>1. cache' = IF cache = None THEN Board!Row(None, 0, o.error)
                 ELSE Board!Row(cache.tools, cache.fetchedAt, o.error)
    <3>1. CASE cache = None
      BY <1>1, <1>2, <1>7, <3>1 DEF Upsert, Board!Row
    <3>2. CASE cache # None
      <4>1. cache \in Caches /\ cache' = [cache EXCEPT !.error = o.error]
        BY <1>1, <1>2, <1>7, <3>2 DEF Upsert
      <4> QED BY <3>2, <4>1 DEF Caches, Board!Row
    <3> QED BY <3>1, <3>2
  <2>2. UNCHANGED card
    BY <1>1, <1>2, <1>7 DEF Corrects
  <2> QED BY <1>1, <1>4, <1>5, <1>7, <2>1, <2>2 DEF Board!PublishError
<1> QED BY <1>6, <1>7

LEMMA LoseRefines ==
    ASSUME BoardInv, NEW r \in Refreshes, SaveFails(r)
    PROVE  HomeIsBlank' /\ Board!Lose(r)
<1> DEFINE n == [q \in Refreshes |-> Brought(q)]
<1>1. /\ refresh[r].stage \in Done /\ refresh' = [refresh EXCEPT ![r] = Idle]
      /\ UNCHANGED <<endpoint, card, clock, cache>>
  BY DEF SaveFails, Done
<1>2. /\ HomeIsBlank' /\ refresh'[r] = Idle
      /\ \A m : Brought(r)' = m => Board!Turns(r, m)
  BY <1>1, OneTurns DEF BoardInv
<1>3. Brought(r)' = Board!Home
  BY <1>2 DEF Brought, Idle, Nothing, Board!Home, Board!News
<1>4. n[r].at \in {"back", "posting"}
  BY <1>1 DEF Brought, Done
<1> QED BY <1>1, <1>2, <1>3, <1>4 DEF Board!Lose

LEMMA WorldRefines ==
    ASSUME BoardInv, EndpointChanges \/ UpdateConnector
    PROVE  HomeIsBlank' /\ (Board!ServerChanges \/ Board!OwnerEdits)
<1>0. refresh \in [Refreshes -> Tasks]
  BY DEF BoardInv, Inv, TypeOK
<1>1. CASE EndpointChanges
  <2>1. endpoint' \in Endpoints /\ UNCHANGED <<card, clock, cache>>
    BY <1>1 DEF EndpointChanges
  <2>2. ASSUME NEW r \in Refreshes
        PROVE  /\ Brought(r)' = Brought(r)
               /\ refresh'[r].stage = "idle" => refresh'[r] = Idle
    <3>1. CASE refresh[r].stage \notin Holding
      <4>1. refresh'[r] = refresh[r]
        BY <1>1, <3>1 DEF EndpointChanges, Holding
      <4> QED BY <4>1 DEF Brought, BoardInv, HomeIsBlank
    <3>2. CASE refresh[r].stage \in Holding
      <4>1. PICK t \in Tasks : t = refresh[r]
        BY <1>0
      <4>2. refresh'[r] = [t EXCEPT !.met = Meets(@, endpoint')]
        BY <1>1, <3>2, <4>1 DEF EndpointChanges, Holding
      <4>3. /\ refresh'[r].stage = t.stage /\ refresh'[r].first = t.first
            /\ refresh'[r].candidate = t.candidate /\ refresh'[r].outcome = t.outcome
            /\ refresh'[r].at = t.at
        BY <4>2 DEF Tasks
      <4> QED BY <3>2, <4>1, <4>3 DEF Brought, Holding
    <3> QED BY <3>1, <3>2
  <2>3. HomeIsBlank'
    BY <2>2 DEF HomeIsBlank
  <2> QED BY <2>1, <2>2, <2>3, NobodyTurns DEF Board!ServerChanges
<1>2. CASE UpdateConnector
  <2>1. card' \in {c \in Cards : c.transport # None => c.url}
        /\ UNCHANGED <<endpoint, refresh, clock, cache>>
    BY <1>2 DEF UpdateConnector
  <2>2. HomeIsBlank' /\ \A r \in Refreshes : Brought(r)' = Brought(r)
    BY <2>1 DEF BoardInv, HomeIsBlank, Brought
  <2> QED BY <2>1, <2>2, NobodyTurns DEF Cards, Board!OwnerEdits
<1> QED BY <1>1, <1>2

LEMMA BoardStep ==
    ASSUME BoardInv, [Next]_refreshVars
    PROVE  BoardInv' /\ [Board!BoardNext]_(Board!boardVars)
<1>1. Inv'
  BY NextInv DEF BoardInv
<1>2. CASE UNCHANGED refreshVars
  <2>1. HomeIsBlank' /\ \A r \in Refreshes : Brought(r)' = Brought(r)
    BY <1>2 DEF refreshVars, BoardInv, HomeIsBlank, Brought
  <2> QED BY <1>1, <1>2, <2>1, NobodyTurns DEF refreshVars, Board!boardVars, BoardInv
<1>3. CASE EndpointChanges \/ UpdateConnector
  BY <1>1, <1>3, WorldRefines DEF Board!BoardNext, BoardInv
<1>4. ASSUME NEW r \in Refreshes, StartRefresh(r)
      PROVE  HomeIsBlank' /\ Board!BoardNext
  BY <1>4, SendRefines DEF Board!BoardNext
<1>5. ASSUME NEW r \in Refreshes, RefreshStep(r)
      PROVE  HomeIsBlank' /\ [Board!BoardNext]_(Board!boardVars)
  BY <1>5, AttemptRefines, DateRefines, SaveRefines, LoseRefines DEF RefreshStep, Board!BoardNext
<1> QED BY <1>1, <1>2, <1>3, <1>4, <1>5 DEF Next, BoardInv

(* ToolsRefresh implements ToolsBoard: whatever the gate, the fallback and *)
(* other refreshes do in between, list, reason and transport of a card are *)
(* what one refresh met in one moment, dated after it and saved in one     *)
(* step, and no failure takes a list away (client.py:263-312,              *)
(* probes.py:48-89).                                                       *)
THEOREM Refinement == Spec => ImplementsToolsBoard
<1>1. Init => BoardInv /\ Board!BoardInit
  <2> SUFFICES ASSUME Init PROVE BoardInv /\ Board!BoardInit
    OBVIOUS
  <2>1. BoardInv
    BY InitInv DEF Init, BoardInv, HomeIsBlank
  <2>2. \A r \in Refreshes : Brought(r) = Board!Home
    BY DEF Init, Brought, Idle, Nothing, Board!Home, Board!News
  <2> QED BY <2>1, <2>2 DEF Init, Board!BoardInit
<1> QED
  BY <1>1, BoardStep, PTL DEF Spec, ImplementsToolsBoard, Board!BoardSpec

-----------------------------------------------------------------------------
(***************************************************************************)
(* The URL guard (UrlGuard): hosts and redirect chains of any length.      *)
(***************************************************************************)

LEMMA LeastNumber ==
    ASSUME NEW T, T \subseteq Nat, T # {}
    PROVE  \E m \in T : \A k \in T : m <= k
<1> DEFINE R == {ss \in Nat \X Nat : ss[1] < ss[2]}
<1>1. IsWellFoundedOn(R, Nat)
  BY NatLessThanWellFounded DEF OpToRel
<1>2. \E m \in T : \A k \in T : ~ (<<k, m>> \in R)
  <2> HIDE DEF R
  <2> QED BY <1>1, WFMin
<1>3. PICK m \in T : \A k \in T : ~ (<<k, m>> \in R)
  BY <1>2
<1>4. ASSUME NEW k \in T PROVE m <= k
  <2>1. k \in Nat /\ m \in Nat
    OBVIOUS
  <2>2. ~ (k < m)
    BY <1>3, <2>1
  <2> QED BY <2>1, <2>2
<1> QED BY <1>4

(* A final dot names the same host in DNS and is the same to the allowlist *)
(* (url_guard.py:98-103).                                                  *)
MayEnd(host) == {n \in 0 .. Len(host) : \A i \in n + 1 .. Len(host) : host[i] = Dot}

LEMMA EndOfHost ==
    ASSUME NEW Chars, NEW host \in Seq(Chars)
    PROVE  \E e \in MayEnd(host) :
             (\A m \in MayEnd(host) : e <= m) /\ WithoutFinalDots(host) = SubSeq(host, 1, e)
<1>1. MayEnd(host) \subseteq Nat /\ MayEnd(host) # {}
  <2>1. Len(host) \in Nat
    OBVIOUS
  <2>2. Len(host) \in MayEnd(host)
    BY <2>1 DEF MayEnd
  <2> QED BY <2>2 DEF MayEnd
<1>2. \E e \in MayEnd(host) : \A m \in MayEnd(host) : e <= m
  BY <1>1, LeastNumber
<1> DEFINE e == CHOOSE n \in MayEnd(host) : \A m \in MayEnd(host) : n <= m
<1>3. e \in MayEnd(host) /\ \A m \in MayEnd(host) : e <= m
  BY <1>2
<1>4. WithoutFinalDots(host) = SubSeq(host, 1, e)
  BY DEF WithoutFinalDots, MayEnd
<1> HIDE DEF e
<1> QED BY <1>3, <1>4

THEOREM FinalDotIsNothing ==
    ASSUME NEW Chars, Dot \in Chars, NEW host \in Seq(Chars), NEW patterns
    PROVE  HostMatches(Append(host, Dot), patterns) <=> HostMatches(host, patterns)
<1> DEFINE dotted == Append(host, Dot)
           L == Len(host)
<1>1. /\ L \in Nat /\ dotted \in Seq(Chars) /\ Len(dotted) = L + 1
      /\ \A i \in 1 .. L : dotted[i] = host[i]
      /\ dotted[L + 1] = Dot
  BY AppendProperties
<1> HIDE DEF dotted
<1>2. MayEnd(dotted) = MayEnd(host) \cup {L + 1}
  <2>1. ASSUME NEW n \in 0 .. L
        PROVE  n \in MayEnd(dotted) <=> n \in MayEnd(host)
    <3>1. n + 1 .. L + 1 = (n + 1 .. L) \cup {L + 1}
      BY <1>1
    <3>2. n + 1 .. L \subseteq 1 .. L
      BY <1>1
    <3> QED BY <1>1, <3>1, <3>2 DEF MayEnd
  <2>2. L + 1 \in MayEnd(dotted)
    BY <1>1 DEF MayEnd
  <2>3. 0 .. L + 1 = (0 .. L) \cup {L + 1}
    BY <1>1
  <2>4. MayEnd(host) \subseteq 0 .. L /\ MayEnd(dotted) \subseteq 0 .. L + 1
    BY <1>1 DEF MayEnd
  <2> QED BY <2>1, <2>2, <2>3, <2>4
<1>3. PICK e \in MayEnd(host) :
        (\A m \in MayEnd(host) : e <= m) /\ WithoutFinalDots(host) = SubSeq(host, 1, e)
  BY EndOfHost
<1>4. \E d \in MayEnd(dotted) :
        (\A m \in MayEnd(dotted) : d <= m) /\ WithoutFinalDots(dotted) = SubSeq(dotted, 1, d)
  BY <1>1, EndOfHost
<1>5. PICK d \in MayEnd(dotted) :
        (\A m \in MayEnd(dotted) : d <= m) /\ WithoutFinalDots(dotted) = SubSeq(dotted, 1, d)
  BY <1>4
<1>6. e \in 0 .. L
  BY <1>3 DEF MayEnd
<1>7. d = e
  BY <1>1, <1>2, <1>3, <1>5, <1>6
<1>8. SubSeq(dotted, 1, e) = SubSeq(host, 1, e)
  BY <1>1, <1>6
<1> QED BY <1>3, <1>5, <1>7, <1>8 DEF HostMatches, dotted

(* However long the chain, a request follows redirects as far as the hop   *)
(* before the first that is refused, and no further, whatever comes after  *)
(* it (url_guard.py:217-219).                                              *)
THEOREM RedirectsStop ==
    ASSUME NEW n \in Nat, NEW allowed \in [1 .. n -> BOOLEAN]
    PROVE  \E k \in 0 .. n :
             /\ Contacted(allowed) = 1 .. k
             /\ \A i \in 1 .. k : allowed[i]
             /\ k < n => ~allowed[k + 1]
<1> DEFINE Refused == {i \in 1 .. n : ~allowed[i]}
<1>1. CASE Refused = {}
  <2>1. Contacted(allowed) = 1 .. n
    BY <1>1 DEF Contacted
  <2>2. n \in 0 .. n /\ \A i \in 1 .. n : allowed[i]
    BY <1>1
  <2> QED BY <2>1, <2>2
<1>2. CASE Refused # {}
  <2>1. \E f \in Refused : \A i \in Refused : f <= i
    <3>1. Refused \subseteq Nat
      OBVIOUS
    <3> HIDE DEF Refused
    <3> QED BY <1>2, <3>1, LeastNumber
  <2>2. PICK f \in Refused : \A i \in Refused : f <= i
    BY <2>1
  <2>3. /\ f \in 1 .. n /\ f - 1 \in 0 .. n /\ (f - 1) + 1 = f
        /\ \A i \in 1 .. f - 1 : allowed[i]
    BY <2>2
  <2>4. Contacted(allowed) = 1 .. f - 1
    <3>1. \A i \in 1 .. f - 1 : i \in Contacted(allowed)
      BY <2>3 DEF Contacted
    <3>2. \A i \in Contacted(allowed) : i \in 1 .. f - 1
      BY <2>2, <2>3 DEF Contacted
    <3> QED BY <3>1, <3>2
  <2> QED BY <2>2, <2>3, <2>4
<1> QED BY <1>1, <1>2
=============================================================================

------------------------ MODULE ConnectorHealthProofs ------------------------
(***************************************************************************)
(* What holds of ConnectorHealth for every number of cards, workers and    *)
(* requests.  The bounds of the model (MaxClock, MaxDrops) play no part:   *)
(* they only disable actions.                                              *)
(***************************************************************************)
EXTENDS ConnectorHealth, FiniteSetTheorems, TLAPS

Out(a) == probe[a].stage # "idle"
Begun(a) == probe[a].stage = "begun"

(* What a prober that is out carries with it. *)
ProbersCarry ==
    \A a \in Probers :
      /\ Out(a) =>
           /\ probe[a].card \in Cards
           /\ card[probe[a].card].state # "unborn"
           /\ a \in SweepTasks => probe[a].card = a[2]
      /\ probe[a].stage \in {"answered", "begun"} => probe[a].verdict \in Verdicts
      /\ Begun(a) => probe[a].at \in Nat

(* Every time in a row or in a prober's hands was issued before. *)
TimesAreIssued ==
    /\ \A c \in Cards : health[c].at # None => health[c].at < clock
    /\ \A a \in Probers : Out(a) /\ probe[a].seen # None => probe[a].seen < clock
    /\ \A a \in Probers : Begun(a) => probe[a].at < clock

(* The time of an open transaction is nobody else's and in no row, and a   *)
(* sweep task's is later than the one it read.                             *)
OpenTimesAreFresh ==
    \A a \in Probers : Begun(a) =>
      /\ \A b \in Probers : Begun(b) /\ b # a => probe[b].at # probe[a].at
      /\ \A b \in Probers : Out(b) => probe[b].seen # probe[a].at
      /\ \A c \in Cards : health[c].at # probe[a].at
      /\ probe[a].seen # None => probe[a].seen < probe[a].at

(* A sweep task counted no more results than there are now. *)
CountsArePast ==
    \A a \in SweepTasks :
      Out(a) /\ Live(probe[a].card) => probe[a].read <= Len(history[probe[a].card])

(* While no session was lost, whoever is in a tick holds the lock. *)
LockCoversTick == drops = 0 => \A w \in Workers : sweep[w] # "idle" => lock = w

RowsInv == TransportAnchored /\ RowSummarisesHistory
TokenInv == ProbersCarry /\ TimesAreIssued /\ OpenTimesAreFresh /\ CountsArePast /\ TokenIsExact
Inv == TypeOK /\ RowsInv /\ TokenInv /\ LockCoversTick

-----------------------------------------------------------------------------
(* Rows and prober states are built within their types.                    *)
LEMMA IdleType == ASSUME NEW o \in Outcomes PROVE Idle(o) \in ProbeStates
BY DEF Idle, ProbeStates, Stages, Times

LEMMA RowTypes ==
  /\ NeverChecked \in HealthRows
  /\ \A p \in Payloads : [state |-> "live", endpoint |-> p.endpoint,
                          transport |-> p.transport] \in CardRows
  /\ [state |-> "gone", endpoint |-> None, transport |-> None] \in CardRows
BY DEF NeverChecked, HealthRows, CardRows, Payloads, Times

LEMMA AssignedTypes ==
  ASSUME TypeOK, NEW c \in Cards
  PROVE  /\ Assigned("probing", c, None, 0) \in ProbeStates
         /\ Queued(c) \in ProbeStates
<1>1. health[c].at \in Times /\ card[c].transport \in Transports \cup {None}
  BY DEF TypeOK, HealthRows, CardRows
<1>2. Len(history[c]) \in Nat
  <2>1. history[c] \in Seq(BOOLEAN)
    BY DEF TypeOK
  <2> QED
    BY <2>1
<1> QED
  BY <1>1, <1>2 DEF Queued, Assigned, ProbeStates, Stages, Outcomes, Times

LEMMA MovedType ==
  ASSUME NEW p \in ProbeStates, NEW stage \in Stages,
         NEW v \in Verdicts \cup {None}, NEW t \in Times
  PROVE  Moved(p, stage, v, t) \in ProbeStates
BY DEF Moved, ProbeStates, Outcomes

LEMMA RecordedType ==
  ASSUME TypeOK, NEW a \in Probers, probe[a].card \in Cards
  PROVE  /\ Recorded(a) \in HealthRows
         /\ Recorded(a).status \in Outcomes
BY DEF TypeOK, ProbeStates, Recorded, HealthRows, Outcomes

LEMMA CorrectedType ==
  ASSUME TypeOK, NEW a \in Probers, probe[a].card \in Cards,
         probe[a].verdict \in Verdicts
  PROVE  CorrectedCard(a) \in CardRows
<1>1. card[probe[a].card] \in CardRows
  BY DEF TypeOK
<1>2. Corrects(a) => probe[a].verdict \in Transports
  BY DEF Corrects, Healthy, Verdicts
<1>3. \A row \in CardRows, t \in Transports : [row EXCEPT !.transport = t] \in CardRows
  BY DEF CardRows
<1> QED
  BY <1>1, <1>2, <1>3 DEF CorrectedCard

(* Types of single fields, and None apart from the times.                  *)
LEMMA FieldTypes ==
  ASSUME TypeOK
  PROVE  /\ \A c \in Cards : /\ health[c].at \in Times /\ health[c].fails \in Nat
                             /\ history[c] \in Seq(BOOLEAN) /\ Len(history[c]) \in Nat
         /\ \A a \in Probers : /\ probe[a].seen \in Times /\ probe[a].read \in Nat
                               /\ probe[a].at \in Times
         /\ clock \in Nat /\ None \notin Nat
<1>1. ASSUME NEW c \in Cards
      PROVE  /\ health[c].at \in Times /\ health[c].fails \in Nat
             /\ history[c] \in Seq(BOOLEAN) /\ Len(history[c]) \in Nat
  <2>1. health[c] \in HealthRows /\ history[c] \in Seq(BOOLEAN)
    BY DEF TypeOK
  <2>2. Len(history[c]) \in Nat
    BY <2>1
  <2> QED
    BY <2>1, <2>2 DEF HealthRows
<1>2. \A a \in Probers : probe[a] \in ProbeStates
  BY DEF TypeOK
<1> QED
  BY <1>1, <1>2, NoneAssumption DEF ProbeStates, TypeOK

(* A prober that ends leaves its hands empty and the others alone.         *)
LEMMA EndsEffect ==
  ASSUME TypeOK, NEW a \in Probers, NEW o, Ends(a, o)
  PROVE  /\ probe'[a].stage = "idle" /\ probe'[a].seen = None /\ probe'[a].outcome = o
         /\ \A b \in Probers : b # a => probe'[b] = probe[b]
BY DEF Ends, Idle, TypeOK

LEMMA GivesUp ==
  ASSUME TypeOK, NEW a \in Probers,
         RecordRejected(a) \/ RecordFails(a) \/ RecordSuperseded(a)
  PROVE  /\ probe'[a].stage = "idle" /\ probe'[a].seen = None
         /\ \A b \in Probers : b # a => probe'[b] = probe[b]
         /\ UNCHANGED <<card, health, history, clock, lock, drops, sweep>>
BY EndsEffect DEF RecordRejected, RecordFails, RecordSuperseded

(* What a recording changes: one row, one card's transport, one prober.    *)
LEMMA RecordEffect ==
  ASSUME TypeOK, ProbersCarry, NEW a \in Probers, RecordHealth(a)
  PROVE  LET c == probe[a].card
         IN  /\ c \in Cards /\ Live(c)
             /\ a \in SweepTasks => health[c].at = probe[a].seen
             /\ health' = [health EXCEPT ![c] = Recorded(a)]
             /\ history' = [history EXCEPT ![c] = Append(history[c], Healthy(a))]
             /\ \A d \in Cards : d # c => card'[d] = card[d]
             /\ card'[c].state = "live"
             /\ Anchored(card'[c])
             /\ probe'[a].stage = "idle" /\ probe'[a].seen = None
             /\ \A b \in Probers : b # a => probe'[b] = probe[b]
             /\ UNCHANGED <<clock, lock, drops, sweep>>
<1> DEFINE c == probe[a].card
<1>1. Begun(a) /\ c \in Cards /\ Live(c) /\ CasHolds(a) /\ Anchored(CorrectedCard(a))
  BY DEF RecordHealth, Rejected, ProbersCarry, Out, Begun
<1>2. CorrectedCard(a).state = "live"
  <2>1. card[c] \in CardRows /\ card[c].state = "live"
    BY <1>1 DEF TypeOK, Live
  <2>2. \A row \in CardRows : \A t : [row EXCEPT !.transport = t].state = row.state
    BY DEF CardRows
  <2> QED
    BY <2>1, <2>2 DEF CorrectedCard
<1>3. card' = [card EXCEPT ![c] = CorrectedCard(a)]
  BY DEF RecordHealth
<1>4. card'[c] = CorrectedCard(a) /\ \A d \in Cards : d # c => card'[d] = card[d]
  BY <1>1, <1>3 DEF TypeOK
<1>5. Ends(a, Recorded(a).status)
  BY DEF RecordHealth
<1>6. /\ probe'[a].stage = "idle" /\ probe'[a].seen = None
      /\ \A b \in Probers : b # a => probe'[b] = probe[b]
  BY <1>5, EndsEffect
<1> QED
  BY <1>1, <1>2, <1>4, <1>6 DEF RecordHealth, CasHolds, Live

(***************************************************************************)
(* All steps but two are quiet for the token argument: they issue no time  *)
(* and write no result.                                                    *)
(***************************************************************************)

(* A prober goes on with what it read, or has just read a row.             *)
Keeps(b) ==
    /\ Out(b)
    /\ probe'[b].card = probe[b].card
    /\ probe'[b].seen = probe[b].seen
    /\ probe'[b].read = probe[b].read

Takes(b) ==
    /\ UNCHANGED <<card, health, history>>
    /\ \E c \in Cards :
         /\ Live(c)
         /\ probe'[b].card = c
         /\ \/ /\ b \in SweepTasks
               /\ probe'[b].seen = health[c].at /\ probe'[b].read = Len(history[c])
            \/ /\ b \notin SweepTasks
               /\ probe'[b].seen = None /\ probe'[b].read = 0

QuietProbers ==
    \A b \in Probers :
      /\ Out(b)' => Keeps(b) \/ Takes(b)
      /\ Begun(b)' => probe'[b] = probe[b]

(* A row stays, or begins blank, or is blanked with its card.              *)
QuietRows ==
    \A c \in Cards :
      \/ /\ health'[c] = health[c] /\ history'[c] = history[c]
         /\ card'[c].state = card[c].state
      \/ /\ health'[c] = NeverChecked /\ history'[c] = <<>>
         /\ card[c].state = "unborn" \/ card'[c].state = "gone"

Quiet == QuietProbers /\ QuietRows /\ clock' = clock

(* Every step keeps the variables in their types, given what the probers   *)
(* that are out carry.                                                     *)
LEMMA TypingStep ==
  ASSUME TypeOK, ProbersCarry, [Next]_vars
  PROVE  TypeOK'
<1>1. ASSUME NEW c \in Cards, OwnerStep(c) PROVE TypeOK'
  <2>1. CASE CreateConnector(c)
    <3>1. PICK row \in CardRows : card' = [card EXCEPT ![c] = row]
      BY <2>1, RowTypes DEF CreateConnector
    <3>2. card' \in [Cards -> CardRows]
      BY <3>1 DEF TypeOK
    <3> QED
      BY <2>1, <3>2, RowTypes DEF CreateConnector, TypeOK
  <2>2. CASE UpdateConnector(c)
    <3>1. PICK row \in CardRows : card' = [card EXCEPT ![c] = row]
      BY <2>2, RowTypes DEF UpdateConnector
    <3>2. card' \in [Cards -> CardRows]
      BY <3>1 DEF TypeOK
    <3> QED
      BY <2>2, <3>2 DEF UpdateConnector, TypeOK
  <2>3. CASE DeleteConnector(c)
    <3>1. PICK row \in CardRows : card' = [card EXCEPT ![c] = row]
      BY <2>3, RowTypes DEF DeleteConnector
    <3>2. card' \in [Cards -> CardRows]
      BY <3>1 DEF TypeOK
    <3> QED
      BY <2>3, <3>2, RowTypes DEF DeleteConnector, TypeOK
  <2>4. CASE RefreshCorrectsTransport(c)
    <3>1. PICK t \in Transports : card' = [card EXCEPT ![c].transport = t]
      BY <2>4 DEF RefreshCorrectsTransport
    <3>2. card[c] \in CardRows
      BY DEF TypeOK
    <3>3. [card[c] EXCEPT !.transport = t] \in CardRows
      BY <3>2 DEF CardRows
    <3>4. card' = [card EXCEPT ![c] = [card[c] EXCEPT !.transport = t]]
      BY <3>1
    <3>5. card' \in [Cards -> CardRows]
      BY <3>3, <3>4 DEF TypeOK
    <3> QED
      BY <2>4, <3>5 DEF RefreshCorrectsTransport, TypeOK
  <2> QED
    BY <1>1, <2>1, <2>2, <2>3, <2>4 DEF OwnerStep
<1>2. ASSUME NEW w \in Workers, TickStep(w) PROVE TypeOK'
  <2>1. CASE TryLock(w)
    BY <2>1 DEF TryLock, TypeOK
  <2>2. CASE FetchCandidates(w)
    <3>1. Idle("none") \in ProbeStates /\ \A c \in Cards : Queued(c) \in ProbeStates
      BY IdleType, AssignedTypes DEF Outcomes
    <3>2. \A a \in {w} \X Cards : a[2] \in Cards
      OBVIOUS
    <3>3. probe' \in [Probers -> ProbeStates]
      BY <2>2, <3>1, <3>2 DEF FetchCandidates, TypeOK
    <3> QED
      BY <2>2, <3>3 DEF FetchCandidates, TypeOK
  <2>3. CASE \E c \in Cards : StartProbe(w, c)
    <3>1. PICK c \in Cards : StartProbe(w, c)
      BY <2>3
    <3>2. <<w, c>> \in Probers
      BY DEF Probers, SweepTasks
    <3>3. Moved(probe[<<w, c>>], "probing", None, None) \in ProbeStates
      BY <3>2, MovedType DEF TypeOK, Stages, Times
    <3> QED
      BY <3>1, <3>2, <3>3 DEF StartProbe, TypeOK
  <2>4. CASE FinishTick(w)
    BY <2>4 DEF FinishTick, ReleasedBy, TypeOK
  <2> QED
    BY <1>2, <2>1, <2>2, <2>3, <2>4 DEF TickStep
<1>3. ASSUME NEW r \in Requests, RecheckHealth(r) PROVE TypeOK'
  <2>1. PICK c \in Cards : probe' = [probe EXCEPT ![r] = Assigned("probing", c, None, 0)]
    BY <1>3 DEF RecheckHealth
  <2>2. Assigned("probing", c, None, 0) \in ProbeStates
    BY AssignedTypes
  <2> QED
    BY <1>3, <2>1, <2>2 DEF RecheckHealth, TypeOK
<1>4. ASSUME NEW a \in Probers, ProbeStep(a) \/ RecordFails(a) PROVE TypeOK'
  <2>1. CASE CheckLiveness(a)
    <3>1. \A v \in Verdicts : Moved(probe[a], "answered", v, None) \in ProbeStates
      BY MovedType DEF TypeOK, Stages, Times
    <3> QED
      BY <2>1, <3>1 DEF CheckLiveness, TypeOK
  <2>2. CASE BeginRecording(a)
    <3>1. probe[a] \in ProbeStates /\ probe[a].verdict \in Verdicts \cup {None}
      BY DEF TypeOK, ProbeStates
    <3>2. Moved(probe[a], "begun", probe[a].verdict, clock) \in ProbeStates
      BY <3>1, MovedType DEF TypeOK, Stages, Times
    <3> QED
      BY <2>2, <3>2 DEF BeginRecording, TypeOK
  <2>3. CASE RecordRejected(a) \/ RecordFails(a) \/ RecordSuperseded(a)
    BY <2>3, IdleType DEF RecordRejected, RecordFails, RecordSuperseded, Ends, TypeOK, Outcomes
  <2>4. CASE RecordHealth(a)
    <3>1. probe[a].card \in Cards /\ probe[a].verdict \in Verdicts
      BY <2>4 DEF RecordHealth, ProbersCarry, Out
    <3>2. Healthy(a) \in BOOLEAN /\ history[probe[a].card] \in Seq(BOOLEAN)
      BY <3>1 DEF Healthy, TypeOK
    <3>3. Append(history[probe[a].card], Healthy(a)) \in Seq(BOOLEAN)
      BY <3>2
    <3>4. history' \in [Cards -> Seq(BOOLEAN)]
      BY <2>4, <3>1, <3>3 DEF RecordHealth, TypeOK
    <3>5. probe' \in [Probers -> ProbeStates]
      BY <2>4, <3>1, RecordedType, IdleType DEF RecordHealth, Ends, TypeOK
    <3>6. health' \in [Cards -> HealthRows] /\ card' \in [Cards -> CardRows]
      BY <2>4, <3>1, RecordedType, CorrectedType DEF RecordHealth, TypeOK
    <3> QED
      BY <2>4, <3>4, <3>5, <3>6 DEF RecordHealth, TypeOK
  <2> QED
    BY <1>4, <2>1, <2>2, <2>3, <2>4 DEF ProbeStep
<1>5. ASSUME NEW w \in Workers, FetchFails(w) \/ LoseLockSession(w) \/ CrashWorker(w)
      PROVE TypeOK'
  <2>1. CASE FetchFails(w) \/ LoseLockSession(w)
    BY <2>1 DEF FetchFails, LoseLockSession, ReleasedBy, TypeOK
  <2>2. CASE CrashWorker(w)
    BY <2>2, IdleType DEF CrashWorker, ReleasedBy, TypeOK, Outcomes
  <2> QED
    BY <1>5, <2>1, <2>2
<1>6. CASE CrashApi
  BY <1>6, IdleType DEF CrashApi, TypeOK, Outcomes
<1>7. CASE UNCHANGED vars
  BY <1>7 DEF vars, TypeOK
<1> QED
  BY <1>1, <1>2, <1>3, <1>4, <1>5, <1>6, <1>7 DEF Next, Fault

(* Only a card that is live is handed to a prober, and a row never goes    *)
(* back to "unborn".                                                       *)
LEMMA ProbersCarryStep ==
  ASSUME TypeOK, ProbersCarry, [Next]_vars
  PROVE  ProbersCarry'
<1>1. ASSUME NEW c \in Cards, OwnerStep(c) PROVE ProbersCarry'
  <2>1. CASE CreateConnector(c)
    BY <2>1 DEF ProbersCarry, Out, Begun, TypeOK, Live, Probeable, Probers, SweepTasks, CreateConnector, NeverChecked
  <2>2. CASE UpdateConnector(c)
    BY <2>2 DEF ProbersCarry, Out, Begun, TypeOK, Live, Probeable, Probers, SweepTasks, UpdateConnector
  <2>3. CASE DeleteConnector(c)
    BY <2>3 DEF ProbersCarry, Out, Begun, TypeOK, Live, Probeable, Probers, SweepTasks, DeleteConnector, NeverChecked
  <2>4. CASE RefreshCorrectsTransport(c)
    BY <2>4 DEF ProbersCarry, Out, Begun, TypeOK, Live, Probeable, Probers, SweepTasks, RefreshCorrectsTransport
  <2> QED
    BY <1>1, <2>1, <2>2, <2>3, <2>4 DEF OwnerStep
<1>2. ASSUME NEW w \in Workers, TickStep(w) PROVE ProbersCarry'
  <2>1. CASE TryLock(w)
    BY <2>1 DEF ProbersCarry, Out, Begun, TypeOK, Live, Probeable, Probers, SweepTasks, TryLock
  <2>2. CASE FetchCandidates(w)
    BY <2>2 DEF ProbersCarry, Out, Begun, TypeOK, Live, Probeable, Probers, SweepTasks, FetchCandidates, IsBatch, Queued, Assigned, Idle
  <2>3. CASE \E c \in Cards : StartProbe(w, c)
    BY <2>3 DEF ProbersCarry, Out, Begun, TypeOK, Live, Probeable, Probers, SweepTasks, StartProbe, Moved
  <2>4. CASE FinishTick(w)
    BY <2>4 DEF ProbersCarry, Out, Begun, TypeOK, Live, Probeable, Probers, SweepTasks, FinishTick, ReleasedBy
  <2> QED
    BY <1>2, <2>1, <2>2, <2>3, <2>4 DEF TickStep
<1>3. ASSUME NEW r \in Requests, RecheckHealth(r) PROVE ProbersCarry'
  <2>1. PICK c \in Cards : /\ Probeable(c)
                          /\ probe' = [probe EXCEPT ![r] = Assigned("probing", c, None, 0)]
    BY <1>3 DEF RecheckHealth
  <2>2. r \notin SweepTasks /\ r \in Probers /\ card' = card
    BY <1>3, ProbersAssumption DEF Probers, RecheckHealth
  <2> QED
    BY <2>1, <2>2 DEF ProbersCarry, Out, Begun, TypeOK, Live, Probeable, Assigned
<1>4. ASSUME NEW a \in Probers, ProbeStep(a) \/ RecordFails(a) PROVE ProbersCarry'
  <2>1. CASE CheckLiveness(a)
    BY <2>1 DEF ProbersCarry, Out, Begun, TypeOK, Moved, CheckLiveness
  <2>2. CASE BeginRecording(a)
    BY <2>2 DEF ProbersCarry, Out, Begun, TypeOK, Moved, BeginRecording
  <2>3. CASE RecordRejected(a) \/ RecordFails(a) \/ RecordSuperseded(a)
    BY <2>3, GivesUp DEF ProbersCarry, Out, Begun
  <2>4. CASE RecordHealth(a)
    BY <2>4, RecordEffect DEF ProbersCarry, Out, Begun, Live
  <2> QED
    BY <1>4, <2>1, <2>2, <2>3, <2>4 DEF ProbeStep
<1>5. ASSUME NEW w \in Workers, FetchFails(w) \/ LoseLockSession(w) \/ CrashWorker(w)
      PROVE ProbersCarry'
  <2>1. CASE FetchFails(w) \/ LoseLockSession(w)
    BY <2>1 DEF ProbersCarry, Out, Begun, TypeOK, Live, Probeable, Probers, SweepTasks, FetchFails, LoseLockSession, ReleasedBy
  <2>2. CASE CrashWorker(w)
    BY <2>2 DEF ProbersCarry, Out, Begun, TypeOK, Live, Probeable, Probers, SweepTasks, CrashWorker, ReleasedBy, Idle
  <2> QED
    BY <1>5, <2>1, <2>2
<1>6. CASE CrashApi
  BY <1>6 DEF ProbersCarry, Out, Begun, TypeOK, Live, Probeable, Probers, SweepTasks, CrashApi, Idle
<1>7. CASE UNCHANGED vars
  BY <1>7 DEF ProbersCarry, Out, Begun, TypeOK, Live, Probeable, Probers, SweepTasks, vars
<1> QED
  BY <1>1, <1>2, <1>3, <1>4, <1>5, <1>6, <1>7 DEF Next, Fault


(* Every step is quiet, or begins a recording, or records.                 *)
LEMMA QuietStep ==
  ASSUME TypeOK, ProbersCarry, [Next]_vars
  PROVE  Quiet \/ \E a \in Probers : BeginRecording(a) \/ RecordHealth(a)
<1>1. ASSUME NEW c \in Cards, OwnerStep(c) PROVE Quiet
  <2>1. CASE CreateConnector(c)
    BY <2>1 DEF Quiet, QuietProbers, QuietRows, Keeps, Out, Begun, TypeOK, CreateConnector
  <2>2. CASE UpdateConnector(c)
    BY <2>2 DEF Quiet, QuietProbers, QuietRows, Keeps, Out, Begun, TypeOK, Live, UpdateConnector
  <2>3. CASE DeleteConnector(c)
    BY <2>3 DEF Quiet, QuietProbers, QuietRows, Keeps, Out, Begun, TypeOK, DeleteConnector
  <2>4. CASE RefreshCorrectsTransport(c)
    BY <2>4 DEF Quiet, QuietProbers, QuietRows, Keeps, Takes, Out, Begun, RefreshCorrectsTransport
  <2> QED
    BY <1>1, <2>1, <2>2, <2>3, <2>4 DEF OwnerStep
<1>2. ASSUME NEW w \in Workers, TickStep(w) PROVE Quiet
  <2>1. CASE TryLock(w)
    BY <2>1 DEF Quiet, QuietProbers, QuietRows, Keeps, Takes, Out, Begun, TryLock
  <2>2. CASE FetchCandidates(w)
    <3>1. UNCHANGED <<card, health, history, clock>>
      BY <2>2 DEF FetchCandidates
    <3>2. PICK batch \in SUBSET Cards :
            /\ IsBatch(batch)
            /\ probe' = [a \in Probers |->
                  IF a \in {w} \X Cards
                    THEN IF a[2] \in batch THEN Queued(a[2]) ELSE Idle("none")
                    ELSE probe[a]]
      BY <2>2 DEF FetchCandidates
    <3>3. \A c \in batch : c \in Cards /\ Live(c)
      BY <3>2 DEF IsBatch, Probeable
    <3>4. ASSUME NEW b \in Probers, b \in {w} \X Cards, b[2] \in batch
          PROVE  Takes(b) /\ ~Begun(b)'
      <4>1. b \in SweepTasks
        BY <3>4 DEF SweepTasks
      <4> QED
        BY <3>1, <3>2, <3>3, <3>4, <4>1 DEF Takes, Queued, Assigned, Begun
    <3>5. ASSUME NEW b \in Probers, b \in {w} \X Cards, b[2] \notin batch
          PROVE  ~Out(b)' /\ ~Begun(b)'
      BY <3>2, <3>5 DEF Idle, Out, Begun
    <3>6. ASSUME NEW b \in Probers, b \notin {w} \X Cards
          PROVE  probe'[b] = probe[b]
      BY <3>2, <3>6
    <3>7. QuietProbers
      BY <3>4, <3>5, <3>6 DEF QuietProbers, Keeps, Out, Begun
    <3> QED
      BY <3>1, <3>7 DEF Quiet, QuietRows
  <2>3. CASE \E c \in Cards : StartProbe(w, c)
    BY <2>3 DEF Quiet, QuietProbers, QuietRows, Keeps, Takes, Out, Begun, StartProbe, Moved
  <2>4. CASE FinishTick(w)
    BY <2>4 DEF Quiet, QuietProbers, QuietRows, Keeps, Takes, Out, Begun, FinishTick, ReleasedBy
  <2> QED
    BY <1>2, <2>1, <2>2, <2>3, <2>4 DEF TickStep
<1>3. ASSUME NEW r \in Requests, RecheckHealth(r) PROVE Quiet
  <2>1. PICK c \in Cards : /\ Probeable(c)
                          /\ probe' = [probe EXCEPT ![r] = Assigned("probing", c, None, 0)]
    BY <1>3 DEF RecheckHealth
  <2>2. r \notin SweepTasks /\ r \in Probers /\ UNCHANGED <<card, health, history, clock>>
    BY <1>3, ProbersAssumption DEF Probers, RecheckHealth
  <2>3. Takes(r) /\ ~Begun(r)'
    BY <2>1, <2>2 DEF Takes, Probeable, Assigned, Begun, TypeOK
  <2>4. \A b \in Probers : b # r => probe'[b] = probe[b]
    BY <2>1, <2>2 DEF TypeOK
  <2> QED
    BY <2>2, <2>3, <2>4 DEF Quiet, QuietProbers, QuietRows, Keeps, Out, Begun
<1>4. ASSUME NEW a \in Probers, ProbeStep(a) \/ RecordFails(a)
      PROVE  Quiet \/ BeginRecording(a) \/ RecordHealth(a)
  <2>1. CASE CheckLiveness(a)
    BY <2>1 DEF Quiet, QuietProbers, QuietRows, Keeps, Takes, Out, Begun, CheckLiveness, Moved
  <2>2. CASE BeginRecording(a)
    BY <2>2
  <2>3. CASE RecordRejected(a) \/ RecordFails(a) \/ RecordSuperseded(a)
    BY <2>3, GivesUp DEF Quiet, QuietProbers, QuietRows, Keeps, Out, Begun
  <2>4. CASE RecordHealth(a)
    BY <2>4
  <2> QED
    BY <1>4, <2>1, <2>2, <2>3, <2>4 DEF ProbeStep
<1>5. ASSUME NEW w \in Workers, FetchFails(w) \/ LoseLockSession(w) \/ CrashWorker(w)
      PROVE Quiet
  <2>1. CASE FetchFails(w) \/ LoseLockSession(w)
    BY <2>1 DEF Quiet, QuietProbers, QuietRows, Keeps, Takes, Out, Begun, FetchFails, LoseLockSession, ReleasedBy
  <2>2. CASE CrashWorker(w)
    BY <2>2 DEF Quiet, QuietProbers, QuietRows, Keeps, Takes, Out, Begun, CrashWorker, ReleasedBy, Idle
  <2> QED
    BY <1>5, <2>1, <2>2
<1>6. CASE CrashApi
  BY <1>6 DEF Quiet, QuietProbers, QuietRows, Keeps, Takes, Out, Begun, CrashApi, Idle
<1>7. CASE UNCHANGED vars
  BY <1>7 DEF Quiet, QuietProbers, QuietRows, Keeps, Takes, Out, Begun, vars
<1> QED
  BY <1>1, <1>2, <1>3, <1>4, <1>5, <1>6, <1>7 DEF Next, Fault

(* The steps that are not quiet, field by field.                           *)
LEMMA BeginEffect ==
  ASSUME TypeOK, NEW a \in Probers, BeginRecording(a)
  PROVE  /\ Begun(a)' /\ probe'[a].at = clock /\ clock' = clock + 1 /\ Keeps(a) /\ ~Begun(a)
         /\ \A b \in Probers : b # a => probe'[b] = probe[b]
         /\ UNCHANGED <<card, health, history>>
BY DEF BeginRecording, Begun, Out, Keeps, Moved, TypeOK

LEMMA RecordTimes ==
  ASSUME TypeOK, ProbersCarry, NEW a \in Probers, RecordHealth(a)
  PROVE  LET c == probe[a].card
         IN  /\ c \in Cards /\ Begun(a) /\ ~Out(a)' /\ ~Begun(a)'
             /\ health'[c].at = probe[a].at
             /\ history'[c] = Append(history[c], Healthy(a))
             /\ \A d \in Cards : d # c => health'[d] = health[d] /\ history'[d] = history[d]
             /\ \A b \in Probers : b # a => probe'[b] = probe[b]
             /\ \A d \in Cards : card'[d].state = card[d].state
             /\ Live(c) /\ clock' = clock
<1>1. probe[a].card \in Cards
  BY RecordEffect
<1> QED
  BY <1>1, RecordEffect DEF RecordHealth, Recorded, Begun, Out, TypeOK, Live

(* A transaction takes the clock's time and moves the clock on.            *)
LEMMA TimesStep ==
  ASSUME TypeOK, ProbersCarry, TimesAreIssued, [Next]_vars
  PROVE  TimesAreIssued'
<1>1. CASE Quiet
  BY <1>1, FieldTypes DEF Quiet, QuietProbers, QuietRows, Keeps, Takes, TimesAreIssued,
     NeverChecked, Times, Begun, Out
<1>2. ASSUME NEW a \in Probers, BeginRecording(a) PROVE TimesAreIssued'
  <2>1. \A c \in Cards : health'[c].at # None => health'[c].at < clock'
    BY <1>2, BeginEffect, FieldTypes DEF TimesAreIssued, Times
  <2>2. ASSUME NEW b \in Probers, Out(b)', probe'[b].seen # None
        PROVE  probe'[b].seen < clock'
    <3>1. Out(b) /\ probe'[b].seen = probe[b].seen
      BY <1>2, <2>2, BeginEffect DEF Keeps, Out
    <3>2. probe[b].seen < clock /\ probe[b].seen \in Nat
      BY <2>2, <3>1, FieldTypes DEF TimesAreIssued, Times
    <3> QED
      BY <1>2, <3>1, <3>2, BeginEffect, FieldTypes
  <2>3. ASSUME NEW b \in Probers, Begun(b)' PROVE probe'[b].at < clock'
    <3>1. CASE b = a
      BY <1>2, <3>1, BeginEffect, FieldTypes
    <3>2. CASE b # a
      <4>1. Begun(b) /\ probe'[b].at = probe[b].at /\ probe[b].at \in Nat
        BY <1>2, <2>3, <3>2, BeginEffect DEF Begun, ProbersCarry
      <4> QED
        BY <1>2, <4>1, BeginEffect, FieldTypes DEF TimesAreIssued
    <3> QED
      BY <3>1, <3>2
  <2> QED
    BY <2>1, <2>2, <2>3 DEF TimesAreIssued
<1>3. ASSUME NEW a \in Probers, RecordHealth(a) PROVE TimesAreIssued'
  BY <1>3, RecordTimes, FieldTypes DEF TimesAreIssued, Times, Begun, Out
<1> QED
  BY <1>1, <1>2, <1>3, QuietStep

(* ... so that time is later than every time issued before.                *)
LEMMA FreshStep ==
  ASSUME TypeOK, ProbersCarry, TimesAreIssued, OpenTimesAreFresh, [Next]_vars
  PROVE  OpenTimesAreFresh'
<1>0. \A a \in Probers : Begun(a) => probe[a].at \in Nat
  BY DEF ProbersCarry
<1>1. CASE Quiet
  <2>1. ASSUME NEW a \in Probers, Begun(a)'
        PROVE  Begun(a) /\ probe'[a] = probe[a] /\ probe[a].at \in Nat
    BY <1>0, <1>1, <2>1 DEF Quiet, QuietProbers, Begun
  <2>2. ASSUME NEW a \in Probers, Begun(a)', NEW c \in Cards
        PROVE  health'[c].at # probe'[a].at
    BY <1>1, <2>1, <2>2, FieldTypes DEF Quiet, QuietRows, OpenTimesAreFresh, NeverChecked
  <2>3. ASSUME NEW a \in Probers, Begun(a)', NEW b \in Probers, Out(b)'
        PROVE  probe'[b].seen # probe'[a].at
    BY <1>1, <2>1, <2>3, FieldTypes DEF Quiet, QuietProbers, Keeps, Takes, OpenTimesAreFresh
  <2> QED
    BY <2>1, <2>2, <2>3 DEF OpenTimesAreFresh, Begun
<1>2. ASSUME NEW a \in Probers, BeginRecording(a) PROVE OpenTimesAreFresh'
  BY <1>0, <1>2, BeginEffect, FieldTypes
     DEF TimesAreIssued, OpenTimesAreFresh, Keeps, Times, Begun, Out
<1>3. ASSUME NEW a \in Probers, RecordHealth(a) PROVE OpenTimesAreFresh'
  <2>1. ASSUME NEW b \in Probers, Begun(b)' \/ Out(b)' PROVE b # a /\ probe'[b] = probe[b]
    BY <1>3, <2>1, RecordTimes
  <2>2. ASSUME NEW b \in Probers, Begun(b)', NEW d \in Cards
        PROVE  health'[d].at # probe'[b].at
    <3>1. Begun(a) /\ Begun(b) /\ b # a /\ probe'[b] = probe[b]
      BY <1>3, <2>1, <2>2, RecordTimes DEF Begun
    <3> QED
      BY <1>3, <3>1, RecordTimes DEF OpenTimesAreFresh
  <2> QED
    BY <2>1, <2>2 DEF OpenTimesAreFresh, Begun, Out
<1> QED
  BY <1>1, <1>2, <1>3, QuietStep

(* Results are only ever added to a card, so a count taken stays past; and *)
(* each one brings a fresh time, so the token changes whenever it grows.   *)
LEMMA TokenStep ==
  ASSUME TypeOK, ProbersCarry, OpenTimesAreFresh, CountsArePast, TokenIsExact, [Next]_vars
  PROVE  CountsArePast' /\ TokenIsExact'
<1> DEFINE Good(b) ==
      LET c == probe[b].card
      IN  Out(b) /\ Live(c) => /\ probe[b].read <= Len(history[c])
                               /\ health[c].at = probe[b].seen
                                    <=> Len(history[c]) = probe[b].read
<1>0. SweepTasks \subseteq Probers /\ \A b \in SweepTasks : Good(b)
  BY DEF CountsArePast, TokenIsExact, Out, Probers
<1>1. CASE Quiet
  <2>1. ASSUME NEW b \in SweepTasks, Out(b)', Live(probe[b].card)', Keeps(b) PROVE Good(b)'
    BY <1>0, <1>1, <2>1 DEF Quiet, QuietRows, Keeps, Live, Out, ProbersCarry
  <2>2. ASSUME NEW b \in SweepTasks, Takes(b) PROVE Good(b)'
    BY <2>2, FieldTypes DEF Takes
  <2>3. ASSUME NEW b \in SweepTasks PROVE Good(b)'
    <3>1. CASE ~(Out(b)' /\ Live(probe[b].card)')
      BY <3>1 DEF Out, Live
    <3>2. CASE Out(b)' /\ Live(probe[b].card)'
      BY <1>0, <1>1, <2>1, <2>2, <3>2 DEF Quiet, QuietProbers
    <3> QED
      BY <3>1, <3>2
  <2> QED
    BY <2>3 DEF CountsArePast, TokenIsExact, Out
<1>2. ASSUME NEW a \in Probers, BeginRecording(a) PROVE CountsArePast' /\ TokenIsExact'
  <2>1. ASSUME NEW b \in SweepTasks PROVE Good(b)'
    BY <1>0, <1>2, <2>1, BeginEffect DEF Keeps, Out, Live
  <2> QED
    BY <2>1 DEF CountsArePast, TokenIsExact, Out
<1>3. ASSUME NEW a \in Probers, RecordHealth(a) PROVE CountsArePast' /\ TokenIsExact'
  <2> DEFINE c == probe[a].card
  <2>1. Len(history'[c]) = Len(history[c]) + 1 /\ Len(history[c]) \in Nat
    BY <1>3, RecordTimes, FieldTypes DEF Healthy
  <2>2. ASSUME NEW b \in SweepTasks PROVE Good(b)'
    <3>1. CASE b = a
      BY <1>3, <3>1, RecordTimes
    <3>2. CASE b # a /\ probe[b].card # c
      BY <1>0, <1>3, <3>2, RecordTimes DEF Out, Live, ProbersCarry
    <3>3. CASE b # a /\ probe[b].card = c
      <4>1. probe'[b] = probe[b] /\ health'[c].at = probe[a].at /\ Begun(a)
        BY <1>0, <1>3, <3>3, RecordTimes
      <4>2. Out(b) => health'[c].at # probe[b].seen
        BY <1>0, <4>1 DEF OpenTimesAreFresh
      <4>3. Out(b) => probe[b].read <= Len(history[c]) /\ probe[b].read \in Nat
        BY <1>0, <1>3, <3>3, RecordTimes, FieldTypes
      <4>4. Out(b)' => /\ Out(b)
                       /\ probe'[b].card = c /\ probe'[b].read = probe[b].read
                       /\ probe'[b].seen = probe[b].seen
        BY <3>3, <4>1 DEF Out
      <4>5. Out(b)' => probe[b].read <= Len(history'[c]) /\ probe[b].read # Len(history'[c])
        BY <2>1, <4>3, <4>4
      <4> QED
        BY <4>2, <4>4, <4>5
    <3> QED
      BY <3>1, <3>2, <3>3
  <2> QED
    BY <2>2 DEF CountsArePast, TokenIsExact, Out
<1> QED
  BY <1>1, <1>2, <1>3, QuietStep


(***************************************************************************)
(* Rows                                                                    *)
(***************************************************************************)

(* POST, PATCH and the CHECK keep a transport anchored to an endpoint.     *)
LEMMA AnchorStep ==
  ASSUME TypeOK, ProbersCarry, TransportAnchored, [Next]_vars
  PROVE  TransportAnchored'
<1>1. ASSUME NEW c \in Cards, OwnerStep(c) PROVE TransportAnchored'
  <2>1. CASE CreateConnector(c) \/ UpdateConnector(c)
    <3>1. PICK p \in Payloads :
            card' = [card EXCEPT ![c] = [state |-> "live", endpoint |-> p.endpoint,
                                         transport |-> p.transport]]
      BY <2>1 DEF CreateConnector, UpdateConnector
    <3>2. p.transport # None => p.endpoint # None
      BY DEF Payloads, Anchored
    <3>3. /\ card'[c].transport # None => card'[c].endpoint # None
          /\ \A d \in Cards : d # c => card'[d] = card[d]
      BY <3>1, <3>2 DEF TypeOK
    <3> QED
      BY <3>3 DEF TransportAnchored, Anchored
  <2>2. CASE DeleteConnector(c)
    BY <2>2 DEF DeleteConnector, TransportAnchored, Anchored, TypeOK
  <2>3. CASE RefreshCorrectsTransport(c)
    <3>1. card[c] \in CardRows
      BY DEF TypeOK
    <3>2. \A t : [card[c] EXCEPT !.transport = t].endpoint = card[c].endpoint
      BY <3>1 DEF CardRows
    <3>3. PICK t \in Transports : card' = [card EXCEPT ![c] = [card[c] EXCEPT !.transport = t]]
      BY <2>3 DEF RefreshCorrectsTransport
    <3>4. card'[c].endpoint # None /\ \A d \in Cards : d # c => card'[d] = card[d]
      BY <2>3, <3>2, <3>3 DEF RefreshCorrectsTransport, TypeOK
    <3> QED
      BY <3>4 DEF TransportAnchored, Anchored
  <2> QED
    BY <1>1, <2>1, <2>2, <2>3 DEF OwnerStep
<1>2. ASSUME NEW a \in Probers, RecordHealth(a) PROVE TransportAnchored'
  BY <1>2, RecordEffect DEF TransportAnchored, Anchored
<1>3. CASE UNCHANGED card
  BY <1>3 DEF TransportAnchored, Anchored
<1> QED
  BY <1>1, <1>2, <1>3 DEF Next, vars, TickStep, TryLock, FetchCandidates, StartProbe, FinishTick,
     RecheckHealth, ProbeStep, CheckLiveness, BeginRecording, RecordRejected, RecordSuperseded,
     Fault, FetchFails, LoseLockSession, CrashWorker, CrashApi, RecordFails

(* One row and the results it sums up.                                     *)
Summarises(h, past) ==
    LET n == Len(past)
    IN  /\ h.status = IF n = 0 THEN "unknown"
                      ELSE IF past[n] THEN "healthy" ELSE "unhealthy"
        /\ h.at = None <=> n = 0
        /\ h.fails \in 0 .. n
        /\ \A i \in (n - h.fails) + 1 .. n : ~past[i]
        /\ h.fails < n => past[n - h.fails]

LEMMA BlankSummarises == Summarises(NeverChecked, <<>>)
BY DEF Summarises, NeverChecked

(* The upsert keeps the row a summary: a healthy result ends the run of    *)
(* failures, an unhealthy one makes it one longer.                         *)
LEMMA RecordSummarises ==
  ASSUME NEW h \in HealthRows, NEW past \in Seq(BOOLEAN), Summarises(h, past),
         NEW healthy \in BOOLEAN, NEW t \in Nat, None \notin Nat
  PROVE  Summarises([status |-> IF healthy THEN "healthy" ELSE "unhealthy",
                     at |-> t, fails |-> IF healthy THEN 0 ELSE h.fails + 1],
                    Append(past, healthy))
<1> DEFINE n == Len(past)
           new == Append(past, healthy)
<1>1. /\ n \in Nat /\ Len(new) = n + 1 /\ new[n + 1] = healthy
      /\ \A i \in 1 .. n : new[i] = past[i]
  OBVIOUS
<1>2. h.fails \in 0 .. n /\ h.fails \in Nat
  BY <1>1 DEF Summarises, HealthRows
<1>3. CASE healthy
  BY <1>1, <1>3 DEF Summarises
<1>4. CASE ~healthy
  <2> DEFINE f == h.fails + 1
  <2>1. f \in 0 .. n + 1 /\ (n + 1) - f = n - h.fails
    BY <1>1, <1>2
  <2>2. \A i \in ((n + 1) - f) + 1 .. n + 1 : ~new[i]
    <3>1. ASSUME NEW i \in (n - h.fails) + 1 .. n + 1 PROVE ~new[i]
      <4>1. CASE i = n + 1
        BY <1>1, <1>4, <4>1
      <4>2. CASE i # n + 1
        <5>1. i \in (n - h.fails) + 1 .. n /\ i \in 1 .. n
          BY <1>1, <1>2, <3>1, <4>2
        <5> QED
          BY <1>1, <5>1 DEF Summarises
      <4> QED
        BY <4>1, <4>2
    <3> QED
      BY <2>1, <3>1
  <2>3. f < n + 1 => new[(n + 1) - f]
    <3>1. ASSUME h.fails < n PROVE new[n - h.fails]
      <4>1. n - h.fails \in 1 .. n
        BY <1>1, <1>2, <3>1
      <4> QED
        BY <1>1, <3>1, <4>1 DEF Summarises
    <3> QED
      BY <1>1, <1>2, <2>1, <3>1
  <2> DEFINE row == [status |-> "unhealthy", at |-> t, fails |-> f]
  <2>4. row.status = "unhealthy" /\ row.at # None /\ row.fails = f /\ n + 1 # 0
    BY <1>1
  <2>5. Len(new) = n + 1 /\ ~new[n + 1]
    BY <1>1, <1>4
  <2> HIDE DEF row, new, f, n
  <2>6. Summarises(row, new)
    BY <2>1, <2>2, <2>3, <2>4, <2>5 DEF Summarises
  <2> QED
    BY <1>4, <2>6 DEF row, new, f
<1> QED
  BY <1>3, <1>4

LEMMA RowsStep ==
  ASSUME TypeOK, ProbersCarry, RowSummarisesHistory, [Next]_vars
  PROVE  RowSummarisesHistory'
<1>0. \A c \in Cards : Summarises(health[c], history[c])
  BY DEF RowSummarisesHistory, Summarises
<1>1. CASE Quiet
  <2>1. \A c \in Cards : Summarises(health'[c], history'[c])
    BY <1>0, <1>1, BlankSummarises DEF Quiet, QuietRows
  <2> QED
    BY <2>1 DEF RowSummarisesHistory, Summarises
<1>2. ASSUME NEW a \in Probers, BeginRecording(a) PROVE RowSummarisesHistory'
  BY <1>0, <1>2 DEF BeginRecording, RowSummarisesHistory, Summarises
<1>3. ASSUME NEW a \in Probers, RecordHealth(a) PROVE RowSummarisesHistory'
  <2> DEFINE c == probe[a].card
  <2>1. c \in Cards /\ Begun(a) /\ probe[a].at \in Nat
    BY <1>3, RecordTimes DEF ProbersCarry
  <2>2. health'[c] = Recorded(a) /\ history'[c] = Append(history[c], Healthy(a))
    BY <1>3, <2>1, RecordEffect DEF TypeOK
  <2>3. health[c] \in HealthRows /\ history[c] \in Seq(BOOLEAN)
    BY <2>1 DEF TypeOK
  <2>4. Summarises(Recorded(a), Append(history[c], Healthy(a)))
    BY <1>0, <2>1, <2>3, RecordSummarises, FieldTypes DEF Recorded, Healthy
  <2>5. \A d \in Cards : Summarises(health'[d], history'[d])
    BY <1>0, <1>3, <2>2, <2>4, RecordTimes
  <2> QED
    BY <2>5 DEF RowSummarisesHistory, Summarises
<1> QED
  BY <1>1, <1>2, <1>3, QuietStep

(* Only the loss of a session separates a tick from the lock.              *)
LEMMA LockStep ==
  ASSUME TypeOK, LockCoversTick, [Next]_vars
  PROVE  LockCoversTick'
<1>1. ASSUME NEW w \in Workers, TickStep(w) PROVE LockCoversTick'
  <2>1. CASE TryLock(w)
    BY <2>1, NoneAssumption DEF TryLock, LockCoversTick, TypeOK
  <2>2. CASE FetchCandidates(w)
    BY <2>2 DEF FetchCandidates, LockCoversTick, TypeOK
  <2>3. CASE \E c \in Cards : StartProbe(w, c)
    BY <2>3 DEF StartProbe, LockCoversTick
  <2>4. CASE FinishTick(w)
    BY <2>4, NoneAssumption DEF FinishTick, ReleasedBy, LockCoversTick, TypeOK
  <2> QED
    BY <1>1, <2>1, <2>2, <2>3, <2>4 DEF TickStep
<1>2. ASSUME NEW w \in Workers, FetchFails(w) \/ CrashWorker(w) PROVE LockCoversTick'
  BY <1>2, NoneAssumption DEF FetchFails, CrashWorker, ReleasedBy, LockCoversTick, TypeOK
<1>3. ASSUME NEW w \in Workers, LoseLockSession(w) PROVE LockCoversTick'
  BY <1>3 DEF LoseLockSession, LockCoversTick, TypeOK
<1>4. CASE UNCHANGED <<lock, drops, sweep>>
  BY <1>4 DEF LockCoversTick
<1> QED
  BY <1>1, <1>2, <1>3, <1>4 DEF Next, vars, OwnerStep, CreateConnector, UpdateConnector,
     DeleteConnector, RefreshCorrectsTransport, RecheckHealth, ProbeStep, CheckLiveness,
     BeginRecording, RecordRejected, RecordSuperseded, RecordHealth, Fault, CrashApi, RecordFails

-----------------------------------------------------------------------------
LEMMA InvInit == Init => Inv
<1> SUFFICES ASSUME Init PROVE Inv
  OBVIOUS
<1>1. TypeOK
  BY IdleType, RowTypes, NoneAssumption DEF Init, TypeOK, CardRows, Outcomes
<1>2. TransportAnchored /\ LockCoversTick
  BY DEF Init, TransportAnchored, Anchored, LockCoversTick
<1>3. RowSummarisesHistory
  BY BlankSummarises DEF Init, RowSummarisesHistory, Summarises
<1>4. \A a \in Probers : ~Out(a) /\ ~Begun(a)
  BY DEF Init, Idle, Out, Begun
<1>5. \A c \in Cards : health[c].at = None
  BY DEF Init, NeverChecked
<1>6. \A a \in Probers : probe[a].stage = "idle"
  BY DEF Init, Idle
<1>7. TokenInv
  BY <1>4, <1>5, <1>6 DEF TokenInv, ProbersCarry, TimesAreIssued, OpenTimesAreFresh,
     CountsArePast, TokenIsExact, Probers
<1> QED
  BY <1>1, <1>2, <1>3, <1>7 DEF Inv, RowsInv

LEMMA InvStep == Inv /\ [Next]_vars => Inv'
BY TypingStep, ProbersCarryStep, TimesStep, FreshStep, TokenStep, AnchorStep, RowsStep, LockStep
   DEF Inv, RowsInv, TokenInv

(* The invariant on which everything else rests.                           *)
THEOREM Invariance == Spec => []Inv
BY InvInit, InvStep, PTL DEF Spec

(* The variables of ConnectorHealth keep their types.                      *)
THEOREM TypeCorrect == Spec => []TypeOK
BY Invariance, PTL DEF Inv

(* Whatever the interleaving of sweeps, rechecks, edits and crashes, a     *)
(* health row sums up the results committed for its card, and a transport  *)
(* never outlives its endpoint.                                            *)
THEOREM RowsCorrect == Spec => [](RowSummarisesHistory /\ TransportAnchored)
BY Invariance, PTL DEF Inv, RowsInv

(* last_checked_at is an exact token: it is the one a sweep task read if   *)
(* and only if no result was committed for the card since.                 *)
THEOREM TokenExact == Spec => []TokenIsExact
BY Invariance, PTL DEF Inv, TokenInv

(* One sweep at a time, until a lock session is lost.                      *)
THEOREM LockExclusive == Spec => []SingleSweepWhileLocked
<1>1. Inv => SingleSweepWhileLocked
  BY DEF Inv, LockCoversTick, SingleSweepWhileLocked, SingleSweep
<1> QED
  BY <1>1, Invariance, PTL

-----------------------------------------------------------------------------
(***************************************************************************)
(* Steps                                                                   *)
(***************************************************************************)

(* An open transaction ends by writing, by yielding, or without a trace.   *)
LEMMA EndOfRecording ==
  ASSUME TypeOK, NEW a \in Probers, Begun(a), [Next]_vars, ~Out(a)'
  PROVE  \/ RecordHealth(a)
         \/ RecordSuperseded(a)
         \/ UNCHANGED <<card, health, history>> /\ probe'[a].outcome \in {"none", "error"}
<1>0. probe'[a] # probe[a]
  BY DEF Begun, Out
<1>1. ASSUME NEW c \in Cards, OwnerStep(c) PROVE FALSE
  BY <1>0, <1>1 DEF OwnerStep, CreateConnector, UpdateConnector, DeleteConnector,
     RefreshCorrectsTransport
<1>2. ASSUME NEW w \in Workers, TickStep(w)
      PROVE UNCHANGED <<card, health, history>> /\ probe'[a].outcome \in {"none", "error"}
  <2>1. CASE TryLock(w) \/ FinishTick(w)
    BY <1>0, <2>1 DEF TryLock, FinishTick
  <2>2. CASE FetchCandidates(w)
    <3>1. probe'[a] = Idle("none") \/ \E c \in Cards : probe'[a] = Queued(c)
      BY <1>0, <2>2 DEF FetchCandidates
    <3>2. \A c \in Cards : Queued(c).stage = "queued"
      BY DEF Queued, Assigned
    <3>3. probe'[a].stage = "idle"
      BY DEF Out
    <3>4. probe'[a] = Idle("none")
      BY <3>1, <3>2, <3>3
    <3> QED
      BY <2>2, <3>4 DEF FetchCandidates, Idle
  <2>3. CASE \E c \in Cards : StartProbe(w, c)
    BY <1>0, <2>3 DEF StartProbe, Moved, Out, TypeOK
  <2> QED
    BY <1>2, <2>1, <2>2, <2>3 DEF TickStep
<1>3. ASSUME NEW r \in Requests, RecheckHealth(r) PROVE FALSE
  BY <1>0, <1>3 DEF RecheckHealth, Assigned, Out, TypeOK
<1>4. ASSUME NEW b \in Probers, ProbeStep(b) \/ RecordFails(b)
      PROVE \/ RecordHealth(a)
            \/ RecordSuperseded(a)
            \/ UNCHANGED <<card, health, history>> /\ probe'[a].outcome \in {"none", "error"}
  <2>1. CASE CheckLiveness(b)
    BY <1>0, <2>1 DEF CheckLiveness, Moved, Out, TypeOK
  <2>2. CASE BeginRecording(b)
    BY <1>0, <2>2 DEF BeginRecording, Moved, Out, TypeOK
  <2>3. CASE b = a
    BY <1>4, <2>1, <2>2, <2>3, EndsEffect DEF ProbeStep, RecordRejected, RecordFails
  <2>4. CASE b # a /\ \E o : Ends(b, o)
    BY <1>0, <2>4 DEF Ends, TypeOK
  <2> QED
    BY <1>4, <2>1, <2>2, <2>3, <2>4 DEF ProbeStep, RecordRejected, RecordFails,
       RecordSuperseded, RecordHealth
<1>5. ASSUME NEW w \in Workers, FetchFails(w) \/ LoseLockSession(w) \/ CrashWorker(w)
      PROVE UNCHANGED <<card, health, history>> /\ probe'[a].outcome \in {"none", "error"}
  BY <1>0, <1>5 DEF FetchFails, LoseLockSession, CrashWorker, Idle, TypeOK
<1>6. CASE CrashApi
  BY <1>0, <1>6 DEF CrashApi, Idle, TypeOK
<1>7. CASE UNCHANGED vars
  BY <1>0, <1>7 DEF vars
<1> QED
  BY <1>1, <1>2, <1>3, <1>4, <1>5, <1>6, <1>7 DEF Next, Fault

(* A sweep task records exactly when nobody else did since it read the     *)
(* batch, and then moves last_checked_at forward: the compare-and-set on a *)
(* timestamp is as good as one on a version number.                        *)
THEOREM SweepIsPolite == Spec => SweepYields /\ SweepMovesForward
<1>1. ASSUME Inv, [Next]_vars, NEW a \in SweepTasks, Begun(a), ~Out(a)'
      PROVE /\ Writes(a) => Len(history[probe[a].card]) = probe[a].read
            /\ probe'[a].outcome = "superseded" =>
                 Len(history[probe[a].card]) # probe[a].read
            /\ Writes(a) /\ health[probe[a].card].at # None =>
                 health'[probe[a].card].at > health[probe[a].card].at
  <2>0. a \in Probers /\ TypeOK /\ ProbersCarry /\ OpenTimesAreFresh /\ TokenIsExact
    BY <1>1 DEF Inv, TokenInv, Probers
  <2>1. CASE RecordHealth(a)
    <3> DEFINE c == probe[a].card
    <3>1. /\ health[c].at = probe[a].seen /\ Live(c) /\ c \in Cards
          /\ health'[c].at = probe[a].at /\ probe'[a].outcome # "superseded"
      <4>1. probe'[a].outcome = Recorded(a).status
        BY <2>0, <2>1, EndsEffect DEF RecordHealth
      <4> QED
        BY <2>0, <2>1, <4>1, RecordEffect, RecordTimes DEF Recorded
    <3>2. Len(history[c]) = probe[a].read
      BY <1>1, <2>0, <3>1 DEF TokenIsExact, Begun
    <3>3. probe[a].seen # None => probe[a].at > probe[a].seen
      <4>1. probe[a].at \in Nat /\ (probe[a].seen # None => probe[a].seen \in Nat)
        BY <1>1, <2>0, FieldTypes DEF ProbersCarry, Times
      <4> QED
        BY <1>1, <2>0, <4>1 DEF OpenTimesAreFresh
    <3> QED
      BY <3>1, <3>2, <3>3
  <2>2. CASE RecordSuperseded(a)
    <3>1. Live(probe[a].card) /\ health[probe[a].card].at # probe[a].seen
      BY <2>2 DEF RecordSuperseded, CasHolds
    <3> QED
      BY <1>1, <2>0, <2>2, <3>1 DEF TokenIsExact, Begun, RecordSuperseded, Writes
  <2>3. CASE UNCHANGED <<card, health, history>> /\ probe'[a].outcome \in {"none", "error"}
    BY <2>3 DEF Writes
  <2> QED
    BY <1>1, <2>0, <2>1, <2>2, <2>3, EndOfRecording
<1>2. Inv /\ [Next]_vars =>
        [\A a \in SweepTasks :
           /\ Writes(a) => Len(history[probe[a].card]) = probe[a].read
           /\ Closes(a) /\ probe'[a].outcome = "superseded"
                => Len(history[probe[a].card]) # probe[a].read]_vars
  BY <1>1 DEF Closes, Writes, Begun, Out
<1>3. Inv /\ [Next]_vars =>
        [\A a \in SweepTasks :
           Writes(a) /\ health[probe[a].card].at # None
             => health'[probe[a].card].at > health[probe[a].card].at]_vars
  BY <1>1 DEF Closes, Writes, Begun, Out
<1> QED
  BY <1>2, <1>3, Invariance, PTL DEF Spec, SweepYields, SweepMovesForward

(* A sweep never puts last_checked_at back, though rechecks commit in any  *)
(* order (probes.py:122-134: now() is the time of the BEGIN, and the guard).     *)
THEOREM SweepGoesForward == Spec => SweepMovesForward
  BY SweepIsPolite

(* A probe corrects a transport only together with the result that showed  *)
(* it, and leaves both alone when it yields or fails.                      *)
THEOREM CorrectionsAreWitnessed == Spec => CorrectionIsWitnessed
<1> DEFINE Witnessed(a) ==
      LET c == probe[a].card
      IN  /\ card'[c] # card[c] => health'[c].status = "healthy" /\ health'[c].at = probe[a].at
          /\ probe'[a].outcome \in {"superseded", "error"} =>
               card'[c] = card[c] /\ health'[c] = health[c]
<1>1. ASSUME Inv, [Next]_vars, NEW a \in Probers, Begun(a), ~Out(a)' PROVE Witnessed(a)
  <2>0. TypeOK /\ ProbersCarry
    BY <1>1 DEF Inv, TokenInv
  <2>1. CASE RecordHealth(a)
    <3> DEFINE c == probe[a].card
    <3>1. c \in Cards /\ health'[c] = Recorded(a) /\ card'[c] = CorrectedCard(a)
      BY <2>0, <2>1, RecordEffect DEF RecordHealth, TypeOK
    <3>2. card'[c] # card[c] => Healthy(a)
      BY <3>1 DEF CorrectedCard, Corrects
    <3>3. probe'[a].outcome = Recorded(a).status
      BY <2>0, <2>1, EndsEffect DEF RecordHealth
    <3> QED
      BY <3>1, <3>2, <3>3 DEF Recorded
  <2>2. CASE RecordSuperseded(a)
    BY <2>2 DEF RecordSuperseded
  <2> QED
    BY <1>1, <2>0, <2>1, <2>2, EndOfRecording
<1>2. Inv /\ [Next]_vars =>
        [\A a \in Probers :
           Closes(a) =>
             LET c == probe[a].card
             IN  /\ card'[c] # card[c] =>
                      /\ health'[c].status = "healthy"
                      /\ health'[c].at = probe[a].at
                 /\ probe'[a].outcome \in {"superseded", "error"} =>
                      card'[c] = card[c] /\ health'[c] = health[c]]_vars
  BY <1>1 DEF Closes, Begun, Out
<1> QED
  BY <1>2, Invariance, PTL DEF Spec, CorrectionIsWitnessed

-----------------------------------------------------------------------------
(***************************************************************************)
(* What a sweep may have open at once.                                     *)
(***************************************************************************)
TasksOf(w) == {c \in Cards : Out(<<w, c>>)}

(* The semaphore covers the recording too: "bind the network alone and the *)
(* waiting tasks are let go all at once, and more transactions are open    *)
(* than the limit allows" (worker/liveness.py:78-80).  A tick never has    *)
(* more tasks than its batch may have cards.                               *)
SweepStaysWithinLimits ==
    \A w \in Workers :
      /\ Cardinality(InFlight(w)) <= Concurrency
      /\ Cardinality(TasksOf(w)) <= BatchLimit

(* A step of somebody else leaves the tasks of w alone; its own begin with *)
(* a batch, queued, and go on one at a time.                               *)
LEMMA TasksOfWorker ==
  ASSUME TypeOK, [Next]_vars, NEW w \in Workers
  PROVE  \/ InFlight(w)' \subseteq InFlight(w) /\ TasksOf(w)' \subseteq TasksOf(w)
         \/ /\ TasksOf(w)' \subseteq TasksOf(w)
            /\ Cardinality(InFlight(w)) < Concurrency
            /\ \E c \in Cards : InFlight(w)' \subseteq InFlight(w) \cup {c}
         \/ /\ InFlight(w)' = {}
            /\ \E batch \in SUBSET Cards :
                 Cardinality(batch) <= BatchLimit /\ TasksOf(w)' \subseteq batch
<1> DEFINE Same == InFlight(w)' \subseteq InFlight(w) /\ TasksOf(w)' \subseteq TasksOf(w)
<1>0. \A c \in Cards : <<w, c>> \in Probers /\ <<w, c>> \in SweepTasks
  BY DEF Probers, SweepTasks
<1>1. ASSUME \A c \in Cards :
               \/ probe'[<<w, c>>] = probe[<<w, c>>]
               \/ probe'[<<w, c>>].stage = "idle"
               \/ /\ probe[<<w, c>>].stage \in {"probing", "answered", "begun"}
                  /\ probe'[<<w, c>>].stage \in {"probing", "answered", "begun"}
      PROVE  Same
  BY <1>1 DEF InFlight, TasksOf, Out
<1>2. ASSUME NEW c \in Cards, OwnerStep(c) PROVE Same
  BY <1>1, <1>2 DEF OwnerStep, CreateConnector, UpdateConnector, DeleteConnector,
     RefreshCorrectsTransport
<1>3. ASSUME NEW v \in Workers, TryLock(v) \/ FinishTick(v) PROVE Same
  BY <1>1, <1>3 DEF TryLock, FinishTick
<1>4. ASSUME NEW v \in Workers, FetchCandidates(v)
      PROVE  \/ Same
             \/ /\ InFlight(w)' = {}
                /\ \E batch \in SUBSET Cards :
                     Cardinality(batch) <= BatchLimit /\ TasksOf(w)' \subseteq batch
  <2>1. PICK batch \in SUBSET Cards :
          /\ IsBatch(batch)
          /\ probe' = [a \in Probers |->
                IF a \in {v} \X Cards
                  THEN IF a[2] \in batch THEN Queued(a[2]) ELSE Idle("none")
                  ELSE probe[a]]
    BY <1>4 DEF FetchCandidates
  <2>2. CASE v = w
    <3>1. \A c \in Cards : probe'[<<w, c>>] = IF c \in batch THEN Queued(c) ELSE Idle("none")
      BY <1>0, <2>1, <2>2
    <3>2. \A c \in Cards : probe'[<<w, c>>].stage = IF c \in batch THEN "queued" ELSE "idle"
      <4>1. Idle("none").stage = "idle" /\ \A c \in Cards : Queued(c).stage = "queued"
        BY DEF Queued, Assigned, Idle
      <4> QED
        BY <3>1, <4>1
    <3> QED
      BY <2>1, <3>2 DEF InFlight, TasksOf, Out, IsBatch
  <2>3. CASE v # w
    BY <1>0, <1>1, <2>1, <2>3
  <2> QED
    BY <2>2, <2>3
<1>5. ASSUME NEW v \in Workers, NEW d \in Cards, StartProbe(v, d)
      PROVE  \/ Same
             \/ /\ TasksOf(w)' \subseteq TasksOf(w)
                /\ Cardinality(InFlight(w)) < Concurrency
                /\ \E c \in Cards : InFlight(w)' \subseteq InFlight(w) \cup {c}
  <2>1. \A b \in Probers : b # <<v, d>> => probe'[b] = probe[b]
    BY <1>5 DEF StartProbe, TypeOK
  <2>2. CASE v = w
    BY <1>0, <1>5, <2>1, <2>2 DEF StartProbe, InFlight, TasksOf, Out
  <2>3. CASE v # w
    BY <1>0, <1>1, <2>1, <2>3
  <2> QED
    BY <2>2, <2>3
<1>6. ASSUME NEW r \in Requests, RecheckHealth(r) PROVE Same
  <2>1. \A b \in Probers : b # r => probe'[b] = probe[b]
    BY <1>6 DEF RecheckHealth, TypeOK
  <2> QED
    BY <1>0, <1>1, <2>1, ProbersAssumption
<1>7. ASSUME NEW a \in Probers, ProbeStep(a) \/ RecordFails(a) PROVE Same
  <2>1. CASE CheckLiveness(a) \/ BeginRecording(a)
    <3>1. /\ probe[a].stage \in {"probing", "answered"}
          /\ probe'[a].stage \in {"answered", "begun"}
          /\ \A b \in Probers : b # a => probe'[b] = probe[b]
      BY <2>1 DEF CheckLiveness, BeginRecording, Moved, TypeOK
    <3> QED
      BY <1>0, <1>1, <3>1
  <2>2. CASE \E o : Ends(a, o)
    <3>1. probe'[a].stage = "idle" /\ \A b \in Probers : b # a => probe'[b] = probe[b]
      BY <2>2 DEF Ends, Idle, TypeOK
    <3> QED
      BY <1>0, <1>1, <3>1
  <2> QED
    BY <1>7, <2>1, <2>2 DEF ProbeStep, RecordRejected, RecordFails, RecordSuperseded,
       RecordHealth
<1>8. ASSUME NEW v \in Workers, FetchFails(v) \/ LoseLockSession(v) \/ CrashWorker(v) PROVE Same
  BY <1>0, <1>1, <1>8 DEF FetchFails, LoseLockSession, CrashWorker, Idle
<1>9. CASE CrashApi
  BY <1>0, <1>1, <1>9 DEF CrashApi, Idle
<1>10. CASE UNCHANGED vars
  BY <1>1, <1>10 DEF vars
<1> QED
  BY <1>2, <1>3, <1>4, <1>5, <1>6, <1>7, <1>8, <1>9, <1>10 DEF Next, TickStep, Fault

(* Never more probes and recordings of a sweep at once than                *)
(* connector_outbound_concurrency, and never more tasks than               *)
(* connector_liveness_batch_limit, whoever crashes, loses the lock or      *)
(* sweeps as well.                                                         *)
THEOREM SweepIsBounded ==
    ASSUME IsFiniteSet(Cards)
    PROVE  Spec => []SweepStaysWithinLimits
<1>0. Concurrency \in Nat \ {0} /\ BatchLimit \in Nat \ {0}
  BY LimitsAssumption
<1>1. Init => SweepStaysWithinLimits
  <2> SUFFICES ASSUME Init, NEW w \in Workers
               PROVE  InFlight(w) = {} /\ TasksOf(w) = {}
    BY <1>0, FS_EmptySet DEF SweepStaysWithinLimits
  <2> QED
    BY DEF Init, InFlight, TasksOf, Out, Idle, Probers, SweepTasks
<1>2. ASSUME TypeOK, SweepStaysWithinLimits, [Next]_vars, NEW w \in Workers
      PROVE  Cardinality(InFlight(w)') <= Concurrency /\ Cardinality(TasksOf(w)') <= BatchLimit
  <2>1. /\ \A S \in SUBSET Cards : IsFiniteSet(S) /\ Cardinality(S) \in Nat
        /\ \A S, T \in SUBSET Cards : S \subseteq T => Cardinality(S) <= Cardinality(T)
        /\ \A S \in SUBSET Cards, c \in Cards : Cardinality(S \cup {c}) <= Cardinality(S) + 1
    <3>1. \A S \in SUBSET Cards : IsFiniteSet(S) /\ Cardinality(S) \in Nat
      BY FS_Subset, FS_CardinalityType
    <3>2. \A S, T \in SUBSET Cards : S \subseteq T => Cardinality(S) <= Cardinality(T)
      BY <3>1, FS_Subset
    <3>3. ASSUME NEW S \in SUBSET Cards, NEW c \in Cards
          PROVE  Cardinality(S \cup {c}) <= Cardinality(S) + 1
      <4>1. CASE c \in S
        <5>1. S \cup {c} = S
          BY <4>1
        <5> QED
          BY <3>1, <5>1
      <4>2. CASE c \notin S
        BY <3>1, <4>2, FS_AddElement
      <4> QED
        BY <4>1, <4>2
    <3> QED
      BY <3>1, <3>2, <3>3
  <2>2. /\ InFlight(w) \in SUBSET Cards /\ InFlight(w)' \in SUBSET Cards
        /\ TasksOf(w) \in SUBSET Cards /\ TasksOf(w)' \in SUBSET Cards
    BY DEF InFlight, TasksOf
  <2>3. Cardinality(InFlight(w)) <= Concurrency /\ Cardinality(TasksOf(w)) <= BatchLimit
    BY <1>2 DEF SweepStaysWithinLimits
  <2>4. CASE InFlight(w)' \subseteq InFlight(w) /\ TasksOf(w)' \subseteq TasksOf(w)
    <3>1. /\ Cardinality(InFlight(w)') <= Cardinality(InFlight(w))
          /\ Cardinality(TasksOf(w)') <= Cardinality(TasksOf(w))
      BY <2>1, <2>2, <2>4
    <3> QED
      BY <1>0, <2>1, <2>2, <2>3, <3>1
  <2>5. CASE /\ TasksOf(w)' \subseteq TasksOf(w)
             /\ Cardinality(InFlight(w)) < Concurrency
             /\ \E c \in Cards : InFlight(w)' \subseteq InFlight(w) \cup {c}
    <3>1. PICK c \in Cards : InFlight(w)' \subseteq InFlight(w) \cup {c}
      BY <2>5
    <3>2. /\ Cardinality(InFlight(w)') <= Cardinality(InFlight(w) \cup {c})
          /\ Cardinality(InFlight(w) \cup {c}) <= Cardinality(InFlight(w)) + 1
          /\ Cardinality(TasksOf(w)') <= Cardinality(TasksOf(w))
          /\ InFlight(w) \cup {c} \in SUBSET Cards
      BY <2>1, <2>2, <2>5, <3>1
    <3>3. /\ Cardinality(InFlight(w)') \in Nat /\ Cardinality(InFlight(w) \cup {c}) \in Nat
          /\ Cardinality(InFlight(w)) \in Nat /\ Cardinality(TasksOf(w)') \in Nat
          /\ Cardinality(TasksOf(w)) \in Nat
      BY <2>1, <2>2, <3>2
    <3> QED
      BY <1>0, <2>3, <2>5, <3>2, <3>3
  <2>6. CASE /\ InFlight(w)' = {}
             /\ \E batch \in SUBSET Cards :
                  Cardinality(batch) <= BatchLimit /\ TasksOf(w)' \subseteq batch
    <3>1. PICK batch \in SUBSET Cards :
            Cardinality(batch) <= BatchLimit /\ TasksOf(w)' \subseteq batch
      BY <2>6
    <3>2. /\ Cardinality(TasksOf(w)') <= Cardinality(batch)
          /\ Cardinality(TasksOf(w)') \in Nat /\ Cardinality(batch) \in Nat
      BY <2>1, <2>2, <3>1
    <3>3. Cardinality(InFlight(w)') = 0
      BY <2>6, FS_EmptySet
    <3> QED
      BY <1>0, <3>1, <3>2, <3>3
  <2> QED
    BY <1>2, <2>4, <2>5, <2>6, TasksOfWorker
<1>3. TypeOK /\ SweepStaysWithinLimits /\ [Next]_vars => SweepStaysWithinLimits'
  BY <1>2 DEF SweepStaysWithinLimits
<1> QED
  BY <1>1, <1>3, TypeCorrect, PTL DEF Spec

-----------------------------------------------------------------------------
(***************************************************************************)
(* Refinement                                                              *)
(***************************************************************************)
LEMMA WhoWritesRows ==
  ASSUME [Next]_vars
  PROVE  \/ \E c \in Cards : OwnerStep(c)
         \/ \E a \in Probers : RecordHealth(a)
         \/ UNCHANGED <<card, health, history>>
BY DEF Next, vars, TickStep, TryLock, FetchCandidates, StartProbe, FinishTick, RecheckHealth,
   ProbeStep, CheckLiveness, BeginRecording, RecordRejected, RecordSuperseded, Fault,
   FetchFails, LoseLockSession, CrashWorker, CrashApi, RecordFails

LEMMA WhoLooks ==
  ASSUME TypeOK, ProbersCarry, [Next]_vars, NEW a \in Probers, LookedAt(a)' # LookedAt(a)
  PROVE  LookedAt(a)' = None \/ Takes(a)
<1>1. CASE ~Out(a)'
  BY <1>1 DEF LookedAt, Out
<1>2. CASE Out(a)' /\ Keeps(a)
  BY <1>2 DEF LookedAt, Out, Keeps
<1>3. CASE Quiet
  BY <1>1, <1>2, <1>3 DEF Quiet, QuietProbers
<1>4. ASSUME NEW b \in Probers, BeginRecording(b) PROVE FALSE
  <2>1. CASE a = b
    BY <1>4, <2>1, BeginEffect DEF LookedAt, Keeps, Out, Begun
  <2>2. CASE a # b
    BY <1>4, <2>2, BeginEffect DEF LookedAt
  <2> QED
    BY <2>1, <2>2
<1>5. ASSUME NEW b \in Probers, RecordHealth(b), Out(a)' PROVE FALSE
  BY <1>5, RecordTimes DEF LookedAt
<1> QED
  BY <1>1, <1>3, <1>4, <1>5, QuietStep

(* A row of the board is a record or None, never both. *)
LEMMA BoardTypes ==
  ASSUME TypeOK, ProbersCarry
  PROVE  /\ \A c \in Cards : Live(c) <=> BoardRow(c) # None
         /\ \A a \in Probers : Out(a) <=> LookedAt(a) # None
<1>1. ASSUME NEW c \in Cards, Live(c) PROVE BoardRow(c) # None
  <2>1. /\ health[c].status \in {"unknown", "healthy", "unhealthy"}
        /\ health[c].fails \in Nat /\ Len(history[c]) \in Nat
    BY FieldTypes DEF TypeOK, HealthRows
  <2> QED
    BY <1>1, <2>1, NoneIsNoRow DEF BoardRow
<1>2. ASSUME NEW a \in Probers, Out(a) PROVE LookedAt(a) # None
  <2>1. probe[a].card \in Cards /\ probe[a].read \in Nat
    BY <1>2, FieldTypes DEF ProbersCarry
  <2> QED
    BY <1>2, <2>1, NoneIsNoRow DEF LookedAt, Out
<1> QED
  BY <1>1, <1>2 DEF BoardRow, LookedAt, Out

LEMMA OwnerRefines ==
  ASSUME Inv, NEW c \in Cards, OwnerStep(c)
  PROVE  Board!Open(c) \/ Board!Remove(c) \/ UNCHANGED Board!boardVars
<1>0. TypeOK /\ ProbersCarry
  BY DEF Inv, TokenInv
<1>1. UNCHANGED [a \in Probers |-> LookedAt(a)]
  BY DEF OwnerStep, CreateConnector, UpdateConnector, DeleteConnector,
     RefreshCorrectsTransport, LookedAt
<1>2. CASE CreateConnector(c)
  <2>1. /\ ~Live(c) /\ card'[c].state = "live"
        /\ health' = [health EXCEPT ![c] = NeverChecked]
        /\ history' = [history EXCEPT ![c] = <<>>]
        /\ \A d \in Cards : d # c => card'[d] = card[d]
    BY <1>0, <1>2 DEF CreateConnector, Live, TypeOK
  <2>2. BoardRow(c)' = Board!Blank
    BY <1>0, <2>1 DEF BoardRow, Live, NeverChecked, Board!Blank, TypeOK
  <2>3. \A d \in Cards : d # c => BoardRow(d)' = BoardRow(d)
    BY <1>0, <2>1 DEF BoardRow, Live, TypeOK
  <2>4. BoardRow(c) = None
    BY <2>1 DEF BoardRow
  <2> QED
    BY <1>1, <2>2, <2>3, <2>4 DEF Board!Open
<1>3. CASE DeleteConnector(c)
  <2>1. /\ Live(c) /\ card'[c].state = "gone"
        /\ health' = [health EXCEPT ![c] = NeverChecked]
        /\ history' = [history EXCEPT ![c] = <<>>]
        /\ \A d \in Cards : d # c => card'[d] = card[d]
    BY <1>0, <1>3 DEF DeleteConnector, Live, TypeOK
  <2>2. BoardRow(c)' = None
    BY <2>1 DEF BoardRow, Live
  <2>3. \A d \in Cards : d # c => BoardRow(d)' = BoardRow(d)
    BY <1>0, <2>1 DEF BoardRow, Live, TypeOK
  <2>4. BoardRow(c) # None
    BY <1>0, <2>1, BoardTypes
  <2> QED
    BY <1>1, <2>2, <2>3, <2>4 DEF Board!Remove
<1>4. CASE UpdateConnector(c) \/ RefreshCorrectsTransport(c)
  <2>1. Live(c) /\ health' = health /\ history' = history
    BY <1>4 DEF UpdateConnector, RefreshCorrectsTransport
  <2>2. \A d \in Cards : card'[d].state = card[d].state
    <3>1. CASE UpdateConnector(c)
      BY <1>0, <2>1, <3>1 DEF UpdateConnector, Live, TypeOK
    <3>2. CASE RefreshCorrectsTransport(c)
      <4>1. PICK t \in Transports :
              card' = [card EXCEPT ![c] = [card[c] EXCEPT !.transport = t]]
        BY <3>2 DEF RefreshCorrectsTransport
      <4>2. card[c] \in CardRows /\ [card[c] EXCEPT !.transport = t].state = card[c].state
        BY <1>0 DEF TypeOK, CardRows
      <4> QED
        BY <1>0, <4>1, <4>2 DEF TypeOK
    <3> QED
      BY <1>4, <3>1, <3>2
  <2>3. \A d \in Cards : BoardRow(d)' = BoardRow(d)
    BY <2>1, <2>2 DEF BoardRow, Live
  <2> QED
    BY <1>1, <2>3 DEF Board!boardVars
<1> QED
  BY <1>2, <1>3, <1>4 DEF OwnerStep

LEMMA RecordRefines ==
  ASSUME Inv, NEW a \in Probers, RecordHealth(a)
  PROVE  Board!Post(a)
<1>0. TypeOK /\ ProbersCarry /\ TokenIsExact
  BY DEF Inv, TokenInv
<1> PICK c \in Cards : c = probe[a].card
  BY <1>0, RecordEffect
<1>1. /\ c \in Cards /\ Live(c) /\ Out(a)
      /\ health'[c] = Recorded(a)
      /\ history'[c] = Append(history[c], Healthy(a))
      /\ \A d \in Cards : d # c => health'[d] = health[d] /\ history'[d] = history[d]
      /\ \A d \in Cards : card'[d].state = card[d].state
  BY <1>0, RecordEffect, RecordTimes DEF TypeOK, Live, Out, Begun
<1>2. Len(history'[c]) = Len(history[c]) + 1
  BY <1>0, <1>1, FieldTypes DEF Healthy
<1>3. a \in SweepTasks => Len(history[c]) = probe[a].read
  BY <1>0, <1>1, RecordEffect DEF TokenIsExact, Out
<1>4. LookedAt(a) = [card |-> c, posts |-> probe[a].read]
  BY <1>1 DEF LookedAt, Out
<1>5. BoardRow(c) = [status |-> health[c].status, fails |-> health[c].fails,
                     posts |-> Len(history[c])]
  BY <1>1 DEF BoardRow
<1>6. BoardRow(c)' = Board!After(BoardRow(c), Healthy(a))
  <2>1. BoardRow(c)' = [status |-> Recorded(a).status, fails |-> Recorded(a).fails,
                        posts |-> Len(history[c]) + 1]
    BY <1>1, <1>2 DEF BoardRow, Live
  <2>2. BoardRow(c).fails = health[c].fails /\ BoardRow(c).posts = Len(history[c])
    BY <1>5
  <2>3. /\ Recorded(a).status = IF Healthy(a) THEN "healthy" ELSE "unhealthy"
        /\ Recorded(a).fails = IF Healthy(a) THEN 0 ELSE health[c].fails + 1
    BY DEF Recorded
  <2> QED
    BY <2>1, <2>2, <2>3 DEF Board!After
<1>7. \A d \in Cards : d # c => BoardRow(d)' = BoardRow(d)
  BY <1>1 DEF BoardRow, Live
<1>8. /\ LookedAt(a)' = None
      /\ \A b \in Probers : b # a => LookedAt(b)' = LookedAt(b)
  BY <1>0, RecordTimes DEF LookedAt, Out
<1>9. LookedAt(a) # None /\ BoardRow(c) # None
  BY <1>0, <1>1, BoardTypes
<1>10. [d \in Cards |-> BoardRow(d)]' =
         [[d \in Cards |-> BoardRow(d)] EXCEPT ![c] = Board!After(@, Healthy(a))]
  <2> DEFINE b == [d \in Cards |-> BoardRow(d)]
  <2>1. b[c] = BoardRow(c)
    BY <1>1
  <2>2. b' = [b EXCEPT ![c] = Board!After(b[c], Healthy(a))]
    BY <1>1, <1>6, <1>7, <2>1
  <2> QED
    BY <2>2
<1>11. [b \in Probers |-> LookedAt(b)]' = [[b \in Probers |-> LookedAt(b)] EXCEPT ![a] = None]
  BY <1>8
<1>12. Healthy(a) \in BOOLEAN
  BY DEF Healthy
<1> QED
  BY <1>1, <1>3, <1>4, <1>5, <1>9, <1>10, <1>11, <1>12 DEF Board!Post

LEMMA LookRefines ==
  ASSUME Inv, [Next]_vars, UNCHANGED <<card, health, history>>
  PROVE  Board!LookOrLeave
<1>0. TypeOK /\ ProbersCarry
  BY DEF Inv, TokenInv
<1>1. UNCHANGED [c \in Cards |-> BoardRow(c)]
  BY DEF BoardRow, Live
<1>2. ASSUME NEW a \in Probers, LookedAt(a)' # LookedAt(a), LookedAt(a)' # None
      PROVE  \E c \in Cards : BoardRow(c) # None /\ LookedAt(a)' = Board!Counted(a, c)
  <2>1. PICK c \in Cards :
          /\ Live(c) /\ probe'[a].card = c
          /\ probe'[a].read = IF a \in SweepTasks THEN Len(history[c]) ELSE 0
    BY <1>0, <1>2, WhoLooks DEF Takes
  <2>2. LookedAt(a)' = [card |-> c, posts |-> probe'[a].read]
    BY <1>2, <2>1 DEF LookedAt
  <2>3. BoardRow(c) # None /\ BoardRow(c).posts = Len(history[c])
    BY <1>0, <2>1, BoardTypes DEF BoardRow
  <2> QED
    BY <2>1, <2>2, <2>3 DEF Board!Counted
<1> QED
  BY <1>1, <1>2 DEF Board!LookOrLeave, Probers

(* ConnectorHealth implements HealthBoard: the compare-and-set on          *)
(* last_checked_at never lets a background prober post on a row that       *)
(* anybody posted on since it looked.                                      *)
THEOREM Refinement == Spec => ImplementsHealthBoard
<1>1. Init => Board!BoardInit
  BY DEF Init, Board!BoardInit, BoardRow, LookedAt, Live, Idle, Probers
<1>2. Inv /\ [Next]_vars => [Board!BoardNext]_(Board!boardVars)
  BY WhoWritesRows, OwnerRefines, RecordRefines, LookRefines DEF Board!BoardNext, Probers
<1> QED
  BY <1>1, <1>2, Invariance, PTL DEF Spec, ImplementsHealthBoard, Board!BoardSpec
=============================================================================

----------------------- MODULE CardTransactionsProofs -----------------------
(***************************************************************************)
(* Proofs about CardTransactions: types, the row locks, that a card is     *)
(* whole or gone, and that only a DELETE can take part in a deadlock; that *)
(* the store implements CardStore; and what becomes of a body (CardBody).  *)
(***************************************************************************)
EXTENDS CardTransactions, CardBody, SequenceTheorems, FiniteSetTheorems,
        WellFoundedInduction, TLAPS

Tables == {"card", "cache", "health"}
Writing == {"updated", "tagged", "deleting", "uncached"}

(* What an actor is doing fits what it is there for. *)
Roles ==
    \A a \in Actors :
      /\ Stage(a) # "idle" => CardOf(a) \in Cards
      /\ tx[a].kind = "patch" => tx[a].body \in Bodies
      /\ Stage(a) = "allowed" => tx[a].kind \in {"patch", "delete"}
      /\ Stage(a) \in {"updated", "tagged"} => tx[a].kind = "patch"
      /\ Stage(a) \in {"deleting", "uncached"} => tx[a].kind = "delete"
      /\ Stage(a) = "probing" => tx[a].kind \in {"sweep", "recheck"}
      /\ Stage(a) \in {"begun", "recorded"} =>
           tx[a].kind \in {"sweep", "recheck", "refresh", "create"}

(* Who holds a lock is in a stage that comes after taking it. *)
Holders ==
    \A table \in Tables, c \in Cards, a \in Actors :
      held[<<table, c>>] = a =>
        /\ CardOf(a) = c
        /\ table = "card" => Stage(a) \in Writing
        /\ table # "card" => Stage(a) \in {"recorded", "uncached"}

(* Who is in a stage that writes the card holds the card's row. *)
WritersHold ==
    \A a \in Actors : Stage(a) \in Writing => held[<<"card", CardOf(a)>>] = a

LocksInv == Roles /\ Holders /\ WritersHold

(* Between two ticks no task is left of the last one. *)
NoTasksBetweenTicks ==
    sweep = "idle" => \A t \in SweepTasks : Stage(t) = "idle"

(* While the row is locked the card is there, and its tags are those that  *)
(* the DELETE of the tags has seen.                                        *)
LockedCardStands ==
    \A a \in Actors :
      /\ Stage(a) \in Writing => Live(CardOf(a))
      /\ Stage(a) = "tagged" => tx[a].dropped = tags[CardOf(a)]

Inv == TypeOK /\ LocksInv /\ NoTasksBetweenTicks /\ LockedCardStands /\ WholeOrGone

-----------------------------------------------------------------------------
(***************************************************************************)
(* Facts about the operators                                               *)
(***************************************************************************)

(* No actor is NULL, and no actor is a row. *)
LEMMA ActorsApart ==
    /\ None \notin Actors
    /\ \A a \in Actors, c \in Cards : a # HealthRow(c)
    /\ SweepTasks \cap Requests = {}
    /\ None \notin Cards /\ None \notin Bodies
  BY ActorsAssumption DEF Actors, SweepTasks, Rows, HealthRow

(* What somebody wants, stage by stage: one row or none. *)
LEMMA WantsOneRow ==
    ASSUME NEW a \in Actors
    PROVE  /\ Stage(a) = "begun" => Wants(a) = {<<ChildOf(a), CardOf(a)>>}
           /\ Stage(a) \in {"recorded", "allowed"} => Wants(a) = {<<"card", CardOf(a)>>}
           /\ Stage(a) = "deleting" => Wants(a) = {<<"cache", CardOf(a)>>}
           /\ Stage(a) = "uncached" => Wants(a) = {<<"health", CardOf(a)>>}
           /\ Stage(a) \in {"idle", "probing", "updated", "tagged"} => Wants(a) = {}
  BY DEF Wants, ChildOf

(* Who is not blocked finds the row it wants free or its own. *)
LEMMA FreeOrOwn ==
    ASSUME TypeOK, NEW a \in Actors, ~Blocked(a), NEW row \in Rows, row \in Wants(a)
    PROVE  held[row] \in {a, None}
  BY DEF TypeOK, Blocked, WaitsFor

LEMMA TakenRows ==
    ASSUME NEW a \in Actors, NEW table \in Tables, NEW c \in Cards
    PROVE  /\ Taken(a)[<<table, c>>] =
                IF <<table, c>> \in Wants(a) THEN a ELSE held[<<table, c>>]
           /\ Released(a)[<<table, c>>] =
                IF held[<<table, c>>] = a THEN None ELSE held[<<table, c>>]
  BY DEF Taken, Released, Tables, Rows

LEMMA LockTypes ==
    ASSUME TypeOK, NEW a \in Actors
    PROVE  /\ Taken(a) \in [Rows -> Actors \cup {None}]
           /\ Released(a) \in [Rows -> Actors \cup {None}]
           /\ Unshared(a) \in [Cards -> SUBSET Actors]
           /\ Without(a) \in SUBSET ((Rows \cup Actors) \X (Rows \cup Actors))
           /\ \A c \in Cards :
                Without(HealthRow(c)) \in SUBSET ((Rows \cup Actors) \X (Rows \cup Actors))
  BY DEF TypeOK, Taken, Released, Unshared, Without

-----------------------------------------------------------------------------
(***************************************************************************)
(* Types                                                                   *)
(***************************************************************************)
LEMMA BlankTyped ==
    Blank \in [kind : Kinds, stage : Stages, card : Cards \cup {None},
               body : Bodies \cup {None}, dropped : SUBSET Bodies]
  BY DEF Blank, Kinds, Stages

LEMMA SavesInTyped ==
    ASSUME TypeOK, NEW a \in Actors, CardOf(a) \in Cards, SavesIn(a, CardOf(a))
    PROVE  /\ older' \in SUBSET ((Rows \cup Actors) \X (Rows \cup Actors))
           /\ kids' \in [Cards -> SUBSET {"cache", "health"}]
           /\ stale' \subseteq Cards
<1> DEFINE c == CardOf(a)
<1>1. HealthRow(c) \in Rows
  BY DEF HealthRow, Rows
<1>2. CASE ChildOf(a) = "health"
  <2> DEFINE It(x) == IF x = a THEN HealthRow(c) ELSE x
  <2>1. older' = {<<It(p[1]), It(p[2])>> : p \in Without(HealthRow(c))}
    BY <1>2 DEF SavesIn
  <2>2. \A p \in Without(HealthRow(c)) : p[1] \in Rows \cup Actors /\ p[2] \in Rows \cup Actors
    BY DEF Without, TypeOK
  <2>3. older' \in SUBSET ((Rows \cup Actors) \X (Rows \cup Actors))
    BY <1>1, <2>1, <2>2
  <2>4. kids' = kids /\ stale' \subseteq Cards
    BY <1>2 DEF SavesIn, InBatch, TypeOK
  <2> QED BY <2>3, <2>4 DEF TypeOK
<1>3. CASE ChildOf(a) # "health"
  BY <1>3 DEF SavesIn, TypeOK
<1> QED BY <1>2, <1>3

LEMMA EndsTyped ==
    ASSUME TypeOK, NEW a \in Actors, Ends(a)
    PROVE  /\ tx' \in [Actors -> [kind : Kinds, stage : Stages, card : Cards \cup {None},
                                  body : Bodies \cup {None}, dropped : SUBSET Bodies]]
           /\ held' \in [Rows -> Actors \cup {None}]
           /\ shared' \in [Cards -> SUBSET Actors]
  BY BlankTyped, LockTypes DEF Ends, TypeOK

(* Every step of an actor keeps the types. *)
LEMMA RecordStepTyped ==
    ASSUME TypeOK, Roles, NEW a \in Actors, RecordStep(a)
    PROVE  TypeOK'
<1>1. ASSUME Begin(a) PROVE TypeOK'
  <2>1. tx' \in [Actors -> [kind : Kinds, stage : Stages, card : Cards \cup {None},
                           body : Bodies \cup {None}, dropped : SUBSET Bodies]]
    BY <1>1 DEF Begin, To, TypeOK, Stages
  <2>2. older' \in SUBSET ((Rows \cup Actors) \X (Rows \cup Actors))
    BY <1>1 DEF Begin, TypeOK
  <2> QED BY <1>1, <2>1, <2>2 DEF Begin, TypeOK, cardVars, lockVars
<1>2. ASSUME Record(a) PROVE TypeOK'
  <2>1. CardOf(a) \in Cards
    BY <1>2 DEF Record, Roles
  <2>2. tx' \in [Actors -> [kind : Kinds, stage : Stages, card : Cards \cup {None},
                           body : Bodies \cup {None}, dropped : SUBSET Bodies]]
    BY <1>2 DEF Record, To, TypeOK, Stages
  <2>3. shared' \in [Cards -> SUBSET Actors]
    BY <1>2, <2>1 DEF Record, TypeOK
  <2> QED BY <1>2, <2>2, <2>3, LockTypes DEF Record, TypeOK, cardVars
<1>3. ASSUME RecordAndCommit(a) PROVE TypeOK'
  <2>1. CardOf(a) \in Cards
    BY <1>3 DEF RecordAndCommit, Roles
  <2> QED BY <1>3, <2>1, SavesInTyped, EndsTyped DEF RecordAndCommit, TypeOK
<1>4. ASSUME CorrectAndCommit(a) PROVE TypeOK'
  <2>1. CardOf(a) \in Cards
    BY <1>4 DEF CorrectAndCommit, Roles
  <2> QED BY <1>4, <2>1, SavesInTyped, EndsTyped DEF CorrectAndCommit, TypeOK
<1>5. ASSUME RollsBack(a) PROVE TypeOK'
  BY <1>5, EndsTyped, LockTypes DEF RollsBack, TypeOK, cardVars
<1> QED BY <1>1, <1>2, <1>3, <1>4, <1>5 DEF RecordStep, RecordsNothing, CorrectionRefused

LEMMA OwnerStepTyped ==
    ASSUME TypeOK, Roles, NEW r \in Requests, OwnerStep(r)
    PROVE  TypeOK'
<1> r \in Actors
  BY DEF Actors
<1>1. ASSUME UpdateCard(r) \/ DeleteCard(r) \/ CascadeToCache(r) PROVE TypeOK'
  <2>1. tx' \in [Actors -> [kind : Kinds, stage : Stages, card : Cards \cup {None},
                           body : Bodies \cup {None}, dropped : SUBSET Bodies]]
    <3>1. PICK stage \in Stages : To(r, stage)
      BY <1>1 DEF UpdateCard, DeleteCard, CascadeToCache, Stages
    <3> QED BY <3>1 DEF To, TypeOK
  <2> QED BY <1>1, <2>1, LockTypes
          DEF UpdateCard, DeleteCard, CascadeToCache, TypeOK, cardVars
<1>2. ASSUME UpdateNothing(r) \/ DeleteNothing(r) PROVE TypeOK'
  BY <1>2, BlankTyped DEF UpdateNothing, DeleteNothing, TypeOK, cardVars, lockVars
<1>3. ASSUME ReplaceTags(r) PROVE TypeOK'
  <2>1. tags[CardOf(r)] \in SUBSET Bodies
    BY <1>3 DEF ReplaceTags, Roles, TypeOK
  <2> DEFINE step == [tx[r] EXCEPT !.stage = "tagged", !.dropped = tags[CardOf(r)]]
  <2>2. step \in [kind : Kinds, stage : Stages, card : Cards \cup {None},
                  body : Bodies \cup {None}, dropped : SUBSET Bodies]
    BY <2>1 DEF TypeOK, Stages
  <2>3. tx' = [tx EXCEPT ![r] = step]
    BY <1>3 DEF ReplaceTags, TypeOK
  <2> QED BY <1>3, <2>2, <2>3 DEF ReplaceTags, TypeOK, cardVars, lockVars
<1>4. ASSUME ReplaceTeams(r) PROVE TypeOK'
  <2>1. tx[r].body \in Bodies /\ Children(tx[r].body) \in SUBSET Bodies
    BY <1>4 DEF ReplaceTeams, Roles, Children
  <2> QED BY <1>4, <2>1, EndsTyped DEF ReplaceTeams, Given, TypeOK
<1>5. ASSUME CascadeToHealth(r) PROVE TypeOK'
  <2>1. CardOf(r) \in Cards
    BY <1>5 DEF CascadeToHealth, Roles
  <2> QED BY <1>5, <2>1, EndsTyped, LockTypes DEF CascadeToHealth, TypeOK
<1> QED BY <1>1, <1>2, <1>3, <1>4, <1>5 DEF OwnerStep

(* ... and so does every other step. *)
LEMMA OtherStepTyped ==
    ASSUME TypeOK, Roles,
           \/ FetchCandidates \/ FinishTick \/ CrashWorker \/ CrashApi
           \/ \E r \in Requests : StartRequest(r) \/ CreateConnector(r) \/ RequireOwner(r)
           \/ \E a \in Actors : DeadlockVictim(a) \/ StatementFails(a)
    PROVE  TypeOK'
<1>1. ASSUME FetchCandidates PROVE TypeOK'
  <2>1. \A t \in SweepTasks : At("sweep", "probing", t[2], None) \in
          [kind : Kinds, stage : Stages, card : Cards \cup {None},
           body : Bodies \cup {None}, dropped : SUBSET Bodies]
    BY DEF At, SweepTasks, Kinds, Stages
  <2>2. tx' \in [Actors -> [kind : Kinds, stage : Stages, card : Cards \cup {None},
                           body : Bodies \cup {None}, dropped : SUBSET Bodies]]
    BY <1>1, <2>1 DEF FetchCandidates, TypeOK
  <2> QED BY <1>1, <2>2 DEF FetchCandidates, TypeOK, cardVars, lockVars
<1>2. ASSUME FinishTick PROVE TypeOK'
  BY <1>2 DEF FinishTick, TypeOK, cardVars, lockVars
<1>3. ASSUME CrashWorker PROVE TypeOK'
  BY <1>3, BlankTyped DEF CrashWorker, TypeOK, cardVars
<1>4. ASSUME CrashApi PROVE TypeOK'
  BY <1>4, BlankTyped DEF CrashApi, TypeOK, cardVars
<1>5. ASSUME NEW r \in Requests, StartRequest(r) PROVE TypeOK'
  <2> r \in Actors
    BY DEF Actors
  <2>1. PICK c \in Cards, kind \in {"recheck", "refresh"} :
          tx' = [tx EXCEPT ![r] =
                   At(kind, IF kind = "recheck" THEN "probing" ELSE "begun", c, None)]
    BY <1>5 DEF StartRequest
  <2>2. At(kind, IF kind = "recheck" THEN "probing" ELSE "begun", c, None) \in
          [kind : Kinds, stage : Stages, card : Cards \cup {None},
           body : Bodies \cup {None}, dropped : SUBSET Bodies]
    BY DEF At, Kinds, Stages
  <2> QED BY <1>5, <2>1, <2>2 DEF StartRequest, TypeOK, cardVars, lockVars
<1>6. ASSUME NEW r \in Requests, CreateConnector(r) PROVE TypeOK'
  <2> r \in Actors
    BY DEF Actors
  <2>1. PICK c \in Cards, b \in Bodies :
          /\ life' = [life EXCEPT ![c] = "live"]
          /\ body' = [body EXCEPT ![c] = b]
          /\ transport' = [transport EXCEPT ![c] = Given(b)]
          /\ tags' = [tags EXCEPT ![c] = Children(b)]
          /\ teams' = [teams EXCEPT ![c] = Children(b)]
          /\ kids' = [kids EXCEPT ![c] = {"health"}]
          /\ tx' = [tx EXCEPT ![r] =
                      IF b \in Reachable /\ c \in Edited
                    THEN At("create", "begun", c, None) ELSE Blank]
    BY <1>6 DEF CreateConnector
  <2>2. At("create", "begun", c, None) \in
          [kind : Kinds, stage : Stages, card : Cards \cup {None},
           body : Bodies \cup {None}, dropped : SUBSET Bodies]
    BY DEF At, Kinds, Stages
  <2>3. tx' \in [Actors -> [kind : Kinds, stage : Stages, card : Cards \cup {None},
                           body : Bodies \cup {None}, dropped : SUBSET Bodies]]
    BY <2>1, <2>2, BlankTyped DEF TypeOK
  <2>4. Children(b) \in SUBSET Bodies
    BY DEF Children
  <2> QED BY <1>6, <2>1, <2>3, <2>4 DEF CreateConnector, Given, TypeOK, lockVars
<1>7. ASSUME NEW r \in Requests, RequireOwner(r) PROVE TypeOK'
  <2> r \in Actors
    BY DEF Actors
  <2>1. PICK c \in Cards :
          \/ \E b \in Bodies : tx' = [tx EXCEPT ![r] = At("patch", "allowed", c, b)]
          \/ tx' = [tx EXCEPT ![r] = At("delete", "allowed", c, None)]
    BY <1>7 DEF RequireOwner
  <2>2. \A kind \in {"patch", "delete"}, b \in Bodies \cup {None} :
          At(kind, "allowed", c, b) \in
            [kind : Kinds, stage : Stages, card : Cards \cup {None},
             body : Bodies \cup {None}, dropped : SUBSET Bodies]
    BY DEF At, Kinds, Stages
  <2> QED BY <1>7, <2>1, <2>2 DEF RequireOwner, TypeOK, cardVars, lockVars
<1>8. ASSUME NEW a \in Actors, RollsBack(a) PROVE TypeOK'
  BY <1>8, EndsTyped, LockTypes DEF RollsBack, TypeOK, cardVars
<1> QED BY <1>1, <1>2, <1>3, <1>4, <1>5, <1>6, <1>7, <1>8 DEF DeadlockVictim, StatementFails

LEMMA TypeStep ==
    ASSUME TypeOK, Roles, [Next]_vars
    PROVE  TypeOK'
<1>1. CASE Next
  <2>1. ASSUME NEW t \in SweepTasks, RecordStep(t) PROVE TypeOK'
    BY <2>1, RecordStepTyped DEF Actors
  <2>2. ASSUME NEW r \in Requests, RequestStep(r) PROVE TypeOK'
    BY <2>2, RecordStepTyped, OwnerStepTyped DEF Actors, RequestStep
  <2> QED BY <1>1, <2>1, <2>2, OtherStepTyped DEF Next
<1>2. CASE UNCHANGED vars
  BY <1>2 DEF vars, TypeOK
<1> QED BY <1>1, <1>2

-----------------------------------------------------------------------------
(***************************************************************************)
(* Locks.  Three ways a step can touch them: somebody who holds nothing    *)
(* starts or goes on (Begins), takes the row it wants (Takes), or ends.    *)
(***************************************************************************)
LEMMA EndsKeepsLocks ==
    ASSUME TypeOK, LocksInv, NEW a \in Actors, Ends(a)
    PROVE  LocksInv'
<1>1. \A b \in Actors : tx'[b] = IF b = a THEN Blank ELSE tx[b]
  BY DEF Ends, TypeOK
<1>2. \A table \in Tables, c \in Cards :
        held'[<<table, c>>] = IF held[<<table, c>>] = a THEN None ELSE held[<<table, c>>]
  BY TakenRows DEF Ends
<1>3. Roles'
  BY <1>1 DEF LocksInv, Roles, Stage, CardOf, Blank
<1>4. Holders'
  BY <1>1, <1>2, ActorsApart DEF LocksInv, Holders, Stage, CardOf
<1>5. WritersHold'
  <2> SUFFICES ASSUME NEW b \in Actors, Stage(b)' \in Writing
               PROVE  held'[<<"card", CardOf(b)'>>] = b
    BY DEF WritersHold
  <2>1. b # a /\ Stage(b) \in Writing /\ CardOf(b)' = CardOf(b)
    BY <1>1 DEF Stage, CardOf, Blank, Writing
  <2>2. CardOf(b) \in Cards /\ held[<<"card", CardOf(b)>>] = b
    BY <2>1 DEF LocksInv, WritersHold, Roles, Writing
  <2> QED BY <1>2, <2>1, <2>2 DEF Tables
<1> QED BY <1>3, <1>4, <1>5 DEF LocksInv

(* a takes the row it wants and goes on to the stage that says so. *)
LEMMA TakesKeepsLocks ==
    ASSUME TypeOK, LocksInv, NEW a \in Actors, ~Blocked(a), held' = Taken(a),
           NEW stage \in Stages, To(a, stage),
           \/ Stage(a) = "begun" /\ stage = "recorded"
           \/ Stage(a) = "allowed" /\ tx[a].kind = "patch" /\ stage = "updated"
           \/ Stage(a) = "allowed" /\ tx[a].kind = "delete" /\ stage = "deleting"
           \/ Stage(a) = "deleting" /\ stage = "uncached"
    PROVE  LocksInv'
<1>1. \A b \in Actors : tx'[b] = IF b = a THEN [tx[a] EXCEPT !.stage = stage] ELSE tx[b]
  BY DEF To, TypeOK
<1>2. \A b \in Actors : CardOf(b)' = CardOf(b) /\ tx'[b].kind = tx[b].kind
                       /\ tx'[b].body = tx[b].body
                       /\ Stage(b)' = IF b = a THEN stage ELSE Stage(b)
  BY <1>1 DEF CardOf, Stage, TypeOK
<1>3. CardOf(a) \in Cards
  BY DEF LocksInv, Roles
<1>4. PICK wanted \in Tables :
        /\ Wants(a) = {<<wanted, CardOf(a)>>}
        /\ wanted = "card" <=> Stage(a) = "allowed"
  BY WantsOneRow DEF Tables, ChildOf
<1>5. <<wanted, CardOf(a)>> \in Rows /\ held[<<wanted, CardOf(a)>>] \in {a, None}
  BY <1>3, <1>4, FreeOrOwn DEF Rows, Tables
<1>6. \A table \in Tables, c \in Cards :
        held'[<<table, c>>] = IF table = wanted /\ c = CardOf(a) THEN a ELSE held[<<table, c>>]
  <2> SUFFICES ASSUME NEW table \in Tables, NEW c \in Cards
               PROVE  held'[<<table, c>>] =
                        IF table = wanted /\ c = CardOf(a) THEN a ELSE held[<<table, c>>]
    OBVIOUS
  <2>1. <<table, c>> \in Wants(a) <=> table = wanted /\ c = CardOf(a)
    BY <1>4
  <2> QED BY <2>1, TakenRows
<1>7. Roles'
  BY <1>2 DEF LocksInv, Roles
<1>8. Holders'
  <2> SUFFICES ASSUME NEW table \in Tables, NEW c \in Cards, NEW b \in Actors,
                      held'[<<table, c>>] = b
               PROVE  /\ CardOf(b)' = c
                      /\ table = "card" => Stage(b)' \in Writing
                      /\ table # "card" => Stage(b)' \in {"recorded", "uncached"}
    BY DEF Holders
  <2>1. CASE table = wanted /\ c = CardOf(a)
    BY <2>1, <1>2, <1>4, <1>6 DEF Writing
  <2>2. CASE ~(table = wanted /\ c = CardOf(a))
    BY <2>2, <1>2, <1>6 DEF LocksInv, Holders, Writing
  <2> QED BY <2>1, <2>2
<1>9. WritersHold'
  <2> SUFFICES ASSUME NEW b \in Actors, Stage(b)' \in Writing
               PROVE  held'[<<"card", CardOf(b)>>] = b
    BY <1>2 DEF WritersHold
  <2>1. CASE b = a
    BY <2>1, <1>2, <1>3, <1>4, <1>6 DEF LocksInv, WritersHold, Writing, Tables
  <2>2. CASE b # a
    <3>1. CardOf(b) \in Cards /\ held[<<"card", CardOf(b)>>] = b
      BY <2>2, <1>2 DEF LocksInv, WritersHold, Roles, Writing
    <3> QED BY <3>1, <2>2, <1>5, <1>6, ActorsApart DEF Tables
  <2> QED BY <2>1, <2>2
<1> QED BY <1>7, <1>8, <1>9 DEF LocksInv

(* Somebody who holds nothing moves to where nothing needs to be held. *)
LEMMA MovesKeepLocks ==
    ASSUME TypeOK, LocksInv, Roles', held' = held,
           \A b \in Actors :
             \/ tx'[b] = tx[b]
             \/ /\ Stage(b) \in {"idle", "probing", "allowed"}
                /\ Stage(b)' \in {"idle", "probing", "begun", "allowed"}
    PROVE  LocksInv'
<1>1. Holders'
  <2> SUFFICES ASSUME NEW table \in Tables, NEW c \in Cards, NEW b \in Actors,
                      held[<<table, c>>] = b
               PROVE  /\ CardOf(b)' = c
                      /\ table = "card" => Stage(b)' \in Writing
                      /\ table # "card" => Stage(b)' \in {"recorded", "uncached"}
    BY DEF Holders
  <2>1. tx'[b] = tx[b]
    BY DEF LocksInv, Holders, Writing
  <2> QED BY <2>1 DEF LocksInv, Holders, CardOf, Stage
<1>2. WritersHold'
  <2> SUFFICES ASSUME NEW b \in Actors, Stage(b)' \in Writing
               PROVE  held[<<"card", CardOf(b)'>>] = b
    BY DEF WritersHold
  <2>1. tx'[b] = tx[b]
    BY DEF Writing
  <2> QED BY <2>1 DEF LocksInv, WritersHold, CardOf, Stage
<1> QED BY <1>1, <1>2 DEF LocksInv

(* A process dies with all its actors. *)
LEMMA CrashKeepsLocks ==
    ASSUME TypeOK, LocksInv, NEW Dead \in SUBSET Actors,
           tx' = [a \in Actors |-> IF a \in Dead THEN Blank ELSE tx[a]],
           held' = [row \in Rows |-> IF held[row] \in Dead THEN None ELSE held[row]]
    PROVE  LocksInv'
<1>1. \A b \in Actors : tx'[b] = IF b \in Dead THEN Blank ELSE tx[b]
  OBVIOUS
<1>2. \A table \in Tables, c \in Cards :
        held'[<<table, c>>] = IF held[<<table, c>>] \in Dead THEN None ELSE held[<<table, c>>]
  BY DEF Rows, Tables
<1>3. Roles'
  BY <1>1 DEF LocksInv, Roles, Stage, CardOf, Blank
<1>4. Holders'
  BY <1>1, <1>2, ActorsApart DEF LocksInv, Holders, Stage, CardOf
<1>5. WritersHold'
  <2> SUFFICES ASSUME NEW b \in Actors, Stage(b)' \in Writing
               PROVE  held'[<<"card", CardOf(b)'>>] = b
    BY DEF WritersHold
  <2>1. b \notin Dead /\ Stage(b) \in Writing /\ CardOf(b)' = CardOf(b)
    BY <1>1 DEF Stage, CardOf, Blank, Writing
  <2>2. CardOf(b) \in Cards /\ held[<<"card", CardOf(b)>>] = b
    BY <2>1 DEF LocksInv, WritersHold, Roles, Writing
  <2> QED BY <1>2, <2>1, <2>2 DEF Tables
<1> QED BY <1>3, <1>4, <1>5 DEF LocksInv

LEMMA RecordStepKeepsLocks ==
    ASSUME TypeOK, LocksInv, NEW a \in Actors, RecordStep(a)
    PROVE  LocksInv'
<1>1. ASSUME Begin(a) PROVE LocksInv'
  <2>1. \A b \in Actors :
          tx'[b] = IF b = a THEN [tx[a] EXCEPT !.stage = "begun"] ELSE tx[b]
    BY <1>1 DEF Begin, To, TypeOK
  <2>2. \A b \in Actors : CardOf(b)' = CardOf(b) /\ tx'[b].kind = tx[b].kind
                         /\ tx'[b].body = tx[b].body
                         /\ Stage(b)' = IF b = a THEN "begun" ELSE Stage(b)
    BY <2>1 DEF CardOf, Stage, TypeOK
  <2>3. Stage(a) = "probing" /\ held' = held
    BY <1>1 DEF Begin, lockVars
  <2>4. Roles'
    BY <2>2, <2>3 DEF LocksInv, Roles
  <2> QED BY <2>1, <2>2, <2>3, <2>4, MovesKeepLocks
<1>2. ASSUME Record(a) PROVE LocksInv'
  BY <1>2, TakesKeepsLocks DEF Record, Stages
<1>3. ASSUME Ends(a) PROVE LocksInv'
  BY <1>3, EndsKeepsLocks
<1> QED BY <1>1, <1>2, <1>3
        DEF RecordStep, RecordAndCommit, CorrectAndCommit, RecordsNothing,
            CorrectionRefused, RollsBack

LEMMA OwnerStepKeepsLocks ==
    ASSUME TypeOK, LocksInv, NEW r \in Requests, OwnerStep(r)
    PROVE  LocksInv'
<1> r \in Actors
  BY DEF Actors
<1>1. ASSUME UpdateCard(r) PROVE LocksInv'
  BY <1>1, TakesKeepsLocks DEF UpdateCard, Stages
<1>2. ASSUME DeleteCard(r) PROVE LocksInv'
  BY <1>2, TakesKeepsLocks DEF DeleteCard, Deletes, Stages
<1>3. ASSUME CascadeToCache(r) PROVE LocksInv'
  BY <1>3, TakesKeepsLocks DEF CascadeToCache, Stages
<1>4. ASSUME UpdateNothing(r) \/ DeleteNothing(r) PROVE LocksInv'
  <2>1. /\ Stage(r) = "allowed" /\ held' = held
        /\ \A b \in Actors : tx'[b] = IF b = r THEN Blank ELSE tx[b]
    BY <1>4 DEF UpdateNothing, DeleteNothing, lockVars, TypeOK
  <2>2. Stage(r)' = "idle"
    BY <2>1 DEF Stage, Blank
  <2>3. Roles'
    BY <2>1 DEF LocksInv, Roles, Stage, CardOf, Blank
  <2> QED BY <2>1, <2>2, <2>3, MovesKeepLocks
<1>5. ASSUME ReplaceTags(r) PROVE LocksInv'
  <2>1. \A b \in Actors : CardOf(b)' = CardOf(b) /\ tx'[b].kind = tx[b].kind
                         /\ tx'[b].body = tx[b].body
                         /\ Stage(b)' = IF b = r THEN "tagged" ELSE Stage(b)
    BY <1>5 DEF ReplaceTags, CardOf, Stage, TypeOK
  <2>2. Stage(r) = "updated" /\ held' = held
    BY <1>5 DEF ReplaceTags, lockVars
  <2>3. Roles'
    BY <2>1, <2>2 DEF LocksInv, Roles
  <2>4. Holders'
    BY <2>1, <2>2 DEF LocksInv, Holders, Writing
  <2>5. WritersHold'
    BY <2>1, <2>2 DEF LocksInv, WritersHold, Writing
  <2> QED BY <2>3, <2>4, <2>5 DEF LocksInv
<1>6. ASSUME Ends(r) PROVE LocksInv'
  BY <1>6, EndsKeepsLocks
<1> QED BY <1>1, <1>2, <1>3, <1>4, <1>5, <1>6
        DEF OwnerStep, ReplaceTeams, CascadeToHealth

(* A request that starts was idle, and what it starts fits its kind. *)
LEMMA StartKeepsLocks ==
    ASSUME TypeOK, LocksInv, NEW r \in Requests,
           StartRequest(r) \/ CreateConnector(r) \/ RequireOwner(r)
    PROVE  LocksInv'
<1> r \in Actors
  BY DEF Actors
<1>1. /\ Stage(r) = "idle" /\ held' = held
      /\ \/ tx' = [tx EXCEPT ![r] = Blank]
         \/ \E c \in Cards :
              \/ tx' = [tx EXCEPT ![r] = At("recheck", "probing", c, None)]
              \/ tx' = [tx EXCEPT ![r] = At("refresh", "begun", c, None)]
              \/ tx' = [tx EXCEPT ![r] = At("create", "begun", c, None)]
              \/ tx' = [tx EXCEPT ![r] = At("delete", "allowed", c, None)]
              \/ \E b \in Bodies : tx' = [tx EXCEPT ![r] = At("patch", "allowed", c, b)]
  <2>1. CASE StartRequest(r)
    BY <2>1 DEF StartRequest, lockVars
  <2>2. CASE CreateConnector(r)
    BY <2>2 DEF CreateConnector, lockVars
  <2>3. CASE RequireOwner(r)
    BY <2>3 DEF RequireOwner, lockVars
  <2> QED BY <2>1, <2>2, <2>3
<1>2. /\ Stage(r)' \in {"idle", "probing", "begun", "allowed"}
      /\ \A b \in Actors : b # r => tx'[b] = tx[b]
  BY <1>1 DEF Stage, At, Blank, TypeOK
<1>3. Roles'
  <2> SUFFICES ASSUME NEW b \in Actors
               PROVE  /\ Stage(b)' # "idle" => CardOf(b)' \in Cards
                      /\ tx'[b].kind = "patch" => tx'[b].body \in Bodies
                      /\ Stage(b)' = "allowed" => tx'[b].kind \in {"patch", "delete"}
                      /\ Stage(b)' \in {"updated", "tagged"} => tx'[b].kind = "patch"
                      /\ Stage(b)' \in {"deleting", "uncached"} => tx'[b].kind = "delete"
                      /\ Stage(b)' = "probing" => tx'[b].kind \in {"sweep", "recheck"}
                      /\ Stage(b)' \in {"begun", "recorded"} =>
                           tx'[b].kind \in {"sweep", "recheck", "refresh", "create"}
    BY DEF Roles
  <2>1. CASE b = r
    BY <2>1, <1>1 DEF Stage, CardOf, At, Blank, TypeOK
  <2>2. CASE b # r
    BY <2>2, <1>2 DEF LocksInv, Roles, Stage, CardOf
  <2> QED BY <2>1, <2>2
<1> QED BY <1>1, <1>2, <1>3, MovesKeepLocks

LEMMA LocksStep ==
    ASSUME TypeOK, LocksInv, NoTasksBetweenTicks, [Next]_vars
    PROVE  LocksInv'
<1>1. ASSUME FetchCandidates PROVE LocksInv'
  <2>1. PICK batch \in SUBSET Cards :
          tx' = [a \in Actors |->
                   IF a \in SweepTasks /\ a[2] \in batch
                   THEN At("sweep", "probing", a[2], None) ELSE tx[a]]
    BY <1>1 DEF FetchCandidates
  <2>2. \A b \in Actors :
          \/ tx'[b] = tx[b]
          \/ /\ b \in SweepTasks /\ b[2] \in Cards
             /\ tx'[b] = At("sweep", "probing", b[2], None)
    BY <2>1
  <2>3. \A b \in SweepTasks : Stage(b) = "idle"
    BY <1>1 DEF FetchCandidates, NoTasksBetweenTicks
  <2>4. \A b \in Actors :
          \/ tx'[b] = tx[b]
          \/ /\ Stage(b) = "idle" /\ Stage(b)' = "probing"
             /\ CardOf(b)' \in Cards /\ tx'[b].kind = "sweep"
    <3> SUFFICES ASSUME NEW b \in Actors, tx'[b] # tx[b]
                 PROVE  /\ Stage(b) = "idle" /\ Stage(b)' = "probing"
                        /\ CardOf(b)' \in Cards /\ tx'[b].kind = "sweep"
      OBVIOUS
    <3>1. b \in SweepTasks /\ b[2] \in Cards /\ tx'[b] = At("sweep", "probing", b[2], None)
      BY <2>2
    <3> QED BY <3>1, <2>3 DEF Stage, CardOf, At
  <2>5. Roles'
    <3> SUFFICES ASSUME NEW b \in Actors
                 PROVE  /\ Stage(b)' # "idle" => CardOf(b)' \in Cards
                        /\ tx'[b].kind = "patch" => tx'[b].body \in Bodies
                        /\ Stage(b)' = "allowed" => tx'[b].kind \in {"patch", "delete"}
                        /\ Stage(b)' \in {"updated", "tagged"} => tx'[b].kind = "patch"
                        /\ Stage(b)' \in {"deleting", "uncached"} => tx'[b].kind = "delete"
                        /\ Stage(b)' = "probing" => tx'[b].kind \in {"sweep", "recheck"}
                        /\ Stage(b)' \in {"begun", "recorded"} =>
                             tx'[b].kind \in {"sweep", "recheck", "refresh", "create"}
      BY DEF Roles
    <3>1. CASE tx'[b] = tx[b]
      BY <3>1 DEF LocksInv, Roles, Stage, CardOf
    <3>2. CASE tx'[b] # tx[b]
      BY <3>2, <2>4
    <3> QED BY <3>1, <3>2
  <2>6. held' = held
    BY <1>1 DEF FetchCandidates, lockVars
  <2> QED BY <2>4, <2>5, <2>6, MovesKeepLocks
<1>2. ASSUME UNCHANGED <<tx, held>> PROVE LocksInv'
  BY <1>2 DEF LocksInv, Roles, Holders, WritersHold, Stage, CardOf
<1>3. ASSUME CrashWorker PROVE LocksInv'
  <2>1. SweepTasks \in SUBSET Actors
    BY DEF Actors
  <2> QED BY <1>3, <2>1, CrashKeepsLocks DEF CrashWorker
<1>4. ASSUME CrashApi PROVE LocksInv'
  <2>1. Requests \in SUBSET Actors
    BY DEF Actors
  <2> QED BY <1>4, <2>1, CrashKeepsLocks DEF CrashApi
<1>5. ASSUME NEW a \in Actors, DeadlockVictim(a) \/ StatementFails(a) PROVE LocksInv'
  BY <1>5, EndsKeepsLocks DEF DeadlockVictim, StatementFails, RollsBack
<1>6. ASSUME NEW t \in SweepTasks, RecordStep(t) PROVE LocksInv'
  BY <1>6, RecordStepKeepsLocks DEF Actors
<1>7. ASSUME NEW r \in Requests, RequestStep(r) PROVE LocksInv'
  BY <1>7, RecordStepKeepsLocks, OwnerStepKeepsLocks DEF Actors, RequestStep
<1>8. FinishTick \/ UNCHANGED vars => UNCHANGED <<tx, held>>
  BY DEF FinishTick, vars, lockVars
<1> QED BY <1>1, <1>2, <1>3, <1>4, <1>5, <1>6, <1>7, <1>8, StartKeepsLocks DEF Next

LEMMA TicksStep ==
    ASSUME TypeOK, NoTasksBetweenTicks, [Next]_vars
    PROVE  NoTasksBetweenTicks'
<1>1. ASSUME FetchCandidates PROVE NoTasksBetweenTicks'
  BY <1>1 DEF FetchCandidates, NoTasksBetweenTicks
<1>2. ASSUME FinishTick \/ UNCHANGED vars PROVE NoTasksBetweenTicks'
  BY <1>2 DEF FinishTick, vars, NoTasksBetweenTicks, Stage
<1>3. ASSUME CrashWorker PROVE NoTasksBetweenTicks'
  BY <1>3 DEF CrashWorker, NoTasksBetweenTicks, Stage, Blank, Actors
<1>4. ASSUME CrashApi PROVE NoTasksBetweenTicks'
  BY <1>4, ActorsApart DEF CrashApi, NoTasksBetweenTicks, Stage, Blank, Actors
<1>5. ASSUME NEW a \in Actors, sweep' = sweep, Stage(a) # "idle" \/ a \in Requests,
             \A b \in Actors : b # a => tx'[b] = tx[b]
      PROVE  NoTasksBetweenTicks'
  <2> SUFFICES ASSUME sweep = "idle", NEW t \in SweepTasks PROVE Stage(t)' = "idle"
    BY <1>5 DEF NoTasksBetweenTicks
  <2>1. Stage(t) = "idle" /\ t # a
    BY <1>5, ActorsApart DEF NoTasksBetweenTicks
  <2> QED BY <1>5, <2>1 DEF Stage, Actors
<1>6. ASSUME NEW a \in Actors, RecordStep(a) \/ DeadlockVictim(a) \/ StatementFails(a)
      PROVE  NoTasksBetweenTicks'
  <2>1. Stage(a) # "idle"
    <3>1. Blocked(a) => Stage(a) # "idle"
      BY WantsOneRow DEF Blocked, WaitsFor, FirstSave
    <3> QED BY <1>6, <3>1 DEF RecordStep, Begin, Record, RecordAndCommit, CorrectAndCommit,
                 RecordsNothing, CorrectionRefused, DeadlockVictim, InCycle, StatementFails, Open
  <2>2. sweep' = sweep /\ \A b \in Actors : b # a => tx'[b] = tx[b]
    BY <1>6 DEF RecordStep, Begin, Record, RecordAndCommit, CorrectAndCommit, RecordsNothing,
         CorrectionRefused, DeadlockVictim, StatementFails, RollsBack, Ends, To, TypeOK
  <2> QED BY <2>1, <2>2, <1>5
<1>7. ASSUME NEW r \in Requests, OwnerStep(r) PROVE NoTasksBetweenTicks'
  <2>1. sweep' = sweep /\ \A b \in Actors : b # r => tx'[b] = tx[b]
    BY <1>7 DEF OwnerStep, UpdateCard, UpdateNothing, ReplaceTags, ReplaceTeams, DeleteNothing,
         DeleteCard, CascadeToCache, CascadeToHealth, Ends, To, TypeOK
  <2> QED BY <2>1, <1>5 DEF Actors
<1>8. ASSUME NEW r \in Requests, StartRequest(r) \/ CreateConnector(r) \/ RequireOwner(r)
      PROVE  NoTasksBetweenTicks'
  <2>1. sweep' = sweep /\ \A b \in Actors : b # r => tx'[b] = tx[b]
    BY <1>8 DEF StartRequest, CreateConnector, RequireOwner, TypeOK
  <2> QED BY <2>1, <1>5 DEF Actors
<1> QED BY <1>1, <1>2, <1>3, <1>4, <1>6, <1>7, <1>8 DEF Next, RequestStep, Actors

-----------------------------------------------------------------------------
(***************************************************************************)
(* What is in the rows                                                     *)
(***************************************************************************)

(* A step that leaves the columns alone, but for the transport of a card   *)
(* with an address, records for no dead card, and brings nobody into a     *)
(* stage that writes a card that is not there                              *)
LEMMA RowsUntouched ==
    ASSUME TypeOK, WholeOrGone, LockedCardStands,
           life' = life, body' = body, tags' = tags, teams' = teams,
           \A c \in Cards :
             transport'[c] = transport[c] \/ (Live(c) /\ Fits(transport'[c], body[c])),
           \A c \in Cards : ~Live(c) => kids'[c] = kids[c] /\ (Checked(c)' => Checked(c)),
           \A b \in Actors :
             \/ tx'[b] = tx[b]
             \/ Stage(b)' \in Writing =>
                  /\ CardOf(b)' \in Cards
                  /\ Live(CardOf(b)')
                  /\ Stage(b)' = "tagged" => tx'[b].dropped = tags[CardOf(b)']
    PROVE  WholeOrGone' /\ LockedCardStands'
<1>1. \A c \in Cards : Live(c)' = Live(c)
  BY DEF Live
<1>2. WholeOrGone'
  <2>1. \A c \in Cards : Fits(transport[c], body[c])' <=> Fits(transport'[c], body[c])
    BY DEF Fits, Given
  <2> QED BY <1>1, <2>1 DEF WholeOrGone
<1>3. LockedCardStands'
  <2> SUFFICES ASSUME NEW b \in Actors
               PROVE  /\ Stage(b)' \in Writing => Live(CardOf(b)')
                      /\ Stage(b)' = "tagged" => tx'[b].dropped = tags[CardOf(b)']
    BY DEF LockedCardStands, CardOf, Live
  <2>1. CASE tx'[b] = tx[b]
    BY <2>1 DEF LockedCardStands, Stage, CardOf, Live
  <2>2. CASE tx'[b] # tx[b]
    BY <2>2 DEF Writing, Stage, CardOf, Live
  <2> QED BY <2>1, <2>2
<1> QED BY <1>2, <1>3

(* Removing times and adding those of open recordings dates no dead card. *)
LEMMA NoNewTime ==
    ASSUME NEW a \in Actors, NEW c \in Cards,
           \/ older' \subseteq older
           \/ older' = older \cup {<<x, a>> : x \in {a} \cup {p[1] : p \in older}}
    PROVE  Checked(c)' => Checked(c)
  BY ActorsApart DEF Checked, HealthRow

LEMMA SavesOnlyHere ==
    ASSUME TypeOK, NEW a \in Actors, NEW c \in Cards, SavesIn(a, c),
           NEW d \in Cards, d # c
    PROVE  kids'[d] = kids[d] /\ (Checked(d)' => Checked(d))
<1>1. CASE ChildOf(a) = "health"
  <2> DEFINE It(x) == IF x = a THEN HealthRow(c) ELSE x
  <2>1. older' = {<<It(p[1]), It(p[2])>> : p \in Without(HealthRow(c))} /\ kids' = kids
    BY <1>1 DEF SavesIn
  <2>2. HealthRow(d) # HealthRow(c)
    BY DEF HealthRow
  <2>3. SUFFICES ASSUME <<HealthRow(d), HealthRow(d)>> \in older'
                 PROVE  <<HealthRow(d), HealthRow(d)>> \in older
    BY <2>1 DEF Checked, HealthRow
  <2>4. PICK p \in Without(HealthRow(c)) :
          HealthRow(d) = It(p[1]) /\ HealthRow(d) = It(p[2])
    BY <2>1, <2>3
  <2>5. p[1] = HealthRow(d) /\ p[2] = HealthRow(d)
    BY <2>2, <2>4
  <2>6. p \in older /\ p = <<p[1], p[2]>>
    BY DEF Without, TypeOK
  <2> QED BY <2>5, <2>6
<1>2. CASE ChildOf(a) # "health"
  BY <1>2 DEF SavesIn, TypeOK, Checked, HealthRow
<1> QED BY <1>1, <1>2

LEMMA RecordStepRows ==
    ASSUME TypeOK, LocksInv, LockedCardStands, WholeOrGone, NEW a \in Actors, RecordStep(a)
    PROVE  WholeOrGone' /\ LockedCardStands'
<1>1. /\ life' = life /\ body' = body /\ tags' = tags /\ teams' = teams
      /\ \A b \in Actors : tx'[b] = tx[b] \/ Stage(b)' \notin Writing
  <2>1. CASE Ends(a)
    <3>1. \A b \in Actors : tx'[b] = IF b = a THEN Blank ELSE tx[b]
      BY <2>1 DEF Ends, TypeOK
    <3>2. \A b \in Actors : tx'[b] = tx[b] \/ Stage(b)' \notin Writing
      BY <3>1 DEF Stage, Blank, Writing
    <3>3. life' = life /\ body' = body /\ tags' = tags /\ teams' = teams
      <4>1. ~Begin(a) /\ ~Record(a)
        <5>1. Stage(a)' = "idle"
          BY <3>1 DEF Stage, Blank
        <5> QED BY <5>1 DEF Begin, Record, To, Stage, TypeOK
      <4> QED BY <4>1 DEF RecordStep, RecordAndCommit, CorrectAndCommit, RecordsNothing,
                   CorrectionRefused, RollsBack, cardVars
    <3> QED BY <3>2, <3>3
  <2>2. CASE Begin(a)
    BY <2>2 DEF Begin, To, Stage, Writing, cardVars, TypeOK
  <2>3. CASE Record(a)
    BY <2>3 DEF Record, To, Stage, Writing, cardVars, TypeOK
  <2> QED BY <2>1, <2>2, <2>3 DEF RecordStep, RecordAndCommit, CorrectAndCommit,
               RecordsNothing, CorrectionRefused, RollsBack
<1>2. \A c \in Cards : ~Live(c) => kids'[c] = kids[c] /\ (Checked(c)' => Checked(c))
  <2>1. CASE Begin(a)
    BY <2>1, NoNewTime DEF Begin, cardVars
  <2>2. CASE Record(a)
    BY <2>2 DEF Record, cardVars, Checked, HealthRow
  <2>3. CASE RecordAndCommit(a) \/ CorrectAndCommit(a)
    <3>1. CardOf(a) \in Cards /\ Live(CardOf(a)) /\ SavesIn(a, CardOf(a))
      BY <2>3 DEF RecordAndCommit, CorrectAndCommit, Accepted, Orphaned, Anchored,
           LocksInv, Roles
    <3> QED BY <3>1, SavesOnlyHere
  <2>4. CASE RollsBack(a)
    <3>1. older' \subseteq older /\ kids' = kids
      BY <2>4 DEF RollsBack, Without, cardVars
    <3> QED BY <3>1, NoNewTime
  <2> QED BY <2>1, <2>2, <2>3, <2>4 DEF RecordStep, RecordsNothing, CorrectionRefused
<1>3. \A c \in Cards :
        transport'[c] = transport[c] \/ (Live(c) /\ Fits(transport'[c], body[c]))
  <2>1. CASE CorrectAndCommit(a)
    <3>1. CardOf(a) \in Cards /\ Live(CardOf(a)) /\ body[CardOf(a)] \in Addressed
      BY <2>1 DEF CorrectAndCommit, Anchored, LocksInv, Roles
    <3>2. transport' = [transport EXCEPT ![CardOf(a)] = "found"]
      BY <2>1 DEF CorrectAndCommit
    <3> QED BY <3>1, <3>2 DEF TypeOK, Fits
  <2>2. CASE ~CorrectAndCommit(a)
    <3>1. transport' = transport
      BY <2>2 DEF RecordStep, Begin, Record, RecordAndCommit, RecordsNothing,
         CorrectionRefused, RollsBack, cardVars
    <3> QED BY <3>1
  <2> QED BY <2>1, <2>2
<1> QED BY <1>1, <1>2, <1>3, RowsUntouched

(* The row lock keeps everybody else who writes off the card. *)
LEMMA OthersElsewhere ==
    ASSUME LocksInv, NEW a \in Actors, Stage(a) \in Writing,
           NEW b \in Actors, b # a, Stage(b) \in Writing
    PROVE  CardOf(b) # CardOf(a)
  BY DEF LocksInv, WritersHold

(* A step that ends a and writes only the card it has locked, whole or gone *)
LEMMA RewritesOneCard ==
    ASSUME TypeOK, LocksInv, LockedCardStands, WholeOrGone,
           NEW a \in Actors, Stage(a) \in Writing, Ends(a), NEW c \in Cards, c = CardOf(a),
           \A d \in Cards : d # c =>
             /\ life'[d] = life[d] /\ body'[d] = body[d] /\ transport'[d] = transport[d]
             /\ tags'[d] = tags[d] /\ teams'[d] = teams[d]
             /\ kids'[d] = kids[d] /\ (Checked(d)' => Checked(d)),
           IF life'[c] = "live"
           THEN /\ tags'[c] = Children(body'[c]) /\ teams'[c] = Children(body'[c])
                /\ transport'[c] = Given(body'[c])
           ELSE /\ tags'[c] = {} /\ teams'[c] = {} /\ kids'[c] = {} /\ ~Checked(c)'
                /\ transport'[c] = "none"
    PROVE  WholeOrGone' /\ LockedCardStands'
<1>1. WholeOrGone'
  BY DEF WholeOrGone, Live, Children, Fits, Given
<1>2. \A b \in Actors : tx'[b] = IF b = a THEN Blank ELSE tx[b]
  BY DEF Ends, TypeOK
<1>3. LockedCardStands'
  <2> SUFFICES ASSUME NEW b \in Actors, Stage(b)' \in Writing
               PROVE  /\ life'[CardOf(b)'] = "live"
                      /\ Stage(b)' = "tagged" => tx'[b].dropped = tags'[CardOf(b)']
    BY DEF LockedCardStands, Live, Writing
  <2>1. b # a /\ tx'[b] = tx[b] /\ Stage(b)' = Stage(b) /\ CardOf(b)' = CardOf(b)
    BY <1>2 DEF Stage, CardOf, Blank, Writing
  <2>2. CardOf(b) \in Cards /\ CardOf(b) # c
    BY <2>1, OthersElsewhere DEF LocksInv, Roles, Writing
  <2> QED BY <2>1, <2>2 DEF LockedCardStands, Live
<1> QED BY <1>1, <1>3

LEMMA OwnerStepRows ==
    ASSUME TypeOK, LocksInv, LockedCardStands, WholeOrGone, NEW r \in Requests, OwnerStep(r)
    PROVE  WholeOrGone' /\ LockedCardStands'
<1> r \in Actors
  BY DEF Actors
<1> DEFINE c == CardOf(r)
<1>1. Stage(r) # "idle" => c \in Cards
  BY DEF LocksInv, Roles
<1>2. ASSUME UpdateCard(r) \/ DeleteCard(r) \/ CascadeToCache(r)
      PROVE  WholeOrGone' /\ LockedCardStands'
  <2>1. Live(c) /\ c \in Cards /\ Stage(r)' # "tagged"
    <3>1. Stage(r)' # "tagged"
      BY <1>2 DEF UpdateCard, DeleteCard, CascadeToCache, To, Stage, TypeOK
    <3> QED BY <1>1, <1>2, <3>1
            DEF UpdateCard, DeleteCard, CascadeToCache, LockedCardStands, Writing
  <2>2. /\ CardOf(r)' = c
        /\ \A b \in Actors : b # r => tx'[b] = tx[b]
    BY <1>2 DEF UpdateCard, DeleteCard, CascadeToCache, To, CardOf, TypeOK
  <2>3. UNCHANGED <<cardVars, older>>
    BY <1>2 DEF UpdateCard, DeleteCard, CascadeToCache
  <2> QED BY <2>1, <2>2, <2>3, RowsUntouched DEF cardVars, Checked, HealthRow
<1>3. ASSUME UpdateNothing(r) \/ DeleteNothing(r) PROVE WholeOrGone' /\ LockedCardStands'
  <2>1. \A b \in Actors : tx'[b] = tx[b] \/ Stage(b)' \notin Writing
    BY <1>3 DEF UpdateNothing, DeleteNothing, Stage, Blank, Writing, TypeOK
  <2>2. UNCHANGED <<cardVars, older>>
    BY <1>3 DEF UpdateNothing, DeleteNothing
  <2> QED BY <2>1, <2>2, RowsUntouched DEF cardVars, Checked, HealthRow
<1>4. ASSUME ReplaceTags(r) PROVE WholeOrGone' /\ LockedCardStands'
  <2>1. Live(c) /\ c \in Cards
    BY <1>1, <1>4 DEF ReplaceTags, LockedCardStands, Writing
  <2>2. /\ CardOf(r)' = c /\ tx'[r].dropped = tags[c]
        /\ \A b \in Actors : b # r => tx'[b] = tx[b]
    BY <1>4 DEF ReplaceTags, CardOf, TypeOK
  <2>3. UNCHANGED <<cardVars, older>>
    BY <1>4 DEF ReplaceTags
  <2> QED BY <2>1, <2>2, <2>3, RowsUntouched DEF cardVars, Checked, HealthRow
<1>5. ASSUME ReplaceTeams(r) PROVE WholeOrGone' /\ LockedCardStands'
  <2>1. c \in Cards /\ Stage(r) \in Writing /\ Live(c) /\ tx[r].dropped = tags[c]
    BY <1>1, <1>5 DEF ReplaceTeams, LockedCardStands, Writing
  <2>2. /\ body'[c] = tx[r].body /\ transport'[c] = Given(tx[r].body)
        /\ tags'[c] = Children(tx[r].body) /\ teams'[c] = Children(tx[r].body)
        /\ life' = life /\ kids' = kids /\ older' = older
        /\ \A d \in Cards : d # c =>
             /\ body'[d] = body[d] /\ transport'[d] = transport[d]
             /\ tags'[d] = tags[d] /\ teams'[d] = teams[d]
    BY <1>5, <2>1 DEF ReplaceTeams, TypeOK
  <2>3. Ends(r)
    BY <1>5 DEF ReplaceTeams
  <2> QED BY <2>1, <2>2, <2>3, RewritesOneCard DEF Live, Checked, HealthRow
<1>6. ASSUME CascadeToHealth(r) PROVE WholeOrGone' /\ LockedCardStands'
  <2>1. PICK k \in Cards : k = CardOf(r)
    BY <1>1, <1>6 DEF CascadeToHealth
  <2>2. /\ life'[k] = "gone" /\ tags'[k] = {} /\ teams'[k] = {} /\ kids'[k] = {}
        /\ transport'[k] = "none"
        /\ \A d \in Cards : d # k =>
             /\ life'[d] = life[d] /\ body'[d] = body[d] /\ transport'[d] = transport[d]
             /\ tags'[d] = tags[d] /\ teams'[d] = teams[d] /\ kids'[d] = kids[d]
    BY <1>6, <2>1 DEF CascadeToHealth, TypeOK
  <2>3. older' = Without(HealthRow(k))
    BY <1>6, <2>1 DEF CascadeToHealth
  <2>4. ~Checked(k)' /\ \A d \in Cards : Checked(d)' => Checked(d)
    BY <2>3 DEF Without, Checked, HealthRow
  <2>5. Ends(r) /\ Stage(r) \in Writing
    BY <1>6 DEF CascadeToHealth, Writing
  <2> QED BY <2>1, <2>2, <2>4, <2>5, RewritesOneCard
<1> QED BY <1>2, <1>3, <1>4, <1>5, <1>6 DEF OwnerStep

LEMMA OtherStepRows ==
    ASSUME TypeOK, LocksInv, LockedCardStands, WholeOrGone,
           \/ FetchCandidates \/ FinishTick \/ CrashWorker \/ CrashApi
           \/ \E r \in Requests : StartRequest(r) \/ RequireOwner(r)
           \/ \E a \in Actors : RollsBack(a)
    PROVE  WholeOrGone' /\ LockedCardStands'
<1>1. UNCHANGED cardVars /\ older' \subseteq older
  BY DEF FetchCandidates, FinishTick, CrashWorker, CrashApi, StartRequest, RequireOwner,
     RollsBack, Without
<1>2. \A b \in Actors : tx'[b] = tx[b] \/ Stage(b)' \notin Writing
  <2>1. CASE FetchCandidates
    BY <2>1 DEF FetchCandidates, Stage, At, Writing
  <2>2. CASE FinishTick
    BY <2>2 DEF FinishTick
  <2>3. CASE CrashWorker \/ CrashApi
    BY <2>3 DEF CrashWorker, CrashApi, Stage, Blank, Writing
  <2>4. CASE \E r \in Requests : StartRequest(r) \/ RequireOwner(r)
    BY <2>4 DEF StartRequest, RequireOwner, Stage, At, Writing, TypeOK
  <2>5. CASE \E a \in Actors : RollsBack(a)
    BY <2>5 DEF RollsBack, Ends, Stage, Blank, Writing, TypeOK
  <2> QED BY <2>1, <2>2, <2>3, <2>4, <2>5
<1>3. \A c \in Cards : Checked(c)' => Checked(c)
  BY <1>1 DEF Checked, HealthRow
<1> QED BY <1>1, <1>2, <1>3, RowsUntouched DEF cardVars

LEMMA CreateRows ==
    ASSUME TypeOK, LocksInv, LockedCardStands, WholeOrGone,
           NEW r \in Requests, CreateConnector(r)
    PROVE  WholeOrGone' /\ LockedCardStands'
<1>1. PICK c \in Cards, b \in Bodies :
        /\ life[c] = "unborn"
        /\ life' = [life EXCEPT ![c] = "live"]
        /\ body' = [body EXCEPT ![c] = b]
        /\ transport' = [transport EXCEPT ![c] = Given(b)]
        /\ tags' = [tags EXCEPT ![c] = Children(b)]
        /\ teams' = [teams EXCEPT ![c] = Children(b)]
        /\ kids' = [kids EXCEPT ![c] = {"health"}]
        /\ tx' = [tx EXCEPT ![r] =
                    IF b \in Reachable /\ c \in Edited
                    THEN At("create", "begun", c, None) ELSE Blank]
  BY DEF CreateConnector
<1>2. older' = older
  BY DEF CreateConnector
<1>3. WholeOrGone'
  BY <1>1, <1>2 DEF WholeOrGone, Live, Checked, HealthRow, Children, Fits, Given, TypeOK
<1>4. LockedCardStands'
  <2> SUFFICES ASSUME NEW a \in Actors, Stage(a)' \in Writing
               PROVE  /\ life'[CardOf(a)'] = "live"
                      /\ Stage(a)' = "tagged" => tx'[a].dropped = tags'[CardOf(a)']
    BY DEF LockedCardStands, Live, Writing
  <2>1. tx'[a] = tx[a] /\ Stage(a)' = Stage(a) /\ CardOf(a)' = CardOf(a)
    BY <1>1 DEF Stage, CardOf, At, Blank, Writing, TypeOK
  <2>2. CardOf(a) \in Cards /\ life[CardOf(a)] = "live"
    BY <2>1 DEF LocksInv, Roles, LockedCardStands, Live, Writing
  <2> QED BY <1>1, <2>1, <2>2 DEF LockedCardStands, TypeOK
<1> QED BY <1>3, <1>4

-----------------------------------------------------------------------------
(***************************************************************************)
(* Theorems                                                                *)
(***************************************************************************)
LEMMA InitInv == Init => Inv
<1> SUFFICES ASSUME Init PROVE Inv
  OBVIOUS
<1>1. TypeOK
  BY BlankTyped DEF Init, TypeOK
<1>2. \A a \in Actors : Stage(a) = "idle" /\ tx[a].kind = "none"
  BY DEF Init, Stage, Blank
<1>3. LocksInv
  <2>1. Roles
    BY <1>2 DEF Roles
  <2>2. Holders
    BY ActorsApart DEF Init, Holders, Rows, Tables
  <2>3. WritersHold
    BY <1>2 DEF WritersHold, Writing
  <2> QED BY <2>1, <2>2, <2>3 DEF LocksInv
<1>4. NoTasksBetweenTicks
  BY <1>2 DEF NoTasksBetweenTicks, Actors
<1>5. LockedCardStands
  BY <1>2 DEF LockedCardStands, Writing
<1>6. WholeOrGone
  BY DEF Init, WholeOrGone, Live, Checked
<1> QED BY <1>1, <1>3, <1>4, <1>5, <1>6 DEF Inv

LEMMA StepInv ==
    ASSUME Inv, [Next]_vars
    PROVE  Inv'
<1>1. TypeOK' /\ LocksInv' /\ NoTasksBetweenTicks'
  BY TypeStep, LocksStep, TicksStep DEF Inv, LocksInv
<1>2. WholeOrGone' /\ LockedCardStands'
  <2>1. ASSUME NEW a \in Actors, RecordStep(a) PROVE WholeOrGone' /\ LockedCardStands'
    BY <2>1, RecordStepRows DEF Inv
  <2>2. ASSUME NEW r \in Requests, OwnerStep(r) PROVE WholeOrGone' /\ LockedCardStands'
    BY <2>2, OwnerStepRows DEF Inv
  <2>3. ASSUME NEW r \in Requests, CreateConnector(r)
        PROVE  WholeOrGone' /\ LockedCardStands'
    BY <2>3, CreateRows DEF Inv
  <2>4. ASSUME UNCHANGED vars PROVE WholeOrGone' /\ LockedCardStands'
    BY <2>4 DEF vars, Inv, WholeOrGone, LockedCardStands, Live, Checked, HealthRow, Stage,
         CardOf, Fits
  <2> QED BY <2>1, <2>2, <2>3, <2>4, OtherStepRows
          DEF Next, RequestStep, DeadlockVictim, StatementFails, Actors, Inv
<1> QED BY <1>1, <1>2 DEF Inv

LEMMA InvHolds == Spec => []Inv
  BY InitInv, StepInv, PTL DEF Spec

(* Types, for any number of cards, requests and bodies. *)
THEOREM TypeCorrect == Spec => []TypeOK
  BY InvHolds, PTL DEF Inv

(* A card comes from one body or has left nothing (mutations.py:3-4): the  *)
(* row lock of _UPDATE keeps two rewritings of tags and teams apart, and   *)
(* the foreign keys keep late recordings off a card that is gone.          *)
THEOREM CardsAreWhole == Spec => []WholeOrGone
  BY InvHolds, PTL DEF Inv

(* Who waits for somebody that deletes nothing waits for the child row of  *)
(* a recording or for the card of a PATCH.                                 *)
LEMMA WaitsForHolder ==
    ASSUME TypeOK, LocksInv, NEW a \in Actors, NEW b \in Actors,
           WaitsFor(a, b), ~Deletes(a), ~Deletes(b)
    PROVE  /\ Stage(b) \in {"recorded", "updated", "tagged"}
           /\ Stage(a) \in {"recorded", "allowed"} => Stage(b) \in {"updated", "tagged"}
<1>1. PICK row \in Wants(a) : held[row] = b
  BY DEF WaitsFor
<1>2. Stage(a) \in {"begun", "recorded", "allowed", "deleting", "uncached"}
  BY <1>1, WantsOneRow DEF TypeOK, Stage, Stages
<1>3. CardOf(a) \in Cards
  BY <1>2 DEF LocksInv, Roles
<1>4. PICK table \in Tables :
        row = <<table, CardOf(a)>> /\ (Stage(a) \in {"recorded", "allowed"} => table = "card")
  BY <1>1, <1>2, WantsOneRow DEF Tables, ChildOf
<1>5. Stage(b) \in {"recorded", "updated", "tagged", "deleting", "uncached"}
      /\ (table = "card" => Stage(b) \in Writing)
  BY <1>1, <1>3, <1>4 DEF LocksInv, Holders, Writing
<1>6. Stage(b) \notin {"deleting", "uncached"}
  BY DEF LocksInv, Roles, Deletes
<1> QED BY <1>4, <1>5, <1>6 DEF Writing

(* Who has its last lock waits for nobody. *)
LEMMA WriterIsFree ==
    ASSUME NEW a \in Actors, NEW b \in Actors, Stage(a) \in {"updated", "tagged"}
    PROVE  ~WaitsFor(a, b)
  BY WantsOneRow DEF WaitsFor, FirstSave

(* Recordings, saved tools, edits and registrations take their locks in    *)
(* one order, child row before card: every deadlock has a DELETE in it.    *)
THEOREM DeadlocksTakeADelete == Spec => []DeadlocksAreDeletions
<1>1. Inv => DeadlocksAreDeletions
  <2> SUFFICES ASSUME Inv, NEW S \in SUBSET Actors, Stuck(S), \A a \in S : ~Deletes(a)
               PROVE  FALSE
    BY DEF DeadlocksAreDeletions
  <2>1. PICK a \in S : \E b \in S : WaitsFor(a, b)
    BY DEF Stuck
  <2>2. PICK b \in S : WaitsFor(a, b)
    BY <2>1
  <2>3. PICK c \in S : WaitsFor(b, c)
    BY DEF Stuck
  <2>4. Stage(b) = "recorded"
    BY <2>2, <2>3, WaitsForHolder, WriterIsFree DEF Inv
  <2>5. Stage(c) \in {"updated", "tagged"}
    BY <2>3, <2>4, WaitsForHolder DEF Inv
  <2>6. PICK d \in S : WaitsFor(c, d)
    BY DEF Stuck
  <2> QED BY <2>5, <2>6, WriterIsFree
<1> QED BY <1>1, InvHolds, PTL

-----------------------------------------------------------------------------
(***************************************************************************)
(* Refinement.  What WholeOrGone does not say, and CardStore does: an open *)
(* recording has a time of its own, so it leaves one in the health row;    *)
(* nobody does another's work; and a card that is not there has no         *)
(* columns.                                                                *)
(***************************************************************************)
OpenTimes ==
    \A a \in Actors :
      Stage(a) \in {"begun", "recorded"} /\ ChildOf(a) = "health" => <<a, a>> \in older

KindsFit ==
    \A a \in Actors :
      /\ a \in SweepTasks /\ Stage(a) # "idle" => tx[a].kind = "sweep"
      /\ a \in Requests => tx[a].kind # "sweep"

EmptyShelves == \A c \in Cards : ~Live(c) => body[c] = None

StoreInv == Inv /\ OpenTimes /\ KindsFit /\ EmptyShelves

(* Everybody keeps the time it has, or is where it needs none. *)
LEMMA TimesKept ==
    ASSUME OpenTimes,
           \A b \in Actors :
             \/ tx'[b] = tx[b] /\ (<<b, b>> \in older => <<b, b>> \in older')
             \/ Stage(b)' \notin {"begun", "recorded"}
             \/ tx'[b].kind \in {"refresh", "create"}
    PROVE  OpenTimes'
<1> SUFFICES ASSUME NEW b \in Actors, Stage(b)' \in {"begun", "recorded"},
                    ChildOf(b)' = "health"
             PROVE  <<b, b>> \in older'
  BY DEF OpenTimes
<1>1. tx'[b] = tx[b] /\ (<<b, b>> \in older => <<b, b>> \in older')
  BY DEF ChildOf
<1> QED BY <1>1 DEF OpenTimes, Stage, ChildOf

LEMMA KindsKept ==
    ASSUME KindsFit,
           \A b \in Actors :
             \/ tx'[b].kind = tx[b].kind /\ (Stage(b)' # "idle" => Stage(b) # "idle")
             \/ tx'[b] = Blank
             \/ b \in SweepTasks /\ tx'[b].kind = "sweep"
             \/ b \in Requests /\ tx'[b].kind # "sweep"
    PROVE  KindsFit'
<1> SUFFICES ASSUME NEW b \in Actors
             PROVE  /\ b \in SweepTasks /\ Stage(b)' # "idle" => tx'[b].kind = "sweep"
                    /\ b \in Requests => tx'[b].kind # "sweep"
  BY DEF KindsFit
<1>1. Stage(b)' = tx'[b].stage
  BY DEF Stage
<1> QED BY <1>1, ActorsApart DEF KindsFit, Blank

(* No step of an actor on its rows takes another's time. *)
LEMMA WithoutKeeps ==
    ASSUME NEW x, NEW y, y # x, <<y, y>> \in older
    PROVE  <<y, y>> \in Without(x)
  BY DEF Without

LEMMA SavingDates ==
    ASSUME TypeOK, NEW a \in Actors, NEW c \in Cards, SavesIn(a, c),
           ChildOf(a) = "health" => <<a, a>> \in older
    PROVE  /\ ChildOf(a) = "health" => Checked(c)' /\ kids' = kids
           /\ ChildOf(a) # "health" => /\ older' = older
                                       /\ kids' = [kids EXCEPT ![c] = @ \cup {"cache"}]
           /\ \A d \in Cards : d # c => Checked(d)' = Checked(d) /\ kids'[d] = kids[d]
           /\ \A b \in Actors : b # a /\ <<b, b>> \in older => <<b, b>> \in older'
<1>1. CASE ChildOf(a) = "health"
  <2> DEFINE It(x) == IF x = a THEN HealthRow(c) ELSE x
  <2>1. older' = {<<It(p[1]), It(p[2])>> : p \in Without(HealthRow(c))} /\ kids' = kids
    BY <1>1 DEF SavesIn
  <2>2. ASSUME NEW x, x # HealthRow(c), <<x, x>> \in older
        PROVE  <<It(x), It(x)>> \in older'
    <3>1. <<x, x>> \in Without(HealthRow(c))
      BY <2>2, WithoutKeeps
    <3> DEFINE p == <<x, x>>
    <3>2. p \in Without(HealthRow(c)) /\ p[1] = x /\ p[2] = x
      BY <3>1
    <3>3. <<It(p[1]), It(p[2])>> \in older'
      BY <2>1, <3>2
    <3> QED BY <3>2, <3>3
  <2>3. Checked(c)'
    BY <1>1, <2>2, ActorsApart DEF Checked, HealthRow
  <2>4. \A d \in Cards : d # c => Checked(d)' = Checked(d)
    <3> SUFFICES ASSUME NEW d \in Cards, d # c PROVE Checked(d)' = Checked(d)
      OBVIOUS
    <3>1. HealthRow(d) # HealthRow(c) /\ HealthRow(d) # a
      BY ActorsApart DEF HealthRow
    <3>2. Checked(d) => Checked(d)'
      <4>1. Checked(d) => <<It(HealthRow(d)), It(HealthRow(d))>> \in older'
        BY <2>2, <3>1 DEF Checked
      <4> QED BY <3>1, <4>1 DEF Checked, HealthRow
    <3>3. Checked(d) \in BOOLEAN /\ Checked(d)' \in BOOLEAN
      BY DEF Checked
    <3> QED BY <3>2, <3>3, SavesOnlyHere
  <2>5. ASSUME NEW b \in Actors, b # a, <<b, b>> \in older PROVE <<b, b>> \in older'
    BY <2>2, <2>5, ActorsApart
  <2> QED BY <1>1, <2>1, <2>3, <2>4, <2>5
<1>2. CASE ChildOf(a) # "health"
  BY <1>2 DEF SavesIn, TypeOK, Checked, HealthRow
<1> QED BY <1>1, <1>2

(* Steps on the abstract store, from what a step does to one card and to   *)
(* one request                                                             *)
LEMMA ShelfPut ==
    ASSUME NEW c \in Cards, NEW v, Shelf(c)' = v,
           \A d \in Cards : d # c => Shelf(d)' = Shelf(d)
    PROVE  Store!Put(c, v)
  BY DEF Store!Put

(* A card that is there is whole. *)
LEMMA ShelfWhole ==
    ASSUME WholeOrGone, NEW c \in Cards, Live(c)
    PROVE  Shelf(c) = Store!Whole(body[c], transport[c], kids[c], Checked(c))
  BY DEF WholeOrGone, Live, Children, Shelf, Store!Whole, Store!Named

LEMMA WishFulfilled ==
    ASSUME NEW r \in Requests, Wish(r)' = None,
           \A q \in Requests : q # r => Wish(q)' = Wish(q)
    PROVE  Store!Fulfilled(r)
  BY DEF Store!Fulfilled

LEMMA WishIsSomething ==
    ASSUME TypeOK, NEW r \in Requests, Stage(r) # "idle"
    PROVE  /\ Wish(r) # None
           /\ Wish(r) = [kind |-> tx[r].kind, card |-> CardOf(r), body |-> tx[r].body]
<1>1. r \in Actors
  BY DEF Actors
<1>2. Wish(r) = [kind |-> tx[r].kind, card |-> CardOf(r), body |-> tx[r].body]
  BY DEF Wish, CardOf
<1>3. Wish(r) \in [kind : Kinds, card : Cards \cup {None}, body : Bodies \cup {None}]
  BY <1>1, <1>2 DEF TypeOK, CardOf
<1> QED BY <1>2, <1>3, NoneAssumption

(* What shows on no shelf and fulfils no wish is a wish given up, or none. *)
LEMMA QuietRefines ==
    ASSUME UNCHANGED cardVars, \A c \in Cards : Checked(c)' = Checked(c),
           \A r \in Requests : Wish(r)' \in {Wish(r), None}
    PROVE  Store!GiveUp
<1>1. \A c \in Cards : Shelf(c)' = Shelf(c)
  BY DEF Shelf, cardVars
<1>2. UNCHANGED [c \in Cards |-> Shelf(c)]
  BY <1>1
<1> DEFINE those == {r \in Requests : Wish(r)' = None}
<1>3. those \in SUBSET Requests
  OBVIOUS
<1>4. \A r \in Requests : Wish(r)' = IF r \in those THEN None ELSE Wish(r)
  OBVIOUS
<1>5. [r \in Requests |-> Wish(r)]' =
        [r \in Requests |-> IF r \in those THEN None ELSE [q \in Requests |-> Wish(q)][r]]
  BY <1>4
<1> QED BY <1>2, <1>3, <1>5 DEF Store!GiveUp

LEMMA EndsWish ==
    ASSUME TypeOK, NEW a \in Actors, Ends(a)
    PROVE  /\ \A b \in Actors : tx'[b] = IF b = a THEN Blank ELSE tx[b]
           /\ \A r \in Requests : Wish(r)' = IF r = a THEN None ELSE Wish(r)
<1>1. \A b \in Actors : tx'[b] = IF b = a THEN Blank ELSE tx[b]
  BY DEF Ends, TypeOK
<1>2. \A r \in Requests : Wish(r)' = IF r = a THEN None ELSE Wish(r)
  BY <1>1 DEF Wish, Stage, Blank, Actors
<1> QED BY <1>1, <1>2

LEMMA SavingRefines ==
    ASSUME StoreInv, NEW a \in Actors, Stage(a) \in {"begun", "recorded"},
           Live(CardOf(a)), SavesIn(a, CardOf(a)), Ends(a),
           UNCHANGED <<life, body, tags, teams>>,
           transport' \in {transport, [transport EXCEPT ![CardOf(a)] = "found"]},
           transport' # transport => body[CardOf(a)] \in Addressed
    PROVE  /\ OpenTimes' /\ KindsFit' /\ EmptyShelves'
           /\ Store!Sweep \/ \E r \in Requests : Store!Answer(r)
<1>0. TypeOK /\ LocksInv /\ OpenTimes /\ KindsFit /\ EmptyShelves
  BY DEF StoreInv, Inv
<1>1. PICK c \in Cards : c = CardOf(a)
  BY <1>0 DEF LocksInv, Roles
<1>2. /\ ChildOf(a) = "health" => Checked(c)' /\ kids' = kids
      /\ ChildOf(a) # "health" => /\ older' = older
                                  /\ kids' = [kids EXCEPT ![c] = @ \cup {"cache"}]
      /\ \A d \in Cards : d # c => Checked(d)' = Checked(d) /\ kids'[d] = kids[d]
      /\ \A b \in Actors : b # a /\ <<b, b>> \in older => <<b, b>> \in older'
  BY <1>0, <1>1, SavingDates DEF OpenTimes
<1>3. /\ \A b \in Actors : tx'[b] = IF b = a THEN Blank ELSE tx[b]
      /\ \A r \in Requests : Wish(r)' = IF r = a THEN None ELSE Wish(r)
  BY <1>0, EndsWish
<1>4. OpenTimes'
  <2>1. Stage(a)' = "idle"
    BY <1>3 DEF Stage, Blank
  <2>2. \A b \in Actors : b # a => tx'[b] = tx[b]
    BY <1>3
  <2> QED BY <1>0, <1>2, <2>1, <2>2, TimesKept
<1>5. KindsFit'
  BY <1>0, <1>3, KindsKept DEF Stage
<1>6. EmptyShelves'
  BY <1>0 DEF EmptyShelves, Live
<1>t. PICK t \in Store!Later(body[c], transport[c]) :
        transport'[c] = t /\ \A d \in Cards : d # c => transport'[d] = transport[d]
  BY <1>0, <1>1 DEF TypeOK, Store!Later
<1>7. \A d \in Cards : d # c => Shelf(d)' = Shelf(d)
  BY <1>2, <1>t DEF Shelf
<1>8. Shelf(c) = Store!Whole(body[c], transport[c], kids[c], Checked(c))
  BY <1>1, ShelfWhole DEF StoreInv, Inv
<1>9. /\ [d \in Cards |-> Shelf(d)][c] = Shelf(c)
      /\ Shelf(c).body = body[c] /\ Shelf(c).kids = kids[c]
      /\ Shelf(c).transport = transport[c]
      /\ Shelf(c).checked = Checked(c) /\ Store!There(c)
  BY <1>1 DEF Shelf, Live, Store!There, Checked
<1>10. ChildOf(a) = "health" => Store!RecordHealth(c)
  <2> SUFFICES ASSUME ChildOf(a) = "health" PROVE Store!RecordHealth(c)
    OBVIOUS
  <2>1. Checked(c)' = TRUE /\ kids' = kids
    BY <1>2 DEF Checked
  <2>2. Shelf(c)' = Store!Whole(body[c], t, kids[c], TRUE)
    BY <1>8, <1>t, <2>1 DEF Shelf, Store!Whole
  <2>3. Store!Put(c, Store!Whole(body[c], t, kids[c], TRUE))
    BY <1>7, <2>2, ShelfPut
  <2> QED BY <1>9, <2>3 DEF Store!RecordHealth
<1>11. ChildOf(a) # "health" => Store!SaveTools(c)
  <2> SUFFICES ASSUME ChildOf(a) # "health" PROVE Store!SaveTools(c)
    OBVIOUS
  <2>1. kids'[c] = kids[c] \cup {"cache"} /\ Checked(c)' = Checked(c)
    BY <1>0, <1>2 DEF TypeOK, Checked, HealthRow
  <2>2. Shelf(c)' = Store!Whole(body[c], t, kids[c] \cup {"cache"}, Checked(c))
    BY <1>8, <1>t, <2>1 DEF Shelf, Store!Whole
  <2>3. Store!Put(c, Store!Whole(body[c], t, kids[c] \cup {"cache"}, Checked(c)))
    BY <1>7, <2>2, ShelfPut
  <2> QED BY <1>9, <2>3 DEF Store!SaveTools
<1>12. CASE a \in SweepTasks
  <2>1. ChildOf(a) = "health"
    BY <1>0, <1>12 DEF KindsFit, ChildOf
  <2>2. \A r \in Requests : Wish(r)' = Wish(r)
    BY <1>3, <1>12, ActorsApart
  <2>3. UNCHANGED [r \in Requests |-> Wish(r)]
    BY <2>2
  <2> QED BY <1>4, <1>5, <1>6, <1>10, <2>1, <2>3 DEF Store!Sweep
<1>13. CASE a \in Requests
  <2>1. /\ Wish(a) # None
        /\ Wish(a) = [kind |-> tx[a].kind, card |-> c, body |-> tx[a].body]
    BY <1>0, <1>1, <1>13, WishIsSomething
  <2>2. tx[a].kind \in {"recheck", "refresh", "create"}
    BY <1>0, <1>13 DEF LocksInv, Roles, KindsFit
  <2>3. Store!Fulfilled(a)
    BY <1>3, <1>13, WishFulfilled
  <2>4. [r \in Requests |-> Wish(r)][a] = Wish(a) /\ Wish(a).card = c
        /\ Wish(a).kind = tx[a].kind
    BY <1>13, <2>1
  <2>5. tx[a].kind = "recheck" <=> ChildOf(a) = "health"
    BY <2>2 DEF ChildOf
  <2>6. Store!Answer(a)
    BY <1>10, <1>11, <2>1, <2>2, <2>3, <2>4, <2>5 DEF Store!Answer
  <2> QED BY <1>4, <1>5, <1>6, <1>13, <2>6
<1> QED BY <1>12, <1>13 DEF Actors

(* Everybody goes on with what it is doing, ends, or is given a card by    *)
(* the sweep, and the rows of the cards stay.                              *)
LEMMA QuietStep ==
    ASSUME StoreInv, UNCHANGED cardVars, \A c \in Cards : Checked(c)' = Checked(c),
           \A b \in Actors :
             \/ tx'[b] = tx[b] /\ (<<b, b>> \in older => <<b, b>> \in older')
             \/ tx'[b] = Blank
             \/ b \in SweepTasks /\ tx'[b].kind = "sweep" /\ Stage(b)' = "probing"
             \/ /\ tx'[b].kind = tx[b].kind /\ CardOf(b)' = CardOf(b)
                /\ tx'[b].body = tx[b].body
                /\ Stage(b) # "idle" /\ Stage(b)' # "idle"
                /\ Stage(b)' \in {"begun", "recorded"} /\ ChildOf(b) = "health" =>
                     <<b, b>> \in older'
    PROVE  OpenTimes' /\ KindsFit' /\ EmptyShelves' /\ Store!GiveUp
<1>0. OpenTimes /\ KindsFit /\ EmptyShelves
  BY DEF StoreInv
<1>1. OpenTimes'
  <2> SUFFICES ASSUME NEW b \in Actors, Stage(b)' \in {"begun", "recorded"},
                      ChildOf(b)' = "health"
               PROVE  <<b, b>> \in older'
    BY DEF OpenTimes
  <2>1. CASE tx'[b] = tx[b] /\ (<<b, b>> \in older => <<b, b>> \in older')
    BY <1>0, <2>1 DEF OpenTimes, Stage, ChildOf
  <2>2. CASE tx'[b].kind = tx[b].kind /\ (ChildOf(b) = "health" => <<b, b>> \in older')
    BY <2>2 DEF ChildOf
  <2> QED BY <2>1, <2>2 DEF Stage, Blank
<1>2. KindsFit'
  <2>1. \A b \in Actors :
          \/ tx'[b].kind = tx[b].kind /\ (Stage(b)' # "idle" => Stage(b) # "idle")
          \/ tx'[b] = Blank
          \/ b \in SweepTasks /\ tx'[b].kind = "sweep"
    BY DEF Stage
  <2> QED BY <1>0, <2>1, KindsKept
<1>3. EmptyShelves'
  BY <1>0 DEF EmptyShelves, Live, cardVars
<1>4. \A r \in Requests : Wish(r)' \in {Wish(r), None}
  <2> SUFFICES ASSUME NEW r \in Requests PROVE Wish(r)' \in {Wish(r), None}
    OBVIOUS
  <2>1. r \in Actors /\ r \notin SweepTasks
    BY ActorsApart DEF Actors
  <2>2. CASE tx'[r] = tx[r]
    BY <2>2 DEF Wish, Stage
  <2>3. CASE tx'[r] = Blank
    BY <2>3 DEF Wish, Stage, Blank
  <2>4. CASE /\ tx'[r].kind = tx[r].kind /\ CardOf(r)' = CardOf(r)
             /\ tx'[r].body = tx[r].body
             /\ Stage(r) # "idle" /\ Stage(r)' # "idle"
    BY <2>4 DEF Wish, CardOf
  <2> QED BY <2>1, <2>2, <2>3, <2>4
<1> QED BY <1>1, <1>2, <1>3, <1>4, QuietRefines

LEMMA RollsBackRefines ==
    ASSUME StoreInv, NEW a \in Actors, RollsBack(a)
    PROVE  OpenTimes' /\ KindsFit' /\ EmptyShelves' /\ Store!GiveUp
<1>1. TypeOK /\ Ends(a) /\ older' = Without(a) /\ UNCHANGED cardVars
  BY DEF StoreInv, Inv, RollsBack
<1>2. \A b \in Actors : tx'[b] = IF b = a THEN Blank ELSE tx[b]
  BY <1>1, EndsWish
<1>3. \A b \in Actors : b # a /\ <<b, b>> \in older => <<b, b>> \in older'
  BY <1>1, WithoutKeeps
<1>4. \A c \in Cards : Checked(c)' = Checked(c)
  <2> SUFFICES ASSUME NEW c \in Cards PROVE Checked(c)' = Checked(c)
    OBVIOUS
  <2>1. HealthRow(c) # a /\ HealthRow(c)' = HealthRow(c)
    BY ActorsApart DEF HealthRow
  <2>2. <<HealthRow(c), HealthRow(c)>> \in older' <=> <<HealthRow(c), HealthRow(c)>> \in older
    BY <1>1, <2>1 DEF Without
  <2> QED BY <2>1, <2>2 DEF Checked
<1> QED BY <1>1, <1>2, <1>3, <1>4, QuietStep

LEMMA RecordStepRefines ==
    ASSUME StoreInv, NEW a \in Actors, RecordStep(a)
    PROVE  OpenTimes' /\ KindsFit' /\ EmptyShelves' /\ Store!StoreNext
<1>0. TypeOK /\ LocksInv /\ OpenTimes
  BY DEF StoreInv, Inv
<1>1. ASSUME Begin(a) PROVE OpenTimes' /\ KindsFit' /\ EmptyShelves' /\ Store!GiveUp
  <2>1. \A b \in Actors : tx'[b] = IF b = a THEN [tx[a] EXCEPT !.stage = "begun"] ELSE tx[b]
    BY <1>0, <1>1 DEF Begin, To, TypeOK
  <2>2. /\ tx'[a].kind = tx[a].kind /\ CardOf(a)' = CardOf(a) /\ tx'[a].body = tx[a].body
        /\ Stage(a) # "idle" /\ Stage(a)' # "idle"
    BY <1>0, <1>1, <2>1 DEF Begin, TypeOK, CardOf, Stage
  <2>3. older' = older \cup {<<x, a>> : x \in {a} \cup {p[1] : p \in older}}
        /\ UNCHANGED cardVars
    BY <1>1 DEF Begin
  <2>4. <<a, a>> \in older' /\ older \subseteq older'
    BY <2>3
  <2>5. \A c \in Cards : Checked(c)' = Checked(c)
    <3> SUFFICES ASSUME NEW c \in Cards PROVE Checked(c)' = Checked(c)
      OBVIOUS
    <3>1. Checked(c) => Checked(c)'
      BY <2>4 DEF Checked, HealthRow
    <3>2. Checked(c)' => Checked(c)
      BY <2>3, NoNewTime
    <3> QED BY <3>1, <3>2 DEF Checked
  <2> QED BY <2>1, <2>2, <2>3, <2>4, <2>5, QuietStep
<1>2. ASSUME Record(a) PROVE OpenTimes' /\ KindsFit' /\ EmptyShelves' /\ Store!GiveUp
  <2>1. \A b \in Actors : tx'[b] = IF b = a THEN [tx[a] EXCEPT !.stage = "recorded"] ELSE tx[b]
    BY <1>0, <1>2 DEF Record, To, TypeOK
  <2>2. /\ tx'[a].kind = tx[a].kind /\ CardOf(a)' = CardOf(a) /\ tx'[a].body = tx[a].body
        /\ Stage(a) = "begun" /\ Stage(a)' # "idle"
    BY <1>0, <1>2, <2>1 DEF Record, TypeOK, CardOf, Stage
  <2>3. older' = older /\ UNCHANGED cardVars
    BY <1>2 DEF Record
  <2>4. \A c \in Cards : Checked(c)' = Checked(c)
    BY <2>3 DEF Checked, HealthRow
  <2>5. ChildOf(a) = "health" => <<a, a>> \in older'
    BY <1>0, <2>2, <2>3 DEF OpenTimes
  <2> QED BY <2>1, <2>2, <2>3, <2>4, <2>5, QuietStep
<1>3. ASSUME RecordAndCommit(a) \/ CorrectAndCommit(a)
      PROVE  OpenTimes' /\ KindsFit' /\ EmptyShelves'
             /\ (Store!Sweep \/ \E r \in Requests : Store!Answer(r))
  BY <1>3, SavingRefines DEF RecordAndCommit, CorrectAndCommit, Accepted, Orphaned, Anchored
<1>4. ASSUME RollsBack(a) PROVE OpenTimes' /\ KindsFit' /\ EmptyShelves' /\ Store!GiveUp
  BY <1>4, RollsBackRefines
<1> QED BY <1>1, <1>2, <1>3, <1>4
        DEF RecordStep, RecordsNothing, CorrectionRefused, Store!StoreNext

(* An owner's step that only takes a lock or goes on, and one that ends    *)
(* because there is nothing to do it to                                    *)
LEMMA OwnerStepRefines ==
    ASSUME StoreInv, NEW r \in Requests, OwnerStep(r)
    PROVE  OpenTimes' /\ KindsFit' /\ EmptyShelves' /\ Store!StoreNext
<1>0. TypeOK /\ LocksInv /\ OpenTimes /\ KindsFit /\ EmptyShelves /\ r \in Actors
  BY DEF StoreInv, Inv, Actors
<1>c. PICK c \in Cards : c = CardOf(r)
  <2>1. Stage(r) # "idle"
    BY DEF OwnerStep, UpdateCard, UpdateNothing, ReplaceTags, ReplaceTeams, DeleteNothing,
       DeleteCard, CascadeToCache, CascadeToHealth
  <2> QED BY <1>0, <2>1 DEF LocksInv, Roles
<1>1. ASSUME UpdateCard(r) \/ DeleteCard(r) \/ CascadeToCache(r) \/ ReplaceTags(r)
      PROVE  OpenTimes' /\ KindsFit' /\ EmptyShelves' /\ Store!GiveUp
  <2>1. \A b \in Actors : b # r => tx'[b] = tx[b]
    BY <1>0, <1>1 DEF UpdateCard, DeleteCard, CascadeToCache, ReplaceTags, To, TypeOK
  <2>2. /\ tx'[r].kind = tx[r].kind /\ CardOf(r)' = CardOf(r) /\ tx'[r].body = tx[r].body
        /\ Stage(r) # "idle" /\ Stage(r)' \in Writing
    BY <1>0, <1>1 DEF UpdateCard, DeleteCard, CascadeToCache, ReplaceTags, To, TypeOK,
       CardOf, Stage, Writing
  <2>3. older' = older /\ UNCHANGED cardVars
    BY <1>1 DEF UpdateCard, DeleteCard, CascadeToCache, ReplaceTags
  <2>4. \A d \in Cards : Checked(d)' = Checked(d)
    BY <2>3 DEF Checked, HealthRow
  <2> QED BY <2>1, <2>2, <2>3, <2>4, QuietStep DEF Writing
<1>2. ASSUME UpdateNothing(r) \/ DeleteNothing(r)
      PROVE  OpenTimes' /\ KindsFit' /\ EmptyShelves' /\ Store!GiveUp
  <2>1. \A b \in Actors : tx'[b] = IF b = r THEN Blank ELSE tx[b]
    BY <1>0, <1>2 DEF UpdateNothing, DeleteNothing, TypeOK
  <2>2. older' = older /\ UNCHANGED cardVars
    BY <1>2 DEF UpdateNothing, DeleteNothing
  <2>3. \A d \in Cards : Checked(d)' = Checked(d)
    BY <2>2 DEF Checked, HealthRow
  <2> QED BY <2>1, <2>2, <2>3, QuietStep
<1>3. ASSUME ReplaceTeams(r) \/ CascadeToHealth(r)
      PROVE  /\ c \in Cards /\ Live(c)
             /\ OpenTimes' /\ KindsFit'
             /\ Store!Fulfilled(r)
             /\ Wish(r) # None
             /\ Wish(r) = [kind |-> tx[r].kind, card |-> c, body |-> tx[r].body]
             /\ \A d \in Cards : d # c => Checked(d)' = Checked(d)
  <2>1. Ends(r) /\ Stage(r) \in Writing
    BY <1>3 DEF ReplaceTeams, CascadeToHealth, Writing
  <2>2. c \in Cards /\ Live(c)
    BY <1>c, <1>0, <2>1 DEF StoreInv, Inv, LockedCardStands
  <2>3. /\ \A b \in Actors : tx'[b] = IF b = r THEN Blank ELSE tx[b]
        /\ \A q \in Requests : Wish(q)' = IF q = r THEN None ELSE Wish(q)
    BY <1>0, <2>1, EndsWish
  <2>4. older' = older \/ older' = Without(HealthRow(c))
    BY <1>c, <1>3 DEF ReplaceTeams, CascadeToHealth
  <2>5. \A b \in Actors : <<b, b>> \in older => <<b, b>> \in older'
    BY <2>2, <2>4, WithoutKeeps, ActorsApart
  <2>6. \A d \in Cards : d # c => Checked(d)' = Checked(d)
    <3> SUFFICES ASSUME NEW d \in Cards, d # c PROVE Checked(d)' = Checked(d)
      OBVIOUS
    <3>1. HealthRow(d) # HealthRow(c) /\ HealthRow(d)' = HealthRow(d)
      BY DEF HealthRow
    <3>2. <<HealthRow(d), HealthRow(d)>> \in older' <=>
            <<HealthRow(d), HealthRow(d)>> \in older
      BY <2>4, <3>1 DEF Without
    <3> QED BY <3>1, <3>2 DEF Checked
  <2>7. OpenTimes'
    <3>1. Stage(r)' = "idle"
      BY <1>0, <2>3 DEF Stage, Blank
    <3> QED BY <1>0, <2>3, <2>5, <3>1, TimesKept
  <2>8. KindsFit'
    BY <1>0, <2>3, KindsKept DEF Stage
  <2>9. Store!Fulfilled(r)
    BY <2>3, WishFulfilled
  <2>10. /\ Wish(r) # None
         /\ Wish(r) = [kind |-> tx[r].kind, card |-> c, body |-> tx[r].body]
    BY <1>c, <1>0, <2>1, WishIsSomething DEF Writing
  <2> QED BY <2>2, <2>6, <2>7, <2>8, <2>9, <2>10
<1>4. ASSUME ReplaceTeams(r)
      PROVE  OpenTimes' /\ KindsFit' /\ EmptyShelves' /\ Store!Replace(r)
  <2>1. /\ c \in Cards /\ Live(c) /\ OpenTimes' /\ KindsFit' /\ Store!Fulfilled(r)
        /\ Wish(r) # None
        /\ Wish(r) = [kind |-> tx[r].kind, card |-> c, body |-> tx[r].body]
        /\ \A d \in Cards : d # c => Checked(d)' = Checked(d)
    BY <1>3, <1>4
  <2>2. tx[r].kind = "patch" /\ tx[r].dropped = tags[c]
    BY <1>c, <1>0, <1>4 DEF ReplaceTeams, LocksInv, Roles, StoreInv, Inv, LockedCardStands
  <2> DEFINE b == tx[r].body
  <2>3. /\ body' = [body EXCEPT ![c] = b]
        /\ transport' = [transport EXCEPT ![c] = Given(b)]
        /\ tags' = [tags EXCEPT ![c] = (tags[c] \ tags[c]) \cup Children(b)]
        /\ teams' = [teams EXCEPT ![c] = Children(b)]
        /\ life' = life /\ kids' = kids /\ older' = older
    BY <1>c, <1>4, <2>2 DEF ReplaceTeams
  <2>4. /\ body'[c] = b /\ tags'[c] = Children(b) /\ teams'[c] = Children(b)
        /\ transport'[c] = Store!Given(b)
        /\ \A d \in Cards : d # c =>
             /\ body'[d] = body[d] /\ transport'[d] = transport[d]
             /\ tags'[d] = tags[d] /\ teams'[d] = teams[d]
    BY <1>0, <2>1, <2>3 DEF TypeOK, Given, Store!Given
  <2>5. EmptyShelves'
    BY <1>0, <2>1, <2>3, <2>4 DEF EmptyShelves, Live
  <2>6. Checked(c)' = Checked(c)
    BY <2>3 DEF Checked, HealthRow
  <2>7. Shelf(c)' = Store!Whole(b, Store!Given(b), kids[c], Checked(c))
    BY <2>1, <2>3, <2>4, <2>6 DEF Shelf, Store!Whole, Store!Named, Children, Live
  <2>8. \A d \in Cards : d # c => Shelf(d)' = Shelf(d)
    BY <2>1, <2>3, <2>4 DEF Shelf
  <2>9. Store!Put(c, Store!Whole(b, Store!Given(b), kids[c], Checked(c)))
    BY <2>1, <2>7, <2>8, ShelfPut
  <2>10. /\ [d \in Cards |-> Shelf(d)][c] = Shelf(c)
         /\ Shelf(c).kids = kids[c] /\ Shelf(c).checked = Checked(c) /\ Store!There(c)
    BY <2>1 DEF Shelf, Live, Store!There, Checked
  <2>11. [q \in Requests |-> Wish(q)][r] = Wish(r) /\ Wish(r).card = c
         /\ Wish(r).kind = "patch" /\ Wish(r).body = b
    BY <2>1, <2>2
  <2> QED BY <2>1, <2>5, <2>9, <2>10, <2>11 DEF Store!Replace
<1>5. ASSUME CascadeToHealth(r)
      PROVE  OpenTimes' /\ KindsFit' /\ EmptyShelves' /\ Store!Remove(r)
  <2>1. /\ c \in Cards /\ Live(c) /\ OpenTimes' /\ KindsFit' /\ Store!Fulfilled(r)
        /\ Wish(r) # None
        /\ Wish(r) = [kind |-> tx[r].kind, card |-> c, body |-> tx[r].body]
        /\ \A d \in Cards : d # c => Checked(d)' = Checked(d)
    BY <1>3, <1>5
  <2>2. tx[r].kind = "delete"
    BY <1>0, <1>5 DEF CascadeToHealth, LocksInv, Roles
  <2>3. /\ life'[c] = "gone" /\ body'[c] = None /\ tags'[c] = {} /\ teams'[c] = {}
        /\ kids'[c] = {} /\ transport'[c] = "none"
        /\ \A d \in Cards : d # c =>
             /\ life'[d] = life[d] /\ body'[d] = body[d] /\ transport'[d] = transport[d]
             /\ tags'[d] = tags[d] /\ teams'[d] = teams[d] /\ kids'[d] = kids[d]
    BY <1>c, <1>0, <1>5, <2>1 DEF CascadeToHealth, TypeOK
  <2>4. Checked(c)' = FALSE
    BY <1>c, <1>5 DEF CascadeToHealth, Without, Checked, HealthRow
  <2>5. EmptyShelves'
    BY <1>0, <2>3 DEF EmptyShelves, Live
  <2>6. Shelf(c)' = Store!Void("gone")
    BY <2>3, <2>4 DEF Shelf, Store!Void
  <2>7. \A d \in Cards : d # c => Shelf(d)' = Shelf(d)
    BY <2>1, <2>3 DEF Shelf
  <2>8. Store!Put(c, Store!Void("gone"))
    BY <2>1, <2>6, <2>7, ShelfPut
  <2>9. [d \in Cards |-> Shelf(d)][c] = Shelf(c) /\ Store!There(c)
    BY <2>1 DEF Shelf, Live, Store!There
  <2>10. [q \in Requests |-> Wish(q)][r] = Wish(r) /\ Wish(r).card = c
         /\ Wish(r).kind = "delete"
    BY <2>1, <2>2
  <2> QED BY <2>1, <2>5, <2>8, <2>9, <2>10 DEF Store!Remove
<1> QED BY <1>1, <1>2, <1>4, <1>5 DEF OwnerStep, Store!StoreNext

(* The sweep, the crashes, and the requests that begin *)
LEMMA QuietOthersRefine ==
    ASSUME StoreInv, FetchCandidates \/ FinishTick \/ CrashWorker \/ CrashApi
    PROVE  OpenTimes' /\ KindsFit' /\ EmptyShelves' /\ Store!GiveUp
<1>0. TypeOK /\ UNCHANGED cardVars
  BY DEF StoreInv, Inv, FetchCandidates, FinishTick, CrashWorker, CrashApi
<1>1. CASE FetchCandidates \/ FinishTick
  <2>1. older' = older
    BY <1>1 DEF FetchCandidates, FinishTick
  <2>2. \A b \in Actors :
          tx'[b] = tx[b] \/ (b \in SweepTasks /\ tx'[b].kind = "sweep" /\ Stage(b)' = "probing")
    BY <1>1 DEF FetchCandidates, FinishTick, At, Stage
  <2>3. \A c \in Cards : Checked(c)' = Checked(c)
    BY <2>1 DEF Checked, HealthRow
  <2> QED BY <1>0, <2>1, <2>2, <2>3, QuietStep
<1>2. CASE CrashWorker \/ CrashApi
  <2>1. PICK dead \in {SweepTasks, Requests} :
          /\ tx' = [b \in Actors |-> IF b \in dead THEN Blank ELSE tx[b]]
          /\ older' = {p \in older : p[1] \notin dead /\ p[2] \notin dead}
    BY <1>2 DEF CrashWorker, CrashApi
  <2>2. \A b \in Actors : tx'[b] = Blank \/
          (tx'[b] = tx[b] /\ (<<b, b>> \in older => <<b, b>> \in older'))
    BY <2>1
  <2>3. \A c \in Cards : Checked(c)' = Checked(c)
    <3> SUFFICES ASSUME NEW c \in Cards PROVE Checked(c)' = Checked(c)
      OBVIOUS
    <3>1. HealthRow(c) \notin dead /\ HealthRow(c)' = HealthRow(c)
      BY <2>1, ActorsApart DEF HealthRow, Actors
    <3>2. <<HealthRow(c), HealthRow(c)>> \in older' <=>
            <<HealthRow(c), HealthRow(c)>> \in older
      BY <2>1, <3>1
    <3> QED BY <3>1, <3>2 DEF Checked
  <2> QED BY <1>0, <2>2, <2>3, QuietStep
<1> QED BY <1>1, <1>2

LEMMA BeginsRefine ==
    ASSUME StoreInv, NEW r \in Requests, StartRequest(r) \/ RequireOwner(r)
    PROVE  OpenTimes' /\ KindsFit' /\ EmptyShelves' /\ Store!Ask(r)
<1>0. TypeOK /\ OpenTimes /\ KindsFit /\ EmptyShelves /\ r \in Actors /\ Stage(r) = "idle"
  BY DEF StoreInv, Inv, Actors, StartRequest, RequireOwner
<1>1. UNCHANGED cardVars /\ older' = older
  BY DEF StartRequest, RequireOwner
<1>2. PICK c \in Cards, kind \in {"recheck", "refresh", "patch", "delete"},
           stage \in {"probing", "begun", "allowed"}, b \in Bodies \cup {None} :
        /\ Live(c)
        /\ tx' = [tx EXCEPT ![r] = At(kind, stage, c, b)]
        /\ IF kind = "patch" THEN b \in Bodies ELSE b = None
        /\ stage = "begun" => kind = "refresh"
  <2>1. CASE StartRequest(r)
    <3>1. PICK c \in Cards, kind \in {"recheck", "refresh"} :
            /\ Probeable(c)
            /\ tx' = [tx EXCEPT ![r] =
                        At(kind, IF kind = "recheck" THEN "probing" ELSE "begun", c, None)]
      BY <2>1 DEF StartRequest
    <3>2. CASE kind = "recheck"
      BY <3>1, <3>2 DEF Probeable, Anchored
    <3>3. CASE kind = "refresh"
      BY <3>1, <3>3 DEF Probeable, Anchored
    <3> QED BY <3>2, <3>3
  <2>2. CASE RequireOwner(r)
    <3>1. PICK c \in Cards :
            /\ Live(c)
            /\ \/ \E b \in Bodies : tx' = [tx EXCEPT ![r] = At("patch", "allowed", c, b)]
               \/ tx' = [tx EXCEPT ![r] = At("delete", "allowed", c, None)]
      BY <2>2 DEF RequireOwner
    <3>2. CASE \E b \in Bodies : tx' = [tx EXCEPT ![r] = At("patch", "allowed", c, b)]
      BY <3>1, <3>2
    <3>3. CASE tx' = [tx EXCEPT ![r] = At("delete", "allowed", c, None)]
      BY <3>1, <3>3
    <3> QED BY <3>1, <3>2, <3>3
  <2> QED BY <2>1, <2>2
<1>3. \A a \in Actors : tx'[a] = IF a = r THEN At(kind, stage, c, b) ELSE tx[a]
  BY <1>0, <1>2 DEF TypeOK
<1>4. Stage(r)' = stage /\ tx'[r].kind = kind /\ tx'[r].card = c /\ tx'[r].body = b
  BY <1>0, <1>3 DEF Stage, At
<1>5. OpenTimes'
  <2>1. Stage(r)' \notin {"begun", "recorded"} \/ tx'[r].kind \in {"refresh", "create"}
    BY <1>2, <1>4
  <2>2. \A a \in Actors : a # r => tx'[a] = tx[a]
    BY <1>3
  <2> QED BY <1>0, <1>1, <2>1, <2>2, TimesKept
<1>6. KindsFit'
  <2>1. \A a \in Actors : a # r => tx'[a] = tx[a] /\ Stage(a)' = Stage(a)
    BY <1>3 DEF Stage
  <2>2. tx'[r].kind # "sweep"
    BY <1>4
  <2> QED BY <1>0, <2>1, <2>2, KindsKept
<1>7. EmptyShelves'
  BY <1>0, <1>1 DEF EmptyShelves, Live, cardVars
<1>8. \A d \in Cards : Shelf(d)' = Shelf(d)
  BY <1>1 DEF Shelf, cardVars, Checked, HealthRow
<1>9. UNCHANGED [d \in Cards |-> Shelf(d)]
  BY <1>8
<1>10. Wish(r) = None /\ Wish(r)' = Store!Wished(kind, c, b)
  BY <1>0, <1>2, <1>4 DEF Wish, Store!Wished
<1>11. \A q \in Requests : q # r => Wish(q)' = Wish(q)
  BY <1>3 DEF Wish, Stage, Actors
<1> DEFINE wish == [q \in Requests |-> Wish(q)]
<1>12. wish' = [wish EXCEPT ![r] = Store!Wished(kind, c, b)]
  BY <1>10, <1>11
<1>13. wish[r] = None /\ Store!There(c)
  BY <1>2, <1>10 DEF Store!There, Shelf, Live
<1>14. Store!Ask(r)
  <2>1. CASE kind = "patch"
    BY <1>2, <1>9, <1>12, <1>13, <2>1 DEF Store!Ask
  <2>2. CASE kind # "patch"
    <3>1. kind \in {"recheck", "refresh", "delete"} /\ b = None
      BY <1>2, <2>2
    <3> QED BY <1>9, <1>12, <1>13, <3>1 DEF Store!Ask
  <2> QED BY <2>1, <2>2
<1> QED BY <1>5, <1>6, <1>7, <1>14

LEMMA CreateRefines ==
    ASSUME StoreInv, NEW r \in Requests, CreateConnector(r)
    PROVE  OpenTimes' /\ KindsFit' /\ EmptyShelves' /\ Store!Register(r)
<1>0. TypeOK /\ WholeOrGone /\ OpenTimes /\ KindsFit /\ EmptyShelves /\ r \in Actors
      /\ Stage(r) = "idle"
  BY DEF StoreInv, Inv, Actors, CreateConnector
<1>1. PICK c \in Cards, b \in Bodies :
        /\ life[c] = "unborn"
        /\ life' = [life EXCEPT ![c] = "live"]
        /\ body' = [body EXCEPT ![c] = b]
        /\ transport' = [transport EXCEPT ![c] = Given(b)]
        /\ tags' = [tags EXCEPT ![c] = Children(b)]
        /\ teams' = [teams EXCEPT ![c] = Children(b)]
        /\ kids' = [kids EXCEPT ![c] = {"health"}]
        /\ tx' = [tx EXCEPT ![r] =
                    IF b \in Reachable /\ c \in Edited
                    THEN At("create", "begun", c, None) ELSE Blank]
  BY DEF CreateConnector
<1>2. older' = older
  BY DEF CreateConnector
<1>3. \A a \in Actors : tx'[a] = IF a = r THEN (IF b \in Reachable /\ c \in Edited
                                                THEN At("create", "begun", c, None)
                                                ELSE Blank) ELSE tx[a]
  BY <1>0, <1>1 DEF TypeOK
<1>4. OpenTimes'
  <2>1. Stage(r)' = "idle" \/ tx'[r].kind = "create"
    BY <1>0, <1>3 DEF Stage, At, Blank
  <2>2. \A a \in Actors : a # r => tx'[a] = tx[a]
    BY <1>3
  <2> QED BY <1>0, <1>2, <2>1, <2>2, TimesKept
<1>5. KindsFit'
  <2>1. \A a \in Actors : a # r => tx'[a] = tx[a] /\ Stage(a)' = Stage(a)
    BY <1>3 DEF Stage
  <2>2. tx'[r].kind # "sweep"
    BY <1>0, <1>3 DEF At, Blank
  <2> QED BY <1>0, <2>1, <2>2, KindsKept
<1>6. EmptyShelves'
  BY <1>0, <1>1 DEF EmptyShelves, Live, TypeOK
<1>7. /\ life'[c] = "live" /\ body'[c] = b /\ tags'[c] = Children(b)
      /\ teams'[c] = Children(b) /\ kids'[c] = {"health"} /\ transport'[c] = Store!Given(b)
      /\ \A d \in Cards : d # c =>
           /\ life'[d] = life[d] /\ body'[d] = body[d] /\ transport'[d] = transport[d]
           /\ tags'[d] = tags[d] /\ teams'[d] = teams[d] /\ kids'[d] = kids[d]
  BY <1>0, <1>1 DEF TypeOK, Given, Store!Given
<1>8. \A d \in Cards : Checked(d)' = Checked(d)
  BY <1>2 DEF Checked, HealthRow
<1>9. Shelf(c) = Store!Void("unborn") /\ Checked(c) = FALSE
  <2>1. ~Live(c)
    BY <1>1 DEF Live
  <2>2. Checked(c) = FALSE
    BY <1>0, <2>1 DEF WholeOrGone, Checked
  <2> QED BY <1>0, <1>1, <2>1, <2>2 DEF WholeOrGone, EmptyShelves, Shelf, Store!Void
<1>10. Shelf(c)' = Store!Whole(b, Store!Given(b), {"health"}, FALSE)
  BY <1>7, <1>8, <1>9 DEF Shelf, Store!Whole, Store!Named, Children
<1>11. \A d \in Cards : d # c => Shelf(d)' = Shelf(d)
  BY <1>7, <1>8 DEF Shelf
<1>12. Store!Put(c, Store!Whole(b, Store!Given(b), {"health"}, FALSE))
  BY <1>10, <1>11, ShelfPut
<1> DEFINE wish == [q \in Requests |-> Wish(q)]
<1>13. Wish(r) = None /\ wish[r] = None /\ [d \in Cards |-> Shelf(d)][c] = Store!Void("unborn")
  BY <1>0, <1>9 DEF Wish
<1>14. \A q \in Requests : q # r => Wish(q)' = Wish(q)
  BY <1>3 DEF Wish, Stage, Actors
<1>15. wish' = wish \/ wish' = [wish EXCEPT ![r] = Store!Wished("create", c, None)]
  <2>1. CASE b \in Reachable /\ c \in Edited
    <3>1. Wish(r)' = Store!Wished("create", c, None)
      BY <1>0, <1>3, <2>1 DEF Wish, Stage, At, Store!Wished
    <3> QED BY <1>14, <3>1
  <2>2. CASE ~(b \in Reachable /\ c \in Edited)
    <3>1. Wish(r)' = Wish(r)
      BY <1>0, <1>3, <1>13, <2>2 DEF Wish, Stage, Blank
    <3> QED BY <1>14, <3>1
  <2> QED BY <2>1, <2>2
<1> QED BY <1>4, <1>5, <1>6, <1>12, <1>13, <1>15 DEF Store!Register

LEMMA StoreInvStep ==
    ASSUME StoreInv, [Next]_vars
    PROVE  StoreInv' /\ [Store!StoreNext]_(Store!storeVars)
<1>1. Inv'
  BY StepInv DEF StoreInv
<1>2. ASSUME UNCHANGED vars
      PROVE  OpenTimes' /\ KindsFit' /\ EmptyShelves' /\ UNCHANGED Store!storeVars
  <2>1. OpenTimes' /\ KindsFit' /\ EmptyShelves'
    BY <1>2 DEF vars, StoreInv, OpenTimes, KindsFit, EmptyShelves, Stage, ChildOf, Live
  <2>2. (\A c \in Cards : Shelf(c)' = Shelf(c)) /\ (\A r \in Requests : Wish(r)' = Wish(r))
    BY <1>2 DEF vars, Shelf, Wish, Stage, Checked, HealthRow
  <2>3. /\ UNCHANGED [c \in Cards |-> Shelf(c)]
        /\ UNCHANGED [r \in Requests |-> Wish(r)]
    BY <2>2
  <2> QED BY <2>1, <2>3 DEF Store!storeVars
<1>3. ASSUME Next
      PROVE  OpenTimes' /\ KindsFit' /\ EmptyShelves' /\ Store!StoreNext
  <2>1. ASSUME NEW a \in Actors, RecordStep(a)
        PROVE  OpenTimes' /\ KindsFit' /\ EmptyShelves' /\ Store!StoreNext
    BY <2>1, RecordStepRefines
  <2>2. ASSUME NEW r \in Requests, OwnerStep(r)
        PROVE  OpenTimes' /\ KindsFit' /\ EmptyShelves' /\ Store!StoreNext
    BY <2>2, OwnerStepRefines
  <2>3. ASSUME NEW r \in Requests, StartRequest(r) \/ RequireOwner(r)
        PROVE  OpenTimes' /\ KindsFit' /\ EmptyShelves' /\ Store!StoreNext
    BY <2>3, BeginsRefine DEF Store!StoreNext
  <2>4. ASSUME NEW r \in Requests, CreateConnector(r)
        PROVE  OpenTimes' /\ KindsFit' /\ EmptyShelves' /\ Store!StoreNext
    BY <2>4, CreateRefines DEF Store!StoreNext
  <2>5. ASSUME NEW a \in Actors, RollsBack(a)
        PROVE  OpenTimes' /\ KindsFit' /\ EmptyShelves' /\ Store!StoreNext
    BY <2>5, RollsBackRefines DEF Store!StoreNext
  <2>6. ASSUME FetchCandidates \/ FinishTick \/ CrashWorker \/ CrashApi
        PROVE  OpenTimes' /\ KindsFit' /\ EmptyShelves' /\ Store!StoreNext
    BY <2>6, QuietOthersRefine DEF Store!StoreNext
  <2> QED BY <1>3, <2>1, <2>2, <2>3, <2>4, <2>5, <2>6
          DEF Next, RequestStep, DeadlockVictim, StatementFails, Actors
<1> QED BY <1>1, <1>2, <1>3 DEF StoreInv

(* CardTransactions implements CardStore: what a request does to a card,   *)
(* it does at its COMMIT and as a whole (mutations.py:3-4), and whoever    *)
(* comes too late, fails, dies or is a deadlock's victim does nothing.     *)
THEOREM Refinement == Spec => ImplementsCardStore
<1>1. Init => StoreInv /\ Store!StoreInit
  <2> SUFFICES ASSUME Init PROVE StoreInv /\ Store!StoreInit
    OBVIOUS
  <2>1. \A a \in Actors : Stage(a) = "idle" /\ tx[a].kind = "none"
    BY DEF Init, Stage, Blank
  <2>2. OpenTimes /\ KindsFit /\ EmptyShelves
    BY <2>1 DEF Init, OpenTimes, KindsFit, EmptyShelves
  <2>3. \A c \in Cards : Shelf(c) = Store!Void("unborn")
    <3>1. \A c \in Cards : Checked(c) = FALSE
      BY DEF Init, Checked
    <3> QED BY <3>1 DEF Init, Shelf, Store!Void
  <2>4. \A r \in Requests : Wish(r) = None
    BY <2>1 DEF Wish, Actors
  <2> QED BY <2>2, <2>3, <2>4, InitInv DEF StoreInv, Store!StoreInit
<1> QED
  BY <1>1, StoreInvStep, PTL DEF Spec, ImplementsCardStore, Store!StoreSpec

-----------------------------------------------------------------------------
(***************************************************************************)
(* Progress, as far as it is a matter of safety.  That requests end is     *)
(* left to TLC; that nobody waits where nothing can ever move is proved.   *)
(***************************************************************************)

(* A foreign key's lock belongs to a first saving of tools that goes on to *)
(* correct the transport, so to a request.                                 *)
Sharers ==
    \A c \in Cards : \A b \in shared[c] :
      b \in Requests /\ Stage(b) = "recorded" /\ CardOf(b) = c

(* No row is locked while somebody talks to an endpoint: who is waited for *)
(* is in the middle of its statements.                                     *)
HoldersAreOpen == \A a, b \in Actors : WaitsFor(a, b) => Open(b)

(* S leaves nobody out that one of its members waits for. *)
ClosedUnderWaiting(S) == \A a \in S, b \in Actors : WaitsFor(a, b) => b \in S

(* Where somebody waits, somebody among those waited for, directly or     *)
(* through others, has its locks and goes on, or is part of a cycle that  *)
(* PostgreSQL's detector finds.                                            *)
SomebodyMoves ==
    \A S \in SUBSET Actors :
      ClosedUnderWaiting(S) /\ (\E a \in S : Blocked(a)) =>
        \E b \in S : Open(b) /\ (~Blocked(b) \/ InCycle(b))

LEMMA UnsharedKeeps ==
    ASSUME StoreInv, Sharers, NEW a \in Actors, Ends(a)
    PROVE  Sharers'
<1>1. \A b \in Actors : tx'[b] = IF b = a THEN Blank ELSE tx[b]
  BY DEF Ends, StoreInv, Inv, TypeOK
<1>2. \A c \in Cards : shared'[c] = shared[c] \ {a}
  BY DEF Ends, Unshared
<1> QED BY <1>1, <1>2 DEF Sharers, Stage, CardOf, Actors

(* The others start, or go on to where no foreign key is locked. *)
LEMMA NotSharingKeeps ==
    ASSUME StoreInv, Sharers, shared' = shared,
           \A b \in Requests : Stage(b) = "recorded" => tx'[b] = tx[b]
    PROVE  Sharers'
  BY DEF Sharers, Stage, CardOf

LEMMA SharersStep ==
    ASSUME StoreInv, Sharers, [Next]_vars
    PROVE  Sharers'
<1>1. ASSUME NEW a \in Actors, Record(a) PROVE Sharers'
  <2>1. \A b \in Actors : CardOf(b)' = CardOf(b)
                         /\ Stage(b)' = IF b = a THEN "recorded" ELSE Stage(b)
    BY <1>1 DEF Record, To, CardOf, Stage, StoreInv, Inv, TypeOK
  <2>2. CardOf(a) \in Cards /\ Stage(a) = "begun"
    BY <1>1 DEF Record, StoreInv, Inv, LocksInv, Roles
  <2>3. FirstSave(a) => a \in Requests
    BY <2>2 DEF FirstSave, ChildOf, StoreInv, KindsFit, Actors
  <2>4. \A c \in Cards : shared'[c] =
          IF FirstSave(a) /\ c = CardOf(a) THEN shared[c] \cup {a} ELSE shared[c]
    BY <1>1, <2>2 DEF Record, StoreInv, Inv, TypeOK
  <2> QED BY <2>1, <2>2, <2>3, <2>4 DEF Sharers, Actors
<1>2. ASSUME NEW a \in Actors, Ends(a) PROVE Sharers'
  BY <1>2, UnsharedKeeps
<1>3. ASSUME NEW a \in Actors,
             \/ Begin(a) \/ UpdateCard(a) \/ UpdateNothing(a) \/ ReplaceTags(a)
             \/ DeleteNothing(a) \/ DeleteCard(a) \/ CascadeToCache(a)
             \/ StartRequest(a) \/ CreateConnector(a) \/ RequireOwner(a)
      PROVE  Sharers'
  <2>1. shared' = shared /\ Stage(a) # "recorded"
    BY <1>3 DEF Begin, UpdateCard, UpdateNothing, ReplaceTags, DeleteNothing, DeleteCard,
         CascadeToCache, StartRequest, CreateConnector, RequireOwner, lockVars
  <2>2. \A b \in Actors : b # a => tx'[b] = tx[b]
    BY <1>3 DEF Begin, UpdateCard, UpdateNothing, ReplaceTags, DeleteNothing, DeleteCard,
         CascadeToCache, StartRequest, CreateConnector, RequireOwner, To, StoreInv, Inv,
         TypeOK
  <2> QED BY <2>1, <2>2, NotSharingKeeps DEF Actors
<1>4. ASSUME FetchCandidates \/ FinishTick \/ CrashWorker \/ UNCHANGED vars PROVE Sharers'
  <2>1. shared' = shared
    BY <1>4 DEF FetchCandidates, FinishTick, CrashWorker, lockVars, vars
  <2>2. \A b \in Requests : tx'[b] = tx[b]
    BY <1>4, ActorsApart DEF FetchCandidates, FinishTick, CrashWorker, vars, Actors
  <2> QED BY <2>1, <2>2, NotSharingKeeps
<1>5. ASSUME CrashApi PROVE Sharers'
  BY <1>5 DEF CrashApi, Sharers
<1> QED
  BY <1>1, <1>2, <1>3, <1>4, <1>5
     DEF Next, RequestStep, RecordStep, OwnerStep, RecordAndCommit, CorrectAndCommit,
         RecordsNothing, CorrectionRefused, ReplaceTeams, CascadeToHealth, DeadlockVictim,
         StatementFails, RollsBack, Actors

(* Who is waited for holds a row, or the lock of a foreign key. *)
LEMMA WaitedForIsOpen ==
    ASSUME StoreInv, Sharers
    PROVE  HoldersAreOpen
<1> SUFFICES ASSUME NEW a \in Actors, NEW b \in Actors, WaitsFor(a, b) PROVE Open(b)
  BY DEF HoldersAreOpen
<1>1. CASE \E row \in Wants(a) : held[row] = b
  <2>1. Stage(a) # "idle"
    BY <1>1, WantsOneRow
  <2>2. CardOf(a) \in Cards
    BY <2>1 DEF StoreInv, Inv, LocksInv, Roles
  <2>3. \E table \in Tables : held[<<table, CardOf(a)>>] = b
    BY <1>1, WantsOneRow DEF Wants, Tables, ChildOf
  <2> QED BY <2>2, <2>3 DEF StoreInv, Inv, LocksInv, Holders, Writing, Open
<1>2. CASE Deletes(a) /\ Stage(a) = "allowed" /\ b \in shared[CardOf(a)]
  <2>1. CardOf(a) \in Cards
    BY <1>2 DEF StoreInv, Inv, LocksInv, Roles
  <2> QED BY <1>2, <2>1 DEF Sharers, Open
<1>3. CASE FirstSave(a) /\ held[<<"card", CardOf(a)>>] = b
  <2>1. CardOf(a) \in Cards
    BY <1>3 DEF FirstSave, StoreInv, Inv, LocksInv, Roles
  <2> QED BY <1>3, <2>1 DEF StoreInv, Inv, LocksInv, Holders, Writing, Open, Tables
<1> QED BY <1>1, <1>2, <1>3 DEF WaitsFor

LEMMA ActorsFinite ==
    ASSUME IsFiniteSet(Cards), IsFiniteSet(Requests)
    PROVE  IsFiniteSet(Actors)
<1>1. IsFiniteSet({"sweep"})
  BY FS_Singleton
<1>2. IsFiniteSet(SweepTasks)
  BY <1>1, FS_Product DEF SweepTasks
<1> QED BY <1>2, FS_Union DEF Actors

(* A finite number of actors who all wait for each other has a smallest    *)
(* part that does.                                                         *)
LEMMA StuckHasCycle ==
    ASSUME IsFiniteSet(Actors), NEW W \in SUBSET Actors, Stuck(W)
    PROVE  \E b \in W : InCycle(b)
<1> DEFINE Sets == {T \in SUBSET W : Stuck(T)}
<1>1. IsFiniteSet(W)
  BY FS_Subset
<1>2. IsWellFoundedOn(StrictSubsetOrdering(W), SUBSET W)
  BY <1>1, FS_StrictSubsetOrderingWellFounded, FS_FiniteSubsetsOfFinite
<1>3. Sets \subseteq SUBSET W /\ Sets # {}
  OBVIOUS
<1>4. PICK S \in Sets : \A T \in Sets : ~(<<T, S>> \in StrictSubsetOrdering(W))
  <2> HIDE DEF Sets
  <2> QED BY <1>2, <1>3, WFMin
<1>5. \A T \in SUBSET S : Stuck(T) => T = S
  <2> SUFFICES ASSUME NEW T \in SUBSET S, Stuck(T) PROVE T = S
    OBVIOUS
  <2>1. T \in Sets /\ T \in SUBSET W /\ S \in SUBSET W
    OBVIOUS
  <2> QED BY <1>4, <2>1 DEF StrictSubsetOrdering
<1>6. PICK b \in S : TRUE
  BY DEF Stuck
<1>7. \A a \in S : Blocked(a)
  BY DEF Stuck, Blocked
<1>8. S \in SUBSET {a \in Actors : Blocked(a)}
  BY <1>7
<1>9. InCycle(b)
  BY <1>5, <1>7, <1>8 DEF InCycle
<1> QED BY <1>9

(* PATCH, DELETE, recordings and savings of tools never leave each other   *)
(* waiting for somebody who cannot move, for any number of cards and open  *)
(* requests: no row is locked during a call to an endpoint (router.py:     *)
(* 283-286, 441), and every chain of those who wait ends in front of       *)
(* somebody who has all it needs for its next statement, or in a cycle.    *)
THEOREM NobodyWaitsInVain ==
    ASSUME IsFiniteSet(Cards), IsFiniteSet(Requests)
    PROVE  Spec => [](HoldersAreOpen /\ SomebodyMoves)
<1>1. Init => StoreInv /\ Sharers
  <2> SUFFICES ASSUME Init PROVE StoreInv /\ Sharers
    OBVIOUS
  <2>1. \A a \in Actors : Stage(a) = "idle" /\ tx[a].kind = "none"
    BY DEF Init, Stage, Blank
  <2>2. OpenTimes /\ KindsFit /\ EmptyShelves
    BY <2>1 DEF Init, OpenTimes, KindsFit, EmptyShelves
  <2> QED BY <2>2, InitInv DEF StoreInv, Init, Sharers
<1>2. StoreInv /\ Sharers /\ [Next]_vars => (StoreInv /\ Sharers)'
  BY StoreInvStep, SharersStep
<1>3. StoreInv /\ Sharers => HoldersAreOpen /\ SomebodyMoves
  <2> SUFFICES ASSUME StoreInv, Sharers, NEW S \in SUBSET Actors,
                      ClosedUnderWaiting(S), NEW a \in S, Blocked(a)
               PROVE  \E b \in S : Open(b) /\ (~Blocked(b) \/ InCycle(b))
    BY WaitedForIsOpen DEF SomebodyMoves
  <2> DEFINE W == {b \in S : \E x \in S : WaitsFor(x, b)}
  <2>1. W \in SUBSET Actors /\ W # {}
    BY DEF Blocked, ClosedUnderWaiting
  <2>2. \A b \in W : Open(b)
    BY WaitedForIsOpen DEF HoldersAreOpen
  <2>3. CASE \E b \in W : ~Blocked(b)
    BY <2>2, <2>3
  <2>4. CASE \A b \in W : Blocked(b)
    <3>1. Stuck(W)
      BY <2>1, <2>4 DEF Stuck, Blocked, ClosedUnderWaiting
    <3>2. \E b \in W : InCycle(b)
      BY <2>1, <3>1, ActorsFinite, StuckHasCycle
    <3> QED BY <2>2, <3>2
  <2> QED BY <2>3, <2>4
<1> QED BY <1>1, <1>2, <1>3, PTL DEF Spec

-----------------------------------------------------------------------------
(***************************************************************************)
(* The body of a card (CardBody): any number of tags and teams, any texts. *)
(* What a loop does is shown by induction on the steps it has taken: there *)
(* is no smallest number of steps after which the claim fails.             *)
(***************************************************************************)

LEMMA LeastNumber ==
    ASSUME NEW T, T \subseteq Nat, T # {}
    PROVE  \E m \in T : \A k \in T : m <= k
<1> DEFINE R == {ss \in Nat \X Nat : ss[1] < ss[2]}
<1>1. IsWellFoundedOn(R, Nat)
  BY NatLessThanWellFounded DEF OpToRel
<1>2. \E m \in T : \A k \in T : ~ (<<k, m>> \in R)
  <2> HIDE DEF R
  <2> QED BY <1>1, WFMin
<1>3. PICK m \in T : \A k \in T : ~ (<<k, m>> \in R)
  BY <1>2
<1>4. ASSUME NEW k \in T PROVE m <= k
  <2>1. k \in Nat /\ m \in Nat
    OBVIOUS
  <2>2. ~ (k < m)
    BY <1>3, <2>1
  <2> QED BY <2>1, <2>2
<1> QED BY <1>4

(* The loop of _normalize_tags: what it has seen after each tag.           *)
Steps(raw, seen, n) ==
    /\ seen[0] = <<>>
    /\ \A k \in 1 .. n : seen[k] = AddTag(seen[k - 1], raw[k].text)

LEMMA TheLoopRuns ==
    ASSUME NEW raw, Len(raw) \in Nat
    PROVE  \E seen : Steps(raw, seen, Len(raw)) /\ NormalizeTags(raw) = seen[Len(raw)]
<1> DEFINE N == Len(raw)
           Body(f, m) == [n \in 0 .. m |-> IF n = 0 THEN <<>> ELSE AddTag(f[n - 1], raw[n].text)]
           Missing == {m \in 0 .. N : ~ \E f : f = Body(f, m)}
<1>1. ASSUME NEW m \in 0 .. N, NEW f, f = Body(f, m)
      PROVE  Steps(raw, f, m)
  <2>1. ASSUME NEW n \in 0 .. m
        PROVE  f[n] = IF n = 0 THEN <<>> ELSE AddTag(f[n - 1], raw[n].text)
    <3>1. f[n] = Body(f, m)[n]
      BY <1>1
    <3> QED BY <3>1
  <2>2. f[0] = <<>>
    <3>1. 0 \in 0 .. m
      OBVIOUS
    <3> QED BY <2>1, <3>1
  <2>3. \A n \in 1 .. m : f[n] = AddTag(f[n - 1], raw[n].text)
    BY <2>1
  <2> QED BY <2>2, <2>3 DEF Steps
<1>2. Missing = {}
  <2> SUFFICES ASSUME Missing # {} PROVE FALSE
    OBVIOUS
  <2>1. PICK m \in Missing : \A k \in Missing : m <= k
    <3>1. Missing \subseteq Nat
      OBVIOUS
    <3> HIDE DEF Missing
    <3> QED BY <3>1, LeastNumber
  <2>2. CASE m = 0
    <3> DEFINE f == [n \in 0 .. 0 |-> <<>>]
    <3>1. f = Body(f, 0)
      OBVIOUS
    <3> QED BY <2>2, <3>1
  <2>3. CASE m # 0
    <3>1. m - 1 \in 0 .. N /\ m - 1 \notin Missing /\ m \in 1 .. N
      BY <2>1, <2>3
    <3>2. PICK f : f = Body(f, m - 1)
      BY <3>1
    <3> DEFINE g == [n \in 0 .. m |-> IF n = m THEN AddTag(f[m - 1], raw[m].text) ELSE f[n]]
    <3>3. \A n \in 0 .. m - 1 : f[n] = IF n = 0 THEN <<>> ELSE AddTag(f[n - 1], raw[n].text)
      BY <3>2
    <3>4. ASSUME NEW n \in 0 .. m
          PROVE  g[n] = IF n = 0 THEN <<>> ELSE AddTag(g[n - 1], raw[n].text)
      <4>1. CASE n = m
        BY <4>1, <3>1
      <4>2. CASE n # m
        <5>1. n \in 0 .. m - 1 /\ (n = 0 \/ n - 1 \in 0 .. m - 1)
          BY <4>2, <3>1
        <5> QED BY <5>1, <3>3, <3>1
      <4> QED BY <4>1, <4>2
    <3>5. g = Body(g, m)
      BY <3>4
    <3> QED BY <3>5, <2>1
  <2> QED BY <2>2, <2>3
<1>3. \E f : f = Body(f, N)
  <2>1. N \in 0 .. N
    OBVIOUS
  <2> QED BY <1>2, <2>1
<1> DEFINE seen == CHOOSE f : f = Body(f, N)
<1>4. seen = Body(seen, N)
  BY <1>3
<1>5. Steps(raw, seen, N)
  <2>1. N \in 0 .. N
    OBVIOUS
  <2> HIDE DEF seen, Body, N
  <2> QED BY <1>1, <1>4, <2>1
<1>6. NormalizeTags(raw) = seen[N]
  BY DEF NormalizeTags
<1> QED BY <1>5, <1>6

(* Tags that differ in case or spaces only are one, in the place of the    *)
(* first: whatever is listed earlier was mentioned before anything listed  *)
(* later (schemas.py:19-20, 43-55).                                        *)
RawTags(Texts) == [text : Texts, fits : BOOLEAN]
InOrderOfMention(list, raw, n) ==
    \A i, j \in DOMAIN list : i < j =>
      \E m \in 1 .. n : raw[m].text = list[i] /\ \A l \in 1 .. m : raw[l].text # list[j]
EachOnce(list, raw, n) ==
    /\ IsInjective(list)
    /\ Range(list) = {raw[m].text : m \in 1 .. n}
    /\ InOrderOfMention(list, raw, n)

LEMMA AddTagKeeps ==
    ASSUME NEW Texts, NEW raw \in Seq(RawTags(Texts)), NEW n \in 1 .. Len(raw),
           NEW list \in Seq(Texts), EachOnce(list, raw, n - 1)
    PROVE  LET next == AddTag(list, raw[n].text)
           IN  next \in Seq(Texts) /\ EachOnce(next, raw, n)
<1> DEFINE text == raw[n].text
           next == AddTag(list, text)
<1>1. text \in Texts
  <2>1. raw[n] \in RawTags(Texts)
    OBVIOUS
  <2> QED BY <2>1 DEF RawTags
<1>2. 1 .. n = (1 .. n - 1) \cup {n}
  OBVIOUS
<1>3. {raw[m].text : m \in 1 .. n} = {raw[m].text : m \in 1 .. n - 1} \cup {text}
  BY <1>2
<1>4. DOMAIN list = 1 .. Len(list) /\ Len(list) \in Nat
  OBVIOUS
<1>5. InOrderOfMention(list, raw, n)
  BY <1>2 DEF EachOnce, InOrderOfMention
<1>6. CASE Contains(list, text)
  <2>1. next = list
    BY <1>6 DEF AddTag
  <2>2. text \in Range(list)
    BY <1>4, <1>6 DEF Contains, Range
  <2> QED BY <1>3, <1>5, <2>1, <2>2 DEF EachOnce
<1>7. CASE ~Contains(list, text)
  <2> DEFINE last == Len(list) + 1
  <2>1. next = Append(list, text)
    BY <1>7 DEF AddTag
  <2>2. /\ next \in Seq(Texts) /\ Len(next) = last
        /\ \A i \in 1 .. Len(list) : next[i] = list[i]
        /\ next[last] = text
    BY <1>1, <2>1, AppendProperties
  <2>3. DOMAIN next = DOMAIN list \cup {last} /\ last \notin DOMAIN list
    <3> HIDE DEF next
    <3>1. DOMAIN next = 1 .. last
      BY <2>2
    <3>2. 1 .. last = (1 .. Len(list)) \cup {last}
      BY <1>4
    <3> QED BY <1>4, <3>1, <3>2
  <2>4. \A i \in DOMAIN list : list[i] # text
    BY <1>4, <1>7 DEF Contains
  <2>5. \A i \in DOMAIN list : next[i] = list[i]
    BY <1>4, <2>2
  <2> HIDE DEF next, text
  <2>6. IsInjective(next)
    BY <2>2, <2>3, <2>4, <2>5 DEF EachOnce, IsInjective
  <2>7. Range(next) = {raw[m].text : m \in 1 .. n}
    <3>1. Range(next) = Range(list) \cup {text}
      BY <2>2, <2>3, <2>5 DEF Range
    <3> QED BY <1>3, <3>1 DEF EachOnce
  <2>8. ASSUME NEW i \in DOMAIN next, NEW j \in DOMAIN next, i < j
        PROVE  \E m \in 1 .. n : /\ raw[m].text = next[i]
                                 /\ \A l \in 1 .. m : raw[l].text # next[j]
    <3>1. i \in DOMAIN list
      BY <1>4, <2>3, <2>8
    <3>2. CASE j \in DOMAIN list
      BY <1>5, <2>5, <2>8, <3>1, <3>2 DEF InOrderOfMention
    <3>3. CASE j = last
      <4>1. list[i] \in {raw[m].text : m \in 1 .. n - 1}
        BY <3>1 DEF EachOnce, Range
      <4>2. PICK m \in 1 .. n - 1 : raw[m].text = list[i]
        BY <4>1
      <4>3. \A l \in 1 .. n - 1 : raw[l].text # text
        <5>1. \A l \in 1 .. n - 1 : raw[l].text \in Range(list)
          BY DEF EachOnce
        <5> QED BY <2>4, <5>1 DEF Range
      <4>4. m \in 1 .. n /\ 1 .. m \subseteq 1 .. n - 1
        OBVIOUS
      <4> QED BY <2>2, <2>5, <3>1, <3>3, <4>2, <4>3, <4>4
    <3> QED BY <2>3, <3>2, <3>3
  <2>9. InOrderOfMention(next, raw, n)
    BY <2>8 DEF InOrderOfMention
  <2> QED BY <2>2, <2>6, <2>7, <2>9 DEF EachOnce, next, text
<1> QED BY <1>6, <1>7

THEOREM TagsKeptOnce ==
    ASSUME NEW Texts, NEW raw \in Seq(RawTags(Texts))
    PROVE  NormalizeTags(raw) \in Seq(Texts) /\ EachOnce(NormalizeTags(raw), raw, Len(raw))
<1> DEFINE N == Len(raw)
<1>1. N \in Nat
  OBVIOUS
<1>2. PICK seen : Steps(raw, seen, N) /\ NormalizeTags(raw) = seen[N]
  BY TheLoopRuns
<1> DEFINE Right(m) == seen[m] \in Seq(Texts) /\ EachOnce(seen[m], raw, m)
           Wrong == {m \in 0 .. N : ~Right(m)}
<1>3. Right(0)
  <2>1. seen[0] = <<>>
    BY <1>2 DEF Steps
  <2>2. DOMAIN seen[0] = {} /\ 1 .. 0 = {}
    BY <2>1
  <2> QED BY <2>1, <2>2 DEF EachOnce, IsInjective, Range, InOrderOfMention
<1>4. ASSUME NEW m \in 1 .. N, Right(m - 1) PROVE Right(m)
  <2>1. seen[m] = AddTag(seen[m - 1], raw[m].text)
    BY <1>2 DEF Steps
  <2> QED BY <1>4, <2>1, AddTagKeeps
<1> HIDE DEF Right, N
<1>5. Wrong = {}
  <2> SUFFICES ASSUME Wrong # {} PROVE FALSE
    OBVIOUS
  <2>1. PICK m \in Wrong : \A k \in Wrong : m <= k
    <3>1. Wrong \subseteq Nat
      OBVIOUS
    <3> HIDE DEF Wrong
    <3> QED BY <3>1, LeastNumber
  <2>2. m # 0
    BY <1>3
  <2>3. m \in 1 .. N /\ m - 1 \in 0 .. N /\ m - 1 \notin Wrong
    BY <1>1, <2>1, <2>2
  <2> QED BY <1>4, <2>3
<1>6. Right(N)
  <2>1. N \in 0 .. N
    BY <1>1
  <2> QED BY <1>5, <2>1
<1> QED BY <1>2, <1>6 DEF Right, N

(* What may arrive as a body; texts are any strings.                       *)
Written ==
    [scopeType : {"global", "team"}, scopeId : STRING, endpoint : BOOLEAN, transport : BOOLEAN,
     tags : Seq(RawTags(STRING)), teams : Seq(STRING)]

LEMMA ValidatedRow ==
    ASSUME NEW b \in Written
    PROVE  /\ Validated(b).scopeType = b.scopeType
           /\ Validated(b).scopeId = StripScopeId(b.scopeId)
           /\ Validated(b).endpoint = b.endpoint /\ Validated(b).transport = b.transport
           /\ Validated(b).teams = b.teams
           /\ IsInjective(Validated(b).tags)
<1>1. b.tags \in Seq(RawTags(STRING))
  BY DEF Written
<1>2. IsInjective(NormalizeTags(b.tags))
  BY <1>1, TagsKeptOnce DEF EachOnce
<1> QED BY <1>2 DEF Validated, Written

(* The request check and the CHECKs and keys of the database agree on      *)
(* every body but three kinds: "the same rules as the CHECKs"              *)
(* (schemas.py:62-67) let through a global card whose scope_id is blank    *)
(* and a team listed twice, which the database refuses, and refuse a team  *)
(* card with a scope_id of spaces, which it would take.                    *)
THEOREM RulesAgree ==
    ASSUME NEW b \in Written, TagsFit(b.tags)
    PROVE  /\ AcceptedBody(b) =>
                (Stored(Validated(b)) <=>
                   ~(b.scopeType = "global" /\ b.scopeId = " ") /\ IsInjective(b.teams))
           /\ ~AcceptedBody(b) /\ Stored(Validated(b)) =>
                b.scopeType = "team" /\ b.scopeId = " "
<1> DEFINE v == Validated(b)
<1>1. /\ v.scopeType = b.scopeType /\ v.scopeId = StripScopeId(b.scopeId)
      /\ v.endpoint = b.endpoint /\ v.transport = b.transport
      /\ v.teams = b.teams /\ IsInjective(v.tags)
  BY ValidatedRow
<1>2. b.scopeType \in {"global", "team"} /\ b.scopeId \in STRING
  BY DEF Written
<1> HIDE DEF v
<1>3. AcceptedBody(b) <=> Consistent(v)
  BY DEF AcceptedBody, v
<1>4. StripScopeId(b.scopeId) = IF b.scopeId \in {Null, "", " "}
                                THEN IF b.scopeId = " " THEN "" ELSE Null
                                ELSE b.scopeId
  BY DEF StripScopeId, Strip, Truthy, Null
<1> QED
  BY <1>1, <1>2, <1>3, <1>4
     DEF Consistent, Stored, ScopeConsistency, EndpointAnchor, RowsDistinct, Truthy, Null, v
=============================================================================

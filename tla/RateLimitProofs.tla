---------------------------- MODULE RateLimitProofs ----------------------------
(***************************************************************************)
(* The limit for every Limit, Window and Second.  The types hold for any   *)
(* number of threads; the rest for calls that come one at a time (Serial), *)
(* as they do in the "refresh" bucket, which runs on the event loop.       *)
(*                                                                         *)
(* The invariant knows of a counter how many calls it let through since    *)
(* its window started, and that a window's length before that start no     *)
(* more than Limit were.  Any stretch as long as a window is covered by    *)
(* those two or lies before them.                                          *)
(***************************************************************************)
EXTENDS RateLimit, FiniteSetTheorems, TLAPS

(* RateAssumption, piece by piece *)
LEMMA Bounds ==
    /\ Limit \in Nat /\ Limit > 0
    /\ Window \in Nat /\ Window > 0
    /\ Second \in Nat /\ Second > 0
    /\ MaxTime \in Nat
    /\ None \notin [started : Nat, count : Nat]
    /\ None \notin [until : Nat, admitted : Nat]
BY RateAssumption

USE Bounds

Serial == \A t, v \in Threads : t = v

Stages == {"idle", "timed", "read"}

-----------------------------------------------------------------------------
(* Counting the times of a sequence that lie in a stretch *)

In(s, from, to) == {i \in 1 .. Len(s) : s[i] \in from .. to}
Count(s, from, to) == Cardinality(In(s, from, to))

LEMMA AdmittedIsCount ==
    ASSUME NEW u \in Users, NEW from, NEW to
    PROVE  AdmittedWithin(u, from, to) = Count(admitted[u], from, to)
BY DEF AdmittedWithin, Count, In

LEMMA CountType ==
    ASSUME NEW s \in Seq(Nat), NEW from \in Int, NEW to \in Int
    PROVE  IsFiniteSet(In(s, from, to)) /\ Count(s, from, to) \in Nat
<1>1. IsFiniteSet(1 .. Len(s))
  BY FS_Interval
<1>2. In(s, from, to) \in SUBSET (1 .. Len(s))
  BY DEF In
<1> QED
  BY <1>1, <1>2, FS_Subset, FS_CardinalityType DEF Count

(* A stretch that covers another has at least as many times in it. *)
LEMMA CountGrows ==
    ASSUME NEW s \in Seq(Nat), NEW from \in Int, NEW to \in Int,
           NEW first \in Int, NEW last \in Int,
           \A i \in 1 .. Len(s) : s[i] \in from .. to => s[i] \in first .. last
    PROVE  Count(s, from, to) <= Count(s, first, last)
<1>1. In(s, from, to) \in SUBSET In(s, first, last)
  BY DEF In
<1> QED
  BY <1>1, CountType, FS_Subset DEF Count

(* A stretch cut in two *)
LEMMA CountSplits ==
    ASSUME NEW s \in Seq(Nat), NEW from \in Int, NEW mid \in Int, NEW to \in Int
    PROVE  Count(s, from, to) <= Count(s, from, mid - 1) + Count(s, mid, to)
<1> DEFINE A == In(s, from, mid - 1)
           B == In(s, mid, to)
<1>1. IsFiniteSet(A) /\ IsFiniteSet(B) /\ Cardinality(A) \in Nat /\ Cardinality(B) \in Nat
  BY CountType DEF Count
<1>2. /\ IsFiniteSet(A \cup B)
      /\ Cardinality(A \cup B) = Cardinality(A) + Cardinality(B) - Cardinality(A \cap B)
  BY <1>1, FS_Union
<1>3. Cardinality(A \cap B) \in Nat
  BY <1>1, FS_Intersection, FS_CardinalityType
<1>4. In(s, from, to) \in SUBSET (A \cup B)
  BY DEF In
<1>5. Cardinality(In(s, from, to)) <= Cardinality(A \cup B) /\ Cardinality(A \cup B) \in Nat
  BY <1>2, <1>4, FS_Subset, FS_CardinalityType
<1> QED
  BY <1>1, <1>2, <1>3, <1>5, CountType DEF Count

LEMMA CountNone ==
    ASSUME NEW s \in Seq(Nat), NEW from \in Int, NEW to \in Int,
           \A i \in 1 .. Len(s) : s[i] \notin from .. to
    PROVE  Count(s, from, to) = 0
<1>1. In(s, from, to) = {}
  BY DEF In
<1> QED
  BY <1>1, FS_EmptySet DEF Count

(* One more time *)
LEMMA CountAppend ==
    ASSUME NEW s \in Seq(Nat), NEW x \in Nat, NEW from \in Int, NEW to \in Int
    PROVE  /\ x \in from .. to => Count(Append(s, x), from, to) = Count(s, from, to) + 1
           /\ x \notin from .. to => Count(Append(s, x), from, to) = Count(s, from, to)
<1> DEFINE r == Append(s, x)
<1>1. /\ Len(r) = Len(s) + 1 /\ r[Len(s) + 1] = x
      /\ \A i \in 1 .. Len(s) : r[i] = s[i]
  OBVIOUS
<1>2. CASE x \in from .. to
  <2>1. In(r, from, to) = In(s, from, to) \cup {Len(s) + 1}
    BY <1>1, <1>2 DEF In
  <2>2. Len(s) + 1 \notin In(s, from, to)
    BY DEF In
  <2> QED
    BY <1>2, <2>1, <2>2, CountType, FS_AddElement DEF Count
<1>3. CASE x \notin from .. to
  <2>1. In(r, from, to) = In(s, from, to)
    BY <1>1, <1>3 DEF In
  <2> QED
    BY <1>3, <2>1 DEF Count
<1> QED
  BY <1>2, <1>3

-----------------------------------------------------------------------------
(* Types *)

LEMMA CurrentType ==
    ASSUME NEW stored \in Counters \cup {None}, NEW at \in Nat
    PROVE  Current(stored, at) \in Counters
BY DEF Current, Counters

LEMMA RetryAfterLater ==
    ASSUME NEW remaining \in Nat
    PROVE  RetryAfter(remaining) \in Nat /\ RetryAfter(remaining) > remaining
<1> remaining < Second * ((remaining \div Second) + 1)
  BY Z3
<1> Second * ((remaining \div Second) + 1) \in Nat
  OBVIOUS
<1> QED
  BY DEF RetryAfter

(* A call under way has a caller and an open window. *)
CallTyped(t) ==
    /\ call[t].stage # "idle" => call[t].user \in Users
    /\ call[t].stage = "read" => call[t].at < call[t].started + Window

Typed == TypeOK /\ \A t \in Threads : CallTyped(t)

Calls == [stage : Stages, user : Users \cup {None}, at : Nat, started : Nat, count : Nat]

LEMMA InitTyped == Init => Typed
BY DEF Init, Typed, TypeOK, CallTyped, Idle, Counters

LEMMA NextTyped == Typed /\ [Next]_rateVars => Typed'
<1> SUFFICES ASSUME Typed, [Next]_rateVars PROVE Typed'
  OBVIOUS
<1>0. TypeOK /\ call \in [Threads -> Calls] /\ \A t \in Threads : CallTyped(t)
  BY DEF Typed, TypeOK, Calls, Stages
<1>c. ASSUME NEW t \in Threads, NEW c \in Calls, call' = [call EXCEPT ![t] = c],
             c.stage # "idle" => c.user \in Users,
             c.stage = "read" => c.at < c.started + Window
      PROVE  call' \in [Threads -> Calls] /\ \A v \in Threads : CallTyped(v)'
  BY <1>0, <1>c DEF CallTyped
<1>i. Idle \in Calls /\ Idle.stage = "idle"
  BY DEF Idle, Calls, Stages
<1>1. CASE Tick
  BY <1>0, <1>1 DEF Tick, Typed, TypeOK, CallTyped
<1>2. ASSUME NEW t \in Threads, TakeTime(t) PROVE Typed'
  <2>1. PICK u \in Users : call' = [call EXCEPT ![t] = [Idle EXCEPT !.stage = "timed", !.user = u, !.at = now]]
    BY <1>2 DEF TakeTime
  <2>2. /\ [Idle EXCEPT !.stage = "timed", !.user = u, !.at = now] \in Calls
        /\ [Idle EXCEPT !.stage = "timed", !.user = u, !.at = now].stage = "timed"
        /\ [Idle EXCEPT !.stage = "timed", !.user = u, !.at = now].user = u
    BY <1>0 DEF Idle, Calls, Stages, TypeOK
  <2>3. call' \in [Threads -> Calls] /\ \A v \in Threads : CallTyped(v)'
    BY <1>c, <2>1, <2>2
  <2> QED
    BY <1>0, <1>2, <2>3 DEF TakeTime, Typed, TypeOK, Calls, Stages
<1>3. ASSUME NEW t \in Threads, ReadCounter(t) PROVE Typed'
  <2> DEFINE c == Current(counter[call[t].user], call[t].at)
             d == [call[t] EXCEPT !.stage = "read", !.started = c.started, !.count = c.count]
  <2>1. call[t] \in Calls /\ call[t].user \in Users
    BY <1>0, <1>3 DEF ReadCounter, CallTyped
  <2>2. c \in Counters /\ call[t].at < c.started + Window
    BY <1>0, <2>1 DEF Current, Counters, TypeOK, Calls
  <2>3. d \in Calls /\ d.user = call[t].user /\ d.at = call[t].at /\ d.started = c.started
    BY <2>1, <2>2 DEF Calls, Counters, Stages
  <2>4. call' = [call EXCEPT ![t] = d]
    BY <1>0, <1>3, <2>1 DEF ReadCounter
  <2>5. call' \in [Threads -> Calls] /\ \A v \in Threads : CallTyped(v)'
    BY <1>c, <2>1, <2>2, <2>3, <2>4
  <2> QED
    BY <1>0, <1>3, <2>5 DEF ReadCounter, Typed, TypeOK, Calls, Stages
<1>4. ASSUME NEW t \in Threads, Admit(t) PROVE Typed'
  <2>1. call[t] \in Calls /\ call[t].user \in Users
    BY <1>0, <1>4 DEF Admit, CallTyped
  <2>2. call' \in [Threads -> Calls] /\ \A v \in Threads : CallTyped(v)'
    BY <1>4, <1>c, <1>i DEF Admit
  <2>3. counter' \in [Users -> Counters \cup {None}] /\ admitted' \in [Users -> Seq(Nat)]
    BY <1>0, <1>4, <2>1 DEF Admit, Counters, Calls, TypeOK
  <2> QED
    BY <1>0, <1>4, <2>2, <2>3 DEF Admit, Typed, TypeOK, Calls, Stages
<1>5. ASSUME NEW t \in Threads, Refuse(t) PROVE Typed'
  <2>1. call[t] \in Calls /\ call[t].user \in Users /\ call[t].at < call[t].started + Window
    BY <1>0, <1>5 DEF Refuse, CallTyped
  <2>2. call' \in [Threads -> Calls] /\ \A v \in Threads : CallTyped(v)'
    BY <1>5, <1>c, <1>i DEF Refuse
  <2>3. call[t].started + Window - call[t].at \in Nat
    BY <2>1 DEF Calls
  <2>4. RetryAfter(call[t].started + Window - call[t].at) \in Nat
    BY <2>3, RetryAfterLater
  <2>5. admitted[call[t].user] \in Seq(Nat)
    BY <1>0, <2>1 DEF TypeOK
  <2>6. refused' \in [Users -> [until : Nat, admitted : Nat] \cup {None}]
    BY <1>0, <1>5, <2>1, <2>4, <2>5 DEF Refuse, Calls, TypeOK
  <2> QED
    BY <1>0, <1>5, <2>2, <2>6 DEF Refuse, Typed, TypeOK, Calls, Stages
<1>6. CASE UNCHANGED rateVars
  BY <1>0, <1>6 DEF rateVars, Typed, TypeOK, CallTyped
<1> QED
  BY <1>1, <1>2, <1>3, <1>4, <1>5, <1>6 DEF Next

(* Every reachable state is well typed, for any number of threads.        *)
THEOREM TypeCorrect == Spec => []TypeOK
<1>1. Spec => []Typed
  BY InitTyped, NextTyped, PTL DEF Spec
<1>2. Typed => TypeOK
  BY DEF Typed
<1> QED
  BY <1>1, <1>2, PTL

-----------------------------------------------------------------------------
(* One call at a time: what a counter knows of the calls let through *)

CountsItsWindow(s, c) ==
    /\ c.count <= Limit
    /\ Count(s, c.started, c.started + Window - 1) = c.count
    /\ Count(s, c.started - Window, c.started - 1) <= Limit
    /\ \A i \in 1 .. Len(s) : s[i] < c.started + Window

AtMostTwice(s) == \A from \in Nat : Count(s, from, from + Window - 1) <= 2 * Limit

CounterOk(s, c) ==
    /\ c = None => s = <<>>
    /\ c # None => CountsItsWindow(s, c)
    /\ AtMostTwice(s)

(* A window that starts at a call finds nothing in itself, and before it   *)
(* what the last one counted, or less.                                     *)
LEMMA CurrentCounts ==
    ASSUME NEW s \in Seq(Nat), NEW stored \in Counters \cup {None}, NEW at \in Nat,
           CounterOk(s, stored)
    PROVE  CountsItsWindow(s, Current(stored, at))
<1>1. CASE stored # None /\ at < stored.started + Window
  BY <1>1 DEF Current, CounterOk
<1>2. CASE stored = None
  <2>1. Current(stored, at) = [started |-> at, count |-> 0] /\ s = <<>>
    BY <1>2 DEF Current, CounterOk
  <2>2. \A from, to \in Int : Count(s, from, to) = 0
    <3>1. s \in Seq(Nat) /\ \A i \in 1 .. Len(s) : FALSE
      BY <2>1
    <3> QED
      BY <3>1, CountNone
  <2>3. at \in Int /\ at + Window - 1 \in Int /\ at - Window \in Int /\ at - 1 \in Int
    OBVIOUS
  <2>4. Count(s, at, at + Window - 1) = 0 /\ Count(s, at - Window, at - 1) = 0
    BY <2>2, <2>3
  <2> QED
    BY <2>1, <2>4 DEF CountsItsWindow
<1>3. CASE stored # None /\ ~(at < stored.started + Window)
  <2>1. Current(stored, at) = [started |-> at, count |-> 0]
    BY <1>3 DEF Current
  <2>2. stored \in Counters /\ CountsItsWindow(s, stored) /\ stored.started + Window <= at
    BY <1>3 DEF CounterOk, Counters
  <2>3. \A i \in 1 .. Len(s) : s[i] \in Nat /\ s[i] < at
    BY <2>2 DEF CountsItsWindow, Counters
  <2>4. Count(s, at, at + Window - 1) = 0
    <3>1. PICK from, to \in Int : from = at /\ to = at + Window - 1
      OBVIOUS
    <3>2. \A i \in 1 .. Len(s) : s[i] \notin from .. to
      BY <2>3, <3>1
    <3>3. Count(s, from, to) = 0
      BY <3>2, CountNone
    <3> QED
      BY <3>1, <3>3
  <2>5. Count(s, at - Window, at - 1) <= Count(s, stored.started, stored.started + Window - 1)
    <3>1. stored.started \in Nat /\ at \in Nat /\ Window \in Nat
      BY <2>2, RateAssumption DEF Counters
    <3>2. /\ at - Window \in Int /\ at - 1 \in Int
          /\ stored.started \in Int /\ stored.started + Window - 1 \in Int
      BY <3>1
    <3>3. \A i \in 1 .. Len(s) : s[i] < stored.started + Window
      BY <2>2 DEF CountsItsWindow
    <3>4. ASSUME NEW i \in 1 .. Len(s), s[i] \in at - Window .. at - 1
          PROVE  s[i] \in stored.started .. stored.started + Window - 1
      <4>1. s[i] \in Nat /\ at - Window <= s[i] /\ s[i] < stored.started + Window
        BY <2>3, <3>1, <3>3, <3>4
      <4> QED
        BY <2>2, <3>1, <4>1
    <3> QED
      BY <3>2, <3>4, CountGrows
  <2>6. Count(s, at - Window, at - 1) <= Limit
    BY <2>2, <2>5, CountType DEF CountsItsWindow, Counters
  <2> QED
    BY <2>1, <2>3, <2>4, <2>6 DEF CountsItsWindow
<1> QED
  BY <1>1, <1>2, <1>3

(* A stretch that reaches into the window begins less than a window's      *)
(* length before it.                                                       *)
LEMMA StretchCounts ==
    ASSUME NEW r \in Seq(Nat), NEW start \in Nat, NEW from \in Nat,
           start <= from + Window - 1,
           Count(r, start, start + Window - 1) <= Limit,
           Count(r, start - Window, start - 1) <= Limit,
           \A i \in 1 .. Len(r) : r[i] < start + Window
    PROVE  Count(r, from, from + Window - 1) <= 2 * Limit
<1>1. PICK last \in Int : last = from + Window - 1
  OBVIOUS
<1>2. PICK end \in Int : end = start + Window - 1
  OBVIOUS
<1>3. PICK before \in Int : before = start - Window
  OBVIOUS
<1>4. PICK mid \in Int : mid = start - 1
  OBVIOUS
<1>5. Count(r, from, last) <= Count(r, from, mid) + Count(r, start, last)
  BY <1>4, CountSplits
<1>6. Count(r, from, mid) <= Count(r, before, mid)
  <2>1. \A i \in 1 .. Len(r) : r[i] \in from .. mid => r[i] \in before .. mid
    BY <1>3, <1>4
  <2> QED
    BY <2>1, CountGrows
<1>7. Count(r, start, last) <= Count(r, start, end)
  <2>1. \A i \in 1 .. Len(r) : r[i] \in start .. last => r[i] \in start .. end
    BY <1>2
  <2> QED
    BY <2>1, CountGrows
<1>8. /\ Count(r, from, last) \in Nat /\ Count(r, from, mid) \in Nat
      /\ Count(r, start, last) \in Nat /\ Count(r, before, mid) \in Nat
      /\ Count(r, start, end) \in Nat
  BY CountType
<1>9. Count(r, before, mid) <= Limit /\ Count(r, start, end) <= Limit
  BY <1>2, <1>3, <1>4
<1>10. Count(r, from, last) <= 2 * Limit
  BY <1>5, <1>6, <1>7, <1>8, <1>9
<1> QED
  BY <1>1, <1>10

LEMMA AdmitCounts ==
    ASSUME NEW s \in Seq(Nat), NEW at \in Nat, NEW start \in Nat, NEW count \in Nat,
           CountsItsWindow(s, [started |-> start, count |-> count]),
           start <= at, at < start + Window, count < Limit, AtMostTwice(s)
    PROVE  CounterOk(Append(s, at), [started |-> start, count |-> count + 1])
<1>0. Append(s, at) \in Seq(Nat)
  OBVIOUS
<1>1. PICK r \in Seq(Nat) : r = Append(s, at)
  BY <1>0
<1>2. /\ Len(r) = Len(s) + 1 /\ r[Len(s) + 1] = at
      /\ \A i \in 1 .. Len(s) : r[i] = s[i]
  BY <1>1
<1>3. /\ Count(s, start, start + Window - 1) = count
      /\ Count(s, start - Window, start - 1) <= Limit
      /\ \A i \in 1 .. Len(s) : s[i] < start + Window
  BY DEF CountsItsWindow
<1>4. Count(r, start, start + Window - 1) = count + 1
  BY <1>1, <1>3, CountAppend
<1>5. Count(r, start - Window, start - 1) <= Limit
  BY <1>1, <1>3, CountAppend
<1>6. \A i \in 1 .. Len(r) : r[i] < start + Window
  <2> SUFFICES ASSUME NEW i \in 1 .. Len(r) PROVE r[i] < start + Window
    OBVIOUS
  <2>1. i \in 1 .. Len(s) \/ i = Len(s) + 1
    BY <1>2
  <2> QED
    BY <1>2, <1>3, <2>1
<1>7. ASSUME NEW from \in Nat PROVE Count(r, from, from + Window - 1) <= 2 * Limit
  <2>1. CASE from + Window - 1 < start
    <3>1. at \notin from .. from + Window - 1 /\ from + Window - 1 \in Int
      BY <2>1
    <3>2. PICK last \in Int : last = from + Window - 1
      OBVIOUS
    <3>3. Count(r, from, last) = Count(s, from, last)
      BY <1>1, <3>1, <3>2, CountAppend
    <3> QED
      BY <3>2, <3>3 DEF AtMostTwice
  <2>2. CASE start <= from + Window - 1
    BY <1>4, <1>5, <1>6, <2>2, StretchCounts
  <2> QED
    BY <2>1, <2>2
<1>8. [started |-> start, count |-> count + 1] # None
  OBVIOUS
<1>9. CountsItsWindow(r, [started |-> start, count |-> count + 1])
  BY <1>4, <1>5, <1>6 DEF CountsItsWindow
<1>10. AtMostTwice(r)
  BY <1>7 DEF AtMostTwice
<1> QED
  BY <1>1, <1>8, <1>9, <1>10 DEF CounterOk

-----------------------------------------------------------------------------
(* One call at a time: the invariant *)

(* After a 429, the window it spoke of is over before it says so, or the   *)
(* counter has only counted calls let through since.                       *)
RefusalOk(u) ==
    refused[u] # None =>
      /\ counter[u] # None
      /\ refused[u].admitted <= Len(admitted[u])
      /\ \/ counter[u].started + Window < refused[u].until
         \/ counter[u].count + refused[u].admitted <= Len(admitted[u])

UserInv(u) ==
    /\ CounterOk(admitted[u], counter[u])
    /\ \A i \in 1 .. Len(admitted[u]) : admitted[u][i] <= now
    /\ counter[u] # None => counter[u].started <= now
    /\ RefusalOk(u)

CallInv(t) ==
    /\ call[t].stage # "idle" =>
         /\ call[t].at <= now
         /\ counter[call[t].user] # None => counter[call[t].user].started <= call[t].at
    /\ call[t].stage = "read" =>
         Current(counter[call[t].user], call[t].at)
           = [started |-> call[t].started, count |-> call[t].count]

Inv == Typed /\ (\A u \in Users : UserInv(u)) /\ \A t \in Threads : CallInv(t)

LEMMA UserKept ==
    ASSUME NEW u \in Users, UserInv(u), TypeOK, now' \in {now, now + 1},
           counter'[u] = counter[u], admitted'[u] = admitted[u], refused'[u] = refused[u]
    PROVE  UserInv(u)'
<1>1. now \in Nat /\ admitted[u] \in Seq(Nat) /\ counter[u] \in Counters \cup {None}
  BY DEF TypeOK
<1>2. CounterOk(admitted[u], counter[u])'
  BY DEF UserInv, CounterOk, CountsItsWindow, AtMostTwice
<1>3. RefusalOk(u)'
  BY DEF UserInv, RefusalOk
<1>4. \A i \in 1 .. Len(admitted[u]) : admitted[u][i] \in Nat
  BY <1>1
<1> QED
  BY <1>1, <1>2, <1>3, <1>4 DEF UserInv, Counters

LEMMA InitInv == Init => Inv
<1> SUFFICES ASSUME Init PROVE Inv
  OBVIOUS
<1>1. ASSUME NEW u \in Users PROVE UserInv(u)
  <2>1. admitted[u] = <<>> /\ counter[u] = None /\ refused[u] = None
    BY DEF Init
  <2>2. ASSUME NEW from \in Nat PROVE Count(<<>>, from, from + Window - 1) <= 2 * Limit
    <3>1. PICK last \in Int : last = from + Window - 1
      OBVIOUS
    <3>2. <<>> \in Seq(Nat)
      OBVIOUS
    <3>3. PICK s \in Seq(Nat) : s = <<>>
      BY <3>2
    <3>4. \A i \in 1 .. Len(s) : FALSE
      BY <3>3
    <3>5. Count(s, from, last) = 0
      BY <3>4, CountNone
    <3> QED
      BY <3>1, <3>3, <3>5
  <2> QED
    BY <2>1, <2>2 DEF UserInv, CounterOk, AtMostTwice, RefusalOk
<1>2. \A t \in Threads : CallInv(t)
  BY DEF Init, CallInv, Idle
<1> QED
  BY <1>1, <1>2, InitTyped DEF Inv

LEMMA NextInv == Serial /\ Inv /\ [Next]_rateVars => Inv'
<1> SUFFICES ASSUME Serial, Inv, [Next]_rateVars PROVE Inv'
  OBVIOUS
<1>0. /\ Typed /\ TypeOK /\ Typed'
      /\ \A t \in Threads : CallTyped(t)
      /\ \A u \in Users : UserInv(u)
      /\ \A t \in Threads : CallInv(t)
  BY NextTyped DEF Inv, Typed
<1>k. ASSUME UNCHANGED <<counter, admitted, refused>>, now' \in {now, now + 1}
      PROVE  \A u \in Users : UserInv(u)'
  BY <1>0, <1>k, UserKept
<1>t. /\ now \in Nat
      /\ \A t \in Threads : /\ call[t] \in Calls
                            /\ call[t].stage # "idle" =>
                                 /\ call[t].user \in Users
                                 /\ counter[call[t].user] \in Counters \cup {None}
                                 /\ admitted[call[t].user] \in Seq(Nat)
  BY <1>0 DEF TypeOK, CallTyped, Calls, Stages
<1>1. CASE Tick
  <2>1. \A t \in Threads : CallInv(t)'
    BY <1>0, <1>t, <1>1 DEF Tick, CallInv, Calls
  <2> QED
    BY <1>0, <1>k, <1>1, <2>1 DEF Tick, Inv
<1>2. ASSUME NEW t \in Threads, TakeTime(t) PROVE Inv'
  <2>1. PICK u \in Users : call' = [call EXCEPT ![t] = [Idle EXCEPT !.stage = "timed", !.user = u, !.at = now]]
    BY <1>2 DEF TakeTime
  <2>2. call'[t].stage = "timed" /\ call'[t].user = u /\ call'[t].at = now
    BY <1>0, <2>1 DEF TypeOK, Idle
  <2>3. UNCHANGED <<now, counter, admitted, refused>>
    BY <1>2 DEF TakeTime
  <2>4. CallInv(t)'
    BY <1>0, <1>t, <2>2, <2>3 DEF CallInv, UserInv
  <2>5. \A v \in Threads : CallInv(v)'
    BY <2>4 DEF Serial
  <2> QED
    BY <1>0, <1>k, <2>3, <2>5 DEF Inv
<1>3. ASSUME NEW t \in Threads, ReadCounter(t) PROVE Inv'
  <2> DEFINE c == Current(counter[call[t].user], call[t].at)
  <2>1. call[t].stage = "timed" /\ call[t].user \in Users
    BY <1>3, <1>t DEF ReadCounter
  <2>2. /\ call'[t].stage = "read" /\ call'[t].user = call[t].user /\ call'[t].at = call[t].at
        /\ call'[t].started = c.started /\ call'[t].count = c.count
    BY <1>0, <1>3 DEF ReadCounter, TypeOK
  <2>3. UNCHANGED <<now, counter, admitted, refused>>
    BY <1>3 DEF ReadCounter
  <2>4. c \in Counters
    BY <1>t, <2>1, CurrentType DEF Calls
  <2>5. c = [started |-> c.started, count |-> c.count]
    BY <2>4 DEF Counters
  <2>6. c = Current(counter[call[t].user], call[t].at)'
    BY <2>2, <2>3 DEF Current
  <2> HIDE DEF c
  <2>7. CallInv(t)'
    BY <1>0, <2>1, <2>2, <2>3, <2>5, <2>6 DEF CallInv
  <2>8. \A v \in Threads : CallInv(v)'
    BY <2>7 DEF Serial
  <2> QED
    BY <1>0, <1>k, <2>3, <2>8 DEF Inv
<1>4. ASSUME NEW t \in Threads, Admit(t) PROVE Inv'
  <2>u. call[t].user \in Users /\ call[t].at \in Nat
    BY <1>t, <1>4 DEF Admit, Calls
  <2>v. PICK u \in Users, at \in Nat : u = call[t].user /\ at = call[t].at
    BY <2>u
  <2>w. PICK d : d = [started |-> call[t].started, count |-> call[t].count + 1]
    OBVIOUS
  <2>1. /\ call[t].stage = "read" /\ u \in Users /\ call[t].count < Limit
        /\ at \in Nat /\ at <= now /\ call[t].started \in Nat /\ call[t].count \in Nat
        /\ at < call[t].started + Window
        /\ counter[u] # None => counter[u].started <= at
        /\ Current(counter[u], at) = [started |-> call[t].started, count |-> call[t].count]
        /\ admitted[u] \in Seq(Nat) /\ counter[u] \in Counters \cup {None}
        /\ UserInv(u)
    BY <1>0, <1>t, <1>4, <2>v DEF Admit, CallInv, CallTyped, Calls
  <2>2. /\ counter'[u] = d /\ admitted'[u] = Append(admitted[u], at)
        /\ \A v \in Users \ {u} : counter'[v] = counter[v] /\ admitted'[v] = admitted[v]
        /\ refused' = refused /\ now' = now /\ call'[t].stage = "idle"
    BY <1>0, <1>4, <2>1, <2>v, <2>w DEF Admit, TypeOK, Idle
  <2>3. call[t].started <= at
    BY <2>1 DEF Current
  <2>4. CountsItsWindow(admitted[u], [started |-> call[t].started, count |-> call[t].count])
    BY <2>1, CurrentCounts DEF UserInv
  <2>5. CounterOk(Append(admitted[u], at), d)
    BY <2>1, <2>3, <2>4, <2>w, AdmitCounts DEF UserInv, CounterOk
  <2>6. CounterOk(admitted[u], counter[u])'
    BY <2>2, <2>5 DEF CounterOk, CountsItsWindow, AtMostTwice
  <2>7. /\ Len(admitted'[u]) = Len(admitted[u]) + 1
        /\ \A i \in 1 .. Len(admitted'[u]) : admitted'[u][i] <= now'
    BY <2>1, <2>2 DEF UserInv
  <2>8. RefusalOk(u)'
    <3>1. CASE refused[u] = None
      BY <2>2, <3>1 DEF RefusalOk
    <3>2. CASE refused[u] # None
      <4>1. /\ counter[u] \in Counters /\ refused[u] \in [until : Nat, admitted : Nat]
            /\ refused[u].admitted <= Len(admitted[u]) /\ Len(admitted[u]) \in Nat
        BY <1>0, <2>1, <3>2 DEF UserInv, RefusalOk, TypeOK
      <4>2. counter'[u] # None /\ counter'[u].started = call[t].started
            /\ counter'[u].count = call[t].count + 1 /\ refused'[u] = refused[u]
        BY <2>1, <2>2, <2>w
      <4>3. CASE call[t].started = counter[u].started /\ call[t].count = counter[u].count
        BY <2>1, <2>7, <3>2, <4>1, <4>2, <4>3 DEF UserInv, RefusalOk, Counters
      <4>4. CASE call[t].count = 0
        <5>1. refused'[u].admitted + 1 <= Len(admitted'[u])
          BY <2>7, <4>1, <4>2
        <5>2. counter'[u].count = 1
          BY <4>2, <4>4
        <5> QED
          BY <4>1, <4>2, <5>1, <5>2 DEF RefusalOk
      <4>5. counter[u] = [started |-> call[t].started, count |-> call[t].count]
              \/ [started |-> at, count |-> 0] = [started |-> call[t].started, count |-> call[t].count]
        BY <2>1 DEF Current
      <4> QED
        BY <4>3, <4>4, <4>5
    <3> QED
      BY <3>1, <3>2
  <2>9. counter'[u] # None => counter'[u].started <= now'
    <3>1. counter'[u].started = call[t].started /\ now' = now
      BY <2>2, <2>w
    <3>2. at \in Nat /\ call[t].started \in Nat /\ now \in Nat /\ at <= now
      BY <1>t, <2>1
    <3> QED
      BY <2>3, <3>1, <3>2
  <2>10. UserInv(u)'
    BY <2>6, <2>7, <2>8, <2>9 DEF UserInv
  <2>11. ASSUME NEW v \in Users \ {u} PROVE UserInv(v)'
    BY <1>0, <2>2, UserKept
  <2>12. \A v \in Threads : CallInv(v)'
    BY <2>2 DEF Serial, CallInv
  <2> QED
    BY <1>0, <2>10, <2>11, <2>12 DEF Inv
<1>5. ASSUME NEW t \in Threads, Refuse(t) PROVE Inv'
  <2>u. call[t].user \in Users /\ call[t].at \in Nat
    BY <1>t, <1>5 DEF Refuse, Calls
  <2>v. PICK u \in Users, at \in Nat : u = call[t].user /\ at = call[t].at
    BY <2>u
  <2>w. PICK remaining : remaining = call[t].started + Window - at
    OBVIOUS
  <2>1. /\ call[t].stage = "read" /\ u \in Users /\ call[t].count >= Limit
        /\ at \in Nat /\ call[t].started \in Nat /\ call[t].count \in Nat
        /\ at < call[t].started + Window
        /\ Current(counter[u], at) = [started |-> call[t].started, count |-> call[t].count]
        /\ admitted[u] \in Seq(Nat)
        /\ UserInv(u)
    BY <1>0, <1>t, <1>5, <2>v DEF Refuse, CallInv, CallTyped, Calls
  <2>2. /\ refused'[u] = [until |-> at + RetryAfter(remaining), admitted |-> Len(admitted[u])]
        /\ \A v \in Users \ {u} : refused'[v] = refused[v]
        /\ UNCHANGED <<now, counter, admitted>> /\ call'[t].stage = "idle"
    BY <1>0, <1>5, <2>1, <2>v, <2>w DEF Refuse, TypeOK, Idle
  <2>3. counter[u] # None /\ counter[u].started = call[t].started
    BY <2>1 DEF Current
  <2>4. RetryAfter(remaining) \in Nat /\ RetryAfter(remaining) > remaining
    <3>1. remaining \in Nat
      BY <2>1, <2>w
    <3> QED
      BY <3>1, RetryAfterLater
  <2>5. refused'[u].until > call[t].started + Window /\ refused'[u].admitted = Len(admitted[u])
    BY <2>1, <2>2, <2>4, <2>w
  <2>6. RefusalOk(u)'
    BY <2>1, <2>2, <2>3, <2>5 DEF RefusalOk
  <2>7. UserInv(u)'
    BY <2>1, <2>2, <2>6 DEF UserInv, CounterOk, CountsItsWindow, AtMostTwice
  <2>8. ASSUME NEW v \in Users \ {u} PROVE UserInv(v)'
    BY <1>0, <2>2, UserKept
  <2>9. \A v \in Threads : CallInv(v)'
    BY <2>2 DEF Serial, CallInv
  <2> QED
    BY <1>0, <2>7, <2>8, <2>9 DEF Inv
<1>6. CASE UNCHANGED rateVars
  <2>1. \A t \in Threads : CallInv(t)'
    BY <1>0, <1>6 DEF rateVars, CallInv, Current
  <2> QED
    BY <1>0, <1>k, <1>6, <2>1 DEF rateVars, Inv
<1> QED
  BY <1>1, <1>2, <1>3, <1>4, <1>5, <1>6 DEF Next

LEMMA InvHolds ==
    ASSUME Serial
    PROVE  Spec => []Inv
<1>1. Inv /\ [Next]_rateVars => Inv'
  BY NextInv
<1> QED
  BY <1>1, InitInv, PTL DEF Spec

-----------------------------------------------------------------------------
(* What the limit promises when calls come one at a time *)

(* No stretch as long as a window lets more than twice the limit through   *)
(* (rate_limit.py:35).                                                     *)
THEOREM TwiceAtMost ==
    ASSUME Serial
    PROVE  Spec => []TwiceTheLimitAtMost
<1>1. Inv => TwiceTheLimitAtMost
  <2> SUFFICES ASSUME Inv, NEW u \in Users, NEW from \in 0 .. now
               PROVE  AdmittedWithin(u, from, from + Window - 1) <= 2 * Limit
    BY DEF TwiceTheLimitAtMost
  <2>1. from \in Nat /\ AtMostTwice(admitted[u])
    BY DEF Inv, UserInv, CounterOk, Typed, TypeOK
  <2>2. PICK last \in Int : last = from + Window - 1
    BY <2>1
  <2>3. AdmittedWithin(u, from, last) = Count(admitted[u], from, last)
    BY AdmittedIsCount
  <2> QED
    BY <2>1, <2>2, <2>3 DEF AtMostTwice
<1> QED
  BY <1>1, InvHolds, PTL

(* A call that is refused was under way, and this was Refuse. *)
LEMMA RefusalIsRefuse ==
    ASSUME Serial, Inv, [Next]_rateVars, NEW t \in Threads, Refuses(t)
    PROVE  Refuse(t)
<1>1. ~Tick /\ ~UNCHANGED rateVars
  BY DEF Tick, Refuses, rateVars
<1>2. ASSUME NEW v \in Threads PROVE ~TakeTime(v) /\ ~ReadCounter(v) /\ ~Admit(v)
  <2>1. v = t
    BY DEF Serial
  <2>2. ASSUME Admit(t) PROVE FALSE
    <3>1. /\ call[t].user \in Users /\ admitted \in [Users -> Seq(Nat)] /\ call[t].at \in Nat
      BY DEF Refuses, Inv, Typed, TypeOK, CallTyped
    <3>2. PICK s \in Seq(Nat) : s = admitted[call[t].user]
      BY <3>1
    <3>3. admitted'[call[t].user] = Append(s, call[t].at)
      BY <2>2, <3>1, <3>2 DEF Admit
    <3>4. Len(Append(s, call[t].at)) = Len(s) + 1 /\ Len(s) \in Nat
      BY <3>1
    <3> QED
      BY <3>2, <3>3, <3>4 DEF Refuses
  <2> QED
    BY <2>1, <2>2 DEF TakeTime, ReadCounter, Refuses
<1>3. PICK v \in Threads : Refuse(v)
  BY <1>1, <1>2 DEF Next
<1> QED
  BY <1>3 DEF Serial

(* What is known where a call is refused *)
LEMMA RefusedKnows ==
    ASSUME Inv, NEW t \in Threads, Refuse(t)
    PROVE  /\ call[t].user \in Users /\ call[t].at \in Nat
           /\ counter[call[t].user] \in Counters
           /\ call[t].at < counter[call[t].user].started + Window
           /\ counter[call[t].user].count >= Limit
           /\ UserInv(call[t].user)
<1>1. /\ call[t].stage = "read" /\ call[t].count >= Limit /\ call[t].user \in Users
      /\ call[t].at \in Nat /\ call[t].count \in Nat
      /\ Current(counter[call[t].user], call[t].at)
           = [started |-> call[t].started, count |-> call[t].count]
      /\ counter[call[t].user] \in Counters \cup {None}
  BY DEF Refuse, Inv, Typed, TypeOK, CallTyped, CallInv
<1>2. counter[call[t].user] # None /\ call[t].at < counter[call[t].user].started + Window
  BY <1>1 DEF Current
<1>3. counter[call[t].user].count = call[t].count
  BY <1>1, <1>2 DEF Current
<1> QED
  BY <1>1, <1>2, <1>3 DEF Inv

(* A call is refused only when Limit calls of the same user passed within  *)
(* a window's length before it (rate_limit.py:35-52).                      *)
THEOREM RefusalsHaveCause ==
    ASSUME Serial
    PROVE  Spec => RefusedForCause
<1> DEFINE Cause == \A t \in Threads : Refuses(t) =>
             AdmittedWithin(call[t].user, (call[t].at - Window) + 1, now) >= Limit
<1>1. Inv /\ [Next]_rateVars => Cause
  <2> SUFFICES ASSUME Inv, [Next]_rateVars, NEW t \in Threads, Refuses(t)
               PROVE  AdmittedWithin(call[t].user, (call[t].at - Window) + 1, now) >= Limit
    OBVIOUS
  <2>1. Refuse(t)
    BY RefusalIsRefuse
  <2>2. PICK u \in Users : u = call[t].user
    BY <2>1, RefusedKnows
  <2>3. PICK s \in Seq(Nat), c \in Counters : s = admitted[u] /\ c = counter[u]
    BY <2>1, <2>2, RefusedKnows DEF Inv, Typed, TypeOK
  <2>4. PICK first \in Int, start \in Nat, end \in Int :
           first = (call[t].at - Window) + 1 /\ start = c.started /\ end = start + Window - 1
    BY <2>1, <2>3, RefusedKnows DEF Counters
  <2>5. /\ UserInv(u) /\ c # None /\ c.count >= Limit /\ c.count \in Nat
        /\ call[t].at < start + Window /\ call[t].at \in Nat
    BY <2>1, <2>2, <2>3, <2>4, RefusedKnows DEF Counters
  <2>6. Count(s, start, end) = c.count
    BY <2>3, <2>4, <2>5 DEF UserInv, CounterOk, CountsItsWindow
  <2>7. now \in Nat /\ \A i \in 1 .. Len(s) : s[i] <= now /\ s[i] \in Nat
    BY <2>3, <2>5 DEF UserInv, Inv, Typed, TypeOK
  <2>8. first <= start
    BY <2>4, <2>5
  <2>9. \A i \in 1 .. Len(s) : s[i] \in start .. end => s[i] \in first .. now
    BY <2>7, <2>8
  <2>10. Count(s, start, end) <= Count(s, first, now)
    BY <2>7, <2>9, CountGrows
  <2>11. Count(s, first, now) \in Nat
    BY <2>7, CountType
  <2>12. AdmittedWithin(u, first, now) = Count(s, first, now)
    BY <2>3, AdmittedIsCount
  <2>13. AdmittedWithin(u, first, now) >= Limit
    BY <2>5, <2>6, <2>10, <2>11, <2>12
  <2> QED
    BY <2>2, <2>4, <2>13
<1>2. Spec => [][Cause]_rateVars
  BY <1>1, InvHolds, PTL DEF Spec
<1> QED
  BY <1>2 DEF RefusedForCause

(* Whoever waits as long as Retry-After said is refused again only after   *)
(* Limit further calls of the same user passed (rate_limit.py:49).         *)
THEOREM WaitingSuffices ==
    ASSUME Serial
    PROVE  Spec => RetryAfterSuffices
<1> DEFINE Suffices == \A t \in Threads :
             LET u == call[t].user
             IN  Refuses(t) /\ refused[u] # None /\ call[t].at >= refused[u].until
                   => Len(admitted[u]) >= refused[u].admitted + Limit
<1>1. Inv /\ [Next]_rateVars => Suffices
  <2> SUFFICES ASSUME Inv, [Next]_rateVars, NEW t \in Threads, Refuses(t),
                      refused[call[t].user] # None,
                      call[t].at >= refused[call[t].user].until
               PROVE  Len(admitted[call[t].user]) >= refused[call[t].user].admitted + Limit
    OBVIOUS
  <2>1. Refuse(t)
    BY RefusalIsRefuse
  <2>2. PICK u \in Users : u = call[t].user
    BY <2>1, RefusedKnows
  <2>3. /\ counter[u] \in Counters /\ call[t].at \in Nat /\ counter[u].count >= Limit
        /\ call[t].at < counter[u].started + Window /\ RefusalOk(u)
    BY <2>1, <2>2, RefusedKnows DEF UserInv
  <2>4. /\ refused[u] \in [until : Nat, admitted : Nat] /\ Len(admitted[u]) \in Nat
    BY <2>2 DEF Inv, Typed, TypeOK
  <2>5. /\ call[t].at >= refused[u].until
        /\ refused[u].until \in Nat /\ refused[u].admitted \in Nat
        /\ counter[u].started \in Nat /\ counter[u].count \in Nat
    BY <2>2, <2>3, <2>4 DEF Counters
  <2>6. counter[u].count + refused[u].admitted <= Len(admitted[u])
    BY <2>2, <2>3, <2>5 DEF RefusalOk
  <2> QED
    BY <2>2, <2>3, <2>4, <2>5, <2>6
<1>2. Spec => [][Suffices]_rateVars
  BY <1>1, InvHolds, PTL DEF Spec
<1> QED
  BY <1>2 DEF RetryAfterSuffices
=============================================================================

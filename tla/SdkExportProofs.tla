--------------------------- MODULE SdkExportProofs ---------------------------
(***************************************************************************)
(* Theorems about SdkExport, for every capacity, every number of payloads  *)
(* and every number of background transitions and restarts.                *)
(***************************************************************************)
EXTENDS SdkExport, SequenceTheorems, FiniteSetTheorems, TLAPS

(* What the pipeline's sequences are made of survives Append and Tail.      *)
LEMMA TailInSeq ==
    ASSUME NEW S, NEW s \in Seq(S), s # <<>>
    PROVE  /\ Tail(s) \in Seq(S)
           /\ Len(Tail(s)) = Len(s) - 1
           /\ Head(s) \in S
  BY HeadTailProperties

(* ... and Append.                                                          *)
LEMMA AppendInSeq ==
    ASSUME NEW S, NEW s \in Seq(S), NEW e \in S
    PROVE  /\ Append(s, e) \in Seq(S)
           /\ Len(Append(s, e)) = Len(s) + 1
           /\ Append(s, e) # <<>>
  BY AppendProperties

(* The elements of a sequence are of its kind.                              *)
LEMMA ElementsInSeq ==
    ASSUME NEW S, NEW s \in Seq(S)
    PROVE  Elements(s) \subseteq S
  BY DEF Elements

-----------------------------------------------------------------------------
(* Type correctness: every action of the pipeline preserves TypeOK, the     *)
(* capacity of the ring buffer included.                                    *)
LEMMA TypeStep == TypeOK /\ [Next]_vars => TypeOK'
<1> SUFFICES ASSUME TypeOK, [Next]_vars PROVE TypeOK'
    OBVIOUS
<1> USE CapacityAssumption, BoundsAssumption
<1>1. CASE Start
    BY <1>1 DEF Start, TypeOK, ringVars, flushVars, httpVars, dropVars
<1>2. CASE Push
  <2> DEFINE p == pushed + 1
  <2>1. p \in Payloads
      BY <1>2 DEF Push, TypeOK, Payloads
  <2>2. CASE Len(buffer) >= Capacity
    <3>1. buffer # <<>>
        BY <2>2 DEF TypeOK
    <3>2. Tail(buffer) \in Seq(Payloads) /\ Len(Tail(buffer)) = Len(buffer) - 1
        BY <3>1, TailInSeq DEF TypeOK
    <3>3. buffer' \in Seq(Payloads) /\ Len(buffer') = Len(buffer)
      <4>1. buffer' = Append(Tail(buffer), p)
          BY <1>2, <2>2 DEF Push
      <4>2. Len(Append(Tail(buffer), p)) = Len(Tail(buffer)) + 1
          BY <2>1, <3>2, AppendInSeq
      <4>3. Append(Tail(buffer), p) \in Seq(Payloads)
          BY <2>1, <3>2, AppendInSeq
      <4> QED BY <3>2, <4>1, <4>2, <4>3 DEF TypeOK
    <3>4. fate' \in [Payloads -> Fates]
        BY <1>2, <2>2 DEF Push, TypeOK, Fates
    <3> QED
        BY <1>2, <2>1, <2>2, <3>3, <3>4
        DEF Push, TypeOK, Payloads, flushVars, httpVars, appVars
  <2>3. CASE ~(Len(buffer) >= Capacity)
    <3>1. buffer' \in Seq(Payloads) /\ Len(buffer') = Len(buffer) + 1
      <4>1. buffer' = Append(buffer, p)
          BY <1>2, <2>3 DEF Push
      <4> HIDE DEF p
      <4> QED BY <2>1, <4>1, AppendInSeq DEF TypeOK
    <3>2. fate' \in [Payloads -> Fates]
        BY <1>2, <2>3 DEF Push, TypeOK, Fates
    <3>3. Len(buffer') <= Capacity
        BY <2>3, <3>1 DEF TypeOK
    <3> QED
        BY <1>2, <2>1, <2>3, <3>1, <3>2, <3>3
        DEF Push, TypeOK, Payloads, flushVars, httpVars, appVars
  <2> QED BY <2>2, <2>3
<1>3. CASE TimerFire
  <2>1. flushQueue' \in Seq(Tasks)
      BY <1>3, AppendInSeq DEF TimerFire, TypeOK, Tasks
  <2> QED
      BY <1>3, <2>1
      DEF TimerFire, TypeOK, ringVars, flushVars, httpVars, appVars, dropVars
<1>4. CASE Drain
  <2>1. flushQueue' \in Seq(Tasks)
      BY <1>4, TailInSeq DEF Drain, TypeOK
  <2>2. buffer' \in Seq(Payloads) /\ Len(buffer') <= Capacity
      BY <1>4 DEF Drain
  <2> QED
      BY <1>4, <2>1, <2>2 DEF Drain, TypeOK, httpVars, appVars, dropVars
<1>5. CASE ConsumeDroppedCount
    BY <1>5 DEF ConsumeDroppedCount, TypeOK, httpVars, appVars, dropVars
<1>6. CASE SendNext
  <2>1. batch # <<>>
      BY <1>6 DEF SendNext, TypeOK
  <2>2. /\ batch' \in Seq(Payloads) /\ Len(batch') = Len(batch) - 1
        /\ Head(batch) \in Payloads
      BY <1>6, <2>1, TailInSeq DEF SendNext, TypeOK
  <2>3. exportQueue' \in Seq(Request)
      BY <1>6, <2>2, AppendInSeq
      DEF SendNext, TypeOK, Request, tagWithDroppedCount
  <2>4. (batch' = <<>>) <=> (flushPc' = "idle")
    <3>1. Len(batch) \in Nat /\ Len(batch) # 0
        BY <2>1 DEF TypeOK
    <3>2. batch' = <<>> <=> Len(batch') = 0
        BY <2>2
    <3> QED BY <1>6, <2>2, <3>1, <3>2 DEF SendNext
  <2> QED
      BY <1>6, <2>2, <2>3, <2>4 DEF SendNext, TypeOK, ringVars, appVars
<1>7. CASE SendNow
  <2>1. exportQueue' \in Seq(Request) /\ Head(exportQueue) \in Request
      BY <1>7, TailInSeq DEF SendNow, TypeOK
  <2>2. inFlight' \subseteq Request
      BY <1>7, <2>1 DEF SendNow, TypeOK
  <2>3. fate' \in [Payloads -> Fates] /\ unreported' \in Nat
      BY <1>7, <2>1 DEF SendNow, TypeOK, Fates, Request
  <2> QED
      BY <1>7, <2>1, <2>2, <2>3
      DEF SendNow, TypeOK, ringVars, flushVars, appVars
<1>8. ASSUME NEW req \in inFlight, PostSucceeds(req) PROVE TypeOK'
    BY <1>8 DEF PostSucceeds, TypeOK, Fates, ringVars, flushVars, appVars,
                dropVars
<1>9. ASSUME NEW req \in inFlight, PostFails(req) PROVE TypeOK'
  <2>1. unreported' \in Nat
    <3>1. req.dropped \in Nat
        BY DEF TypeOK, Request
    <3> QED BY <1>9, <3>1 DEF PostFails, TypeOK
  <2>2. fate' \in [Payloads -> Fates]
      BY <1>9 DEF PostFails, TypeOK, Fates
  <2>3. inFlight' \subseteq Request
      BY <1>9 DEF PostFails, TypeOK
  <2> QED
      BY <1>9, <2>1, <2>2, <2>3 DEF PostFails, TypeOK, ringVars, flushVars, appVars
<1>10. CASE EnterBackground
  <2>1. flushQueue' \in Seq(Tasks)
      BY <1>10, AppendInSeq DEF EnterBackground, TypeOK, Tasks
  <2>2. barrier' \subseteq Payloads
      BY <1>10, ElementsInSeq DEF EnterBackground, TypeOK
  <2> QED
      BY <1>10, <2>1, <2>2
      DEF EnterBackground, TypeOK, ringVars, flushVars, httpVars, dropVars
<1>11. CASE WaitUntilIdle
  <2>1. flushQueue' \in Seq(Tasks)
      BY <1>11, AppendInSeq DEF WaitUntilIdle, TypeOK, Tasks
  <2> QED
      BY <1>11, <2>1
      DEF WaitUntilIdle, TypeOK, ringVars, flushVars, httpVars, dropVars
<1>12. CASE Signal
  <2>1. flushQueue' \in Seq(Tasks)
      BY <1>12, TailInSeq DEF Signal, TypeOK
  <2>2. app' \in {"background", app}
      BY <1>12 DEF Signal
  <2> QED
      BY <1>12, <2>1, <2>2
      DEF Signal, TypeOK, ringVars, flushVars, httpVars, dropVars
<1>13. CASE WaitTimesOut
    BY <1>13
    DEF WaitTimesOut, TypeOK, ringVars, flushVars, httpVars, dropVars
<1>14. CASE Suspend
    BY <1>14 DEF Suspend, TypeOK, ringVars, flushVars, httpVars, dropVars
<1>15. CASE Foreground
    BY <1>15 DEF Foreground, TypeOK, ringVars, flushVars, httpVars, dropVars
<1>16. CASE Kill
  <2>1. fate' \in [Payloads -> Fates]
    <3>1. PICK arrived \in SUBSET inFlight :
            fate' = [p \in Payloads |->
                       IF fate[p] # "held" THEN fate[p]
                       ELSE IF \E req \in arrived : req.id = p THEN "delivered"
                       ELSE "killed"]
        BY <1>16 DEF Kill
    <3> QED BY <3>1 DEF TypeOK, Fates
  <2> QED
      BY <1>16, <2>1 DEF Kill, TypeOK
<1>17. CASE UNCHANGED vars
    BY <1>17
    DEF vars, TypeOK, ringVars, flushVars, httpVars, appVars, dropVars
<1> QED
    BY <1>1, <1>2, <1>3, <1>4, <1>5, <1>6, <1>7, <1>8, <1>9, <1>10, <1>11,
       <1>12, <1>13, <1>14, <1>15, <1>16, <1>17 DEF Next

(* The SDK's pipeline is well typed in every reachable state; in particular *)
(* the ring buffer never holds more than its capacity.                      *)
THEOREM TypeCorrect == Spec => []TypeOK
<1>1. Init => TypeOK
  <2> SUFFICES ASSUME Init PROVE TypeOK
      OBVIOUS
  <2>1. fate \in [Payloads -> Fates]
      BY DEF Init, Fates
  <2> QED
      BY <2>1, CapacityAssumption, BoundsAssumption DEF Init, TypeOK
<1> QED
    BY <1>1, TypeStep, PTL DEF Spec

-----------------------------------------------------------------------------
(* The two facts about the dropped counter, proved together with the types  *)
(* they need: each action moves a count from one place to the next.         *)
CountInv == TypeOK /\ DropAccounting /\ DropNeverStranded /\ (tag > 0 => flushPc = "sending")

(* Every critical section, send and failure keeps it.                       *)
LEMMA CountStep == CountInv /\ [Next]_vars => CountInv'
<1> SUFFICES ASSUME CountInv, [Next]_vars PROVE CountInv'
    OBVIOUS
<1>t. TypeOK
    BY DEF CountInv
<1>u. TypeOK'
    BY TypeStep DEF CountInv
<1> USE <1>t, <1>u DEF CountInv, DropAccounting, DropNeverStranded
<1>1. CASE Push
  <2>1. buffer' # <<>>
    <3>1. pushed + 1 \in Payloads
        BY <1>1 DEF Push, TypeOK, Payloads
    <3>2. CASE Len(buffer) >= Capacity
      <4>1. buffer # <<>>
        <5>1. Len(buffer) # 0
            BY ONLY <1>t, <3>2, CapacityAssumption DEF TypeOK
        <5> QED BY <5>1
      <4>2. Tail(buffer) \in Seq(Payloads)
          BY <4>1, TailInSeq DEF TypeOK
      <4>3. buffer' = Append(Tail(buffer), pushed + 1)
          BY <1>1, <3>2 DEF Push
      <4> QED BY <3>1, <4>2, <4>3, AppendInSeq
    <3>3. CASE ~(Len(buffer) >= Capacity)
      <4>1. buffer' = Append(buffer, pushed + 1)
          BY <1>1, <3>3 DEF Push
      <4> QED BY <3>1, <4>1, AppendInSeq DEF TypeOK
    <3> QED BY <3>2, <3>3
  <2>2. /\ tag' = tag /\ flushPc' = flushPc
        /\ stamped' = stamped /\ forgotten' = forgotten
      BY <1>1 DEF Push, flushVars
  <2>3. DropAccounting'
    <3>1. /\ droppedCount \in Nat /\ evictions \in Nat
          /\ tag \in Nat /\ stamped \in Nat /\ forgotten \in Nat
        BY DEF TypeOK
    <3>2. CASE Len(buffer) >= Capacity
      <4>1. droppedCount' = droppedCount + 1 /\ evictions' = evictions + 1
          BY <1>1, <3>2 DEF Push
      <4> QED BY <2>2, <3>1, <4>1
    <3>3. CASE ~(Len(buffer) >= Capacity)
      <4>1. droppedCount' = droppedCount /\ evictions' = evictions
          BY <1>1, <3>3 DEF Push
      <4> QED BY <2>2, <3>1, <4>1
    <3> QED BY <3>2, <3>3
  <2> QED BY <2>1, <2>2, <2>3
<1>2. CASE Drain
    BY <1>2 DEF Drain, TypeOK, dropVars
<1>3. CASE ConsumeDroppedCount
    BY <1>3 DEF ConsumeDroppedCount, TypeOK, dropVars
<1>4. CASE SendNext
    BY <1>4 DEF SendNext, TypeOK, ringVars
<1>5. CASE SendNow
    BY <1>5 DEF SendNow, TypeOK, ringVars, flushVars
<1>6. CASE Kill
    BY <1>6 DEF Kill, TypeOK
<1>7. CASE UNCHANGED <<ringVars, flushVars, evictions, stamped, forgotten>>
    BY <1>7 DEF ringVars, flushVars
<1> QED
  <2>1. ASSUME NEW req \in inFlight, PostSucceeds(req) \/ PostFails(req)
        PROVE  UNCHANGED <<ringVars, flushVars, evictions, stamped, forgotten>>
      BY <2>1 DEF PostSucceeds, PostFails, dropVars
  <2>2. Start \/ TimerFire \/ EnterBackground \/ WaitUntilIdle \/ Signal
          \/ WaitTimesOut \/ Suspend \/ Foreground \/ UNCHANGED vars
        => UNCHANGED <<ringVars, flushVars, evictions, stamped, forgotten>>
      BY DEF Start, TimerFire, EnterBackground, WaitUntilIdle, Signal,
             WaitTimesOut, Suspend, Foreground, vars, dropVars
  <2> QED
      BY <1>1, <1>2, <1>3, <1>4, <1>5, <1>6, <1>7, <2>1, <2>2 DEF Next

(* So it holds throughout.                                                  *)
LEMMA CountInvariant == Spec => []CountInv
<1>1. Init => CountInv
  <2>1. Init => TypeOK
    <3> SUFFICES ASSUME Init PROVE TypeOK
        OBVIOUS
    <3>1. fate \in [Payloads -> Fates]
        BY DEF Init, Fates
    <3> QED
        BY <3>1, CapacityAssumption, BoundsAssumption DEF Init, TypeOK
  <2> QED
      BY <2>1 DEF Init, CountInv, DropAccounting, DropNeverStranded
<1> QED
    BY <1>1, CountStep, PTL DEF Spec

(* Every eviction is counted exactly once, wherever its count is: the drop  *)
(* counter is never doubled and never zeroed without being carried on; and  *)
(* a non-zero counter always has a buffered payload to ride on, so that the *)
(* early return of drainAndSend on an empty buffer strands no count.        *)
THEOREM DropsAccounted == Spec => []DropCountKept
<1>1. CountInv => DropCountKept
    BY DEF CountInv, DropCountKept
<1> QED BY <1>1, CountInvariant, PTL

-----------------------------------------------------------------------------
(* What the sequences of the pipeline hold, and their order.                *)

Increasing(s) == \A i, j \in 1 .. Len(s) : i < j => s[i] < s[j]
Before(S, T)  == \A a \in S, b \in T : a < b
Ids(q)        == [i \in 1 .. Len(q) |-> q[i].id]

(* Append adds one element.                                                 *)
LEMMA ElementsAppend ==
    ASSUME NEW S, NEW s \in Seq(S), NEW e \in S
    PROVE  Elements(Append(s, e)) = Elements(s) \cup {e}
<1> DEFINE t == Append(s, e)
<1>1. /\ Len(s) \in Nat /\ Len(t) = Len(s) + 1
      /\ \A i \in 1 .. Len(s) : t[i] = s[i]
      /\ t[Len(s) + 1] = e
    BY AppendProperties
<1> HIDE DEF t
<1>2. 1 .. Len(t) = (1 .. Len(s)) \cup {Len(s) + 1}
    BY <1>1
<1> QED BY <1>1, <1>2 DEF Elements, t

(* The head and the tail have the elements between them.                    *)
LEMMA ElementsTail ==
    ASSUME NEW S, NEW s \in Seq(S), s # <<>>
    PROVE  Elements(s) = {Head(s)} \cup Elements(Tail(s))
<1> DEFINE t == Tail(s)
<1>1. /\ Len(s) \in Nat \ {0} /\ Len(t) = Len(s) - 1
      /\ \A i \in 1 .. Len(t) : t[i] = s[i + 1]
      /\ Head(s) = s[1]
    BY HeadTailProperties, EmptySeq
<1> HIDE DEF t
<1>2. Elements(s) \subseteq {Head(s)} \cup Elements(t)
  <2> SUFFICES ASSUME NEW i \in 1 .. Len(s) PROVE s[i] \in {Head(s)} \cup Elements(t)
      BY DEF Elements
  <2>1. CASE i = 1
      BY <1>1, <2>1
  <2>2. CASE i # 1
    <3>1. i - 1 \in 1 .. Len(t) /\ t[i - 1] = s[i]
        BY <1>1, <2>2
    <3> QED BY <3>1 DEF Elements
  <2> QED BY <2>1, <2>2
<1>3. Elements(t) \subseteq Elements(s)
  <2> SUFFICES ASSUME NEW i \in 1 .. Len(t) PROVE t[i] \in Elements(s)
      BY DEF Elements
  <2>1. i + 1 \in 1 .. Len(s) /\ t[i] = s[i + 1]
      BY <1>1
  <2> QED BY <2>1 DEF Elements
<1>4. Head(s) \in Elements(s)
    BY <1>1 DEF Elements
<1> QED BY <1>2, <1>3, <1>4 DEF t

(* An empty sequence has no elements.                                       *)
LEMMA ElementsEmpty == Elements(<<>>) = {}
  BY DEF Elements

(* An increasing sequence grows at its end by what is larger than all of it. *)
LEMMA IncreasingAppend ==
    ASSUME NEW s \in Seq(Nat), NEW e \in Nat, Increasing(s), Before(Elements(s), {e})
    PROVE  Increasing(Append(s, e))
<1> DEFINE t == Append(s, e)
<1>1. /\ Len(s) \in Nat /\ Len(t) = Len(s) + 1
      /\ \A i \in 1 .. Len(s) : t[i] = s[i]
      /\ t[Len(s) + 1] = e
    BY AppendProperties
<1> HIDE DEF t
<1> SUFFICES ASSUME NEW i \in 1 .. Len(t), NEW j \in 1 .. Len(t), i < j
             PROVE  t[i] < t[j]
    BY DEF Increasing, t
<1>2. i \in 1 .. Len(s) /\ t[i] = s[i]
    BY <1>1
<1>3. CASE j \in 1 .. Len(s)
    BY <1>1, <1>2, <1>3 DEF Increasing
<1>4. CASE j = Len(s) + 1
  <2>1. s[i] \in Elements(s)
      BY <1>2 DEF Elements
  <2> QED BY <1>1, <1>2, <1>4, <2>1 DEF Before
<1> QED BY <1>1, <1>3, <1>4

(* What is taken from the front of an increasing sequence precedes the rest. *)
LEMMA IncreasingTail ==
    ASSUME NEW S, NEW s \in Seq(S), s # <<>>, Increasing(s)
    PROVE  Increasing(Tail(s)) /\ Before({Head(s)}, Elements(Tail(s)))
<1> DEFINE t == Tail(s)
<1>1. /\ Len(s) \in Nat \ {0} /\ Len(t) = Len(s) - 1
      /\ \A i \in 1 .. Len(t) : t[i] = s[i + 1]
      /\ Head(s) = s[1]
    BY HeadTailProperties, EmptySeq
<1> HIDE DEF t
<1>2. Increasing(t)
  <2> SUFFICES ASSUME NEW i \in 1 .. Len(t), NEW j \in 1 .. Len(t), i < j
               PROVE  t[i] < t[j]
      BY DEF Increasing
  <2>1. i + 1 \in 1 .. Len(s) /\ j + 1 \in 1 .. Len(s) /\ i + 1 < j + 1
      BY <1>1
  <2>2. s[i + 1] < s[j + 1]
      BY <2>1 DEF Increasing
  <2> QED BY <1>1, <2>2
<1>3. ASSUME NEW i \in 1 .. Len(t) PROVE Head(s) < t[i]
  <2>1. 1 \in 1 .. Len(s) /\ i + 1 \in 1 .. Len(s) /\ 1 < i + 1
      BY <1>1
  <2>2. s[1] < s[i + 1]
      BY <2>1 DEF Increasing
  <2> QED BY <1>1, <2>2
<1> QED BY <1>2, <1>3 DEF Before, Elements, t

(* An increasing sequence holds as many elements as it is long.             *)
LEMMA IncreasingCardinality ==
    ASSUME NEW s \in Seq(Nat), Increasing(s)
    PROVE  IsFiniteSet(Elements(s)) /\ Cardinality(Elements(s)) = Len(s)
<1>1. Len(s) \in Nat /\ s \in [1 .. Len(s) -> Nat]
    BY LenProperties
<1>2. ASSUME NEW n \in Nat PROVE IsFiniteSet(1 .. n) /\ Cardinality(1 .. n) = n
  <2>1. IsFiniteSet(1 .. n) /\ Cardinality(1 .. n) = IF 1 > n THEN 0 ELSE n - 1 + 1
      BY FS_Interval
  <2> QED BY <2>1
<1>3. s \in [1 .. Len(s) -> Elements(s)]
    BY <1>1 DEF Elements
<1>4. ASSUME NEW i \in 1 .. Len(s), NEW j \in 1 .. Len(s), s[i] = s[j]
      PROVE  i = j
  <2>1. s[i] \in Nat /\ s[j] \in Nat
      BY <1>1
  <2>2. ~(i < j) /\ ~(j < i)
      BY <1>4, <2>1 DEF Increasing
  <2> QED BY <1>1, <2>2
<1>5. \A x \in Elements(s) : \E i \in 1 .. Len(s) : s[i] = x
    BY DEF Elements
<1>6. s \in Surjection(1 .. Len(s), Elements(s)) /\ s \in Injection(1 .. Len(s), Elements(s))
    BY <1>3, <1>4, <1>5 DEF Surjection, Injection, IsInjective
<1> QED BY <1>1, <1>2, <1>6, FS_Surjection

-----------------------------------------------------------------------------
(* The ids of the queued tasks follow the export queue.                     *)
LEMMA IdsInSeq ==
    ASSUME NEW q \in Seq(Request)
    PROVE  Ids(q) \in Seq(Payloads) /\ Len(Ids(q)) = Len(q)
<1>1. Len(q) \in Nat /\ \A i \in 1 .. Len(q) : q[i] \in Request
    BY LenProperties, ElementOfSeq
<1>2. \A i \in 1 .. Len(q) : q[i].id \in Payloads
    BY <1>1 DEF Request
<1> QED BY <1>1, <1>2 DEF Ids

(* The id of an enqueued task is the last of the ids.                       *)
LEMMA IdsAppend ==
    ASSUME NEW q \in Seq(Request), NEW r \in Request
    PROVE  Ids(Append(q, r)) = Append(Ids(q), r.id)
<1>1. r.id \in Payloads
    BY DEF Request
<1>2. Append(q, r) \in Seq(Request)
    BY AppendProperties
<1>3. /\ Len(Append(q, r)) = Len(q) + 1 /\ Len(q) \in Nat
      /\ \A i \in 1 .. Len(q) : Append(q, r)[i] = q[i]
      /\ Append(q, r)[Len(q) + 1] = r
    BY AppendProperties
<1>4. /\ Append(Ids(q), r.id) \in Seq(Payloads)
      /\ Len(Append(Ids(q), r.id)) = Len(q) + 1
      /\ \A i \in 1 .. Len(q) : Append(Ids(q), r.id)[i] = Ids(q)[i]
      /\ Append(Ids(q), r.id)[Len(q) + 1] = r.id
    BY <1>1, IdsInSeq, AppendProperties
<1>5. Ids(Append(q, r)) \in Seq(Payloads) /\ Len(Ids(Append(q, r))) = Len(q) + 1
    BY <1>2, <1>3, IdsInSeq
<1>6. ASSUME NEW i \in 1 .. Len(q) + 1
      PROVE  Ids(Append(q, r))[i] = Append(Ids(q), r.id)[i]
  <2>1. Ids(Append(q, r))[i] = Append(q, r)[i].id
      BY <1>3 DEF Ids
  <2>2. CASE i \in 1 .. Len(q)
      BY <1>3, <1>4, <2>1, <2>2 DEF Ids
  <2>3. CASE i = Len(q) + 1
      BY <1>3, <1>4, <2>1, <2>3
  <2>4. i \in 1 .. Len(q) \/ i = Len(q) + 1
      BY ONLY <1>3
  <2> QED BY <2>2, <2>3, <2>4
<1> QED BY <1>4, <1>5, <1>6, SeqEqual

(* The first task has the first id, and the others keep theirs.             *)
LEMMA IdsTail ==
    ASSUME NEW q \in Seq(Request), q # <<>>
    PROVE  /\ Ids(q) # <<>>
           /\ Head(Ids(q)) = Head(q).id
           /\ Ids(Tail(q)) = Tail(Ids(q))
<1>1. /\ Len(q) \in Nat \ {0} /\ Tail(q) \in Seq(Request) /\ Len(Tail(q)) = Len(q) - 1
      /\ \A i \in 1 .. Len(Tail(q)) : Tail(q)[i] = q[i + 1]
      /\ Head(q) = q[1]
    BY HeadTailProperties, EmptySeq
<1>2. Ids(q) \in Seq(Payloads) /\ Len(Ids(q)) = Len(q)
    BY IdsInSeq
<1>3. Ids(q) # <<>>
    BY <1>1, <1>2
<1>4. /\ Tail(Ids(q)) \in Seq(Payloads) /\ Len(Tail(Ids(q))) = Len(q) - 1
      /\ \A i \in 1 .. Len(Tail(Ids(q))) : Tail(Ids(q))[i] = Ids(q)[i + 1]
      /\ Head(Ids(q)) = Ids(q)[1]
    BY <1>2, <1>3, HeadTailProperties
<1>5. Head(Ids(q)) = Head(q).id
    BY <1>1, <1>4 DEF Ids
<1>6. Ids(Tail(q)) \in Seq(Payloads) /\ Len(Ids(Tail(q))) = Len(q) - 1
    BY <1>1, IdsInSeq
<1>7. ASSUME NEW i \in 1 .. Len(q) - 1 PROVE Ids(Tail(q))[i] = Tail(Ids(q))[i]
  <2>1. Ids(Tail(q))[i] = q[i + 1].id
      BY <1>1 DEF Ids
  <2>2. Tail(Ids(q))[i] = Ids(q)[i + 1] /\ i + 1 \in 1 .. Len(q)
      BY <1>1, <1>4
  <2> QED BY <2>1, <2>2 DEF Ids
<1>8. Ids(Tail(q)) = Tail(Ids(q))
    BY <1>4, <1>6, <1>7, SeqEqual
<1> QED BY <1>3, <1>5, <1>8

-----------------------------------------------------------------------------
(* The line-up: payloads are numbered as they are pushed, and the network,  *)
(* the export queue, the batch and the buffer hold, in this order, ever     *)
(* later ones.  Together with what became of each payload this is the       *)
(* invariant behind NoLossNoDuplication and QueueSpec: that no two places   *)
(* share a payload follows from the order, which each action can keep       *)
(* looking only at the ends of the sequences it touches.                    *)

Flying == {req.id : req \in inFlight}
Queued == Elements(Ids(exportQueue))

InOrder(f, q, b, w) ==
    /\ Before(f, q) /\ Before(f, b) /\ Before(f, w)
    /\ Before(q, b) /\ Before(q, w)
    /\ Before(b, w)

LineUp ==
    /\ Increasing(Ids(exportQueue)) /\ Increasing(batch) /\ Increasing(buffer)
    /\ InOrder(Flying, Queued, Elements(batch), Elements(buffer))
    /\ \A r1, r2 \in inFlight : r1.id = r2.id => r1 = r2
    /\ \A p \in Payloads : fate[p] = "new" <=> p > pushed
    /\ Held = Flying \cup Queued \cup Elements(batch) \cup Elements(buffer)

(* The places hold payloads.                                                *)
LEMMA PlacesInPayloads ==
    TypeOK => /\ Flying \subseteq Payloads /\ Queued \subseteq Payloads
              /\ Elements(batch) \subseteq Payloads
              /\ Elements(buffer) \subseteq Payloads
              /\ Payloads \subseteq Nat
<1> SUFFICES ASSUME TypeOK
             PROVE  /\ Flying \subseteq Payloads /\ Queued \subseteq Payloads
                    /\ Elements(batch) \subseteq Payloads
                    /\ Elements(buffer) \subseteq Payloads
                    /\ Payloads \subseteq Nat
    OBVIOUS
<1>1. Flying \subseteq Payloads
    BY DEF TypeOK, Flying, Request
<1>2. Ids(exportQueue) \in Seq(Payloads)
    BY IdsInSeq DEF TypeOK
<1>3. Queued \subseteq Payloads
    BY <1>2, ElementsInSeq DEF Queued
<1>4. Elements(batch) \subseteq Payloads /\ Elements(buffer) \subseteq Payloads
    BY ElementsInSeq DEF TypeOK
<1>5. Payloads \subseteq Nat
    BY BoundsAssumption DEF Payloads
<1> QED BY <1>1, <1>3, <1>4, <1>5

(* RingBuffer.push keeps the line-up: the new payload is the last of all,   *)
(* the one evicted the first of the buffer.                                 *)
LEMMA PushKeepsLine == TypeOK /\ LineUp /\ Push => LineUp'
<1> SUFFICES ASSUME TypeOK, LineUp, Push PROVE LineUp'
    OBVIOUS
<1> DEFINE p == pushed + 1
           B == Elements(batch)
           W == Elements(buffer)
<1>1. p \in Payloads /\ p \in Nat /\ pushed \in Nat
    BY BoundsAssumption DEF Push, TypeOK, Payloads
<1>2. /\ Flying \subseteq Payloads /\ Queued \subseteq Payloads
      /\ B \subseteq Payloads /\ W \subseteq Payloads /\ Payloads \subseteq Nat
    BY PlacesInPayloads
<1>3. /\ exportQueue' = exportQueue /\ inFlight' = inFlight /\ batch' = batch
      /\ pushed' = p
    BY DEF Push, httpVars, flushVars
<1>4. Flying' = Flying /\ Queued' = Queued /\ B' = B
    BY <1>3 DEF Flying, Queued, Ids, Elements
<1>5. \A x \in Flying \cup Queued \cup B \cup W : x <= pushed /\ x < p
  <2> SUFFICES ASSUME NEW x \in Flying \cup Queued \cup B \cup W
               PROVE  x <= pushed /\ x < p
      OBVIOUS
  <2>1. x \in Held /\ x \in Payloads /\ x \in Nat
      BY <1>2 DEF LineUp
  <2>2. fate[x] = "held"
      BY <2>1 DEF Held
  <2>3. ~(x > pushed)
      BY <2>1, <2>2 DEF LineUp
  <2> QED BY <1>1, <2>1, <2>3
<1>6. buffer \in Seq(Payloads) /\ buffer \in Seq(Nat)
    BY <1>2, SeqMonotonic DEF TypeOK
<1>7. Increasing(Ids(exportQueue))' /\ Increasing(batch)'
    BY <1>3 DEF LineUp, Increasing, Ids
<1>8. (\A r1, r2 \in inFlight : r1.id = r2.id => r1 = r2)'
    BY <1>3 DEF LineUp
<1>9. fate \in [Payloads -> Fates]
    BY DEF TypeOK
<1>10. InOrder(Flying, Queued, B, W)
    BY DEF LineUp
<1>11. \A q \in Payloads : fate[q] = "new" <=> q > pushed
    BY DEF LineUp
<1>12. Held = Flying \cup Queued \cup B \cup W
    BY DEF LineUp
<1>a. CASE Len(buffer) >= Capacity
  <2> DEFINE h == Head(buffer)
             T == Elements(Tail(buffer))
  <2>1. buffer # <<>>
      BY <1>a, CapacityAssumption DEF TypeOK
  <2>2. W = {h} \cup T /\ h \in Payloads /\ Tail(buffer) \in Seq(Nat)
      BY <1>6, <2>1, ElementsTail, HeadTailProperties
  <2>3. Increasing(Tail(buffer)) /\ Before({h}, T)
      BY <1>6, <2>1, IncreasingTail DEF LineUp
  <2>4. Before(T, {p})
      BY <1>5, <2>2 DEF Before
  <2>5. /\ buffer' = Append(Tail(buffer), p)
        /\ fate' = [fate EXCEPT ![p] = "held", ![h] = "evicted"]
      BY <1>a DEF Push
  <2>6. Increasing(buffer)'
    <3>1. Increasing(Append(Tail(buffer), p))
        BY <1>1, <2>2, <2>3, <2>4, IncreasingAppend
    <3> QED BY <2>5, <3>1 DEF Increasing
  <2>7. W' = T \cup {p}
    <3>1. Elements(Append(Tail(buffer), p)) = T \cup {p}
      <4> DEFINE s == Tail(buffer)
      <4>1. s \in Seq(Nat) /\ p \in Nat
          BY <1>1, <2>2
      <4> HIDE DEF p, s
      <4>2. Elements(Append(s, p)) = Elements(s) \cup {p}
          BY <4>1, ElementsAppend
      <4> QED BY <4>2 DEF s
    <3> QED BY <2>5, <3>1 DEF Elements
  <2> HIDE DEF p, h, T, B, W
  <2>8. InOrder(Flying, Queued, B, T \cup {p})
      BY <1>5, <1>10, <2>2 DEF InOrder, Before
  <2>9. h # p /\ h <= pushed
      BY <1>1, <1>2, <1>5, <2>2
  <2>10. h \notin Flying \cup Queued \cup B \cup T
      BY <1>2, <1>10, <2>2, <2>3 DEF InOrder, Before
  <2>11. \A q \in Payloads :
           fate'[q] = IF q = h THEN "evicted" ELSE IF q = p THEN "held" ELSE fate[q]
      BY <1>1, <1>9, <2>2, <2>5
  <2>12. (\A q \in Payloads : fate[q] = "new" <=> q > pushed)'
    <3> SUFFICES ASSUME NEW q \in Payloads PROVE fate'[q] = "new" <=> q > p
        BY <1>3
    <3>1. q \in Nat
        BY <1>2
    <3> QED BY <1>1, <1>11, <2>9, <2>11, <3>1 DEF p
  <2>13. Held' = Flying \cup Queued \cup B \cup (T \cup {p})
    <3>1. Held' = {q \in Payloads : fate'[q] = "held"}
        BY DEF Held
    <3>2. Held' = (Held \ {h}) \cup {p}
        BY <1>1, <2>9, <2>11, <3>1 DEF Held
    <3> QED BY <1>12, <2>2, <2>10, <3>2
  <2> QED
    <3>1. (Increasing(Ids(exportQueue)) /\ Increasing(batch) /\ Increasing(buffer))'
        BY <1>7, <2>6
    <3>2. InOrder(Flying, Queued, Elements(batch), Elements(buffer))'
        BY <1>4, <2>7, <2>8 DEF InOrder, Before, B, W
    <3>3. (Held = Flying \cup Queued \cup Elements(batch) \cup Elements(buffer))'
        BY <1>4, <2>7, <2>13 DEF B, W
    <3> QED BY <1>8, <2>12, <3>1, <3>2, <3>3 DEF LineUp
<1>b. CASE ~(Len(buffer) >= Capacity)
  <2>1. Before(W, {p})
      BY <1>5 DEF Before
  <2>2. /\ buffer' = Append(buffer, p)
        /\ fate' = [fate EXCEPT ![p] = "held"]
      BY <1>b DEF Push
  <2>3. Increasing(buffer)'
    <3>1. Increasing(Append(buffer, p))
        BY <1>1, <1>6, <2>1, IncreasingAppend DEF LineUp
    <3> QED BY <2>2, <3>1 DEF Increasing
  <2>4. W' = W \cup {p}
    <3>1. Elements(Append(buffer, p)) = W \cup {p}
        BY <1>1, <1>6, ElementsAppend
    <3> QED BY <2>2, <3>1 DEF Elements
  <2> HIDE DEF p, B, W
  <2>5. InOrder(Flying, Queued, B, W \cup {p})
      BY <1>5, <1>10 DEF InOrder, Before
  <2>6. \A q \in Payloads : fate'[q] = IF q = p THEN "held" ELSE fate[q]
      BY <1>1, <1>9, <2>2
  <2>7. (\A q \in Payloads : fate[q] = "new" <=> q > pushed)'
    <3> SUFFICES ASSUME NEW q \in Payloads PROVE fate'[q] = "new" <=> q > p
        BY <1>3
    <3>1. q \in Nat
        BY <1>2
    <3> QED BY <1>1, <1>11, <2>6, <3>1 DEF p
  <2>8. Held' = Flying \cup Queued \cup B \cup (W \cup {p})
    <3>1. Held' = {q \in Payloads : fate'[q] = "held"}
        BY DEF Held
    <3>2. Held' = Held \cup {p}
        BY <1>1, <2>6, <3>1 DEF Held
    <3> QED BY <1>12, <3>2
  <2> QED
    <3>1. (Increasing(Ids(exportQueue)) /\ Increasing(batch) /\ Increasing(buffer))'
        BY <1>7, <2>3
    <3>2. InOrder(Flying, Queued, Elements(batch), Elements(buffer))'
        BY <1>4, <2>4, <2>5 DEF InOrder, Before, B, W
    <3>3. (Held = Flying \cup Queued \cup Elements(batch) \cup Elements(buffer))'
        BY <1>4, <2>4, <2>8 DEF B, W
    <3> QED BY <1>8, <2>7, <3>1, <3>2, <3>3 DEF LineUp
<1> QED BY <1>a, <1>b

(* SendNext keeps the line-up: the head of the batch joins the end of the   *)
(* export queue.                                                            *)
LEMMA SendNextKeepsLine == TypeOK /\ LineUp /\ SendNext => LineUp'
<1> SUFFICES ASSUME TypeOK, LineUp, SendNext PROVE LineUp'
    OBVIOUS
<1> DEFINE h   == Head(batch)
           B   == Elements(Tail(batch))
           req == tagWithDroppedCount(h, tag)
<1>1. batch # <<>> /\ batch \in Seq(Payloads) /\ exportQueue \in Seq(Request)
    BY DEF SendNext, TypeOK
<1>2. /\ Flying \subseteq Payloads /\ Queued \subseteq Payloads
      /\ Elements(batch) \subseteq Payloads /\ Elements(buffer) \subseteq Payloads
      /\ Payloads \subseteq Nat
    BY PlacesInPayloads
<1>3. /\ h \in Payloads /\ Elements(batch) = {h} \cup B
      /\ Increasing(Tail(batch)) /\ Before({h}, B)
    BY <1>1, HeadTailProperties, ElementsTail, IncreasingTail DEF LineUp
<1>4. req \in Request /\ req.id = h
    BY <1>3 DEF TypeOK, Request, tagWithDroppedCount
<1>5. /\ exportQueue' = Append(exportQueue, req) /\ batch' = Tail(batch)
      /\ buffer' = buffer /\ inFlight' = inFlight /\ fate' = fate /\ pushed' = pushed
    BY DEF SendNext, ringVars
<1> HIDE DEF h, req
<1>6. Ids(exportQueue)' = Append(Ids(exportQueue), h)
  <2>1. Ids(Append(exportQueue, req)) = Append(Ids(exportQueue), h)
      BY <1>1, <1>4, IdsAppend
  <2> QED BY <1>5, <2>1 DEF Ids
<1>7. Ids(exportQueue) \in Seq(Nat)
    BY <1>1, <1>2, IdsInSeq, SeqMonotonic
<1>8. Before(Queued, {h})
    BY <1>3 DEF LineUp, InOrder, Before
<1>9. Increasing(Ids(exportQueue))'
  <2>1. Increasing(Append(Ids(exportQueue), h))
      BY <1>2, <1>3, <1>7, <1>8, IncreasingAppend DEF LineUp, Queued
  <2> QED BY <1>6, <2>1 DEF Increasing
<1>10. Queued' = Queued \cup {h}
  <2>1. Elements(Append(Ids(exportQueue), h)) = Queued \cup {h}
      BY <1>2, <1>3, <1>7, ElementsAppend DEF Queued
  <2> QED BY <1>6, <2>1 DEF Queued, Elements
<1>11. /\ Elements(batch)' = B /\ Elements(buffer)' = Elements(buffer)
       /\ Flying' = Flying
    BY <1>5 DEF Elements, Flying
<1>12. InOrder(Flying, Queued, Elements(batch), Elements(buffer))
    BY DEF LineUp
<1> HIDE DEF B
<1>13. InOrder(Flying, Queued \cup {h}, B, Elements(buffer))
    BY <1>3, <1>12 DEF InOrder, Before
<1>14. InOrder(Flying, Queued, Elements(batch), Elements(buffer))'
    BY <1>10, <1>11, <1>13 DEF InOrder, Before
<1>15. (Held = Flying \cup Queued \cup Elements(batch) \cup Elements(buffer))'
  <2>1. Held' = Held
      BY <1>5 DEF Held
  <2> QED BY <1>3, <1>10, <1>11, <2>1 DEF LineUp
<1>16. (Increasing(batch) /\ Increasing(buffer))'
    BY <1>3, <1>5 DEF LineUp, Increasing
<1> QED BY <1>5, <1>9, <1>14, <1>15, <1>16 DEF LineUp

(* SendNow keeps the line-up: the first task of the export queue is in      *)
(* flight, behind all that is there already, or has failed.                 *)
LEMMA SendNowKeepsLine == TypeOK /\ LineUp /\ SendNow => LineUp'
<1> SUFFICES ASSUME TypeOK, LineUp, SendNow PROVE LineUp'
    OBVIOUS
<1> DEFINE req == Head(exportQueue)
           h   == req.id
           Q   == Elements(Ids(Tail(exportQueue)))
<1>1. exportQueue # <<>> /\ exportQueue \in Seq(Request)
    BY DEF SendNow, TypeOK
<1>2. /\ Flying \subseteq Payloads /\ Queued \subseteq Payloads
      /\ Elements(batch) \subseteq Payloads /\ Elements(buffer) \subseteq Payloads
      /\ Payloads \subseteq Nat
    BY PlacesInPayloads
<1>3. req \in Request /\ h \in Payloads
  <2>1. req \in Request
      BY <1>1, HeadTailProperties
  <2> QED BY <2>1 DEF Request
<1>4. /\ Ids(exportQueue) \in Seq(Payloads) /\ Ids(exportQueue) # <<>>
      /\ h = Head(Ids(exportQueue)) /\ Ids(Tail(exportQueue)) = Tail(Ids(exportQueue))
    BY <1>1, IdsInSeq, IdsTail
<1>5. Queued = {h} \cup Q
    BY <1>4, ElementsTail DEF Queued
<1>6. Increasing(Ids(Tail(exportQueue))) /\ Before({h}, Q)
    BY <1>4, IncreasingTail DEF LineUp
<1>7. /\ exportQueue' = Tail(exportQueue) /\ batch' = batch /\ buffer' = buffer
      /\ pushed' = pushed
    BY DEF SendNow, ringVars, flushVars
<1>8. \/ inFlight' = inFlight \cup {req} /\ fate' = fate
      \/ inFlight' = inFlight /\ fate' = [fate EXCEPT ![h] = "failed"]
    BY DEF SendNow
<1>9. Queued' = Q /\ Increasing(Ids(exportQueue))'
    BY <1>6, <1>7 DEF Queued, Elements, Increasing, Ids
<1>10. /\ Elements(batch)' = Elements(batch) /\ Elements(buffer)' = Elements(buffer)
       /\ Increasing(batch)' /\ Increasing(buffer)'
    BY <1>7 DEF Elements, Increasing, LineUp
<1> HIDE DEF Q, req
<1>11. InOrder(Flying, Queued, Elements(batch), Elements(buffer))
    BY DEF LineUp
<1>12. h \notin Flying \cup Q \cup Elements(batch) \cup Elements(buffer)
  <2> HIDE DEF h
  <2>1. h \in Nat /\ ~(h < h) /\ h \in Queued
      BY <1>2, <1>3, <1>5
  <2>2. Before(Flying, Queued) /\ Before(Queued, Elements(batch))
        /\ Before(Queued, Elements(buffer))
      BY <1>11 DEF InOrder
  <2> QED BY <1>6, <2>1, <2>2 DEF Before
<1>13. fate[h] = "held"
    BY <1>5 DEF LineUp, Held
<1>a. CASE inFlight' = inFlight \cup {req} /\ fate' = fate
  <2>1. Flying' = Flying \cup {h}
      BY <1>a DEF Flying
  <2>2. InOrder(Flying \cup {h}, Q, Elements(batch), Elements(buffer))
      BY <1>5, <1>6, <1>11 DEF InOrder, Before
  <2>3. InOrder(Flying, Queued, Elements(batch), Elements(buffer))'
      BY <1>9, <1>10, <2>1, <2>2 DEF InOrder, Before
  <2>4. (\A r1, r2 \in inFlight : r1.id = r2.id => r1 = r2)'
    <3>1. \A r \in inFlight : r.id # h
        BY <1>12 DEF Flying
    <3> QED BY <1>a, <3>1 DEF LineUp
  <2>5. (Held = Flying \cup Queued \cup Elements(batch) \cup Elements(buffer))'
    <3>1. Held' = Held
        BY <1>a DEF Held
    <3> QED BY <1>5, <1>9, <1>10, <2>1, <3>1 DEF LineUp
  <2> QED BY <1>7, <1>9, <1>10, <1>a, <2>3, <2>4, <2>5 DEF LineUp
<1>b. CASE inFlight' = inFlight /\ fate' = [fate EXCEPT ![h] = "failed"]
  <2>1. Flying' = Flying
      BY <1>b DEF Flying
  <2>2. InOrder(Flying, Q, Elements(batch), Elements(buffer))
      BY <1>5, <1>11 DEF InOrder, Before
  <2>3. InOrder(Flying, Queued, Elements(batch), Elements(buffer))'
      BY <1>9, <1>10, <2>1, <2>2 DEF InOrder, Before
  <2>4. \A q \in Payloads : fate'[q] = IF q = h THEN "failed" ELSE fate[q]
      BY <1>b DEF TypeOK
  <2>5. (\A p \in Payloads : fate[p] = "new" <=> p > pushed)'
      BY <1>7, <1>13, <2>4 DEF LineUp
  <2>6. (Held = Flying \cup Queued \cup Elements(batch) \cup Elements(buffer))'
    <3>1. Held' = Held \ {h}
        BY <2>4 DEF Held
    <3> QED BY <1>5, <1>9, <1>10, <1>12, <2>1, <3>1 DEF LineUp
  <2> QED BY <1>9, <1>10, <1>b, <2>3, <2>5, <2>6 DEF LineUp
<1> QED BY <1>8, <1>a, <1>b

(* An answer takes one request out of the line-up, and no other of its      *)
(* payload.                                                                 *)
LEMMA AnswerKeepsLine ==
    ASSUME TypeOK, LineUp, NEW req \in inFlight, PostSucceeds(req) \/ PostFails(req)
    PROVE  LineUp' /\ Flying' = Flying \ {req.id}
<1> DEFINE h == req.id
<1>1. /\ Flying \subseteq Payloads /\ Queued \subseteq Payloads
      /\ Elements(batch) \subseteq Payloads /\ Elements(buffer) \subseteq Payloads
      /\ Payloads \subseteq Nat
    BY PlacesInPayloads
<1>2. h \in Payloads /\ h \in Flying
    BY DEF TypeOK, Request, Flying
<1>3. PICK f \in {"delivered", "failed"} : fate' = [fate EXCEPT ![h] = f]
    BY DEF PostSucceeds, PostFails
<1>4. /\ inFlight' = inFlight \ {req} /\ exportQueue' = exportQueue
      /\ batch' = batch /\ buffer' = buffer /\ pushed' = pushed
    BY DEF PostSucceeds, PostFails, ringVars, flushVars
<1>5. \A r \in inFlight : r.id = h => r = req
    BY DEF LineUp
<1>6. Flying' = Flying \ {h}
    BY <1>4, <1>5 DEF Flying
<1>7. /\ Queued' = Queued /\ Elements(batch)' = Elements(batch)
      /\ Elements(buffer)' = Elements(buffer)
      /\ (Increasing(Ids(exportQueue)) /\ Increasing(batch) /\ Increasing(buffer))'
    BY <1>4 DEF Queued, Elements, Increasing, Ids, LineUp
<1> HIDE DEF h
<1>8. InOrder(Flying, Queued, Elements(batch), Elements(buffer))
    BY DEF LineUp
<1>9. InOrder(Flying, Queued, Elements(batch), Elements(buffer))'
  <2>1. InOrder(Flying \ {h}, Queued, Elements(batch), Elements(buffer))
      BY <1>8 DEF InOrder, Before
  <2> QED BY <1>6, <1>7, <2>1 DEF InOrder, Before
<1>10. \A q \in Payloads : fate'[q] = IF q = h THEN f ELSE fate[q]
    BY <1>3 DEF TypeOK
<1>11. fate[h] = "held"
    BY <1>2 DEF LineUp, Held
<1>12. (\A p \in Payloads : fate[p] = "new" <=> p > pushed)'
    BY <1>4, <1>10, <1>11 DEF LineUp
<1>13. (Held = Flying \cup Queued \cup Elements(batch) \cup Elements(buffer))'
  <2>1. Held' = Held \ {h}
      BY <1>10 DEF Held
  <2>2. h \notin Queued \cup Elements(batch) \cup Elements(buffer)
      BY <1>1, <1>2, <1>8 DEF InOrder, Before
  <2> QED BY <1>6, <1>7, <2>1, <2>2 DEF LineUp
<1>14. (\A r1, r2 \in inFlight : r1.id = r2.id => r1 = r2)'
    BY <1>4 DEF LineUp
<1> QED BY <1>6, <1>7, <1>9, <1>12, <1>13, <1>14 DEF LineUp, h

(* Drain keeps the line-up: the batch, empty, takes over the buffer.        *)
LEMMA DrainKeepsLine == TypeOK /\ LineUp /\ Drain => LineUp' /\ batch = <<>>
<1> SUFFICES ASSUME TypeOK, LineUp, Drain PROVE LineUp' /\ batch = <<>>
    OBVIOUS
<1>1. batch = <<>>
    BY DEF Drain, TypeOK
<1>2. /\ batch' = buffer /\ buffer' = <<>> /\ exportQueue' = exportQueue
      /\ inFlight' = inFlight /\ fate' = fate /\ pushed' = pushed
    BY DEF Drain, httpVars
<1>3. /\ Elements(batch)' = Elements(buffer) /\ Elements(buffer)' = {}
      /\ Queued' = Queued /\ Flying' = Flying /\ Elements(batch) = {}
    BY <1>1, <1>2, ElementsEmpty DEF Elements, Queued, Flying, Ids
<1>4. (Increasing(Ids(exportQueue)) /\ Increasing(batch) /\ Increasing(buffer))'
  <2>1. Increasing(<<>>)
      BY DEF Increasing
  <2> QED BY <1>2, <2>1 DEF LineUp, Increasing, Ids
<1>5. InOrder(Flying, Queued, Elements(buffer), {})
    BY DEF LineUp, InOrder, Before
<1>6. InOrder(Flying, Queued, Elements(batch), Elements(buffer))'
    BY <1>3, <1>5 DEF InOrder, Before
<1>7. (Held = Flying \cup Queued \cup Elements(batch) \cup Elements(buffer))'
    BY <1>2, <1>3 DEF LineUp, Held
<1> QED BY <1>1, <1>2, <1>4, <1>6, <1>7 DEF LineUp

(* A killed process leaves nothing in line.                                 *)
LEMMA KillKeepsLine == TypeOK /\ LineUp /\ Kill => LineUp'
<1> SUFFICES ASSUME TypeOK, LineUp, Kill PROVE LineUp'
    OBVIOUS
<1>1. /\ buffer' = <<>> /\ batch' = <<>> /\ exportQueue' = <<>> /\ inFlight' = {}
      /\ pushed' = pushed
    BY DEF Kill
<1>2. PICK arrived \in SUBSET inFlight :
        fate' = [p \in Payloads |->
                   IF fate[p] # "held" THEN fate[p]
                   ELSE IF \E req \in arrived : req.id = p THEN "delivered"
                   ELSE "killed"]
    BY DEF Kill
<1>3. /\ Flying' = {} /\ Queued' = {} /\ Elements(batch)' = {} /\ Elements(buffer)' = {}
    BY <1>1 DEF Flying, Queued, Elements, Ids
<1>4. (Increasing(Ids(exportQueue)) /\ Increasing(batch) /\ Increasing(buffer))'
    BY <1>1 DEF Increasing, Ids
<1>5. InOrder(Flying, Queued, Elements(batch), Elements(buffer))'
    BY <1>3 DEF InOrder, Before
<1>6. Held' = {}
    BY <1>2 DEF Held
<1>7. (\A p \in Payloads : fate[p] = "new" <=> p > pushed)'
    BY <1>1, <1>2 DEF LineUp
<1>8. (\A r1, r2 \in inFlight : r1.id = r2.id => r1 = r2)'
    BY <1>1
<1> QED BY <1>3, <1>4, <1>5, <1>6, <1>7, <1>8 DEF LineUp

(* What the other actions do leaves the line-up alone.                      *)
LEMMA LineUnchanged ==
    ASSUME LineUp, UNCHANGED <<buffer, batch, exportQueue, inFlight, pushed, fate>>
    PROVE  LineUp'
<1>1. /\ Flying' = Flying /\ Queued' = Queued /\ Held' = Held
      /\ Elements(batch)' = Elements(batch) /\ Elements(buffer)' = Elements(buffer)
    BY DEF Flying, Queued, Held, Elements, Ids
<1>2. (Increasing(Ids(exportQueue)) /\ Increasing(batch) /\ Increasing(buffer))'
    BY DEF LineUp, Increasing, Ids
<1>3. InOrder(Flying, Queued, Elements(batch), Elements(buffer))'
    BY <1>1 DEF LineUp, InOrder, Before
<1> QED BY <1>1, <1>2, <1>3 DEF LineUp

Quiet == Start \/ TimerFire \/ ConsumeDroppedCount \/ EnterBackground \/ WaitUntilIdle
           \/ Signal \/ WaitTimesOut \/ Suspend \/ Foreground \/ UNCHANGED vars

(* The quiet actions touch neither the line nor the fates.                  *)
LEMMA QuietLeavesLine ==
    Quiet => UNCHANGED <<buffer, batch, exportQueue, inFlight, pushed, fate>>
  BY DEF Quiet, Start, TimerFire, ConsumeDroppedCount, EnterBackground, WaitUntilIdle,
         Signal, WaitTimesOut, Suspend, Foreground, vars, ringVars, flushVars, httpVars

(* A step is quiet or one of the six that move a payload.                   *)
LEMMA StepCases ==
    [Next]_vars <=> \/ Quiet \/ Push \/ Drain \/ SendNext \/ SendNow \/ Kill
                    \/ \E req \in inFlight : PostSucceeds(req) \/ PostFails(req)
  BY DEF Next, Quiet

(* Every step keeps the line-up.                                            *)
LEMMA LineStep == TypeOK /\ LineUp /\ [Next]_vars => LineUp'
  BY StepCases, QuietLeavesLine, LineUnchanged, PushKeepsLine, DrainKeepsLine,
     SendNextKeepsLine, SendNowKeepsLine, AnswerKeepsLine, KillKeepsLine

(* The pipeline starts with nothing in line.                                *)
LEMMA LineInit == Init => LineUp
<1> SUFFICES ASSUME Init PROVE LineUp
    OBVIOUS
<1>1. /\ Flying = {} /\ Queued = {} /\ Elements(batch) = {} /\ Elements(buffer) = {}
    BY DEF Init, Flying, Queued, Elements, Ids
<1>2. Increasing(Ids(exportQueue)) /\ Increasing(batch) /\ Increasing(buffer)
    BY DEF Init, Increasing, Ids
<1>3. InOrder(Flying, Queued, Elements(batch), Elements(buffer))
    BY <1>1 DEF InOrder, Before
<1>4. (\A p \in Payloads : fate[p] = "new" <=> p > pushed) /\ Held = {}
    BY DEF Init, Payloads, Held
<1> QED BY <1>1, <1>2, <1>3, <1>4 DEF Init, LineUp

(* The line-up holds in every reachable state.                              *)
LEMMA LineInvariant == Spec => [](TypeOK /\ LineUp)
<1>1. TypeOK /\ LineUp /\ [Next]_vars => (TypeOK /\ LineUp)'
    BY TypeStep, LineStep
<1>2. Init => LineUp
    BY LineInit
<1>3. Spec => []TypeOK
    BY TypeCorrect
<1>4. TypeOK /\ LineUp /\ [Next]_vars => LineUp'
    BY LineStep
<1> QED BY <1>2, <1>3, <1>4, PTL DEF Spec

-----------------------------------------------------------------------------
(* The elements of a concatenation are those of its parts.                  *)
LEMMA ElementsConcat ==
    ASSUME NEW S, NEW s \in Seq(S), NEW t \in Seq(S)
    PROVE  Elements(s \o t) = Elements(s) \cup Elements(t)
<1> DEFINE u == s \o t
<1>1. /\ Len(s) \in Nat /\ Len(t) \in Nat /\ Len(u) = Len(s) + Len(t)
      /\ \A i \in 1 .. Len(s) + Len(t) : u[i] = IF i <= Len(s) THEN s[i] ELSE t[i - Len(s)]
    BY ConcatProperties
<1> HIDE DEF u
<1>2. Elements(s) \subseteq Elements(u)
  <2> SUFFICES ASSUME NEW i \in 1 .. Len(s) PROVE s[i] \in Elements(u)
      BY DEF Elements
  <2>1. i \in 1 .. Len(u) /\ u[i] = s[i]
      BY <1>1
  <2> QED BY <2>1 DEF Elements
<1>3. Elements(t) \subseteq Elements(u)
  <2> SUFFICES ASSUME NEW i \in 1 .. Len(t) PROVE t[i] \in Elements(u)
      BY DEF Elements
  <2>1. /\ i + Len(s) \in 1 .. Len(u) /\ ~(i + Len(s) <= Len(s))
        /\ (i + Len(s)) - Len(s) = i
      BY <1>1
  <2>2. u[i + Len(s)] = t[i]
      BY <1>1, <2>1
  <2> QED BY <2>1, <2>2 DEF Elements
<1>4. Elements(u) \subseteq Elements(s) \cup Elements(t)
  <2> SUFFICES ASSUME NEW i \in 1 .. Len(u) PROVE u[i] \in Elements(s) \cup Elements(t)
      BY DEF Elements
  <2>1. CASE i <= Len(s)
    <3>1. i \in 1 .. Len(s) /\ u[i] = s[i]
        BY <1>1, <2>1
    <3> QED BY <3>1 DEF Elements
  <2>2. CASE ~(i <= Len(s))
    <3>1. i - Len(s) \in 1 .. Len(t) /\ u[i] = t[i - Len(s)]
        BY <1>1, <2>2
    <3> QED BY <3>1 DEF Elements
  <2> QED BY <2>1, <2>2
<1> QED BY <1>2, <1>3, <1>4 DEF u

(* Disjoint finite sets add up.                                             *)
LEMMA DisjointCardinality ==
    ASSUME NEW S, NEW T, IsFiniteSet(S), IsFiniteSet(T), S \cap T = {}
    PROVE  /\ IsFiniteSet(S \cup T)
           /\ Cardinality(S \cup T) = Cardinality(S) + Cardinality(T)
<1>1. Cardinality(S) \in Nat /\ Cardinality(T) \in Nat
    BY FS_CardinalityType
<1>2. Cardinality(S \cap T) = 0
    BY FS_EmptySet
<1>3. /\ IsFiniteSet(S \cup T)
      /\ Cardinality(S \cup T) = Cardinality(S) + Cardinality(T) - Cardinality(S \cap T)
    BY FS_Union
<1> QED BY <1>1, <1>2, <1>3

(* Requests in flight are as many as the payloads they carry.               *)
LEMMA OneRequestEach ==
    TypeOK /\ LineUp => IsFiniteSet(Flying) /\ Cardinality(Flying) = Cardinality(inFlight)
<1> SUFFICES ASSUME TypeOK, LineUp
             PROVE  IsFiniteSet(Flying) /\ Cardinality(Flying) = Cardinality(inFlight)
    OBVIOUS
<1>1. IsFiniteSet(Payloads)
    BY FS_Interval, BoundsAssumption DEF Payloads
<1>2. IsFiniteSet(Flying)
    BY <1>1, PlacesInPayloads, FS_Subset
<1> DEFINE id == [req \in inFlight |-> req.id]
<1>3. id \in Injection(inFlight, Flying) /\ id \in Surjection(inFlight, Flying)
    BY DEF LineUp, Flying, Injection, Surjection, IsInjective
<1> HIDE DEF id
<1> QED BY <1>2, <1>3, FS_Injection

(* A payload that was admitted and has no final fate is at exactly one      *)
(* place between RingBuffer.push and its POST, whatever the interleaving of *)
(* pushes, drains, sends and the network.                                   *)
THEOREM NothingLostOrDoubled == Spec => []NoLossNoDuplication
<1>1. TypeOK /\ LineUp => NoLossNoDuplication
  <2> SUFFICES ASSUME TypeOK, LineUp PROVE NoLossNoDuplication
      OBVIOUS
  <2> DEFINE Q == Ids(exportQueue)
             C == Q \o batch
             B == Elements(batch)
             W == Elements(buffer)
  <2>1. /\ Q \in Seq(Payloads) /\ batch \in Seq(Payloads) /\ buffer \in Seq(Payloads)
        /\ Payloads \subseteq Nat
      BY IdsInSeq, PlacesInPayloads DEF TypeOK
  <2>2. /\ C \in Seq(Payloads) /\ Len(C) = Len(Q) + Len(batch)
        /\ Elements(C) = Elements(Q) \cup B
      BY <2>1, ConcatProperties, ElementsConcat
  <2>3. Pipeline = C \o buffer
      BY DEF Pipeline, QueuedIds, Ids
  <2>4. /\ Len(Pipeline) = Len(Q) + Len(batch) + Len(buffer)
        /\ Elements(Pipeline) = Queued \cup B \cup W
    <3> HIDE DEF C, Q
    <3>1. Len(C \o buffer) = Len(C) + Len(buffer) /\ Elements(C \o buffer) = Elements(C) \cup W
      <4>1. C \in Seq(Payloads) /\ buffer \in Seq(Payloads)
          BY <2>1, <2>2
      <4>2. Len(C \o buffer) = Len(C) + Len(buffer)
          BY <4>1, ConcatProperties
      <4>3. Elements(C \o buffer) = Elements(C) \cup Elements(buffer)
          BY <4>1, ElementsConcat
      <4> QED BY <4>2, <4>3
    <3> QED BY <2>2, <2>3, <3>1 DEF Queued, Q
  <2>5. /\ IsFiniteSet(Queued) /\ Cardinality(Queued) = Len(Q)
        /\ IsFiniteSet(B) /\ Cardinality(B) = Len(batch)
        /\ IsFiniteSet(W) /\ Cardinality(W) = Len(buffer)
    <3>1. Q \in Seq(Nat) /\ batch \in Seq(Nat) /\ buffer \in Seq(Nat)
        BY <2>1, SeqMonotonic
    <3> QED BY <3>1, IncreasingCardinality DEF LineUp, Queued
  <2>6. IsFiniteSet(Flying) /\ Cardinality(Flying) = Cardinality(inFlight)
      BY OneRequestEach
  <2>7. Held = Flying \cup Queued \cup B \cup W
      BY DEF LineUp
  <2>8. InOrder(Flying, Queued, B, W)
      BY DEF LineUp
  <2>9. Flying \subseteq Nat /\ Queued \subseteq Nat /\ B \subseteq Nat /\ W \subseteq Nat
      BY PlacesInPayloads
  <2>10. Len(Q) \in Nat /\ Len(batch) \in Nat /\ Len(buffer) \in Nat
      BY <2>1, LenProperties
  <2> DEFINE FQ  == Flying \cup Queued
             FQB == FQ \cup B
  <2>11. /\ Flying \cap Queued = {} /\ FQ \cap B = {} /\ FQB \cap W = {}
      BY <2>8, <2>9 DEF InOrder, Before
  <2>12. /\ IsFiniteSet(FQ)
         /\ Cardinality(FQ) = Cardinality(inFlight) + Len(Q)
    <3>1. IsFiniteSet(FQ) /\ Cardinality(FQ) = Cardinality(Flying) + Cardinality(Queued)
        BY ONLY <2>5, <2>6, <2>11, DisjointCardinality
    <3> QED BY <2>5, <2>6, <3>1
  <2> HIDE DEF Q, B, W, FQ
  <2>13. /\ IsFiniteSet(FQB)
         /\ Cardinality(FQB) = Cardinality(inFlight) + Len(Q) + Len(batch)
    <3>1. IsFiniteSet(FQB) /\ Cardinality(FQB) = Cardinality(FQ) + Cardinality(B)
        BY ONLY <2>5, <2>11, <2>12, DisjointCardinality
    <3> QED BY <2>5, <2>12, <3>1
  <2>14. Cardinality(Held) = Cardinality(inFlight) + Len(Q) + Len(batch) + Len(buffer)
    <3>1. Held = FQB \cup W
        BY <2>7 DEF FQ
    <3> HIDE DEF FQB
    <3>2. Cardinality(FQB \cup W) = Cardinality(FQB) + Cardinality(W)
        BY ONLY <2>5, <2>11, <2>13, DisjointCardinality
    <3> QED BY <2>5, <2>13, <3>1, <3>2
  <2>15. Cardinality(inFlight) \in Nat
      BY <2>6, FS_CardinalityType
  <2>16. Cardinality(Held) = Len(Pipeline) + Cardinality(inFlight)
      BY <2>4, <2>10, <2>14, <2>15
  <2>17. Held = Elements(Pipeline) \cup Flying
      BY <2>4, <2>7
  <2> QED BY <2>16, <2>17 DEF NoLossNoDuplication, Flying
<1> QED BY <1>1, LineInvariant, PTL

-----------------------------------------------------------------------------
(* The pipeline implements the drop-oldest queue.                           *)

(* Taking the head of a sequence over to the end of the one in front of it  *)
(* leaves their concatenation as it is.                                     *)
LEMMA HandOver ==
    ASSUME NEW S, NEW s \in Seq(S), NEW t \in Seq(S), t # <<>>
    PROVE  Append(s, Head(t)) \o Tail(t) = s \o t
<1> DEFINE h == Head(t)
           u == Tail(t)
           a == Append(s, h)
<1>1. /\ h \in S /\ u \in Seq(S) /\ Len(u) = Len(t) - 1 /\ Len(t) \in Nat \ {0}
      /\ h = t[1] /\ \A i \in 1 .. Len(u) : u[i] = t[i + 1]
    BY HeadTailProperties, EmptySeq
<1> HIDE DEF h, u
<1>2. /\ a \in Seq(S) /\ Len(a) = Len(s) + 1 /\ Len(s) \in Nat
      /\ \A i \in 1 .. Len(s) : a[i] = s[i]
      /\ a[Len(s) + 1] = h
    BY <1>1, AppendProperties
<1> HIDE DEF a
<1>3. /\ a \o u \in Seq(S) /\ Len(a \o u) = Len(s) + Len(t)
      /\ \A i \in 1 .. Len(s) + Len(t) :
           (a \o u)[i] = IF i <= Len(s) + 1 THEN a[i] ELSE u[i - (Len(s) + 1)]
  <2>1. /\ a \o u \in Seq(S) /\ Len(a \o u) = Len(a) + Len(u)
        /\ \A i \in 1 .. Len(a) + Len(u) :
             (a \o u)[i] = IF i <= Len(a) THEN a[i] ELSE u[i - Len(a)]
      BY <1>1, <1>2, ConcatProperties
  <2>2. Len(a) + Len(u) = Len(s) + Len(t)
      BY <1>1, <1>2
  <2> QED BY <1>2, <2>1, <2>2
<1>4. /\ s \o t \in Seq(S) /\ Len(s \o t) = Len(s) + Len(t)
      /\ \A i \in 1 .. Len(s) + Len(t) :
           (s \o t)[i] = IF i <= Len(s) THEN s[i] ELSE t[i - Len(s)]
    BY ConcatProperties
<1>5. ASSUME NEW i \in 1 .. Len(s) + Len(t) PROVE (a \o u)[i] = (s \o t)[i]
  <2>1. i \in Nat /\ 1 <= i /\ i <= Len(s) + Len(t)
      BY <1>1, <1>2
  <2>2. CASE i <= Len(s)
      BY <1>2, <1>3, <1>4, <2>1, <2>2
  <2>3. CASE i = Len(s) + 1
    <3>1. (a \o u)[i] = h
        BY <1>2, <1>3, <2>3
    <3>2. ~(i <= Len(s)) /\ i - Len(s) = 1
        BY <1>2, <2>1, <2>3
    <3> QED BY <1>1, <1>4, <3>1, <3>2
  <2>4. CASE i > Len(s) + 1
    <3>1. /\ i - (Len(s) + 1) \in 1 .. Len(u)
          /\ (i - (Len(s) + 1)) + 1 = i - Len(s)
        BY <1>1, <1>2, <2>1, <2>4
    <3>2. (a \o u)[i] = u[i - (Len(s) + 1)]
        BY <1>2, <1>3, <2>1, <2>4
    <3>3. u[i - (Len(s) + 1)] = t[i - Len(s)]
        BY <1>1, <3>1
    <3>4. (s \o t)[i] = t[i - Len(s)]
        BY <1>2, <1>4, <2>1, <2>4
    <3> QED BY <3>2, <3>3, <3>4
  <2>5. i <= Len(s) \/ i = Len(s) + 1 \/ i > Len(s) + 1
    <3>1. Len(s) \in Nat
        BY <1>2
    <3> QED BY ONLY <2>1, <3>1
  <2> QED BY <2>2, <2>3, <2>4, <2>5
<1>6. a \o u = s \o t
    BY <1>3, <1>4, <1>5, SeqEqual
<1> QED BY <1>6 DEF a, u, h

(* The head and the tail of a concatenation whose first part is not empty.  *)
LEMMA FrontOfConcat ==
    ASSUME NEW S, NEW s \in Seq(S), NEW t \in Seq(S), s # <<>>
    PROVE  /\ s \o t # <<>>
           /\ Head(s \o t) = Head(s)
           /\ Tail(s \o t) = Tail(s) \o t
<1> DEFINE c == s \o t
           u == Tail(s)
<1>1. /\ u \in Seq(S) /\ Len(u) = Len(s) - 1 /\ Len(s) \in Nat \ {0} /\ Len(t) \in Nat
      /\ Head(s) = s[1] /\ \A i \in 1 .. Len(u) : u[i] = s[i + 1]
    BY HeadTailProperties, EmptySeq
<1>2. /\ c \in Seq(S) /\ Len(c) = Len(s) + Len(t)
      /\ \A i \in 1 .. Len(s) + Len(t) : c[i] = IF i <= Len(s) THEN s[i] ELSE t[i - Len(s)]
    BY ConcatProperties
<1> HIDE DEF c, u
<1>3. c # <<>>
    BY <1>1, <1>2
<1>4. /\ Tail(c) \in Seq(S) /\ Len(Tail(c)) = Len(c) - 1 /\ Head(c) = c[1]
      /\ \A i \in 1 .. Len(Tail(c)) : Tail(c)[i] = c[i + 1]
    BY <1>2, <1>3, HeadTailProperties
<1>5. /\ u \o t \in Seq(S) /\ Len(u \o t) = Len(u) + Len(t)
      /\ \A i \in 1 .. Len(u) + Len(t) :
           (u \o t)[i] = IF i <= Len(u) THEN u[i] ELSE t[i - Len(u)]
    BY <1>1, ConcatProperties
<1>6. Head(c) = Head(s)
    BY <1>1, <1>2, <1>4
<1>7. Len(Tail(c)) = Len(u) + Len(t)
    BY <1>1, <1>2, <1>4
<1>8. ASSUME NEW i \in 1 .. Len(u) + Len(t) PROVE Tail(c)[i] = (u \o t)[i]
  <2>1. /\ i \in Nat /\ i + 1 \in 1 .. Len(s) + Len(t)
        /\ (i + 1) - Len(s) = i - Len(u)
      BY <1>1
  <2>2. Tail(c)[i] = c[i + 1]
      BY <1>4, <1>7
  <2>3. CASE i <= Len(u)
    <3>1. i \in 1 .. Len(u) /\ i + 1 <= Len(s)
        BY <1>1, <2>1, <2>3
    <3>2. c[i + 1] = s[i + 1]
        BY <1>2, <2>1, <3>1
    <3> QED BY <1>1, <1>5, <2>2, <2>3, <3>1, <3>2
  <2>4. CASE ~(i <= Len(u))
    <3>1. ~(i + 1 <= Len(s))
        BY <1>1, <2>1, <2>4
    <3>2. c[i + 1] = t[(i + 1) - Len(s)]
        BY <1>2, <2>1, <3>1
    <3>3. (u \o t)[i] = t[i - Len(u)]
        BY <1>5, <2>4
    <3> QED BY <2>1, <2>2, <3>2, <3>3
  <2> QED BY <2>3, <2>4
<1>9. Tail(c) = u \o t
    BY <1>4, <1>5, <1>7, <1>8, SeqEqual
<1> QED BY <1>3, <1>6, <1>9 DEF c, u

(* What the abstract queue calls leaving: taken from the buffer, not sent.  *)
Leaving == Ids(exportQueue) \o batch

(* Leaving is what the refinement mapping substitutes, a sequence of        *)
(* payloads.                                                                *)
LEMMA LeavingIs == TypeOK => /\ Leaving = QueuedIds \o batch
                             /\ Leaving \in Seq(Payloads)
                             /\ Ids(exportQueue) \in Seq(Payloads)
<1> SUFFICES ASSUME TypeOK
             PROVE  Leaving = QueuedIds \o batch /\ Leaving \in Seq(Payloads)
                    /\ Ids(exportQueue) \in Seq(Payloads)
    OBVIOUS
<1>1. Ids(exportQueue) \in Seq(Payloads) /\ batch \in Seq(Payloads)
    BY IdsInSeq DEF TypeOK
<1>2. Leaving \in Seq(Payloads)
    BY <1>1, ConcatProperties DEF Leaving
<1> QED BY <1>1, <1>2 DEF Leaving, QueuedIds, Ids

(* RingBuffer.push is Record, or RecordOverOldest when the buffer is full.  *)
LEMMA PushRecords == TypeOK /\ LineUp /\ Push => Queue!Next
<1> SUFFICES ASSUME TypeOK, LineUp, Push PROVE Queue!Next
    OBVIOUS
<1> DEFINE p == pushed + 1
<1>1. p \in Payloads /\ p \in Nat /\ pushed \in Nat
    BY BoundsAssumption DEF Push, TypeOK, Payloads
<1>2. Payloads \subseteq Nat
    BY PlacesInPayloads
<1>3. Queue!IsNext(p)
    BY <1>1, <1>2 DEF LineUp, Queue!IsNext
<1>4. /\ exportQueue' = exportQueue /\ inFlight' = inFlight /\ batch' = batch
    BY DEF Push, httpVars, flushVars
<1>5. UNCHANGED <<QueuedIds \o batch, {req.id : req \in inFlight}>>
    BY <1>4 DEF QueuedIds
<1>6. Len(buffer) \in Nat /\ Len(buffer) <= Capacity /\ Capacity \in Nat
    BY CapacityAssumption DEF TypeOK
<1>a. CASE Len(buffer) >= Capacity
  <2>1. Len(buffer) = Capacity
      BY <1>6, <1>a
  <2>2. /\ buffer' = Append(Tail(buffer), p)
        /\ fate' = [fate EXCEPT ![p] = "held", ![Head(buffer)] = "evicted"]
      BY <1>a DEF Push
  <2>3. Queue!RecordOverOldest(p)
      BY <1>3, <1>5, <2>1, <2>2 DEF Queue!RecordOverOldest
  <2> QED BY <1>1, <2>3 DEF Queue!Next
<1>b. CASE ~(Len(buffer) >= Capacity)
  <2>1. Len(buffer) < Capacity
      BY <1>6, <1>b
  <2>2. buffer' = Append(buffer, p) /\ fate' = [fate EXCEPT ![p] = "held"]
      BY <1>b DEF Push
  <2>3. Queue!Record(p)
      BY <1>3, <1>5, <2>1, <2>2 DEF Queue!Record
  <2> QED BY <1>1, <2>3 DEF Queue!Next
<1> QED BY <1>a, <1>b

(* A drain is Take, or nothing when the buffer is empty.                    *)
LEMMA DrainTakes == TypeOK /\ LineUp /\ Drain => Queue!Next \/ UNCHANGED Queue!vars
<1> SUFFICES ASSUME TypeOK, LineUp, Drain PROVE Queue!Next \/ UNCHANGED Queue!vars
    OBVIOUS
<1>1. batch = <<>>
    BY DrainKeepsLine
<1>2. /\ batch' = buffer /\ buffer' = <<>> /\ exportQueue' = exportQueue
      /\ inFlight' = inFlight /\ fate' = fate
    BY DEF Drain, httpVars
<1>3. UNCHANGED <<QueuedIds, {req.id : req \in inFlight}, fate>>
    BY <1>2 DEF QueuedIds
<1>4. QueuedIds \in Seq(Payloads) /\ QueuedIds \o <<>> = QueuedIds
  <2>1. QueuedIds = Ids(exportQueue)
      BY DEF QueuedIds, Ids
  <2> QED BY <2>1, LeavingIs, ConcatEmptySeq
<1>5. (QueuedIds \o batch)' = (QueuedIds \o batch) \o buffer
    BY <1>1, <1>2, <1>3, <1>4
<1>a. CASE buffer = <<>>
  <2>1. (QueuedIds \o batch)' = QueuedIds \o batch
      BY <1>1, <1>2, <1>3, <1>a
  <2> QED BY <1>2, <1>3, <1>a, <2>1 DEF Queue!vars
<1>b. CASE buffer # <<>>
  <2>1. Queue!Take
      BY <1>2, <1>3, <1>5, <1>b DEF Queue!Take
  <2> QED BY <2>1 DEF Queue!Next
<1> QED BY <1>a, <1>b

(* SendNext moves a payload between two stages of leaving: a stutter.       *)
LEMMA SendNextStutters == TypeOK /\ SendNext => UNCHANGED Queue!vars
<1> SUFFICES ASSUME TypeOK, SendNext PROVE UNCHANGED Queue!vars
    OBVIOUS
<1> DEFINE h   == Head(batch)
           req == tagWithDroppedCount(h, tag)
<1>1. batch # <<>> /\ batch \in Seq(Payloads) /\ exportQueue \in Seq(Request)
    BY DEF SendNext, TypeOK
<1>2. h \in Payloads
    BY <1>1, HeadTailProperties
<1>3. req \in Request /\ req.id = h
    BY <1>2 DEF TypeOK, Request, tagWithDroppedCount
<1>4. /\ exportQueue' = Append(exportQueue, req) /\ batch' = Tail(batch)
      /\ buffer' = buffer /\ inFlight' = inFlight /\ fate' = fate
    BY DEF SendNext, ringVars
<1>5. Ids(exportQueue)' = Append(Ids(exportQueue), h)
  <2> HIDE DEF req, h
  <2>1. Ids(Append(exportQueue, req)) = Append(Ids(exportQueue), h)
      BY <1>1, <1>3, IdsAppend
  <2> QED BY <1>4, <2>1 DEF Ids
<1>6. Append(Ids(exportQueue), h) \o Tail(batch) = Ids(exportQueue) \o batch
    BY <1>1, LeavingIs, HandOver
<1>7. Leaving' = Leaving
    BY <1>4, <1>5, <1>6 DEF Leaving
<1>8. (QueuedIds \o batch)' = QueuedIds \o batch
    BY <1>7 DEF Leaving, QueuedIds, Ids
<1> QED BY <1>4, <1>8 DEF Queue!vars

(* SendNow is Send.                                                         *)
LEMMA SendNowSends == TypeOK /\ SendNow => Queue!Send
<1> SUFFICES ASSUME TypeOK, SendNow PROVE Queue!Send
    OBVIOUS
<1> DEFINE req == Head(exportQueue)
           h   == req.id
<1>1. /\ exportQueue # <<>> /\ exportQueue \in Seq(Request) /\ batch \in Seq(Payloads)
      /\ Ids(exportQueue) \in Seq(Payloads)
    BY LeavingIs DEF SendNow, TypeOK
<1>2. /\ Ids(exportQueue) # <<>> /\ Head(Ids(exportQueue)) = h
      /\ Ids(Tail(exportQueue)) = Tail(Ids(exportQueue))
    BY <1>1, IdsTail
<1>3. /\ exportQueue' = Tail(exportQueue) /\ batch' = batch /\ buffer' = buffer
    BY DEF SendNow, ringVars, flushVars
<1>4. \/ inFlight' = inFlight \cup {req} /\ fate' = fate
      \/ inFlight' = inFlight /\ fate' = [fate EXCEPT ![h] = "failed"]
    BY DEF SendNow
<1>5. Leaving # <<>> /\ Head(Leaving) = h /\ Tail(Leaving) = Tail(Ids(exportQueue)) \o batch
    BY <1>1, <1>2, FrontOfConcat DEF Leaving
<1>6. Leaving' = Tail(Leaving)
    BY <1>2, <1>3, <1>5 DEF Leaving, Ids
<1>7. Leaving = QueuedIds \o batch /\ Leaving' = (QueuedIds \o batch)'
    BY DEF Leaving, QueuedIds, Ids
<1>8. \/ (Flying' = Flying \cup {h} /\ fate' = fate)
      \/ (Flying' = Flying /\ fate' = [fate EXCEPT ![h] = "failed"])
    BY <1>4 DEF Flying
<1> HIDE DEF h, Leaving
<1> QED BY <1>3, <1>5, <1>6, <1>7, <1>8 DEF Queue!Send, Flying

(* A POST that ends is Answer.                                              *)
LEMMA PostAnswers ==
    ASSUME TypeOK, LineUp, NEW req \in inFlight, PostSucceeds(req) \/ PostFails(req)
    PROVE  Queue!Next
<1>1. Flying' = Flying \ {req.id}
    BY AnswerKeepsLine
<1>2. req.id \in Payloads /\ req.id \in Flying
    BY DEF TypeOK, Request, Flying
<1>3. PICK f \in {"delivered", "failed"} : fate' = [fate EXCEPT ![req.id] = f]
    BY DEF PostSucceeds, PostFails
<1>4. exportQueue' = exportQueue /\ batch' = batch /\ buffer' = buffer
    BY DEF PostSucceeds, PostFails, ringVars, flushVars
<1>5. UNCHANGED <<buffer, QueuedIds \o batch>>
    BY <1>4 DEF QueuedIds
<1>6. Queue!Answer(req.id)
    BY <1>1, <1>2, <1>3, <1>5 DEF Queue!Answer, Flying
<1> QED BY <1>2, <1>6 DEF Queue!Next

(* A kill is Die.                                                           *)
LEMMA KillDies == TypeOK /\ Kill => Queue!Die
<1> SUFFICES ASSUME TypeOK, Kill PROVE Queue!Die
    OBVIOUS
<1>1. /\ buffer' = <<>> /\ batch' = <<>> /\ exportQueue' = <<>> /\ inFlight' = {}
    BY DEF Kill
<1>2. PICK arrived \in SUBSET inFlight :
        fate' = [p \in Payloads |->
                   IF fate[p] # "held" THEN fate[p]
                   ELSE IF \E req \in arrived : req.id = p THEN "delivered"
                   ELSE "killed"]
    BY DEF Kill
<1> DEFINE ids == {req.id : req \in arrived}
<1>3. ids \in SUBSET {req.id : req \in inFlight}
    BY <1>2
<1>4. \A p \in Payloads : (\E req \in arrived : req.id = p) <=> p \in ids
    OBVIOUS
<1>5. fate' = [p \in Payloads |-> IF fate[p] # "held" THEN fate[p]
                                  ELSE IF p \in ids THEN "delivered"
                                  ELSE "killed"]
    BY <1>2, <1>4
<1>6. (QueuedIds \o batch)' = <<>>
  <2>1. QueuedIds' = <<>>
      BY <1>1 DEF QueuedIds
  <2> QED BY <1>1, <2>1
<1>7. {req.id : req \in inFlight}' = {}
    BY <1>1
<1> HIDE DEF ids
<1> QED BY <1>1, <1>3, <1>5, <1>6, <1>7 DEF Queue!Die

(* Whatever threads, timer, flushes, the network and the system do, the     *)
(* pipeline moves as the drop-oldest queue of RingBuffer does: payloads     *)
(* leave in the order they were recorded, the oldest buffered one makes     *)
(* room, and each meets one fate.                                           *)
THEOREM PipelineIsDropOldestQueue == Spec => QueueSpec
<1>1. Init => Queue!Init
  <2> SUFFICES ASSUME Init PROVE Queue!Init
      OBVIOUS
  <2>1. QueuedIds \o batch = <<>>
    <3>1. QueuedIds = <<>> /\ batch = <<>>
        BY DEF Init, QueuedIds
    <3> QED BY <3>1
  <2> QED BY <2>1 DEF Init, Queue!Init
<1>2. TypeOK /\ LineUp /\ [Next]_vars => [Queue!Next]_(Queue!vars)
  <2> SUFFICES ASSUME TypeOK, LineUp, [Next]_vars PROVE [Queue!Next]_(Queue!vars)
      OBVIOUS
  <2>1. CASE Quiet
    <3>1. UNCHANGED <<buffer, batch, exportQueue, inFlight, fate>>
        BY <2>1, QuietLeavesLine
    <3> QED BY <3>1 DEF Queue!vars, QueuedIds
  <2>2. CASE Push
      BY <2>2, PushRecords
  <2>3. CASE Drain
      BY <2>3, DrainTakes
  <2>4. CASE SendNext
      BY <2>4, SendNextStutters
  <2>5. CASE SendNow
      BY <2>5, SendNowSends DEF Queue!Next
  <2>6. CASE Kill
      BY <2>6, KillDies DEF Queue!Next
  <2>7. CASE \E req \in inFlight : PostSucceeds(req) \/ PostFails(req)
      BY <2>7, PostAnswers
  <2> QED BY <2>1, <2>2, <2>3, <2>4, <2>5, <2>6, <2>7, StepCases
<1> QED BY <1>1, <1>2, LineInvariant, PTL DEF Spec, QueueSpec, Queue!Spec

-----------------------------------------------------------------------------
(* waitUntilIdle as a barrier.  While the main thread waits, a payload the  *)
(* barrier is about can be in the buffer only as long as a drain is queued  *)
(* ahead of the last signal; in the batch it keeps the flush queue busy,    *)
(* so that no signal runs before it is sent.                                *)
DrainQueued       == \E i \in 1 .. Len(flushQueue) : flushQueue[i] # "signal"
DrainBeforeSignal == \E i, j \in 1 .. Len(flushQueue) :
                        i < j /\ flushQueue[i] # "signal" /\ flushQueue[j] = "signal"
Drained           == barrier \cap Elements(buffer) = {}

BarrierInv ==
    /\ \A p \in barrier : p <= pushed
    /\ app = "flushing" => Drained \/ DrainQueued
    /\ app = "waiting" => Drained \/ DrainBeforeSignal
    /\ BackgroundFlushBarrier

(* Appending a task keeps the drain that is queued, and where it is.        *)
LEMMA AppendKeepsDrain ==
    ASSUME flushQueue \in Seq(Tasks), NEW t \in Tasks,
           flushQueue' = Append(flushQueue, t)
    PROVE  /\ DrainQueued => DrainQueued'
           /\ DrainBeforeSignal => DrainBeforeSignal'
           /\ t # "signal" => DrainQueued'
           /\ DrainQueued /\ t = "signal" => DrainBeforeSignal'
<1> DEFINE q == flushQueue
<1>1. /\ Len(q) \in Nat /\ Len(q') = Len(q) + 1
      /\ \A i \in 1 .. Len(q) : q'[i] = q[i]
      /\ q'[Len(q) + 1] = t
    BY AppendProperties
<1>2. \A i \in 1 .. Len(q) : i \in 1 .. Len(q') /\ i < Len(q) + 1
    BY <1>1
<1>3. Len(q) + 1 \in 1 .. Len(q')
    BY <1>1
<1>4. DrainQueued => DrainQueued'
    BY <1>1, <1>2 DEF DrainQueued
<1>5. DrainBeforeSignal => DrainBeforeSignal'
    BY <1>1, <1>2 DEF DrainBeforeSignal
<1>6. t # "signal" => DrainQueued'
    BY <1>1, <1>3 DEF DrainQueued
<1>7. DrainQueued /\ t = "signal" => DrainBeforeSignal'
    BY <1>1, <1>2, <1>3 DEF DrainQueued, DrainBeforeSignal
<1> QED BY <1>4, <1>5, <1>6, <1>7

(* A signal at the head of the queue is behind no drain.                    *)
LEMMA SignalKeepsDrain ==
    ASSUME flushQueue \in Seq(Tasks), flushQueue # <<>>, Head(flushQueue) = "signal",
           flushQueue' = Tail(flushQueue)
    PROVE  /\ DrainQueued => DrainQueued'
           /\ DrainBeforeSignal => /\ DrainBeforeSignal'
                                   /\ "signal" \in Elements(Tail(flushQueue))
<1> DEFINE q == flushQueue
<1>1. /\ Len(q) \in Nat \ {0} /\ Len(q') = Len(q) - 1
      /\ \A i \in 1 .. Len(q') : q'[i] = q[i + 1]
      /\ q[1] = "signal"
    BY HeadTailProperties, EmptySeq
<1>2. \A i \in 1 .. Len(q) : q[i] # "signal" => /\ i - 1 \in 1 .. Len(q')
                                                /\ (i - 1) + 1 = i
    BY <1>1
<1>3. ASSUME NEW i \in 1 .. Len(q), q[i] # "signal"
      PROVE  i - 1 \in 1 .. Len(q') /\ q'[i - 1] = q[i]
    BY <1>1, <1>2, <1>3
<1>4. DrainQueued => DrainQueued'
    BY <1>3 DEF DrainQueued
<1>5. ASSUME DrainBeforeSignal
      PROVE  DrainBeforeSignal' /\ "signal" \in Elements(Tail(flushQueue))
  <2>1. PICK i \in 1 .. Len(q), j \in 1 .. Len(q) :
          i < j /\ q[i] # "signal" /\ q[j] = "signal"
      BY <1>5 DEF DrainBeforeSignal
  <2>2. i - 1 \in 1 .. Len(q') /\ q'[i - 1] = q[i]
      BY <1>3, <2>1
  <2>3. j - 1 \in 1 .. Len(q') /\ (j - 1) + 1 = j /\ i - 1 < j - 1
      BY <1>1, <2>1
  <2>4. q'[j - 1] = "signal"
      BY <1>1, <2>1, <2>3
  <2>5. DrainBeforeSignal'
      BY <2>1, <2>2, <2>3, <2>4 DEF DrainBeforeSignal
  <2>6. "signal" \in Elements(Tail(flushQueue))
      BY <2>3, <2>4 DEF Elements
  <2> QED BY <2>5, <2>6
<1> QED BY <1>4, <1>5

(* Nothing enters the buffer and the batch that the barrier is about.       *)
LEMMA BarrierStep == TypeOK /\ LineUp /\ BarrierInv /\ [Next]_vars => BarrierInv'
<1> SUFFICES ASSUME TypeOK, LineUp, BarrierInv, [Next]_vars PROVE BarrierInv'
    OBVIOUS
<1> DEFINE W == Elements(buffer)
           B == Elements(batch)
<1>t. /\ flushQueue \in Seq(Tasks) /\ buffer \in Seq(Payloads) /\ batch \in Seq(Payloads)
      /\ pushed \in Nat /\ barrier \subseteq Payloads
      /\ W \subseteq Payloads /\ B \subseteq Payloads /\ Payloads \subseteq Nat
    BY PlacesInPayloads, BoundsAssumption DEF TypeOK
<1>b. /\ \A p \in barrier : p <= pushed
      /\ app = "flushing" => Drained \/ DrainQueued
      /\ app = "waiting" => Drained \/ DrainBeforeSignal
      /\ app \in {"background", "suspended"} => barrier \cap (W \cup B) = {}
    BY DEF BarrierInv, BackgroundFlushBarrier
<1>1. CASE Push
  <2>1. /\ app' = app /\ barrier' = barrier /\ flushQueue' = flushQueue /\ batch' = batch
        /\ pushed' = pushed + 1
      BY <1>1 DEF Push, appVars, flushVars
  <2>2. W' \subseteq W \cup {pushed + 1}
    <3>1. pushed + 1 \in Payloads
        BY <1>1, BoundsAssumption DEF Push, TypeOK, Payloads
    <3>2. CASE Len(buffer) >= Capacity
      <4>1. buffer # <<>>
          BY <3>2, CapacityAssumption DEF TypeOK
      <4>2. buffer' = Append(Tail(buffer), pushed + 1)
          BY <1>1, <3>2 DEF Push
      <4>3. Tail(buffer) \in Seq(Payloads) /\ Elements(Tail(buffer)) \subseteq W
          BY <1>t, <4>1, HeadTailProperties, ElementsTail
      <4> DEFINE s == Tail(buffer)
      <4>s. s \in Seq(Payloads)
          BY <4>3
      <4> HIDE DEF s
      <4>4. Elements(Append(s, pushed + 1)) = Elements(s) \cup {pushed + 1}
          BY <3>1, <4>s, ElementsAppend
      <4>5. W' = Elements(Append(s, pushed + 1))
          BY <4>2 DEF Elements, s
      <4> QED BY <4>3, <4>4, <4>5 DEF s
    <3>3. CASE ~(Len(buffer) >= Capacity)
      <4>1. buffer' = Append(buffer, pushed + 1)
          BY <1>1, <3>3 DEF Push
      <4>2. Elements(Append(buffer, pushed + 1)) = W \cup {pushed + 1}
          BY <1>t, <3>1, ElementsAppend
      <4> QED BY <4>1, <4>2 DEF Elements
    <3> QED BY <3>2, <3>3
  <2>3. pushed + 1 \notin barrier
      BY <1>b, <1>t
  <2>4. B' = B /\ (DrainQueued' <=> DrainQueued) /\ (DrainBeforeSignal' <=> DrainBeforeSignal)
      BY <2>1 DEF Elements, DrainQueued, DrainBeforeSignal
  <2>5. \A p \in barrier : p <= pushed + 1
    <3> SUFFICES ASSUME NEW p \in barrier PROVE p <= pushed + 1
        OBVIOUS
    <3>1. p \in Nat /\ p <= pushed
        BY <1>b, <1>t
    <3> QED BY <1>t, <3>1
  <2> HIDE DEF W, B
  <2>6. /\ barrier \cap W = {} => barrier \cap W' = {}
        /\ barrier \cap (W \cup B) = {} => barrier \cap (W' \cup B) = {}
      BY <2>2, <2>3
  <2> QED BY <1>b, <2>1, <2>4, <2>5, <2>6
          DEF BarrierInv, BackgroundFlushBarrier, Drained, W, B
<1>2. CASE Drain
  <2>1. /\ app' = app /\ barrier' = barrier /\ pushed' = pushed
        /\ batch' = buffer /\ buffer' = <<>>
      BY <1>2 DEF Drain, appVars
  <2>2. W' = {} /\ B' = W
      BY <2>1, ElementsEmpty DEF Elements
  <2> HIDE DEF W, B
  <2> QED BY <1>b, <2>1, <2>2 DEF BarrierInv, BackgroundFlushBarrier, Drained, W, B
<1>3. CASE SendNext
  <2>1. /\ app' = app /\ barrier' = barrier /\ pushed' = pushed /\ buffer' = buffer
        /\ batch' = Tail(batch) /\ flushQueue' = flushQueue
      BY <1>3 DEF SendNext, appVars, ringVars
  <2>2. batch # <<>>
      BY <1>3 DEF SendNext, TypeOK
  <2>3. B' \subseteq B /\ W' = W
    <3>1. Elements(Tail(batch)) \subseteq B
        BY <1>t, <2>2, ElementsTail
    <3> QED BY <2>1, <3>1 DEF Elements
  <2>4. (DrainQueued' <=> DrainQueued) /\ (DrainBeforeSignal' <=> DrainBeforeSignal)
      BY <2>1 DEF DrainQueued, DrainBeforeSignal
  <2> HIDE DEF W, B
  <2> QED BY <1>b, <2>1, <2>3, <2>4 DEF BarrierInv, BackgroundFlushBarrier, Drained, W, B
<1>4. CASE TimerFire
  <2>1. flushQueue' = Append(flushQueue, "timer") /\ "timer" \in Tasks
      BY <1>4 DEF TimerFire, Tasks
  <2>2. (DrainQueued => DrainQueued') /\ (DrainBeforeSignal => DrainBeforeSignal')
      BY <1>t, <2>1, AppendKeepsDrain
  <2>3. /\ app' = app /\ barrier' = barrier /\ pushed' = pushed /\ buffer' = buffer
        /\ batch' = batch
      BY <1>4 DEF TimerFire, appVars, ringVars, flushVars
  <2>4. W' = W /\ B' = B
      BY <2>3 DEF Elements
  <2> HIDE DEF W, B
  <2> QED BY <1>b, <2>2, <2>3, <2>4 DEF BarrierInv, BackgroundFlushBarrier, Drained, W, B
<1>5. CASE EnterBackground
  <2>1. flushQueue' = Append(flushQueue, "flush") /\ "flush" \in Tasks
      BY <1>5 DEF EnterBackground, Tasks
  <2>2. DrainQueued'
      BY <1>t, <2>1, AppendKeepsDrain
  <2>3. app' = "flushing" /\ barrier' = W \cup B /\ pushed' = pushed
      BY <1>5 DEF EnterBackground
  <2>4. \A p \in barrier' : p <= pushed
    <3> SUFFICES ASSUME NEW p \in W \cup B PROVE p <= pushed
        BY <2>3
    <3>1. p \in Held /\ p \in Payloads /\ p \in Nat
        BY <1>t DEF LineUp
    <3>2. fate[p] = "held"
        BY <3>1 DEF Held
    <3>3. ~(p > pushed)
        BY <3>1, <3>2 DEF LineUp
    <3> QED BY <1>t, <3>1, <3>3
  <2> QED BY <2>2, <2>3, <2>4 DEF BarrierInv, BackgroundFlushBarrier
<1>6. CASE WaitUntilIdle
  <2>1. flushQueue' = Append(flushQueue, "signal") /\ "signal" \in Tasks
      BY <1>6 DEF WaitUntilIdle, Tasks
  <2>2. DrainQueued => DrainBeforeSignal'
      BY <1>t, <2>1, AppendKeepsDrain
  <2>3. /\ app = "flushing" /\ app' = "waiting" /\ barrier' = barrier /\ pushed' = pushed
        /\ buffer' = buffer
      BY <1>6 DEF WaitUntilIdle, ringVars
  <2>4. W' = W
      BY <2>3 DEF Elements
  <2> HIDE DEF W, B
  <2> QED BY <1>b, <2>2, <2>3, <2>4 DEF BarrierInv, BackgroundFlushBarrier, Drained, W, B
<1>7. CASE Signal
  <2>1. /\ flushQueue # <<>> /\ Head(flushQueue) = "signal"
        /\ flushQueue' = Tail(flushQueue)
      BY <1>7 DEF Signal
  <2>2. /\ DrainQueued => DrainQueued'
        /\ DrainBeforeSignal => /\ DrainBeforeSignal'
                                /\ "signal" \in Elements(Tail(flushQueue))
      BY <1>t, <2>1, SignalKeepsDrain
  <2>3. /\ barrier' = barrier /\ pushed' = pushed /\ buffer' = buffer /\ batch' = batch
        /\ app' = IF app = "waiting" /\ "signal" \notin Elements(Tail(flushQueue))
                  THEN "background" ELSE app
      BY <1>7 DEF Signal, ringVars, flushVars
  <2>4. W' = W /\ B' = B
      BY <2>3 DEF Elements
  <2>5. B = {}
    <3>1. batch = <<>>
        BY <1>7 DEF Signal, TypeOK
    <3> QED BY <3>1, ElementsEmpty
  <2> HIDE DEF W, B
  <2>6. CASE app = "waiting" /\ "signal" \notin Elements(Tail(flushQueue))
    <3>1. barrier \cap W = {}
        BY <1>b, <2>2, <2>6 DEF Drained, W
    <3>2. app' = "background"
        BY <2>3, <2>6
    <3> QED BY <1>b, <2>3, <2>4, <2>5, <3>1, <3>2
            DEF BarrierInv, BackgroundFlushBarrier, W, B
  <2>7. CASE ~(app = "waiting" /\ "signal" \notin Elements(Tail(flushQueue)))
    <3>1. app' = app
        BY <2>3, <2>7
    <3> QED BY <1>b, <2>2, <2>3, <2>4, <3>1
            DEF BarrierInv, BackgroundFlushBarrier, Drained, W, B
  <2> QED BY <2>6, <2>7
<1>8. CASE Suspend
  <2>1. /\ app = "background" /\ app' = "suspended"
        /\ UNCHANGED <<buffer, batch, barrier, pushed>>
      BY <1>8 DEF Suspend, ringVars, flushVars
  <2>2. W' = W /\ B' = B
      BY <2>1 DEF Elements
  <2> HIDE DEF W, B
  <2> QED BY <1>b, <2>1, <2>2 DEF BarrierInv, BackgroundFlushBarrier, W, B
<1>9. CASE WaitTimesOut \/ Foreground \/ Kill
  <2>1. barrier' = {} /\ app' \in {"background", "active", "off"}
      BY <1>9 DEF WaitTimesOut, Foreground, Kill
  <2> QED BY <2>1 DEF BarrierInv, BackgroundFlushBarrier
<1>10. CASE Start
  <2>1. app' = "active" /\ barrier' = barrier /\ pushed' = pushed
      BY <1>10 DEF Start
  <2> QED BY <1>b, <2>1 DEF BarrierInv, BackgroundFlushBarrier
<1>11. CASE \/ ConsumeDroppedCount \/ SendNow \/ UNCHANGED vars
            \/ \E req \in inFlight : PostSucceeds(req) \/ PostFails(req)
  <2>1. UNCHANGED <<buffer, batch, flushQueue, app, barrier, pushed>>
      BY <1>11 DEF ConsumeDroppedCount, SendNow, PostSucceeds, PostFails, vars,
                   ringVars, flushVars, appVars
  <2>2. /\ W' = W /\ B' = B
        /\ (DrainQueued' <=> DrainQueued) /\ (DrainBeforeSignal' <=> DrainBeforeSignal)
      BY <2>1 DEF Elements, DrainQueued, DrainBeforeSignal
  <2> HIDE DEF W, B
  <2> QED BY <1>b, <2>1, <2>2 DEF BarrierInv, BackgroundFlushBarrier, Drained, W, B
<1> QED BY <1>1, <1>2, <1>3, <1>4, <1>5, <1>6, <1>7, <1>8, <1>9, <1>10, <1>11 DEF Next

(* When waitUntilIdle returns by its signal, every payload recorded before  *)
(* the app entered the background has been handed to the HTTP exporter,     *)
(* also when earlier waits timed out and left their signals in the queue.   *)
THEOREM BarrierHolds == Spec => []BackgroundFlushBarrier
<1>1. Init => BarrierInv
    BY DEF Init, BarrierInv, BackgroundFlushBarrier
<1>2. BarrierInv => BackgroundFlushBarrier
    BY DEF BarrierInv
<1> QED BY <1>1, <1>2, BarrierStep, LineInvariant, PTL DEF Spec
=============================================================================

------------------------------ MODULE SdkExport ------------------------------
(***************************************************************************)
(* The export pipeline of the iOS SDK: RingBuffer (drop-oldest, behind one *)
(* lock), BatchSpanProcessor (a serial flush queue drained by a timer, by  *)
(* flushNow and used as a barrier by waitUntilIdle), HTTPSpanExporter (a   *)
(* serial export queue, then concurrent POSTs with no retry) and the       *)
(* LifecycleObserver that flushes when the app enters the background.      *)
(*                                                                         *)
(* Each atomic step is one critical section of the code: what a thread     *)
(* does while it holds RingBuffer.lock, or one task body of a serial       *)
(* queue between two such sections.  Payloads are numbered in the order    *)
(* RingBuffer.push admits them; their content is abstracted, except the    *)
(* meta.droppedSpans stamp.                                                *)
(***************************************************************************)
EXTENDS Integers, Sequences, FiniteSets

CONSTANTS
    Capacity,       \* RingBuffer.capacity (512 in production)
    MaxPayloads,    \* bound: payloads the host app records
    MaxBackgrounds, \* bound: times the app enters the background
    MaxKills        \* bound: times the process is killed and relaunched

ASSUME CapacityAssumption == Capacity \in Nat \ {0}   \* the precondition in init
ASSUME BoundsAssumption   == /\ MaxPayloads \in Nat
                             /\ MaxBackgrounds \in Nat
                             /\ MaxKills \in Nat

VARIABLES
    buffer,        \* RingBuffer.storage
    droppedCount,  \* RingBuffer._droppedCount
    flushQueue,    \* tasks waiting on BatchSpanProcessor.flushQueue
    flushPc,       \* where drainAndSend is: idle, drained or sending
    batch,         \* payloads of the running drainAndSend not exported yet
    tag,           \* its local `dropped`, until a payload carries it
    exportQueue,   \* tasks waiting on HTTPSpanExporter.exportQueue
    inFlight,      \* resumed data tasks without an outcome
    app,           \* the app's lifecycle, and what its main thread does
    backgrounds, kills,                            \* bounded counters
    (* History: what became of each payload and of each counted drop. *)
    pushed, fate, evictions, stamped, forgotten, unreported, barrier

ringVars   == <<buffer, droppedCount>>
flushVars  == <<flushPc, batch, tag>>
httpVars   == <<exportQueue, inFlight>>
appVars    == <<app, backgrounds, kills>>
dropVars   == <<evictions, stamped, forgotten, unreported>>
vars == <<ringVars, flushVars, flushQueue, httpVars, appVars, dropVars,
          pushed, fate, barrier>>

Payloads == 1 .. MaxPayloads
Request  == [id : Payloads, dropped : Nat]
Fates    == {"new", "held", "evicted", "delivered", "failed", "killed"}
Tasks    == {"timer", "flush", "signal"}

Elements(s) == {s[i] : i \in 1 .. Len(s)}
Held        == {p \in Payloads : fate[p] = "held"}
Running     == app \notin {"off", "suspended"}

(* The payload as tagWithDroppedCount returns it; 0 is an absent attribute. *)
tagWithDroppedCount(p, n) == [id |-> p, dropped |-> n]

Init ==
    /\ buffer = <<>> /\ droppedCount = 0
    /\ flushQueue = <<>> /\ flushPc = "idle" /\ batch = <<>> /\ tag = 0
    /\ exportQueue = <<>> /\ inFlight = {}
    /\ app = "off" /\ backgrounds = 0 /\ kills = 0
    /\ pushed = 0 /\ fate = [p \in Payloads |-> "new"]
    /\ evictions = 0 /\ stamped = 0 /\ forgotten = 0 /\ unreported = 0
    /\ barrier = {}

(* EdgeProbe.start with an endpoint: a fresh exporter, processor, observer. *)
Start ==
    /\ app = "off"
    /\ app' = "active"
    /\ UNCHANGED <<ringVars, flushVars, flushQueue, httpVars, backgrounds,
                   kills, dropVars, pushed, fate, barrier>>

(* Faulty push: the overflow check is missing.                              *)
Push_NeverEvicts ==
    /\ Running
    /\ pushed < MaxPayloads
    /\ pushed' = pushed + 1
    /\ buffer' = Append(buffer, pushed + 1)
    /\ fate' = [fate EXCEPT ![pushed + 1] = "held"]
    /\ UNCHANGED <<droppedCount, flushVars, flushQueue, httpVars, appVars,
                   dropVars, barrier>>

(* Faulty push: a full buffer gives up its newest element (removeLast).     *)
Push_DropsNewest ==
    LET p == pushed + 1
        n == Len(buffer)
    IN  /\ Running
        /\ pushed < MaxPayloads
        /\ pushed' = p
        /\ IF n >= Capacity
           THEN /\ buffer' = [buffer EXCEPT ![n] = p]
                /\ droppedCount' = droppedCount + 1
                /\ fate' = [fate EXCEPT ![p] = "held", ![buffer[n]] = "evicted"]
                /\ evictions' = evictions + 1
           ELSE /\ buffer' = Append(buffer, p)
                /\ fate' = [fate EXCEPT ![p] = "held"]
                /\ UNCHANGED <<droppedCount, evictions>>
        /\ UNCHANGED <<flushVars, flushQueue, httpVars, appVars, stamped,
                       forgotten, unreported, barrier>>

(* BatchSpanProcessor.export on any thread: RingBuffer.push under its lock. *)
(* While the main thread waits for a flush other threads still record.      *)
Push ==
    LET p      == pushed + 1
        isFull == Len(buffer) >= Capacity
    IN  /\ Running
        /\ pushed < MaxPayloads
        /\ pushed' = p
        /\ IF isFull
           THEN /\ buffer' = Append(Tail(buffer), p)
                /\ droppedCount' = droppedCount + 1
                /\ fate' = [fate EXCEPT ![p] = "held",
                                        ![Head(buffer)] = "evicted"]
                /\ evictions' = evictions + 1
           ELSE /\ buffer' = Append(buffer, p)
                /\ fate' = [fate EXCEPT ![p] = "held"]
                /\ UNCHANGED <<droppedCount, evictions>>
        /\ UNCHANGED <<flushVars, flushQueue, httpVars, appVars, stamped,
                       forgotten, unreported, barrier>>

-----------------------------------------------------------------------------
(* BatchSpanProcessor: the flush queue.                                     *)

(* Faulty timer: it drains only once the buffer is full.                    *)
TimerFire_OnlyWhenFull ==
    /\ Running
    /\ Len(buffer) >= Capacity
    /\ "timer" \notin Elements(flushQueue)
    /\ flushQueue' = Append(flushQueue, "timer")
    /\ UNCHANGED <<ringVars, flushVars, httpVars, appVars, dropVars, pushed,
                   fate, barrier>>

(* The dispatch timer fires; a timer source coalesces unserved firings.     *)
TimerFire ==
    /\ Running
    /\ "timer" \notin Elements(flushQueue)
    /\ flushQueue' = Append(flushQueue, "timer")
    /\ UNCHANGED <<ringVars, flushVars, httpVars, appVars, dropVars, pushed,
                   fate, barrier>>

(* Faulty drain: a snapshot that leaves the storage as it is.               *)
Drain_KeepsStorage ==
    /\ Running
    /\ flushPc = "idle"
    /\ flushQueue # <<>> /\ Head(flushQueue) \in {"timer", "flush"}
    /\ flushQueue' = Tail(flushQueue)
    /\ batch' = buffer
    /\ flushPc' = IF buffer = <<>> THEN "idle" ELSE "drained"
    /\ UNCHANGED <<ringVars, tag, httpVars, appVars, dropVars, pushed, fate,
                   barrier>>

(* drainAndSend, first critical section: RingBuffer.drain.  An empty        *)
(* snapshot ends the task without touching the dropped counter.             *)
Drain ==
    /\ Running
    /\ flushPc = "idle"
    /\ flushQueue # <<>> /\ Head(flushQueue) \in {"timer", "flush"}
    /\ flushQueue' = Tail(flushQueue)
    /\ batch' = buffer
    /\ buffer' = <<>>
    /\ flushPc' = IF buffer = <<>> THEN "idle" ELSE "drained"
    /\ UNCHANGED <<droppedCount, tag, httpVars, appVars, dropVars, pushed,
                   fate, barrier>>

(* Faulty consume: the counter is read and not zeroed.                      *)
ConsumeDroppedCount_NoReset ==
    /\ Running
    /\ flushPc = "drained"
    /\ tag' = droppedCount
    /\ flushPc' = "sending"
    /\ UNCHANGED <<ringVars, batch, flushQueue, httpVars, appVars, dropVars,
                   pushed, fate, barrier>>

(* Second critical section: consumeDroppedCount.  Pushes, and evictions,    *)
(* may have happened since the drain.                                       *)
ConsumeDroppedCount ==
    /\ Running
    /\ flushPc = "drained"
    /\ tag' = droppedCount
    /\ droppedCount' = 0
    /\ flushPc' = "sending"
    /\ UNCHANGED <<buffer, batch, flushQueue, httpVars, appVars, dropVars,
                   pushed, fate, barrier>>

(* One turn of the loop: downstream.export, which only enqueues.  The first *)
(* payload of the batch carries the count, if there is one.                 *)
SendNext ==
    /\ Running
    /\ flushPc = "sending"
    /\ exportQueue' = Append(exportQueue, tagWithDroppedCount(Head(batch), tag))
    /\ stamped' = stamped + tag
    /\ tag' = 0
    /\ batch' = Tail(batch)
    /\ flushPc' = IF Len(batch) = 1 THEN "idle" ELSE "sending"
    /\ UNCHANGED <<ringVars, flushQueue, inFlight, appVars, evictions,
                   forgotten, unreported, pushed, fate, barrier>>

-----------------------------------------------------------------------------
(* HTTPSpanExporter: the export queue and the network.                      *)

(* sendNow: the request is encoded and its data task resumed; nothing waits *)
(* for the answer.  A payload that cannot be encoded is logged and dropped. *)
SendNow ==
    /\ Running
    /\ exportQueue # <<>>
    /\ exportQueue' = Tail(exportQueue)
    /\ LET req == Head(exportQueue)
       IN  \/ /\ inFlight' = inFlight \cup {req}
              /\ UNCHANGED <<fate, unreported>>
           \/ /\ fate' = [fate EXCEPT ![req.id] = "failed"]
              /\ unreported' = unreported + req.dropped
              /\ UNCHANGED inFlight
    /\ UNCHANGED <<ringVars, flushVars, flushQueue, appVars, evictions,
                   stamped, forgotten, pushed, barrier>>

(* The backend accepted the POST (2xx).                                     *)
PostSucceeds(req) ==
    /\ req \in inFlight
    /\ inFlight' = inFlight \ {req}
    /\ fate' = [fate EXCEPT ![req.id] = "delivered"]
    /\ UNCHANGED <<ringVars, flushVars, flushQueue, exportQueue, appVars,
                   dropVars, pushed, barrier>>

(* A transport error, a time-out or a non-2xx status: logged, no retry.     *)
PostFails(req) ==
    /\ req \in inFlight
    /\ inFlight' = inFlight \ {req}
    /\ fate' = [fate EXCEPT ![req.id] = "failed"]
    /\ unreported' = unreported + req.dropped
    /\ UNCHANGED <<ringVars, flushVars, flushQueue, exportQueue, appVars,
                   evictions, stamped, forgotten, pushed, barrier>>

-----------------------------------------------------------------------------
(* LifecycleObserver and the app's lifecycle.                               *)

(* didEnterBackground on the main thread: flushForBackground opens the      *)
(* background-task window and calls flushNow.                               *)
EnterBackground ==
    /\ app = "active"
    /\ backgrounds < MaxBackgrounds
    /\ backgrounds' = backgrounds + 1
    /\ app' = "flushing"
    /\ flushQueue' = Append(flushQueue, "flush")
    /\ barrier' = Elements(buffer) \cup Elements(batch)
    /\ UNCHANGED <<ringVars, flushVars, httpVars, kills, dropVars, pushed, fate>>

(* Faulty wait: the signal does not queue behind the drain.                 *)
WaitUntilIdle_JumpsQueue ==
    /\ app = "flushing"
    /\ app' = "waiting"
    /\ flushQueue' = <<"signal">> \o flushQueue
    /\ UNCHANGED <<ringVars, flushVars, httpVars, backgrounds, kills, dropVars,
                   pushed, fate, barrier>>

(* waitUntilIdle: a signal task on the same serial queue, then sem.wait.    *)
WaitUntilIdle ==
    /\ app = "flushing"
    /\ app' = "waiting"
    /\ flushQueue' = Append(flushQueue, "signal")
    /\ UNCHANGED <<ringVars, flushVars, httpVars, backgrounds, kills, dropVars,
                   pushed, fate, barrier>>

(* The signal task runs: the main thread wakes and ends the background      *)
(* task.  A signal whose waiter timed out wakes nobody.                     *)
Signal ==
    /\ Running
    /\ flushPc = "idle"
    /\ flushQueue # <<>> /\ Head(flushQueue) = "signal"
    /\ flushQueue' = Tail(flushQueue)
    /\ app' = IF app = "waiting" /\ "signal" \notin Elements(Tail(flushQueue))
              THEN "background" ELSE app
    /\ UNCHANGED <<ringVars, flushVars, httpVars, backgrounds, kills, dropVars,
                   pushed, fate, barrier>>

(* The semaphore's 3 s time-out: the background task ends all the same.     *)
WaitTimesOut ==
    /\ app = "waiting"
    /\ app' = "background"
    /\ barrier' = {}
    /\ UNCHANGED <<ringVars, flushVars, flushQueue, httpVars, backgrounds, kills,
                   dropVars, pushed, fate>>

(* iOS freezes the process once no background task is open.                 *)
Suspend ==
    /\ app = "background"
    /\ app' = "suspended"
    /\ UNCHANGED <<ringVars, flushVars, flushQueue, httpVars, backgrounds, kills,
                   dropVars, pushed, fate, barrier>>

Foreground ==
    /\ app \in {"background", "suspended"}
    /\ app' = "active"
    /\ barrier' = {}
    /\ UNCHANGED <<ringVars, flushVars, flushQueue, httpVars, backgrounds, kills,
                   dropVars, pushed, fate>>

(* The process dies: nothing of the pipeline is on disk.  A request already *)
(* in flight may or may not have reached the backend.                       *)
Kill ==
    /\ app # "off"
    /\ kills < MaxKills
    /\ kills' = kills + 1
    /\ app' = "off"
    /\ \E arrived \in SUBSET inFlight :
         fate' = [p \in Payloads |->
                    IF fate[p] # "held" THEN fate[p]
                    ELSE IF \E req \in arrived : req.id = p THEN "delivered"
                    ELSE "killed"]
    /\ forgotten' = forgotten + droppedCount + tag
    /\ buffer' = <<>> /\ droppedCount' = 0
    /\ flushQueue' = <<>> /\ flushPc' = "idle" /\ batch' = <<>> /\ tag' = 0
    /\ exportQueue' = <<>> /\ inFlight' = {}
    /\ barrier' = {}
    /\ UNCHANGED <<backgrounds, evictions, stamped, unreported, pushed>>

Next ==
    \/ Start \/ Push
    \/ TimerFire \/ Drain \/ ConsumeDroppedCount \/ SendNext
    \/ SendNow \/ \E req \in inFlight : PostSucceeds(req) \/ PostFails(req)
    \/ EnterBackground \/ WaitUntilIdle \/ Signal \/ WaitTimesOut
    \/ Suspend \/ Foreground \/ Kill

Spec == Init /\ [][Next]_vars

(* The queues and the timer run whenever the process does, and URLSession   *)
(* ends every request (its time-out); the user's and the system's moves,    *)
(* and the recording of payloads, are not owed.                             *)
Fairness ==
    /\ WF_vars(TimerFire) /\ WF_vars(Drain) /\ WF_vars(ConsumeDroppedCount)
    /\ WF_vars(SendNext) /\ WF_vars(SendNow) /\ WF_vars(Signal)
    /\ WF_vars(\E req \in inFlight : PostSucceeds(req) \/ PostFails(req))
    /\ WF_vars(WaitUntilIdle)

FairSpec == Spec /\ Fairness

-----------------------------------------------------------------------------
(* Properties.                                                              *)

(* Every variable has its type, and the buffer never exceeds its capacity   *)
(* (RingBuffer.push evicts before it appends).                              *)
TypeOK ==
    /\ buffer \in Seq(Payloads) /\ Len(buffer) <= Capacity
    /\ batch \in Seq(Payloads) /\ Len(batch) <= Capacity
    /\ droppedCount \in Nat /\ tag \in Nat
    /\ flushQueue \in Seq(Tasks)
    /\ flushPc \in {"idle", "drained", "sending"}
    /\ (batch = <<>>) <=> (flushPc = "idle")
    /\ exportQueue \in Seq(Request)
    /\ inFlight \subseteq Request
    /\ app \in {"off", "active", "flushing", "waiting", "background", "suspended"}
    /\ backgrounds \in Nat /\ kills \in Nat
    /\ pushed \in 0 .. MaxPayloads
    /\ fate \in [Payloads -> Fates]
    /\ evictions \in Nat /\ stamped \in Nat
    /\ forgotten \in Nat /\ unreported \in Nat
    /\ barrier \subseteq Payloads

(* The payloads between push and their POST, oldest first.                  *)
QueuedIds == [i \in 1 .. Len(exportQueue) |-> exportQueue[i].id]
Pipeline  == QueuedIds \o batch \o buffer

(* The pipeline neither loses nor duplicates: a payload that was admitted   *)
(* and has no final fate is at exactly one place of it, whatever the        *)
(* interleaving of pushes, drains, sends and the network.                   *)
NoLossNoDuplication ==
    LET flying == {req.id : req \in inFlight}
    IN  /\ Held = Elements(Pipeline) \cup flying
        /\ Cardinality(Held) = Len(Pipeline) + Cardinality(inFlight)

(* The abstract queue this pipeline implements: drained payloads are leaving, *)
(* wherever they wait for their POST.                                       *)
Queue == INSTANCE DropOldestQueue
           WITH waiting <- buffer, leaving <- QueuedIds \o batch,
                flying <- {req.id : req \in inFlight}

(* Order survives the three queues and overflow evicts the oldest buffered  *)
(* payload, not the newest: whatever threads, timer, flushes and network    *)
(* do, the pipeline moves as the drop-oldest queue of RingBuffer does.      *)
QueueSpec == Queue!Spec

(* Every eviction is counted once and in one place: still in the buffer's   *)
(* counter, taken by the running drain, stamped on an exported payload, or  *)
(* gone with a killed process.                                              *)
DropAccounting == evictions = droppedCount + tag + stamped + forgotten

(* A count is never stranded: outside the window between drain and          *)
(* consumeDroppedCount, a non-zero counter has a buffered payload to ride   *)
(* on, although drainAndSend skips the counter when it finds the buffer     *)
(* empty.                                                                   *)
DropNeverStranded == droppedCount > 0 /\ flushPc # "drained" => buffer # <<>>

(* Both: a drop is counted once, and its count is on its way.               *)
DropCountKept == DropAccounting /\ DropNeverStranded

(* waitUntilIdle is a barrier: when it returns by its signal, every payload *)
(* that was recorded before the app entered the background has been handed  *)
(* to the HTTP exporter.                                                    *)
BackgroundFlushBarrier ==
    app \in {"background", "suspended"} =>
        barrier \cap (Elements(buffer) \cup Elements(batch)) = {}

(* No payload stays in the SDK for ever while the app runs: timer, drain    *)
(* and network bring each to a final fate.                                  *)
EventuallySettles ==
    \A p \in Payloads : (fate[p] = "held") ~> (fate[p] # "held" \/ ~Running)

-----------------------------------------------------------------------------
(* What the documentation says of the SDK and the code does not do.         *)

(* RingBuffer.swift: the counter gets shipped "on the next successful       *)
(* export"; a failed POST must then not use the count up.                   *)
DropCountSurvivesFailure == unreported = 0
=============================================================================

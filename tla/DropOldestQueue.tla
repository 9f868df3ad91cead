--------------------------- MODULE DropOldestQueue ----------------------------
(***************************************************************************)
(* What the export pipeline of the SDK promises to the code that records   *)
(* payloads, without its locks, queues, tasks, timers and lifecycle:       *)
(* payloads wait in a buffer that makes room by giving up its oldest, are  *)
(* taken from it all together, and leave one by one in the order they were *)
(* recorded.  Each meets one fate, and only the death of the process ends  *)
(* a payload that was taken otherwise than by its own send.                *)
(***************************************************************************)
EXTENDS Integers, Sequences

CONSTANTS Payloads, Capacity

VARIABLES
    waiting,   \* recorded, oldest first
    leaving,   \* taken, not sent yet, oldest first
    flying,    \* sent, not answered yet
    fate

vars == <<waiting, leaving, flying, fate>>

Init ==
    /\ waiting = <<>> /\ leaving = <<>> /\ flying = {}
    /\ fate = [p \in Payloads |-> "new"]

(* The next payload in the order of recording.                              *)
IsNext(p) == fate[p] = "new" /\ \A q \in Payloads : q < p => fate[q] # "new"

Record(p) ==
    /\ IsNext(p)
    /\ Len(waiting) < Capacity
    /\ waiting' = Append(waiting, p)
    /\ fate' = [fate EXCEPT ![p] = "held"]
    /\ UNCHANGED <<leaving, flying>>

RecordOverOldest(p) ==
    /\ IsNext(p)
    /\ Len(waiting) = Capacity
    /\ waiting' = Append(Tail(waiting), p)
    /\ fate' = [fate EXCEPT ![p] = "held", ![Head(waiting)] = "evicted"]
    /\ UNCHANGED <<leaving, flying>>

Take ==
    /\ waiting # <<>>
    /\ leaving' = leaving \o waiting
    /\ waiting' = <<>>
    /\ UNCHANGED <<flying, fate>>

Send ==
    /\ leaving # <<>>
    /\ leaving' = Tail(leaving)
    /\ \/ flying' = flying \cup {Head(leaving)} /\ UNCHANGED fate
       \/ fate' = [fate EXCEPT ![Head(leaving)] = "failed"] /\ UNCHANGED flying
    /\ UNCHANGED waiting

Answer(p) ==
    /\ p \in flying
    /\ flying' = flying \ {p}
    /\ \E f \in {"delivered", "failed"} : fate' = [fate EXCEPT ![p] = f]
    /\ UNCHANGED <<waiting, leaving>>

(* The process dies; a payload in flight may have arrived.                  *)
Die ==
    /\ \E arrived \in SUBSET flying :
         fate' = [p \in Payloads |-> IF fate[p] # "held" THEN fate[p]
                                     ELSE IF p \in arrived THEN "delivered"
                                     ELSE "killed"]
    /\ waiting' = <<>> /\ leaving' = <<>> /\ flying' = {}

Next ==
    \/ \E p \in Payloads : Record(p) \/ RecordOverOldest(p) \/ Answer(p)
    \/ Take \/ Send \/ Die

Spec == Init /\ [][Next]_vars
=============================================================================

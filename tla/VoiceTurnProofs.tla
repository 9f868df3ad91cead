---------------------------- MODULE VoiceTurnProofs ---------------------------
(***************************************************************************)
(* The demo app's voice turns, for any number of turns and in whatever     *)
(* way they overlap and fail.                                              *)
(***************************************************************************)
EXTENDS VoiceTurn, SequenceTheorems, FiniteSetTheorems, TLAPS

Typed ==
    /\ isHolding \in BOOLEAN /\ isRecording \in BOOLEAN /\ disturbed \in BOOLEAN
    /\ turn \in [Turns -> Pcs]
    /\ holdContinuation \in Turns \cup {None} /\ finalContinuation \in Turns \cup {None}
    /\ finishContinuation \in Turns \cup {None}
    /\ task \in Turns \cup {None} /\ request \in Turns \cup {None}
    /\ session \in [Turns -> {"none", "listening", "ending", "cancelled", "over"}]
    /\ hops \subseteq Callback
    /\ utterances \in Seq(Turns) /\ finishHops \in Nat
    /\ heard \in [Turns -> Turns \cup {None}]

(* A turn speaks once, so that the synthesizer has no more to say, and no   *)
(* more callbacks on their way, than turns have spoken.                     *)
Spoke       == {t \in Turns : turn[t] \in {"speaking", "spoken", "done"}}
EachSpeaksOnce == Len(utterances) + finishHops <= Cardinality(Spoke)

(* Undisturbed, one turn is under way at a time, the recognizer's task is   *)
(* its own, and only the turn that waits in stop has a callback coming, and *)
(* one at most.                                                             *)
NoHopOf(t) == \A c \in hops : c.from # t
Stage(t) ==
    /\ turn[t] \in {"none", "scheduled"} => session[t] = "none" /\ NoHopOf(t)
    /\ turn[t] \in {"recording", "holding", "released"} =>
         session[t] = "listening" /\ isRecording /\ request = t /\ NoHopOf(t)
    /\ turn[t] = "finalizing" => session[t] = "over" \/ (session[t] = "ending" /\ NoHopOf(t))
    /\ turn[t] \in Finished \cup {"resumed", "transcribed", "generating", "replied",
                                  "speaking", "spoken"} =>
         session[t] \in {"none", "over"} /\ NoHopOf(t)
InTurn ==
    /\ \A s, t \in Active : s = t
    /\ \A c, d \in hops : c.from = d.from => c = d
    /\ \A t \in Turns : Stage(t) /\ heard[t] \in {t, None}

TurnInv ==
    /\ Typed
    /\ EachSpeaksOnce
    /\ NeverResumedTwice
    /\ ~disturbed => InTurn

-----------------------------------------------------------------------------
(* Every step keeps the types.                                              *)
LEMMA TypedStep ==
    ASSUME Typed, [Next]_vars
    PROVE  Typed'
<1> USE DEF Typed
<1>1. CASE UNCHANGED vars
    BY <1>1 DEF vars, uiVars, asrVars, ttsVars
<1>2. ASSUME NEW t \in Turns \cup {None}, t # None, NEW pc \in Pcs, Go(t, pc)
      PROVE  turn' \in [Turns -> Pcs]
    BY <1>2 DEF Go
<1>3. ASSUME NEW s \in [Turns -> {"none", "listening", "ending", "cancelled", "over"}]
      PROVE  Cancelled(s) \in [Turns -> {"none", "listening", "ending", "cancelled", "over"}]
    BY DEF Cancelled
<1>4. ASSUME NEW t \in Turns, Press(t) PROVE Typed'
  <2>1. /\ isHolding' \in BOOLEAN /\ disturbed' \in BOOLEAN
        /\ UNCHANGED <<holdContinuation, asrVars, ttsVars>>
      BY <1>4 DEF Press
  <2>2. turn' \in [Turns -> Pcs]
      BY <1>4 DEF Press, Go, Pcs
  <2> QED BY <2>1, <2>2 DEF asrVars, ttsVars
<1>5. CASE Release
  <2>1. /\ isHolding' \in BOOLEAN /\ disturbed' \in BOOLEAN
        /\ holdContinuation' \in Turns \cup {None}
        /\ UNCHANGED <<asrVars, ttsVars>>
      BY <1>5 DEF Release
  <2>2. turn' \in [Turns -> Pcs]
      BY <1>5 DEF Release, Pcs
  <2> QED BY <2>1, <2>2 DEF asrVars, ttsVars
<1>6. ASSUME NEW t \in Turns, NEW outcome \in Outcomes, StartAsr(t, outcome)
      PROVE  Typed'
  <2>1. UNCHANGED <<uiVars, finalContinuation, hops, heard, ttsVars, disturbed>>
      BY <1>6 DEF StartAsr
  <2>2. CASE outcome = "unavailable"
    <3>1. UNCHANGED <<isRecording, task, request, session>> /\ Go(t, "failed")
        BY <1>6, <2>2 DEF StartAsr
    <3> QED BY <1>2, <2>1, <3>1 DEF uiVars, ttsVars, Go, Pcs, Finished
  <2>3. CASE outcome = "no session"
    <3>1. /\ session' = Cancelled(session) /\ task' = None /\ request' = None
          /\ UNCHANGED isRecording /\ Go(t, "failed")
        BY <1>6, <2>3 DEF StartAsr
    <3> QED BY <1>3, <2>1, <3>1 DEF uiVars, ttsVars, Go, Pcs, Finished
  <2>4. CASE outcome = "no engine"
    <3>1. /\ session' = Cancelled(session) /\ task' = None /\ request' = t
          /\ UNCHANGED isRecording /\ Go(t, "failed")
        BY <1>6, <2>4 DEF StartAsr
    <3> QED BY <1>3, <2>1, <3>1 DEF uiVars, ttsVars, Go, Pcs, Finished
  <2>5. CASE outcome = "started"
    <3>1. /\ session' = [Cancelled(session) EXCEPT ![t] = "listening"]
          /\ task' = t /\ request' = t
          /\ isRecording' = TRUE /\ Go(t, "recording")
        BY <1>6, <2>5 DEF StartAsr
    <3>2. session' \in [Turns -> {"none", "listening", "ending", "cancelled", "over"}]
        BY <1>3, <3>1
    <3> QED BY <2>1, <3>1, <3>2 DEF uiVars, ttsVars, Go, Pcs
  <2> QED BY <2>2, <2>3, <2>4, <2>5 DEF Outcomes
<1>7. ASSUME NEW t \in Turns, Hold(t) PROVE Typed'
    BY <1>7 DEF Hold, Go, Pcs, asrVars, ttsVars
<1>8. ASSUME NEW t \in Turns, Stop(t) PROVE Typed'
  <2>1. UNCHANGED <<uiVars, task, request, hops, heard, ttsVars, disturbed>>
      BY <1>8 DEF Stop
  <2>2. isRecording' \in BOOLEAN /\ finalContinuation' \in Turns \cup {None}
      BY <1>8 DEF Stop
  <2>3. session' \in [Turns -> {"none", "listening", "ending", "cancelled", "over"}]
      BY <1>8 DEF Stop
  <2>4. turn' \in [Turns -> Pcs]
      BY <1>8 DEF Stop, Go, Pcs, Finished
  <2> QED BY <2>1, <2>2, <2>3, <2>4 DEF uiVars, ttsVars
<1>9. ASSUME NEW s \in Turns, NEW ok \in BOOLEAN, Recognize(s, ok) PROVE Typed'
  <2>1. /\ session' \in [Turns -> {"none", "listening", "ending", "cancelled", "over"}]
        /\ disturbed' \in BOOLEAN
        /\ UNCHANGED <<uiVars, turn, isRecording, task, request, finalContinuation, heard,
                       ttsVars>>
      BY <1>9 DEF Recognize
  <2>2. hops' \subseteq Callback
      BY <1>9 DEF Recognize, Callback
  <2> QED BY <2>1, <2>2 DEF uiVars, ttsVars
<1>10. ASSUME NEW c \in hops, Hop(c) PROVE Typed'
  <2>1. /\ hops' \subseteq hops
        /\ UNCHANGED <<uiVars, isRecording, task, request, session, ttsVars, disturbed>>
        /\ finalContinuation' \in Turns \cup {None}
      BY <1>10 DEF Hop
  <2>2. c.from \in Turns
      BY DEF Callback
  <2>3. heard' \in [Turns -> Turns \cup {None}]
      BY <1>10, <2>2 DEF Hop
  <2>4. turn' \in [Turns -> Pcs]
      BY <1>10 DEF Hop, Go, Pcs, Finished
  <2> QED BY <2>1, <2>3, <2>4 DEF uiVars, ttsVars
<1>11. ASSUME NEW t \in Turns, NEW empty \in BOOLEAN, StopReturns(t, empty) PROVE Typed'
  <2>1. turn' \in [Turns -> Pcs]
      BY <1>11 DEF StopReturns, Go, Pcs, Finished
  <2> QED BY <1>11, <2>1 DEF StopReturns, uiVars, ttsVars
<1>12. ASSUME NEW t \in Turns, NEW empty \in BOOLEAN, Speak(t, empty) PROVE Typed'
  <2>1. turn' \in [Turns -> Pcs]
      BY <1>12 DEF Speak, Go, Pcs
  <2>2. Append(utterances, t) \in Seq(Turns)
      BY AppendProperties
  <2>3. finishContinuation' \in Turns \cup {None} /\ utterances' \in Seq(Turns)
      BY <1>12, <2>2 DEF Speak
  <2> QED BY <1>12, <2>1, <2>3 DEF Speak, uiVars, asrVars
<1>13. ASSUME NEW t \in Turns, NEW ok \in BOOLEAN,
              Generate(t) \/ GenerateReturns(t, ok) \/ End(t)
       PROVE  Typed'
  <2>1. turn' \in [Turns -> Pcs]
      BY <1>13 DEF Generate, GenerateReturns, End, Go, Pcs, Finished
  <2>2. UNCHANGED <<uiVars, asrVars, ttsVars, disturbed>>
      BY <1>13 DEF Generate, GenerateReturns, End
  <2> QED BY <2>1, <2>2 DEF uiVars, asrVars, ttsVars
<1>14. CASE Utter
  <2>1. Tail(utterances) \in Seq(Turns)
      BY <1>14, HeadTailProperties DEF Utter
  <2> QED BY <1>14, <2>1 DEF Utter, uiVars, asrVars
<1>15. CASE FinishHop
  <2>1. turn' \in [Turns -> Pcs]
      BY <1>15 DEF FinishHop, Go, Pcs
  <2>2. finishHops' \in Nat
      BY <1>15 DEF FinishHop
  <2> QED BY <1>15, <2>1, <2>2 DEF FinishHop, uiVars, asrVars
<1> QED
  BY <1>1, <1>4, <1>5, <1>6, <1>7, <1>8, <1>9, <1>10, <1>11, <1>12, <1>13, <1>14, <1>15
  DEF Next, TurnStep

-----------------------------------------------------------------------------
(* No step resumes a turn that is not suspended, or leaves a continuation   *)
(* to a turn that went on.                                                  *)
LEMMA ContinuationStep ==
    ASSUME Typed, NeverResumedTwice, [Next]_vars
    PROVE  NeverResumedTwice'
<1> USE TurnsAssumption DEF Typed, NeverResumedTwice
<1>1. CASE UNCHANGED vars
    BY <1>1 DEF vars, uiVars, asrVars, ttsVars
<1>2. ASSUME NEW t \in Turns, NEW pc \in Pcs, Go(t, pc),
             turn[t] \notin {"holding", "finalizing", "speaking"},
             UNCHANGED <<holdContinuation, finalContinuation, finishContinuation>>
      PROVE  NeverResumedTwice'
    BY <1>2 DEF Go
<1>3. ASSUME NEW t \in Turns, Press(t) PROVE NeverResumedTwice'
    BY <1>2, <1>3 DEF Press, asrVars, ttsVars, Pcs
<1>4. CASE Release
    BY <1>4 DEF Release, asrVars, ttsVars
<1>5. ASSUME NEW t \in Turns, NEW outcome \in Outcomes, StartAsr(t, outcome)
      PROVE  NeverResumedTwice'
  <2>1. /\ turn[t] = "scheduled" /\ (Go(t, "failed") \/ Go(t, "recording"))
        /\ UNCHANGED <<holdContinuation, finalContinuation, finishContinuation>>
      BY <1>5 DEF StartAsr, Outcomes, uiVars, ttsVars
  <2> QED BY <1>2, <2>1 DEF Pcs, Finished
<1>6. ASSUME NEW t \in Turns, Hold(t) PROVE NeverResumedTwice'
    BY <1>6 DEF Hold, Go, asrVars, ttsVars
<1>7. ASSUME NEW t \in Turns, Stop(t) PROVE NeverResumedTwice'
    BY <1>7 DEF Stop, Go, uiVars, ttsVars
<1>8. ASSUME NEW s \in Turns, NEW ok \in BOOLEAN, Recognize(s, ok)
      PROVE  NeverResumedTwice'
    BY <1>8 DEF Recognize, uiVars, ttsVars
<1>9. ASSUME NEW c \in hops, Hop(c) PROVE NeverResumedTwice'
    BY <1>9 DEF Hop, Go, uiVars, ttsVars
<1>10. ASSUME NEW t \in Turns, NEW empty \in BOOLEAN, StopReturns(t, empty)
       PROVE  NeverResumedTwice'
    BY <1>10 DEF StopReturns, Go, uiVars, ttsVars
<1>11. ASSUME NEW t \in Turns, NEW empty \in BOOLEAN, Speak(t, empty)
       PROVE  NeverResumedTwice'
    BY <1>11 DEF Speak, Go, uiVars, asrVars
<1>12. ASSUME NEW t \in Turns, NEW ok \in BOOLEAN,
              Generate(t) \/ GenerateReturns(t, ok) \/ End(t)
       PROVE  NeverResumedTwice'
    BY <1>12 DEF Generate, GenerateReturns, End, Go, uiVars, asrVars, ttsVars
<1>13. CASE Utter
    BY <1>13 DEF Utter, uiVars, asrVars
<1>14. CASE FinishHop
    BY <1>14 DEF FinishHop, Go, uiVars, asrVars
<1> QED
  BY <1>1, <1>3, <1>4, <1>5, <1>6, <1>7, <1>8, <1>9, <1>10, <1>11, <1>12, <1>13, <1>14
  DEF Next, TurnStep

-----------------------------------------------------------------------------
(* A turn that has spoken has, and one that speaks now had not.             *)
LEMMA SpokeGrows ==
    ASSUME Typed, NeverResumedTwice, [Next]_vars
    PROVE  Spoke \subseteq Spoke'
<1> USE TurnsAssumption DEF Typed, NeverResumedTwice
<1>1. ASSUME NEW t \in Turns, NEW pc, Go(t, pc),
             turn[t] \in {"speaking", "spoken", "done"} => pc \in {"spoken", "done"}
      PROVE  Spoke \subseteq Spoke'
    BY <1>1 DEF Go, Spoke
<1>2. CASE UNCHANGED turn
    BY <1>2 DEF Spoke
<1>3. CASE Release
    BY <1>3 DEF Release, Spoke
<1>4. ASSUME NEW c \in hops, Hop(c) PROVE Spoke \subseteq Spoke'
    BY <1>1, <1>2, <1>4 DEF Hop
<1>5. CASE FinishHop
    BY <1>1, <1>2, <1>5 DEF FinishHop
<1>6. ASSUME NEW t \in Turns, Press(t) \/ TurnStep(t) PROVE Spoke \subseteq Spoke'
  <2>1. CASE Press(t)
      BY <1>1, <2>1 DEF Press
  <2>2. ASSUME NEW outcome \in Outcomes, StartAsr(t, outcome) PROVE Spoke \subseteq Spoke'
    <3>1. turn[t] = "scheduled" /\ (Go(t, "failed") \/ Go(t, "recording"))
        BY <2>2 DEF StartAsr, Outcomes
    <3> QED BY <1>1, <3>1
  <2>3. CASE Hold(t) \/ Stop(t) \/ Generate(t) \/ End(t)
      BY <1>1, <2>3 DEF Hold, Stop, Generate, End
  <2>4. ASSUME NEW b \in BOOLEAN, StopReturns(t, b) \/ Speak(t, b) \/ GenerateReturns(t, b)
        PROVE  Spoke \subseteq Spoke'
      BY <1>1, <2>4 DEF StopReturns, Speak, GenerateReturns
  <2> QED BY <1>6, <2>1, <2>2, <2>3, <2>4 DEF TurnStep
<1> QED
  BY <1>2, <1>3, <1>4, <1>5, <1>6 DEF Next, Recognize, Utter, vars

(* Every step keeps to one utterance for each turn.                         *)
LEMMA SpeakingStep ==
    ASSUME Typed, NeverResumedTwice, EachSpeaksOnce, [Next]_vars
    PROVE  EachSpeaksOnce'
<1>1. Spoke \subseteq Spoke' /\ IsFiniteSet(Spoke) /\ IsFiniteSet(Spoke')
  <2>1. Spoke \subseteq Turns /\ Spoke' \subseteq Turns
      BY DEF Spoke
  <2> QED BY <2>1, SpokeGrows, TurnsAssumption, FS_Subset
<1>2. /\ Cardinality(Spoke) \in Nat /\ Cardinality(Spoke') \in Nat
      /\ Cardinality(Spoke) <= Cardinality(Spoke')
    BY <1>1, FS_Subset, FS_CardinalityType
<1>3. finishHops \in Nat /\ utterances \in Seq(Turns) /\ Len(utterances) \in Nat
    BY DEF Typed
<1>4. CASE UNCHANGED <<utterances, finishHops>>
    BY <1>2, <1>3, <1>4 DEF EachSpeaksOnce
<1>5. CASE Utter
  <2>1. finishHops' = finishHops + 1
      BY <1>5 DEF Utter
  <2>2. Len(utterances') = Len(utterances) - 1
      BY <1>3, <1>5, HeadTailProperties DEF Utter
  <2> QED BY <1>2, <1>3, <2>1, <2>2 DEF EachSpeaksOnce
<1>6. CASE FinishHop
  <2>1. finishHops' = finishHops - 1 /\ utterances' = utterances
      BY <1>6 DEF FinishHop
  <2> QED BY <1>2, <1>3, <2>1 DEF EachSpeaksOnce
<1>7. ASSUME NEW t \in Turns, NEW empty \in BOOLEAN, Speak(t, empty) PROVE EachSpeaksOnce'
  <2>1. CASE empty
      BY <1>4, <1>7, <2>1 DEF Speak
  <2>2. CASE ~empty
    <3>1. /\ turn[t] = "replied" /\ turn' = [turn EXCEPT ![t] = "speaking"]
          /\ utterances' = Append(utterances, t) /\ finishHops' = finishHops
        BY <1>7, <2>2 DEF Speak, Go
    <3>2. t \notin Spoke /\ Spoke \cup {t} \subseteq Spoke'
        BY <1>1, <3>1 DEF Spoke, Typed
    <3>3. Cardinality(Spoke \cup {t}) = Cardinality(Spoke) + 1
        BY <1>1, <3>2, FS_AddElement
    <3>4. Cardinality(Spoke \cup {t}) <= Cardinality(Spoke')
        BY <1>1, <3>2, FS_Subset
    <3>5. Len(Append(utterances, t)) = Len(utterances) + 1
        BY <1>3, AppendProperties
    <3> QED BY <1>2, <1>3, <3>1, <3>3, <3>4, <3>5 DEF EachSpeaksOnce
  <2> QED BY <2>1, <2>2
<1>8. ASSUME NEW t \in Turns, NEW outcome \in Outcomes, StartAsr(t, outcome)
      PROVE  UNCHANGED <<utterances, finishHops>>
    BY <1>8 DEF StartAsr, ttsVars
<1>9. ASSUME NEW t \in Turns,
             \/ Press(t) \/ Hold(t) \/ Stop(t) \/ Generate(t) \/ End(t)
             \/ \E b \in BOOLEAN : StopReturns(t, b) \/ GenerateReturns(t, b)
      PROVE  UNCHANGED <<utterances, finishHops>>
    BY <1>9 DEF Press, Hold, Stop, Generate, End, StopReturns, GenerateReturns, ttsVars
<1>10. ASSUME \/ Release \/ UNCHANGED vars
              \/ \E s \in Turns, ok \in BOOLEAN : Recognize(s, ok)
              \/ \E c \in hops : Hop(c)
       PROVE  UNCHANGED <<utterances, finishHops>>
    BY <1>10 DEF Release, Recognize, Hop, ttsVars, vars
<1> QED BY <1>4, <1>5, <1>6, <1>7, <1>8, <1>9, <1>10 DEF Next, TurnStep

-----------------------------------------------------------------------------
(* Undisturbed, what one turn does leaves the others where they are.        *)
LEMMA TurnMoves ==
    ASSUME Typed, InTurn, NEW t \in Turns, Active \subseteq {t}, NEW pc, Go(t, pc),
           hops' \subseteq hops,
           \A g \in Turns \ {t} : session'[g] = session[g] /\ heard'[g] = heard[g],
           Stage(t)', heard'[t] \in {t, None}
    PROVE  InTurn'
<1>1. \A g \in Turns \ {t} : turn'[g] = turn[g] /\ turn[g] \in Finished \cup {"none"}
    BY DEF Go, Typed, Active
<1>2. \A x, y \in Active' : x = y
    BY <1>1 DEF Active
<1>3. \A c, d \in hops' : c.from = d.from => c = d
    BY DEF InTurn
<1>4. ASSUME NEW g \in Turns PROVE Stage(g)' /\ heard'[g] \in {g, None}
  <2>1. CASE g # t
    <3>1. Stage(g) /\ heard[g] \in {g, None}
        BY DEF InTurn
    <3>2. turn'[g] = turn[g] /\ session'[g] = session[g] /\ heard'[g] = heard[g]
        BY <1>1, <2>1
    <3>3. NoHopOf(g) => NoHopOf(g)'
        BY DEF NoHopOf
    <3>4. turn[g] \in Finished \cup {"none"}
        BY <1>1, <2>1
    <3> QED BY <3>1, <3>2, <3>3, <3>4 DEF Stage, Finished
  <2> QED BY <2>1
<1> QED BY <1>2, <1>3, <1>4 DEF InTurn

(* Every undisturbed step keeps the turns one after another.                *)
LEMMA InTurnStep ==
    ASSUME Typed, NeverResumedTwice, InTurn, ~disturbed', [Next]_vars
    PROVE  InTurn'
<1> USE DEF Typed
<1>1. CASE UNCHANGED vars
    BY <1>1 DEF vars, uiVars, asrVars, InTurn, Active, Stage, NoHopOf
<1>2. ASSUME NEW t \in Turns, turn[t] \notin Finished \cup {"none"}
      PROVE  Active \subseteq {t} /\ Stage(t) /\ heard[t] \in {t, None}
    BY <1>2 DEF InTurn, Active
<1>3. ASSUME NEW t \in Turns, turn[t] \notin Finished \cup {"none"}, NEW pc, Go(t, pc),
             UNCHANGED <<hops, session, heard>>, Stage(t)'
      PROVE  InTurn'
    BY <1>2, <1>3, TurnMoves
<1>4. ASSUME NEW t \in Turns, Press(t) PROVE InTurn'
  <2>1. /\ turn[t] = "none" /\ Go(t, "scheduled") /\ Active = {}
        /\ UNCHANGED <<hops, session, heard>>
      BY <1>4 DEF Press, asrVars
  <2>2. Stage(t) /\ heard[t] \in {t, None}
      BY DEF InTurn
  <2>3. turn'[t] = "scheduled"
      BY <2>1 DEF Go
  <2>4. Stage(t)'
      BY <2>1, <2>2, <2>3 DEF Stage, NoHopOf, Finished
  <2> QED BY <2>1, <2>2, <2>4, TurnMoves
<1>5. CASE Release
  <2>1. UNCHANGED <<isRecording, request, hops, session, heard>>
      BY <1>5 DEF Release, asrVars
  <2>2. CASE holdContinuation = None
      BY <1>5, <2>1, <2>2 DEF Release, InTurn, Active, Stage, NoHopOf
  <2>3. CASE holdContinuation # None
    <3>1. PICK t \in Turns : t = holdContinuation
        BY <2>3
    <3>2. turn[t] = "holding" /\ Go(t, "released")
        BY <1>5, <2>3, <3>1 DEF Release, Go, NeverResumedTwice
    <3>3. Stage(t)
        BY DEF InTurn
    <3>4. turn'[t] = "released"
        BY <3>2 DEF Go
    <3>5. Stage(t)'
        BY <2>1, <3>2, <3>3, <3>4 DEF Stage, NoHopOf, Finished
    <3> QED BY <1>3, <2>1, <3>2, <3>5 DEF Finished
  <2> QED BY <2>2, <2>3
<1>6. ASSUME NEW t \in Turns, NEW outcome \in Outcomes, StartAsr(t, outcome) PROVE InTurn'
  <2>1. turn[t] = "scheduled" /\ UNCHANGED <<hops, heard>>
      BY <1>6 DEF StartAsr
  <2>2. /\ Active \subseteq {t} /\ Stage(t) /\ heard[t] \in {t, None}
        /\ session[t] = "none" /\ NoHopOf(t)
      BY <1>2, <2>1 DEF Stage, Finished
  <2>3. Cancelled(session) = session
    <3>1. CASE task # None
      <4>1. task \in Turns /\ Stage(task)
          BY <3>1 DEF InTurn
      <4>2. task = t \/ turn[task] \in Finished \cup {"none"}
          BY <2>2, <4>1 DEF Active
      <4>3. session[task] \in {"none", "over"}
          BY <2>2, <4>1, <4>2 DEF Stage, Finished
      <4> QED BY <4>3 DEF Cancelled
    <3> QED BY <3>1 DEF Cancelled
  <2>4. NoHopOf(t)'
      BY <2>1, <2>2 DEF NoHopOf
  <2>5. CASE outcome # "started"
    <3>1. session' = session /\ Go(t, "failed")
        BY <1>6, <2>3, <2>5 DEF StartAsr, Outcomes
    <3>2. turn'[t] = "failed"
        BY <3>1 DEF Go
    <3>3. Stage(t)'
        BY <2>2, <2>4, <3>1, <3>2 DEF Stage, Finished
    <3> QED BY <1>3, <2>1, <3>1, <3>3 DEF Finished
  <2>6. CASE outcome = "started"
    <3>1. /\ session' = [session EXCEPT ![t] = "listening"]
          /\ request' = t /\ isRecording' = TRUE /\ Go(t, "recording")
        BY <1>6, <2>3, <2>6 DEF StartAsr
    <3>2. turn'[t] = "recording" /\ session'[t] = "listening"
        BY <3>1 DEF Go
    <3>3. Stage(t)'
        BY <2>4, <3>1, <3>2 DEF Stage, Finished
    <3>4. \A g \in Turns \ {t} : session'[g] = session[g] /\ heard'[g] = heard[g]
        BY <2>1, <3>1
    <3> QED BY <2>1, <2>2, <3>1, <3>3, <3>4, TurnMoves
  <2> QED BY <2>5, <2>6
<1>7. ASSUME NEW t \in Turns, Hold(t) PROVE InTurn'
  <2>1. /\ turn[t] = "recording" /\ Go(t, "holding")
        /\ UNCHANGED <<isRecording, request, hops, session, heard>>
      BY <1>7 DEF Hold, asrVars
  <2>2. Stage(t) /\ turn'[t] = "holding"
      BY <2>1 DEF InTurn, Go
  <2>3. Stage(t)'
      BY <2>1, <2>2 DEF Stage, NoHopOf, Finished
  <2> QED BY <1>3, <2>1, <2>3 DEF Finished
<1>8. ASSUME NEW t \in Turns, Stop(t) PROVE InTurn'
  <2>1. /\ turn[t] = "released" /\ UNCHANGED <<hops, heard>>
      BY <1>8 DEF Stop
  <2>2. /\ Active \subseteq {t} /\ Stage(t) /\ heard[t] \in {t, None}
        /\ session[t] = "listening" /\ isRecording /\ request = t /\ NoHopOf(t)
      BY <1>2, <2>1 DEF Stage, Finished
  <2>3. request # None
      BY <2>2, TurnsAssumption
  <2>4. session' = [session EXCEPT ![t] = "ending"] /\ Go(t, "finalizing")
      BY <1>8, <2>2, <2>3 DEF Stop
  <2>5. turn'[t] = "finalizing" /\ session'[t] = "ending" /\ NoHopOf(t)'
      BY <2>1, <2>2, <2>4 DEF Go, NoHopOf
  <2>6. Stage(t)'
      BY <2>5 DEF Stage, Finished
  <2>7. \A g \in Turns \ {t} : session'[g] = session[g] /\ heard'[g] = heard[g]
      BY <2>1, <2>4
  <2> QED BY <2>1, <2>2, <2>4, <2>6, <2>7, TurnMoves
<1>9. ASSUME NEW s \in Turns, NEW ok \in BOOLEAN, Recognize(s, ok) PROVE InTurn'
  <2>1. /\ session[s] \in {"listening", "ending", "cancelled"}
        /\ session' = [session EXCEPT ![s] = "over"]
        /\ hops' = hops \cup {[from |-> s, ok |-> ok]}
        /\ turn[s] \notin {"recording", "holding", "released"}
        /\ UNCHANGED <<turn, isRecording, request, heard>>
      BY <1>9 DEF Recognize
  <2>2. turn[s] \in Pcs /\ Stage(s)
      BY DEF InTurn
  <2>3. turn[s] = "finalizing" /\ NoHopOf(s)
      BY <2>1, <2>2 DEF Stage, Pcs, Finished
  <2>4. \A x, y \in Active' : x = y
      BY <2>1 DEF Active, InTurn
  <2>5. \A c, d \in hops' : c.from = d.from => c = d
    <3>1. \A c, d \in hops : c.from = d.from => c = d
        BY DEF InTurn
    <3> QED BY <2>1, <2>3, <3>1 DEF NoHopOf
  <2>6. ASSUME NEW g \in Turns PROVE Stage(g)' /\ heard'[g] \in {g, None}
    <3>1. Stage(g) /\ heard[g] \in {g, None}
        BY DEF InTurn
    <3>2. CASE g = s
      <4>1. turn'[g] = "finalizing" /\ session'[g] = "over"
          BY <2>1, <2>3, <3>2
      <4> QED BY <2>1, <3>1, <4>1 DEF Stage, Finished
    <3>3. CASE g # s
      <4>1. NoHopOf(g) => NoHopOf(g)'
          BY <2>1, <3>3 DEF NoHopOf
      <4>2. turn'[g] = turn[g] /\ session'[g] = session[g]
          BY <2>1, <3>3
      <4> QED BY <2>1, <3>1, <4>1, <4>2 DEF Stage
    <3> QED BY <3>2, <3>3
  <2> QED BY <2>4, <2>5, <2>6 DEF InTurn
<1>10. ASSUME NEW c \in hops, Hop(c) PROVE InTurn'
  <2>1. PICK t \in Turns : t = c.from
      BY DEF Callback
  <2>2. Stage(t) /\ ~NoHopOf(t) /\ turn[t] \in Pcs
      BY <2>1 DEF InTurn, NoHopOf
  <2>3. turn[t] = "finalizing" /\ session[t] = "over"
      BY <2>2 DEF Stage, Pcs, Finished
  <2>4. Active \subseteq {t} /\ heard[t] \in {t, None}
      BY <1>2, <2>3 DEF Finished
  <2>5. hops' = hops \ {c} /\ UNCHANGED <<isRecording, request, session>>
      BY <1>10 DEF Hop
  <2>6. CASE finalContinuation = None
    <3>1. UNCHANGED <<turn, heard>>
        BY <1>10, <2>6 DEF Hop
    <3>2. \A g \in Turns : NoHopOf(g) => NoHopOf(g)'
        BY <2>5 DEF NoHopOf
    <3>3. ASSUME NEW g \in Turns PROVE Stage(g)' /\ heard'[g] \in {g, None}
      <4>1. Stage(g) /\ heard[g] \in {g, None}
          BY DEF InTurn
      <4> QED BY <2>5, <3>1, <3>2, <4>1 DEF Stage
    <3>4. \A x, y \in Active' : x = y
        BY <3>1 DEF InTurn, Active
    <3>5. \A d, e \in hops' : d.from = e.from => d = e
        BY <2>5 DEF InTurn
    <3> QED BY <3>3, <3>4, <3>5 DEF InTurn
  <2>7. CASE finalContinuation # None
    <3>1. finalContinuation \in Active
        BY <2>7 DEF Active, NeverResumedTwice, Finished
    <3>2. finalContinuation = t
        BY <2>4, <3>1
    <3>3. heard' = [heard EXCEPT ![t] = t] /\ (Go(t, "resumed") \/ Go(t, "failed"))
        BY <1>10, <2>1, <2>7, <3>2 DEF Hop
    <3>4. NoHopOf(t)'
        BY <2>1, <2>5 DEF NoHopOf, InTurn
    <3>5. turn'[t] \in {"resumed", "failed"} /\ session'[t] = "over"
        BY <2>3, <2>5, <3>3 DEF Go
    <3>6. Stage(t)'
        BY <3>4, <3>5 DEF Stage, Finished
    <3>7. /\ \A g \in Turns \ {t} : session'[g] = session[g] /\ heard'[g] = heard[g]
          /\ heard'[t] \in {t, None}
        BY <2>5, <3>3
    <3> QED BY <2>4, <2>5, <3>3, <3>6, <3>7, TurnMoves
  <2> QED BY <2>6, <2>7
<1>11. ASSUME NEW t \in Turns, NEW pc,
              turn[t] \in {"resumed", "transcribed", "generating", "replied", "speaking",
                           "spoken"},
              pc \in Finished \cup {"transcribed", "generating", "replied", "speaking",
                                    "spoken"},
              Go(t, pc), UNCHANGED <<hops, session, heard>>
       PROVE  InTurn'
  <2>1. Stage(t) /\ turn'[t] = pc
      BY <1>11 DEF InTurn, Go
  <2>2. Stage(t)'
      BY <1>11, <2>1 DEF Stage, NoHopOf, Finished
  <2> QED BY <1>3, <1>11, <2>2 DEF Finished
<1>12. ASSUME NEW t \in Turns, NEW b \in BOOLEAN,
              \/ StopReturns(t, b) \/ Speak(t, b) \/ Generate(t) \/ GenerateReturns(t, b)
              \/ End(t)
       PROVE  InTurn'
  <2>1. UNCHANGED <<hops, session, heard>>
      BY <1>12 DEF StopReturns, Speak, Generate, GenerateReturns, End, asrVars
  <2> QED
    BY <1>11, <1>12, <2>1 DEF StopReturns, Speak, Generate, GenerateReturns, End, Finished
<1>13. ASSUME UNCHANGED <<turn, isRecording, request, hops, session, heard>> PROVE InTurn'
    BY <1>13 DEF InTurn, Active, Stage, NoHopOf
<1>14. CASE Utter
    BY <1>13, <1>14 DEF Utter, asrVars
<1>15. CASE FinishHop
  <2>1. UNCHANGED <<isRecording, request, hops, session, heard>>
      BY <1>15 DEF FinishHop, asrVars
  <2>2. CASE finishContinuation = None
      BY <1>13, <1>15, <2>1, <2>2 DEF FinishHop
  <2>3. CASE finishContinuation # None
    <3>1. PICK t \in Turns : t = finishContinuation
        BY <2>3
    <3>2. turn[t] = "speaking" /\ Go(t, "spoken")
        BY <1>15, <2>3, <3>1 DEF FinishHop, NeverResumedTwice
    <3> QED BY <1>11, <2>1, <3>2
  <2> QED BY <2>2, <2>3
<1> QED
  BY <1>1, <1>4, <1>5, <1>6, <1>7, <1>8, <1>9, <1>10, <1>12, <1>14, <1>15
  DEF Next, TurnStep

(* The invariant holds in every reachable state.                            *)
LEMMA TurnInvariant == Spec => []TurnInv
<1>1. Init => TurnInv
  <2> SUFFICES ASSUME Init PROVE TurnInv
      OBVIOUS
  <2> USE DEF Init
  <2>1. Typed
      BY EmptySeq DEF Typed, Pcs
  <2>2. Cardinality(Spoke) = 0
    <3>1. Spoke = {}
        BY DEF Spoke
    <3> QED BY <3>1, FS_EmptySet
  <2>3. EachSpeaksOnce
      BY <2>2 DEF EachSpeaksOnce
  <2>4. NeverResumedTwice
      BY DEF NeverResumedTwice
  <2>5. InTurn
      BY DEF InTurn, Active, Stage, NoHopOf, Finished
  <2> QED BY <2>1, <2>3, <2>4, <2>5 DEF TurnInv
<1>2. TurnInv /\ [Next]_vars => TurnInv'
  <2> SUFFICES ASSUME TurnInv, [Next]_vars PROVE TurnInv'
      OBVIOUS
  <2>1. Typed' /\ NeverResumedTwice' /\ EachSpeaksOnce'
      BY TypedStep, ContinuationStep, SpeakingStep DEF TurnInv
  <2>2. disturbed => disturbed'
    <3>1. CASE UNCHANGED disturbed
        BY <3>1
    <3>2. ASSUME NEW t \in Turns, TurnStep(t) PROVE UNCHANGED disturbed
        BY <3>2 DEF TurnStep, StartAsr, Hold, Stop, StopReturns, Speak, Generate,
                    GenerateReturns, End
    <3> QED BY <3>1, <3>2 DEF Next, Press, Release, Recognize, Hop, Utter, FinishHop, vars
  <2>3. ~disturbed' => InTurn'
      BY <2>2, InTurnStep DEF TurnInv
  <2> QED BY <2>1, <2>3 DEF TurnInv
<1> QED BY <1>1, <1>2, PTL DEF Spec

-----------------------------------------------------------------------------
(* Types; the synthesizer calls back once for each turn at most.            *)
THEOREM TurnTypeCorrect == Spec => []TypeOK
<1>1. TurnInv => TypeOK
  <2> SUFFICES ASSUME TurnInv PROVE TypeOK
      OBVIOUS
  <2>1. Typed /\ EachSpeaksOnce
      BY DEF TurnInv
  <2>2. Cardinality(Spoke) <= Cardinality(Turns) /\ Cardinality(Spoke) \in Nat
    <3>1. Spoke \subseteq Turns
        BY DEF Spoke
    <3> QED BY <3>1, TurnsAssumption, FS_Subset, FS_CardinalityType
  <2>3. Cardinality(Turns) \in Nat
      BY TurnsAssumption, FS_CardinalityType
  <2>4. finishHops \in Nat /\ Len(utterances) \in Nat
      BY <2>1 DEF Typed
  <2>5. finishHops \in 0 .. Cardinality(Turns)
      BY <2>1, <2>2, <2>3, <2>4 DEF EachSpeaksOnce
  <2> QED BY <2>1, <2>5 DEF Typed, TypeOK
<1> QED BY <1>1, TurnInvariant, PTL

(* No stored continuation is ever resumed a second time, however turns      *)
(* overlap and callbacks interleave.                                        *)
THEOREM ResumedOnce == Spec => []NeverResumedTwice
<1>1. TurnInv => NeverResumedTwice
    BY DEF TurnInv
<1> QED BY <1>1, TurnInvariant, PTL

(* Turns that follow one another undisturbed each get their own words.      *)
THEOREM OwnWords == Spec => []OwnTranscript
<1>1. TurnInv => OwnTranscript
    BY DEF TurnInv, InTurn, OwnTranscript
<1> QED BY <1>1, TurnInvariant, PTL
=============================================================================

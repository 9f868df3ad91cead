------------------------------- MODULE VoiceTurn ------------------------------
(***************************************************************************)
(* The demo app's voice turns: ContentView's mic button, VoiceTurnController*)
(* .runTurn, ASRService, LLMService.generate and TTSService.  All run on   *)
(* the main actor, so a step is what one turn does between two awaits; but *)
(* nothing keeps a second turn from starting while one is under way, and   *)
(* the services have one continuation, task and request for all of them.   *)
(* SFSpeechRecognizer and AVSpeechSynthesizer call back on queues of their *)
(* own, and each callback hops to the main actor by a Task: a hop.         *)
(***************************************************************************)
EXTENDS Integers, Sequences, FiniteSets

CONSTANTS Turns, None    \* the turns of a run of the app; nil

ASSUME TurnsAssumption == IsFiniteSet(Turns) /\ None \notin Turns

VARIABLES
    isHolding, holdContinuation,                     \* ContentView
    turn,                \* where runTurn is in each turn
    isRecording, task, request, finalContinuation,   \* ASRService
    session,             \* the recognizer's side of each turn's task
    hops,                \* its terminal callbacks on the way to the main actor
    finishContinuation,                              \* TTSService
    utterances, finishHops,   \* the synthesizer's queue, and its callbacks' hops
    (* History. *)
    heard,               \* the turn whose speech each turn got as transcript
    disturbed            \* turns have overlapped, or one was released too early
                         \* or lost the recognizer while recording

uiVars  == <<isHolding, holdContinuation>>
asrVars == <<isRecording, task, request, finalContinuation, session, hops, heard>>
ttsVars == <<finishContinuation, utterances, finishHops>>
vars    == <<uiVars, turn, asrVars, ttsVars, disturbed>>

Finished == {"done", "failed"}
Pcs      == Finished \cup {"none", "scheduled", "recording", "holding", "released",
                           "finalizing", "resumed", "transcribed", "generating",
                           "replied", "speaking", "spoken"}
Callback == [from : Turns, ok : BOOLEAN]

Init ==
    /\ isHolding = FALSE /\ holdContinuation = None
    /\ turn = [t \in Turns |-> "none"]
    /\ isRecording = FALSE /\ task = None /\ request = None /\ finalContinuation = None
    /\ session = [t \in Turns |-> "none"]
    /\ hops = {}
    /\ finishContinuation = None /\ utterances = <<>> /\ finishHops = 0
    /\ heard = [t \in Turns |-> None]
    /\ disturbed = FALSE

Active    == {t \in Turns : turn[t] \notin Finished \cup {"none"}}
Go(t, pc) == turn' = [turn EXCEPT ![t] = pc]

-----------------------------------------------------------------------------
(* ContentView: hold the button to talk.                                    *)

(* onChanged.  The button is enabled whenever the model is loaded; only     *)
(* isHolding keeps it from starting a turn.                                 *)
Press(t) ==
    /\ ~isHolding /\ turn[t] = "none"
    /\ isHolding' = TRUE
    /\ Go(t, "scheduled")
    /\ disturbed' = (disturbed \/ Active # {})
    /\ UNCHANGED <<holdContinuation, asrVars, ttsVars>>

Release_KeepsContinuation ==    \* faulty: does not set it to nil
    /\ isHolding
    /\ isHolding' = FALSE
    /\ turn' = IF holdContinuation = None THEN turn
               ELSE [turn EXCEPT ![holdContinuation] = "released"]
    /\ disturbed' = (disturbed \/ \E t \in Turns : turn[t] \in {"scheduled", "recording"})
    /\ UNCHANGED <<holdContinuation, asrVars, ttsVars>>
(* onEnded: resume the turn that waits.  When none does yet, the release is *)
(* lost on it.                                                              *)
Release ==
    /\ isHolding
    /\ isHolding' = FALSE
    /\ holdContinuation' = None
    /\ turn' = IF holdContinuation = None THEN turn
               ELSE [turn EXCEPT ![holdContinuation] = "released"]
    /\ disturbed' = (disturbed \/ \E t \in Turns : turn[t] \in {"scheduled", "recording"})
    /\ UNCHANGED <<asrVars, ttsVars>>

(* waitForRelease.                                                          *)
Hold(t) ==
    /\ turn[t] = "recording"
    /\ holdContinuation' = t
    /\ Go(t, "holding")
    /\ UNCHANGED <<isHolding, asrVars, ttsVars, disturbed>>

-----------------------------------------------------------------------------
(* ASRService.                                                              *)

(* task?.cancel(): the recognizer will report an error for that task.       *)
Cancelled(s) == IF task # None /\ s[task] \in {"listening", "ending"}
                THEN [s EXCEPT ![task] = "cancelled"] ELSE s

StartAsr_TaskFirst(t, outcome) ==   \* faulty: the task starts before the engine
    /\ turn[t] = "scheduled"
    /\ CASE outcome = "unavailable" ->
              UNCHANGED <<isRecording, task, request, session>> /\ Go(t, "failed")
         [] outcome = "no session" ->
              /\ session' = Cancelled(session) /\ task' = None /\ request' = None
              /\ UNCHANGED isRecording /\ Go(t, "failed")
         [] outcome \in {"no engine", "started"} ->
              /\ session' = [Cancelled(session) EXCEPT ![t] = "listening"]
              /\ task' = t /\ request' = t
              /\ IF outcome = "started" THEN isRecording' = TRUE /\ Go(t, "recording")
                                        ELSE UNCHANGED isRecording /\ Go(t, "failed")
    /\ UNCHANGED <<uiVars, finalContinuation, hops, heard, ttsVars, disturbed>>
(* runTurn begins its trace and calls start: the recognizer is unavailable; *)
(* or the task before is torn down, and then the audio session cannot be    *)
(* set up, the engine does not start, or recognition begins.  What is       *)
(* thrown makes runTurn end the trace and return.                           *)
StartAsr(t, outcome) ==
    /\ turn[t] = "scheduled"
    /\ CASE outcome = "unavailable" ->
              UNCHANGED <<isRecording, task, request, session>> /\ Go(t, "failed")
         [] outcome = "no session" ->
              /\ session' = Cancelled(session) /\ task' = None /\ request' = None
              /\ UNCHANGED isRecording /\ Go(t, "failed")
         [] outcome = "no engine" ->
              /\ session' = Cancelled(session) /\ task' = None /\ request' = t
              /\ UNCHANGED isRecording /\ Go(t, "failed")
         [] outcome = "started" ->
              /\ session' = [Cancelled(session) EXCEPT ![t] = "listening"]
              /\ task' = t /\ request' = t
              /\ isRecording' = TRUE /\ Go(t, "recording")
    /\ UNCHANGED <<uiVars, finalContinuation, hops, heard, ttsVars, disturbed>>

(* stop, up to its await.  The request that gets endAudio is the one that   *)
(* is current, not necessarily this turn's.                                 *)
Stop(t) ==
    /\ turn[t] = "released"
    /\ IF isRecording /\ request # None
       THEN /\ isRecording' = FALSE
            /\ finalContinuation' = t
            /\ session' = IF session[request] = "listening"
                          THEN [session EXCEPT ![request] = "ending"] ELSE session
            /\ Go(t, "finalizing")
       ELSE UNCHANGED <<isRecording, finalContinuation, session>> /\ Go(t, "failed")
    /\ UNCHANGED <<uiVars, task, request, hops, heard, ttsVars, disturbed>>

(* The recognizer ends a task: with a final result after endAudio, or with  *)
(* an error at any time.                                                    *)
Recognize(s, ok) ==
    /\ session[s] \in {"listening", "ending", "cancelled"}
    /\ ok => session[s] = "ending"
    /\ session' = [session EXCEPT ![s] = "over"]
    /\ hops' = hops \cup {[from |-> s, ok |-> ok]}
    /\ disturbed' = (disturbed \/ turn[s] \in {"recording", "holding", "released"})
    /\ UNCHANGED <<uiVars, turn, isRecording, task, request, finalContinuation, heard,
                   ttsVars>>

Hop_IgnoresErrors(c) ==    \* faulty: only a final result resumes
    /\ c \in hops
    /\ hops' = hops \ {c}
    /\ IF finalContinuation = None \/ ~c.ok
       THEN UNCHANGED <<turn, finalContinuation, heard>>
       ELSE /\ finalContinuation' = None
            /\ heard' = [heard EXCEPT ![finalContinuation] = c.from]
            /\ Go(finalContinuation, "resumed")
    /\ UNCHANGED <<uiVars, isRecording, task, request, session, ttsVars, disturbed>>
(* The callback's Task: resume whoever waits in stop, with the result or    *)
(* with an error, which ends that turn; nobody, and the callback is lost.   *)
Hop(c) ==
    /\ c \in hops
    /\ hops' = hops \ {c}
    /\ IF finalContinuation = None
       THEN UNCHANGED <<turn, finalContinuation, heard>>
       ELSE /\ finalContinuation' = None
            /\ heard' = [heard EXCEPT ![finalContinuation] = c.from]
            /\ Go(finalContinuation, IF c.ok THEN "resumed" ELSE "failed")
    /\ UNCHANGED <<uiVars, isRecording, task, request, session, ttsVars, disturbed>>

(* stop, after its await: an empty transcript fails the turn.               *)
StopReturns(t, empty) ==
    /\ turn[t] = "resumed"
    /\ task' = None /\ request' = None
    /\ Go(t, IF empty THEN "failed" ELSE "transcribed")
    /\ UNCHANGED <<uiVars, isRecording, finalContinuation, session, hops, heard,
                   ttsVars, disturbed>>

-----------------------------------------------------------------------------
(* LLMService and TTSService.                                               *)

(* generate runs detached, on the one LlamaSession.                         *)
Generate(t) ==
    /\ turn[t] = "transcribed"
    /\ Go(t, "generating")
    /\ UNCHANGED <<uiVars, asrVars, ttsVars, disturbed>>

GenerateReturns(t, ok) ==
    /\ turn[t] = "generating"
    /\ Go(t, IF ok THEN "replied" ELSE "failed")
    /\ UNCHANGED <<uiVars, asrVars, ttsVars, disturbed>>

Speak_BySentence(t, empty) ==    \* faulty: an utterance to each of two sentences
    /\ turn[t] = "replied"
    /\ IF empty THEN Go(t, "spoken") /\ UNCHANGED <<finishContinuation, utterances>>
       ELSE /\ finishContinuation' = t
            /\ utterances' = utterances \o <<t, t>>
            /\ Go(t, "speaking")
    /\ UNCHANGED <<uiVars, asrVars, finishHops, disturbed>>
(* speak: an empty reply returns at once.                                   *)
Speak(t, empty) ==
    /\ turn[t] = "replied"
    /\ IF empty THEN Go(t, "spoken") /\ UNCHANGED <<finishContinuation, utterances>>
       ELSE /\ finishContinuation' = t
            /\ utterances' = Append(utterances, t)
            /\ Go(t, "speaking")
    /\ UNCHANGED <<uiVars, asrVars, finishHops, disturbed>>

(* The synthesizer finishes or cancels an utterance; it speaks in order.    *)
Utter ==
    /\ utterances # <<>>
    /\ utterances' = Tail(utterances)
    /\ finishHops' = finishHops + 1
    /\ UNCHANGED <<uiVars, turn, asrVars, finishContinuation, disturbed>>

(* didFinish and didCancel: resume whoever waits in speak.                  *)
FinishHop ==
    /\ finishHops > 0
    /\ finishHops' = finishHops - 1
    /\ finishContinuation' = None
    /\ IF finishContinuation = None THEN UNCHANGED turn
                                    ELSE Go(finishContinuation, "spoken")
    /\ UNCHANGED <<uiVars, asrVars, utterances, disturbed>>

(* runTurn ends its trace and publishes lastTurn.                           *)
End(t) ==
    /\ turn[t] = "spoken"
    /\ Go(t, "done")
    /\ UNCHANGED <<uiVars, asrVars, ttsVars, disturbed>>

-----------------------------------------------------------------------------
Outcomes == {"unavailable", "no session", "no engine", "started"}

TurnStep(t) ==
    \/ \E outcome \in Outcomes : StartAsr(t, outcome)
    \/ Hold(t) \/ Stop(t)
    \/ \E empty \in BOOLEAN : StopReturns(t, empty) \/ Speak(t, empty)
    \/ Generate(t) \/ \E ok \in BOOLEAN : GenerateReturns(t, ok)
    \/ End(t)

Next ==
    \/ \E t \in Turns : Press(t) \/ TurnStep(t)
    \/ Release
    \/ \E s \in Turns, ok \in BOOLEAN : Recognize(s, ok)
    \/ \E c \in hops : Hop(c)
    \/ Utter \/ FinishHop

Spec == Init /\ [][Next]_vars

(* The user lets go in the end; the main actor runs its tasks, generation   *)
(* returns; the recognizer ends a task that got endAudio, and the           *)
(* synthesizer its utterances.                                              *)
FairSpec ==
    /\ Spec
    /\ WF_vars(Release) /\ WF_vars(Utter) /\ WF_vars(FinishHop)
    /\ \A t \in Turns :
         /\ WF_vars(TurnStep(t))
         /\ WF_vars(session[t] # "listening" /\ \E ok \in BOOLEAN : Recognize(t, ok))
         /\ WF_vars(\E ok \in BOOLEAN : Hop([from |-> t, ok |-> ok]))

-----------------------------------------------------------------------------
(* Properties.                                                              *)

(* Every variable has its type.                                             *)
TypeOK ==
    /\ isHolding \in BOOLEAN /\ isRecording \in BOOLEAN
    /\ turn \in [Turns -> Pcs]
    /\ {holdContinuation, task, request, finalContinuation, finishContinuation}
         \subseteq Turns \cup {None}
    /\ session \in [Turns -> {"none", "listening", "ending", "cancelled", "over"}]
    /\ hops \subseteq Callback
    /\ utterances \in Seq(Turns) /\ finishHops \in 0 .. Cardinality(Turns)
    /\ heard \in [Turns -> Turns \cup {None}]
    /\ disturbed \in BOOLEAN

(* A stored continuation belongs to a turn that is suspended at it: no      *)
(* release, recognizer callback or synthesizer callback, however turns      *)
(* overlap, resumes one a second time, which would end the app.             *)
NeverResumedTwice ==
    /\ holdContinuation # None => turn[holdContinuation] = "holding"
    /\ finalContinuation # None => turn[finalContinuation] = "finalizing"
    /\ finishContinuation # None => turn[finishContinuation] = "speaking"

(* As long as turns follow one another undisturbed, each gets the words     *)
(* spoken in it, although a callback of an earlier turn would be taken for  *)
(* its own: whatever way a turn fails, it leaves no such callback behind.   *)
OwnTranscript ==
    ~disturbed => \A t \in Turns : heard[t] \in {t, None}

(* Undisturbed, a turn comes to its end, where its trace is exported,       *)
(* whichever of its stages fail.                                            *)
UndisturbedTurnsEnd ==
    \A t \in Turns : turn[t] = "scheduled" ~> turn[t] \in Finished \/ disturbed

=============================================================================

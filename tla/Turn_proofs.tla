---------------------------- MODULE Turn_proofs -----------------------------
(* What holds of Turn for every value of its constants: any budgets, any   *)
(* handshakes, calls and max_turns.                                        *)
EXTENDS Turn, SubmitOutcome_proofs

(* The budgets, where the code is about to count: executeTurn restarts     *)
(* only below WatchdogMaxCallAttempts, sendWithRetry recovers only below   *)
(* RetryMaxAttempts.                                                       *)
BudgetsLeft ==
    /\ pc = "restart" => call + 1 < WatchdogMaxCallAttempts
    /\ pc = "recover" => tries + 1 < RetryMaxAttempts

TurnInv == TurnTypeOK /\ BudgetsLeft

-----------------------------------------------------------------------------
(* Turn adds a loop around the submit_outcome channel and nothing to it.   *)

LEMMA DecideStays ==
    ASSUME NEW kind, NEW outcome, NEW cause, NEW prompts,
           Decide(kind, outcome, cause, prompts)
    PROVE  UNCHANGED <<submitVars, req, late>> /\ pc' \in {"restore", "return"}
BY DEF Decide, envVars

LEMMA FailStays ==
    ASSUME NEW cause, Fail(cause)
    PROVE  UNCHANGED <<submitVars, req, late>> /\ pc' \in {"restore", "return"}
BY DecideStays DEF Fail

LEMMA DeliverStays ==
    ASSUME NEW outcome, NEW cause, Deliver(outcome, cause)
    PROVE  UNCHANGED <<submitVars, req, late>> /\ pc' \in {"restore", "return"}
BY DecideStays, FailStays DEF Deliver

LEMMA GiveUpStays ==
    ASSUME NEW why, NEW prompts, GiveUp(why, prompts)
    PROVE  UNCHANGED <<submitVars, req, late>>
BY DecideStays DEF GiveUp, envVars, answerOf

LEMMA ExecuteSubmit ==
    ASSUME req \in Handshakes, ExecuteNext
    PROVE  [SubmitNext]_submitVars
<1>1. CASE Configure
  BY <1>1 DEF Configure, SubmitNext
<1>2. CASE Setup
  BY <1>2, FailStays DEF Setup
<1>3. CASE StartCall
  BY <1>3 DEF StartCall
<1>4. CASE SendReturns
  BY <1>4, FailStays DEF SendReturns
<1>5. CASE RecoverSend
  BY <1>5, GiveUpStays DEF RecoverSend
<1>6. CASE \E why \in SendFailures : SendFails(why)
  BY <1>6, GiveUpStays DEF SendFails
<1>7. CASE AwaitCancelled
  BY <1>7, FailStays DEF AwaitCancelled
<1>8. CASE AwaitError
  BY <1>8, FailStays, DeliverStays DEF AwaitError
<1>9. CASE AwaitIdle \/ AwaitStall \/ DrainIdled
  BY <1>9 DEF AwaitIdle, AwaitStall, DrainIdled
<1>10. CASE JudgeIdle
  BY <1>10, DeliverStays DEF JudgeIdle, SubmitNext
<1>11. CASE FailExhausted
  BY <1>11, DeliverStays DEF FailExhausted
<1>12. CASE Stalled
  BY <1>12, FailStays, DeliverStays DEF Stalled
<1>13. CASE Restart
  BY <1>13, DecideStays DEF Restart
<1>14. CASE RestoreEffort \/ Return
  BY <1>14 DEF RestoreEffort, Return, SubmitNext
<1> QED
  BY <1>1, <1>2, <1>3, <1>4, <1>5, <1>6, <1>7, <1>8, <1>9, <1>10, <1>11, <1>12, <1>13, <1>14
     DEF ExecuteNext

LEMMA TurnStepSubmit ==
    ASSUME req \in Handshakes, [TurnNext]_turnVars
    PROVE  [SubmitNext]_submitVars
<1>1. CASE ExecuteNext
  BY <1>1, ExecuteSubmit
<1>2. CASE CliNext
  <2>1. CASE \E sub \in Submissions : ModelSubmits(sub)
    BY <2>1 DEF ModelSubmits, SubmitNext
  <2> QED
    BY <1>2, <2>1 DEF CliNext, DeliverPrompt, AssistantMessage, SessionIdle, SessionLost,
                      ForwardFails, CliDies
<1>3. CASE HostNext
  BY <1>3 DEF HostNext, Begin, Cancel, SubmitNext
<1>4. CASE UNCHANGED turnVars
  BY <1>4 DEF turnVars
<1> QED
  BY <1>1, <1>2, <1>3, <1>4 DEF TurnNext

-----------------------------------------------------------------------------
(* Type correctness. *)

(* The invariant without the channel, whose part StepTyped carries over.   *)
LoopTyped == LoopTypeOK /\ BudgetsLeft

LEMMA InvParts == TurnInv <=> SubmitTypeOK /\ LoopTyped
BY DEF TurnInv, TurnTypeOK, LoopTyped

LEMMA Budgets ==
    /\ 0 \in 0..WatchdogMaxCallAttempts - 1
    /\ 1 \in 1..MaxFinalizeAttempts
    /\ 0 \in 0..RetryMaxAttempts - 1
BY TurnAssumption

Prompts == [Owners -> 0..MaxLivePrompts]

Reportable == Outcomes \cup {NoOutcome, "failure", "needs_review"}

(* live is written as a record and indexed as a function of its owners.    *)
LEMMA PromptRecord ==
    ASSUME NEW m \in 0..MaxLivePrompts, NEW n \in 0..MaxLivePrompts
    PROVE  [cur |-> m, old |-> n] \in Prompts
BY DEF Prompts, Owners

LEMMA PromptFields ==
    ASSUME NEW prompts \in Prompts
    PROVE  prompts.cur \in 0..MaxLivePrompts /\ prompts.old \in 0..MaxLivePrompts
BY DEF Prompts, Owners

LEMMA AtMostType ==
    ASSUME NEW n \in Nat, NEW bound \in Nat
    PROVE  AtMost(n, bound) \in 0..bound
BY DEF AtMost

LEMMA NoPromptsType == NoPrompts \in Prompts
<1>1. 0 \in 0..MaxLivePrompts
  BY TurnAssumption
<1> QED
  BY <1>1, PromptRecord DEF NoPrompts

LEMMA LeftBehindType ==
    ASSUME NEW prompts \in Prompts
    PROVE  LeftBehind(prompts) \in Prompts
<1>1. prompts.cur + prompts.old \in Nat /\ MaxLivePrompts \in Nat /\ 0 \in 0..MaxLivePrompts
  BY PromptFields, TurnAssumption
<1>2. AtMost(prompts.cur + prompts.old, MaxLivePrompts) \in 0..MaxLivePrompts
  BY <1>1, AtMostType
<1> QED
  BY <1>1, <1>2, PromptRecord DEF LeftBehind

LEMMA DecideTyped ==
    ASSUME LoopTyped, NEW kind \in {"none", "result", "error"}, NEW outcome \in Reportable,
           NEW cause \in Causes, NEW prompts \in Prompts,
           Decide(kind, outcome, cause, prompts)
    PROVE  LoopTyped'
<1>1. result' \in [kind : {"none", "result", "error"}, outcome : Reportable, cause : Causes]
  BY DEF Decide
<1> QED
  BY <1>1, Budgets DEF Decide, LoopTyped, LoopTypeOK, BudgetsLeft, Locations, envVars, Prompts, Reportable

LEMMA FailTyped ==
    ASSUME LoopTyped, NEW cause \in Causes, Fail(cause)
    PROVE  LoopTyped'
<1>1. live \in Prompts /\ NoOutcome \in Reportable
  BY DEF LoopTyped, LoopTypeOK, BudgetsLeft, Prompts, Reportable
<1> QED
  BY <1>1, DecideTyped DEF Fail

LEMMA DeliverTyped ==
    ASSUME LoopTyped, NEW outcome \in Reportable, NEW cause \in Causes, Deliver(outcome, cause)
    PROVE  LoopTyped'
<1>1. live \in Prompts /\ "sink" \in Causes
  BY DEF LoopTyped, LoopTypeOK, BudgetsLeft, Prompts, Causes
<1> QED
  BY <1>1, DecideTyped, FailTyped DEF Deliver

(* Every outcome an Execute delivers can be reported. *)
LEMMA Deliverable ==
    ASSUME SubmitTypeOK
    PROVE  /\ finalize.outcome \in Reportable
           /\ MaxTurnsOutcome \in Reportable
           /\ (IF step.fallback # NoOutcome THEN step.fallback ELSE "failure") \in Reportable
<1>1. finalize.outcome \in Outcomes \cup {NoOutcome} /\ step.fallback \in Outcomes \cup {NoOutcome}
  BY StepFields DEF SubmitTypeOK, Finalize
<1> QED
  BY <1>1 DEF MaxTurnsOutcome, Reportable

LEMMA StartSendTyped ==
    ASSUME LoopTyped, NEW message \in {"prompt", "reprompt"}, StartSend(message)
    PROVE  /\ pc' \in Locations /\ pc' = "send"
           /\ sending' \in {"prompt", "reprompt"} /\ tries' \in 0..RetryMaxAttempts - 1
           /\ failure' \in {"none", "stall", "transient"} /\ delivered' \in BOOLEAN
BY Budgets DEF StartSend, Locations

LEMMA GiveUpTyped ==
    ASSUME LoopTyped, NEW why, NEW prompts \in Prompts, GiveUp(why, prompts)
    PROVE  LoopTyped'
<1>1. CASE sending = "reprompt" /\ why = "stall"
  BY <1>1, Budgets DEF GiveUp, answerOf, LoopTyped, LoopTypeOK, BudgetsLeft, Locations, signalVars, envVars, Prompts
<1>2. CASE ~(sending = "reprompt" /\ why = "stall")
  <2>1. Decide("error", NoOutcome, "send", prompts)
    BY <1>2 DEF GiveUp
  <2>2. NoOutcome \in Reportable /\ "send" \in Causes
    BY DEF Reportable, Causes
  <2> QED
    BY <2>1, <2>2, DecideTyped
<1> QED
  BY <1>1, <1>2

-----------------------------------------------------------------------------
(* One step of the Execute goroutine. *)

LEMMA ExecuteTyped ==
    ASSUME SubmitTypeOK, LoopTyped, ExecuteNext
    PROVE  LoopTyped'
<1> USE DEF Locations, answerOf
<1>1. CASE Configure
  BY <1>1, Budgets DEF Configure, LoopTyped, LoopTypeOK, BudgetsLeft, envVars
<1>2. CASE Setup
  <2>1. CASE Fail("setup")
    BY <2>1, FailTyped DEF Causes
  <2>2. CASE ~Fail("setup")
    BY <1>2, <2>2 DEF Setup, LoopTyped, LoopTypeOK, BudgetsLeft, envVars, loopVars, signalVars
  <2> QED
    BY <2>1, <2>2
<1>3. CASE StartCall
  BY <1>3, StartSendTyped, Budgets
     DEF StartCall, Drain, LoopTyped, LoopTypeOK, BudgetsLeft, envVars
<1>4. CASE SendReturns
  <2>1. CASE Fail("send")
    BY <2>1, FailTyped DEF Causes
  <2>2. CASE ~Fail("send")
    BY <1>4, <2>2, Budgets
       DEF SendReturns, LoopTyped, LoopTypeOK, BudgetsLeft, envVars, signalVars
  <2> QED
    BY <2>1, <2>2
<1>5. CASE RecoverSend
  <2>1. PICK prompts \in {NoPrompts, live} :
          IF cancelled THEN GiveUp(failure, prompts)
          ELSE /\ pc' = "send" /\ tries' = tries + 1 /\ delivered' = FALSE
               /\ live' = prompts
               /\ UNCHANGED <<submitVars, call, attempt, sending, failure, signalVars, envVars, answerOf>>
    BY <1>5 DEF RecoverSend
  <2>2. prompts \in Prompts
    BY NoPromptsType DEF LoopTyped, LoopTypeOK, Prompts
  <2>3. CASE cancelled
    BY <2>1, <2>2, <2>3, GiveUpTyped
  <2>4. CASE ~cancelled
    <3>1. tries' \in 0..RetryMaxAttempts - 1
      BY <1>5, <2>1, <2>4, TurnAssumption DEF RecoverSend, LoopTyped, LoopTypeOK, BudgetsLeft
    <3> QED
      BY <2>1, <2>2, <2>4, <3>1
         DEF LoopTyped, LoopTypeOK, BudgetsLeft, envVars, signalVars, Prompts
  <2> QED
    BY <2>3, <2>4
<1>6. CASE \E why \in SendFailures : SendFails(why)
  <2>1. PICK why \in SendFailures : SendFails(why)
    BY <1>6
  <2>2. live \in Prompts /\ why \in {"stall", "transient"}
    BY TurnAssumption DEF LoopTyped, LoopTypeOK, Prompts
  <2>3. CASE tries + 1 = RetryMaxAttempts \/ cancelled
    BY <2>1, <2>2, <2>3, GiveUpTyped DEF SendFails
  <2>4. CASE ~(tries + 1 = RetryMaxAttempts \/ cancelled)
    <3>1. tries + 1 < RetryMaxAttempts
      BY <2>4, TurnAssumption DEF LoopTyped, LoopTypeOK
    <3> QED
      BY <2>1, <2>2, <2>4, <3>1
         DEF SendFails, LoopTyped, LoopTypeOK, BudgetsLeft, envVars, signalVars
  <2> QED
    BY <2>3, <2>4
<1>7. CASE AwaitCancelled
  BY <1>7, FailTyped DEF AwaitCancelled, Causes
<1>8. CASE AwaitError
  <2>1. CASE Deliver(MaxTurnsOutcome, "max_turns")
    BY <2>1, Deliverable, DeliverTyped DEF Causes
  <2>2. CASE Deliver(finalize.outcome, "finalize")
    BY <2>2, Deliverable, DeliverTyped DEF Causes
  <2>3. CASE Fail("lost") \/ Fail("sink")
    BY <2>3, FailTyped DEF Causes
  <2>4. CASE /\ Drain /\ pc' = "judge"
             /\ UNCHANGED <<submitVars, turns, loopVars, envVars, live, answerOf>>
    BY <2>4 DEF Drain, LoopTyped, LoopTypeOK, BudgetsLeft, envVars, loopVars
  <2> QED
    BY <1>8, <2>1, <2>2, <2>3, <2>4 DEF AwaitError
<1>9. CASE AwaitIdle \/ AwaitStall \/ DrainIdled
  BY <1>9 DEF AwaitIdle, AwaitStall, DrainIdled, Drain, LoopTyped, LoopTypeOK, BudgetsLeft,
              envVars, loopVars, signalVars
<1>10. CASE JudgeIdle
  <2>1. CASE Deliver(finalize.outcome, "finalize")
    BY <2>1, Deliverable, DeliverTyped DEF Causes
  <2>2. CASE /\ pc' = "exhausted"
             /\ UNCHANGED <<loopVars, signalVars, envVars, live, answerOf>>
    BY <2>2 DEF LoopTyped, LoopTypeOK, BudgetsLeft, envVars, loopVars, signalVars
  <2>3. CASE /\ attempt < MaxFinalizeAttempts
             /\ StartSend("reprompt")
             /\ attempt' = attempt + 1
             /\ UNCHANGED <<submitVars, call, signalVars, envVars, live, answerOf>>
    <3>1. attempt' \in 1..MaxFinalizeAttempts
      BY <2>3, TurnAssumption DEF LoopTyped, LoopTypeOK
    <3> QED
      BY <2>3, <3>1, StartSendTyped DEF LoopTyped, LoopTypeOK, BudgetsLeft, envVars, signalVars
  <2> QED
    BY <1>10, <2>1, <2>2, <2>3 DEF JudgeIdle
<1>11. CASE FailExhausted
  BY <1>11, Deliverable, DeliverTyped DEF FailExhausted, Causes
<1>12. CASE Stalled
  <2>1. CASE Deliver(finalize.outcome, "finalize")
    BY <2>1, Deliverable, DeliverTyped DEF Causes
  <2>2. CASE Fail("ctx") \/ Fail("stall")
    BY <2>2, FailTyped DEF Causes
  <2>3. CASE /\ call + 1 < WatchdogMaxCallAttempts
             /\ pc' = "restart"
             /\ UNCHANGED <<submitVars, loopVars, signalVars, envVars, live, answerOf>>
    BY <2>3 DEF LoopTyped, LoopTypeOK, BudgetsLeft, envVars, loopVars, signalVars
  <2> QED
    BY <1>12, <2>1, <2>2, <2>3 DEF Stalled
<1>13. CASE Restart
  <2>1. CASE cancelled
    <3>1. NoOutcome \in Reportable /\ "ctx" \in Causes
      BY DEF Reportable, Causes
    <3> QED
      BY <1>13, <2>1, <3>1, NoPromptsType, DecideTyped DEF Restart
  <2>2. CASE ~cancelled
    <3>1. call' \in 0..WatchdogMaxCallAttempts - 1
      BY <1>13, <2>2, TurnAssumption DEF Restart, LoopTyped, LoopTypeOK, BudgetsLeft
    <3> QED
      BY <1>13, <2>2, <3>1, NoPromptsType
         DEF Restart, LoopTyped, LoopTypeOK, BudgetsLeft, envVars, signalVars, Prompts
  <2> QED
    BY <2>1, <2>2
<1>14. CASE RestoreEffort
  BY <1>14 DEF RestoreEffort, LoopTyped, LoopTypeOK, BudgetsLeft, envVars, loopVars, signalVars
<1>15. CASE Return
  <2>1. live' \in Prompts
    BY <1>15, LeftBehindType DEF Return, LoopTyped, LoopTypeOK, Prompts
  <2> QED
    BY <1>15, <2>1 DEF Return, LoopTyped, LoopTypeOK, BudgetsLeft, envVars, loopVars, Prompts
<1> QED
  BY <1>1, <1>2, <1>3, <1>4, <1>5, <1>6, <1>7, <1>8, <1>9, <1>10, <1>11, <1>12, <1>13,
     <1>14, <1>15
     DEF ExecuteNext

-----------------------------------------------------------------------------
(* The CLI and the host. *)

LEMMA CliTyped ==
    ASSUME SubmitTypeOK, LoopTyped, CliNext
    PROVE  LoopTyped'
<1> USE DEF answerOf
<1>0. live \in Prompts /\ MaxLivePrompts \in Nat
  BY TurnAssumption DEF LoopTyped, LoopTypeOK, Prompts
<1>1. CASE DeliverPrompt
  <2>1. AtMost(live.cur + 1, MaxLivePrompts) \in 0..MaxLivePrompts
    BY <1>0, PromptFields, AtMostType
  <2>2. live' \in Prompts
    BY <1>0, <1>1, <2>1 DEF DeliverPrompt, Prompts, Owners
  <2> QED
    BY <1>1, <2>2 DEF DeliverPrompt, LoopTyped, LoopTypeOK, BudgetsLeft, envVars, signalVars, Prompts
<1>2. CASE \E owner \in Owners : AssistantMessage(owner)
  <2>1. turns' \in Nat
    <3>1. turns + 1 \in Nat /\ maxTurns \in Nat
      BY DEF LoopTyped, LoopTypeOK
    <3>2. AtMost(turns + 1, maxTurns) \in Nat
      BY <3>1 DEF AtMost
    <3> QED
      BY <1>2, <3>2 DEF AssistantMessage
  <2>2. errCh' \in {"none", "max_turns", "lost", "sink"}
    BY <1>2 DEF AssistantMessage, SendErr, LoopTyped, LoopTypeOK
  <2> QED
    BY <1>2, <2>1, <2>2 DEF AssistantMessage, LoopTyped, LoopTypeOK, BudgetsLeft, envVars, loopVars
<1>3. CASE \E owner \in Owners : SessionIdle(owner)
  <2>1. PICK owner \in Owners : SessionIdle(owner)
    BY <1>3
  <2>2. live[owner] - 1 \in 0..MaxLivePrompts
    BY <1>0, <2>1 DEF SessionIdle, Prompts
  <2>3. live' \in Prompts
    BY <1>0, <2>1, <2>2 DEF SessionIdle, Prompts
  <2>4. turnDone' \in BOOLEAN
    BY <2>1 DEF SessionIdle
  <2> QED
    BY <2>1, <2>3, <2>4 DEF SessionIdle, LoopTyped, LoopTypeOK, BudgetsLeft, envVars, loopVars, Prompts
<1>4. CASE SessionLost
  <2>1. live' \in Prompts
    BY <1>0, <1>4, NoPromptsType DEF SessionLost
  <2> QED
    BY <1>4, <2>1 DEF SessionLost, SendErr, LoopTyped, LoopTypeOK, BudgetsLeft, envVars,
                      loopVars, Prompts
<1>5. CASE ForwardFails
  BY <1>5 DEF ForwardFails, SendErr, LoopTyped, LoopTypeOK, BudgetsLeft, envVars, loopVars
<1>6. CASE \E sub \in Submissions : ModelSubmits(sub)
  BY <1>6 DEF ModelSubmits, LoopTyped, LoopTypeOK, BudgetsLeft, envVars, loopVars, signalVars
<1>7. CASE CliDies
  BY <1>7, NoPromptsType
     DEF CliDies, LoopTyped, LoopTypeOK, BudgetsLeft, envVars, loopVars, signalVars, Prompts
<1> QED
  BY <1>1, <1>2, <1>3, <1>4, <1>5, <1>6, <1>7 DEF CliNext

LEMMA HostTyped ==
    ASSUME LoopTyped, HostNext
    PROVE  LoopTyped'
<1> USE DEF answerOf
<1>1. ASSUME NEW h \in Handshakes, NEW limit \in MaxTurnsInputs, Begin(h, limit)
      PROVE  LoopTyped'
  BY <1>1, TurnAssumption
     DEF Begin, Idle, Causes, Locations, LoopTyped, LoopTypeOK, BudgetsLeft, loopVars, signalVars
<1>2. CASE Cancel
  BY <1>2 DEF Cancel, LoopTyped, LoopTypeOK, BudgetsLeft, loopVars, signalVars
<1> QED
  BY <1>1, <1>2 DEF HostNext

LEMMA TurnStepTyped == TurnInv /\ [TurnNext]_turnVars => TurnInv'
<1> SUFFICES ASSUME SubmitTypeOK, LoopTyped, [TurnNext]_turnVars
             PROVE  SubmitTypeOK' /\ LoopTyped'
  BY DEF TurnInv, TurnTypeOK, LoopTyped
<1>1. SubmitTypeOK'
  BY TurnStepSubmit, StepTyped DEF LoopTyped, LoopTypeOK
<1>2. CASE UNCHANGED turnVars
  <2>1. UNCHANGED <<pc, loopVars, signalVars, envVars, live, answerOf>>
    BY <1>2 DEF turnVars
  <2> QED
    BY <1>1, <2>1 DEF LoopTyped, LoopTypeOK, BudgetsLeft, loopVars, signalVars, envVars, answerOf
<1> QED
  BY <1>1, <1>2, ExecuteTyped, CliTyped, HostTyped DEF TurnNext

LEMMA TurnInitTyped == TurnInit => TurnInv
<1> SUFFICES ASSUME TurnInit PROVE SubmitTypeOK /\ LoopTyped
  BY InvParts
<1>1. SubmitTypeOK
  BY InitTyped DEF TurnInit
<1>2. live \in Prompts
  BY NoPromptsType DEF TurnInit, NoPrompts
<1> QED
  BY <1>1, <1>2, Budgets
     DEF TurnInit, Idle, Causes, Locations, LoopTyped, LoopTypeOK, BudgetsLeft, Prompts

-----------------------------------------------------------------------------
(* Theorems. *)

LEMMA TurnInvariant == TurnSpec => []TurnInv
BY TurnInitTyped, TurnStepTyped, PTL DEF TurnSpec

(* The Execute loop stays within its budgets: three provider calls, three  *)
(* finalize attempts, four sends, for any such bounds; and it reports only *)
(* outcomes of the host, "failure" or "needs_review".                      *)
THEOREM TurnTypeCorrect == TurnSpec => []TurnTypeOK
<1>1. TurnInv => TurnTypeOK
  BY DEF TurnInv
<1> QED
  BY <1>1, TurnInvariant, PTL

(* The Execute loop around the channel implements the channel alone: every *)
(* step of the turn is one submit_outcome step, or leaves it alone.        *)
THEOREM TurnImplementsSubmit == TurnSpec => SubmitSpec
<1>1. TurnInit => SubmitInit
  BY DEF TurnInit
<1>2. TurnInv /\ [TurnNext]_turnVars => [SubmitNext]_submitVars
  BY TurnStepSubmit DEF TurnInv, TurnTypeOK, LoopTypeOK
<1> QED
  BY <1>1, <1>2, TurnInvariant, PTL DEF TurnSpec, SubmitSpec

(* Within the whole loop, with its reprompts, retries and lost sessions, a *)
(* finalize that is recorded while a step is open is valid for that step,  *)
(* unless a turn that outlived its Execute submits in the window between   *)
(* beginExecution and the handshake of the next.                           *)
THEOREM TurnRecordsFitting ==
    TurnSpec /\ [][NoneBeforeHandshake]_submitVars => []RecordedFitsStep
BY RecordedFits, TurnImplementsSubmit, PTL

(* No reprompt, retry or late call of the loop changes an accepted answer. *)
THEOREM TurnFirstStands == TurnSpec => FirstFinalizeStands
BY FirstStands, TurnImplementsSubmit, PTL

-----------------------------------------------------------------------------
(* What an Execute may decide to return, and why. *)

Reports(kind, outcome, causes) ==
    result'.kind = kind /\ result'.outcome = outcome /\ result'.cause \in causes

(* Of the causes of an error, the first four do not ask for a finalize.    *)
Decision ==
    /\ pc \notin {"idle", "begun", "restore", "return"}
    /\ UNCHANGED <<submitVars, req, late>>
    /\ \/ Reports("error", NoOutcome, {"setup", "send", "ctx", "sink"})
       \/ Reports("error", NoOutcome, {"lost", "stall"}) /\ ~Recorded
       \/ Reports("result", finalize.outcome, {"finalize"}) /\ Recorded
       \/ Reports("result", MaxTurnsOutcome, {"max_turns"})
       \/ /\ pc = "exhausted"
          /\ Reports("result", IF step.fallback # NoOutcome THEN step.fallback ELSE "failure",
                     {"exhausted"})

LEMMA DecidesWith ==
    ASSUME NEW kind, NEW outcome, NEW cause, NEW prompts,
           Decide(kind, outcome, cause, prompts)
    PROVE  Reports(kind, outcome, {cause})
BY DEF Decide, Reports

LEMMA FailsWith ==
    ASSUME NEW cause, Fail(cause)
    PROVE  Reports("error", NoOutcome, {cause})
BY DecidesWith DEF Fail

LEMMA DeliversWith ==
    ASSUME NEW outcome, NEW cause, Deliver(outcome, cause)
    PROVE  Reports("result", outcome, {cause}) \/ Reports("error", NoOutcome, {"sink"})
BY DecidesWith, FailsWith DEF Deliver

LEMMA GivesUpWith ==
    ASSUME NEW why, NEW prompts, GiveUp(why, prompts)
    PROVE  pc' = "stalled" \/ Reports("error", NoOutcome, {"send"})
BY DecidesWith DEF GiveUp

Deferred == {"restore", "return"}

LEMMA Decisions ==
    ASSUME ExecuteNext, pc' \in Deferred, pc # "restore"
    PROVE  Decision
<1> USE DEF Decision, Deferred, Reports
<1>1. CASE Configure \/ StartCall \/ AwaitIdle \/ AwaitStall \/ DrainIdled \/ Return \/ RestoreEffort
  BY <1>1 DEF Configure, StartCall, StartSend, AwaitIdle, AwaitStall, DrainIdled, Return, RestoreEffort
<1>2. CASE Setup
  BY <1>2, FailStays, FailsWith DEF Setup
<1>3. CASE SendReturns
  BY <1>3, FailStays, FailsWith DEF SendReturns
<1>4. CASE RecoverSend
  BY <1>4, GiveUpStays, GivesUpWith DEF RecoverSend
<1>5. CASE \E why \in SendFailures : SendFails(why)
  BY <1>5, GiveUpStays, GivesUpWith DEF SendFails
<1>6. CASE AwaitCancelled
  BY <1>6, FailStays, FailsWith DEF AwaitCancelled
<1>7. CASE AwaitError
  BY <1>7, FailStays, FailsWith, DeliverStays, DeliversWith DEF AwaitError
<1>8. CASE JudgeIdle
  BY <1>8, DeliverStays, DeliversWith DEF JudgeIdle, StartSend
<1>9. CASE FailExhausted
  BY <1>9, DeliverStays, DeliversWith DEF FailExhausted
<1>10. CASE Stalled
  BY <1>10, FailStays, FailsWith, DeliverStays, DeliversWith DEF Stalled
<1>11. CASE Restart
  BY <1>11, DecideStays, DecidesWith DEF Restart
<1> QED
  BY <1>1, <1>2, <1>3, <1>4, <1>5, <1>6, <1>7, <1>8, <1>9, <1>10, <1>11 DEF ExecuteNext

LEMMA OnlyRestores ==
    ASSUME ExecuteNext, pc = "restore"
    PROVE  RestoreEffort
BY DEF ExecuteNext, Configure, Setup, StartCall, SendReturns, RecoverSend, SendFails,
       AwaitCancelled, AwaitError, AwaitIdle, AwaitStall, DrainIdled, JudgeIdle,
       FailExhausted, Stalled, Restart, Return

(* Every other step of the loop, up to the end of the deferred calls. *)
LEMMA Undecided ==
    ASSUME ExecuteNext, pc' \notin Deferred
    PROVE  pc' = "exhausted" => JudgeIdle
<1> USE DEF Deferred
<1>1. CASE Configure \/ StartCall \/ AwaitIdle \/ AwaitStall \/ DrainIdled \/ Return \/ RestoreEffort
  BY <1>1 DEF Configure, StartCall, StartSend, AwaitIdle, AwaitStall, DrainIdled, Return, RestoreEffort
<1>2. CASE Setup \/ SendReturns \/ AwaitCancelled \/ AwaitError
  BY <1>2, FailStays, DeliverStays DEF Setup, SendReturns, AwaitCancelled, AwaitError
<1>3. CASE RecoverSend \/ \E why \in SendFailures : SendFails(why)
  BY <1>3, DecideStays DEF RecoverSend, SendFails, GiveUp
<1>4. CASE FailExhausted \/ Stalled \/ Restart
  BY <1>4, FailStays, DeliverStays, DecideStays DEF FailExhausted, Stalled, Restart
<1> QED
  BY <1>1, <1>2, <1>3, <1>4 DEF ExecuteNext

(* What neither the goroutine nor a call of the model does leaves the      *)
(* channel and the decision alone, or begins an Execute.                   *)
LEMMA Others ==
    ASSUME CliNext \/ HostNext \/ UNCHANGED turnVars
    PROVE  \/ UNCHANGED <<submitVars, pc, req, result, late>>
           \/ \E sub \in Submissions : ModelSubmits(sub)
           \/ \E h \in Handshakes, limit \in MaxTurnsInputs : Begin(h, limit)
<1> USE DEF envVars, answerOf
<1>1. CASE CliNext
  BY <1>1 DEF CliNext, DeliverPrompt, AssistantMessage, SessionIdle, SessionLost,
              ForwardFails, CliDies
<1>2. CASE HostNext \/ UNCHANGED turnVars
  BY <1>2 DEF HostNext, Cancel, turnVars
<1> QED
  BY <1>1, <1>2

-----------------------------------------------------------------------------
(* How an Execute may end once a finalize is recorded. *)

Kept ==
    \/ result.outcome = finalize.outcome
    \/ result.cause \in {"max_turns", "ctx", "sink", "send", "setup"}
    \/ late

(* A finalize that is recorded when it no longer counts came late. *)
KeptSoFar ==
    /\ pc = "exhausted" /\ Recorded => late
    /\ pc \in Deferred /\ Recorded => Kept

LEMMA ExecuteKeeps ==
    ASSUME SubmitTypeOK, KeptSoFar, ExecuteNext
    PROVE  KeptSoFar'
<1>1. CASE pc' \in Deferred /\ pc # "restore"
  BY <1>1, Decisions DEF Decision, Reports, KeptSoFar, Kept, Recorded, submitVars, Deferred
<1>2. CASE pc' \in Deferred /\ pc = "restore"
  <2>1. RestoreEffort
    BY <1>2, OnlyRestores
  <2> QED
    BY <1>2, <2>1 DEF RestoreEffort, KeptSoFar, Kept, Recorded, submitVars, answerOf, Deferred
<1>3. CASE pc' = "exhausted"
  <2>1. JudgeIdle
    BY <1>3, Undecided DEF Deferred
  <2>2. ~Recorded /\ finalize'.outcome = finalize.outcome
    <3>1. finalize \in Finalize
      BY DEF SubmitTypeOK
    <3> QED
      BY <1>3, <2>1, <3>1, DeliverStays
         DEF JudgeIdle, StartSend, MarkNoOutcomes, Recorded, Finalize, submitVars
  <2> QED
    BY <1>3, <2>2 DEF KeptSoFar, Recorded, Deferred
<1> QED
  BY <1>1, <1>2, <1>3 DEF KeptSoFar

LEMMA CallKeeps ==
    ASSUME SubmitTypeOK, KeptSoFar, NEW sub \in Submissions, ModelSubmits(sub)
    PROVE  KeptSoFar'
<1>1. UNCHANGED <<pc, result>> /\ SubmitOutcome(sub)
  BY DEF ModelSubmits
<1>2. CASE Recorded
  <2>1. finalize'.outcome = finalize.outcome
    BY <1>1, <1>2, CallKeepsAnswer DEF Recorded, Answer
  <2>2. late => late'
    BY DEF ModelSubmits
  <2> QED
    BY <1>1, <1>2, <2>1, <2>2 DEF KeptSoFar, Kept, Recorded
<1>3. CASE ~Recorded /\ Recorded' /\ Decided
  <2>1. late'
    BY <1>3 DEF ModelSubmits, Recorded
  <2> QED
    BY <2>1 DEF KeptSoFar, Kept
<1> QED
  BY <1>1, <1>2, <1>3 DEF KeptSoFar, Kept, Decided, Deferred

LEMMA StepKeeps == TurnInv /\ KeptSoFar /\ [TurnNext]_turnVars => KeptSoFar'
<1> SUFFICES ASSUME SubmitTypeOK, KeptSoFar, [TurnNext]_turnVars PROVE KeptSoFar'
  BY DEF TurnInv, TurnTypeOK
<1>1. CASE UNCHANGED <<submitVars, pc, req, result, late>>
  BY <1>1 DEF KeptSoFar, Kept, Recorded, submitVars
<1>2. ASSUME NEW h, NEW limit, Begin(h, limit) PROVE KeptSoFar'
  BY <1>2 DEF Begin, KeptSoFar, Deferred
<1> QED
  BY <1>1, <1>2, Others, ExecuteKeeps, CallKeeps DEF TurnNext

(* Only the end of the deferred calls ends an Execute. *)
LEMMA OnlyReturnEnds ==
    ASSUME TurnNext, Ends
    PROVE  Return
<1> USE DEF submitVars
<1>0. stage # "idle" /\ stage' = "idle" /\ ~UNCHANGED stage
  BY DEF Ends
<1>1. CASE ExecuteNext /\ pc' \in Deferred /\ pc # "restore"
  BY <1>0, <1>1, Decisions DEF Decision
<1>2. CASE Configure \/ Setup \/ StartCall \/ AwaitIdle \/ AwaitStall \/ DrainIdled \/ RestoreEffort
  BY <1>0, <1>2, FailStays
     DEF Configure, InstallHandshake, Setup, StartCall, AwaitIdle, AwaitStall, DrainIdled, RestoreEffort
<1>3. CASE SendReturns \/ RecoverSend \/ \E why \in SendFailures : SendFails(why)
  BY <1>0, <1>3, FailStays, GiveUpStays DEF SendReturns, RecoverSend, SendFails
<1>4. CASE AwaitCancelled \/ AwaitError \/ JudgeIdle \/ FailExhausted \/ Stalled \/ Restart
  BY <1>0, <1>4, FailStays, DeliverStays, DecideStays
     DEF AwaitCancelled, AwaitError, JudgeIdle, MarkNoOutcomes, FailExhausted, Stalled, Restart
<1>5. CASE CliNext \/ HostNext
  BY <1>0, <1>5, Others DEF ModelSubmits, SubmitOutcome, Begin, BeginExecution
<1> QED
  BY <1>1, <1>2, <1>3, <1>4, <1>5 DEF TurnNext, ExecuteNext

(* An Execute with a recorded finalize returns that outcome, unless it ends *)
(* by the turn cap, a cancellation, a refusing host stream, a failed setup *)
(* or send, or had decided what to return before the call was accepted:    *)
(* neither a stall nor a session loss nor an exhaustion drops one that was *)
(* accepted in time, whatever the budgets.                                 *)
THEOREM FinalizeKept == TurnSpec => FinalizeNeverLost
<1> DEFINE Keeps == Ends /\ Recorded =>
                       \/ result'.outcome = finalize.outcome
                       \/ result'.cause \in {"max_turns", "ctx", "sink", "send", "setup"}
                       \/ late
<1>1. TurnInit => KeptSoFar
  BY DEF TurnInit, KeptSoFar, Deferred
<1>2. KeptSoFar /\ [TurnNext]_turnVars => [Keeps]_turnVars
  <2> SUFFICES ASSUME KeptSoFar, TurnNext, Ends, Recorded PROVE Keeps
    OBVIOUS
  <2>1. Return
    BY OnlyReturnEnds
  <2> QED
    BY <2>1 DEF Return, KeptSoFar, Kept, answerOf, Deferred
<1> QED
  BY <1>1, <1>2, StepKeeps, TurnInvariant, PTL DEF TurnSpec, FinalizeNeverLost

-----------------------------------------------------------------------------
(* What the host is promised.                                              *)

(* Steps of which none takes over the fallback of an earlier one: if any   *)
(* names a fallback, every step with contracts names its own.              *)
OwnFallbacks ==
    (\E g \in Handshakes : Fallbacks(g.contracts) # {})
        => \A h \in Handshakes : Declared(h.contracts) # {} => Fallbacks(h.contracts) # {}

(* While a step is open, what decides its answer is of its own request.    *)
StepIsOfRequest ==
    /\ pc \notin {"idle", "begun"} => stage = "open"
    /\ stage = "open" => /\ step.allowed = req.allowed
                         /\ step.fallback \in Fallbacks(req.contracts) \cup {NoOutcome}
    /\ step.fallback # NoOutcome => \E g \in Handshakes : step.fallback \in Fallbacks(g.contracts)

(* A step of the loop ends the Execute, installs the handshake, or leaves  *)
(* the step and its request alone.                                         *)
Closes == EndExecution /\ pc = "return" /\ pc' = "idle" /\ UNCHANGED <<req, result>>
GoesOn == pc \notin {"idle", "begun"} /\ UNCHANGED <<stage, step, req>>

LEMMA ThreeWays ==
    ASSUME ExecuteNext
    PROVE  Closes \/ GoesOn \/ Configure
<1> USE DEF submitVars, envVars, GoesOn
<1>1. CASE Setup \/ StartCall \/ SendReturns
  BY <1>1, FailStays DEF Setup, StartCall, SendReturns
<1>2. CASE RecoverSend \/ \E why \in SendFailures : SendFails(why)
  BY <1>2, GiveUpStays DEF RecoverSend, SendFails
<1>3. CASE AwaitCancelled \/ AwaitError \/ AwaitIdle \/ AwaitStall \/ DrainIdled
  BY <1>3, FailStays, DeliverStays
     DEF AwaitCancelled, AwaitError, AwaitIdle, AwaitStall, DrainIdled
<1>4. CASE JudgeIdle \/ FailExhausted
  BY <1>4, DeliverStays DEF JudgeIdle, MarkNoOutcomes, FailExhausted
<1>5. CASE Stalled \/ Restart
  BY <1>5, FailStays, DeliverStays, DecideStays DEF Stalled, Restart
<1>6. CASE RestoreEffort \/ Return
  BY <1>6 DEF RestoreEffort, Return, Closes, answerOf
<1> QED
  BY <1>1, <1>2, <1>3, <1>4, <1>5, <1>6 DEF ExecuteNext

(* The handshake is the request's, and the fallback too. *)
LEMMA ConfigureBelongs ==
    ASSUME OwnFallbacks, req \in Handshakes, StepIsOfRequest, Configure
    PROVE  StepIsOfRequest' /\ UNCHANGED <<req, result>> /\ stage = "begun" /\ stage' = "open"
<1>1. PICK name \in FallbackAfter(req) :
         step' = [allowed |-> req.allowed,
                  contractMode |-> Declared(req.contracts) # {},
                  contracts |-> req.contracts,
                  fallback |-> name]
  BY DEF Configure, InstallHandshake
<1>2. /\ name \in Fallbacks(req.contracts) \cup {NoOutcome}
      /\ name # NoOutcome => \E g \in Handshakes : name \in Fallbacks(g.contracts)
  BY <1>1 DEF FallbackAfter, OwnFallbacks, StepIsOfRequest
<1>3. stage = "begun" /\ stage' = "open" /\ UNCHANGED <<req, result>>
  BY DEF Configure, InstallHandshake, envVars, answerOf
<1> QED
  BY <1>1, <1>2, <1>3 DEF StepIsOfRequest

LEMMA StepBelongs ==
    ASSUME OwnFallbacks, req \in Handshakes, StepIsOfRequest, [TurnNext]_turnVars
    PROVE  StepIsOfRequest'
<1>1. CASE Closes
  BY <1>1 DEF Closes, EndExecution, StepIsOfRequest
<1>2. CASE GoesOn
  BY <1>2 DEF GoesOn, StepIsOfRequest
<1>3. CASE UNCHANGED <<submitVars, pc, req>> \/ \E sub \in Submissions : ModelSubmits(sub)
  <2>1. UNCHANGED <<stage, step, req, pc>>
    BY <1>3 DEF ModelSubmits, SubmitOutcome, submitVars, envVars
  <2> QED
    BY <2>1 DEF StepIsOfRequest
<1>4. CASE \E h \in Handshakes, limit \in MaxTurnsInputs : Begin(h, limit)
  BY <1>4 DEF Begin, BeginExecution, StepIsOfRequest
<1> QED
  BY <1>1, <1>2, <1>3, <1>4, Others, ThreeWays, ConfigureBelongs DEF TurnNext

LEMMA StepsBelong ==
    ASSUME OwnFallbacks
    PROVE  TurnSpec => []StepIsOfRequest
<1>1. TurnInit => StepIsOfRequest
  BY DEF TurnInit, SubmitInit, StepIsOfRequest
<1>2. TurnInv /\ StepIsOfRequest /\ [TurnNext]_turnVars => StepIsOfRequest'
  BY StepBelongs DEF TurnInv, TurnTypeOK, LoopTypeOK
<1> QED
  BY <1>1, <1>2, TurnInvariant, PTL DEF TurnSpec

AnswerStep == [Promise!Start \/ Promise!Finish]_(Promise!answerVars)

(* While an Execute runs, whatever it decides, the host is told nothing. *)
LEMMA Silent ==
    ASSUME req' = req, UNCHANGED <<stage, result>> \/ (stage # "idle" /\ stage' # "idle")
    PROVE  AnswerStep
<1>1. UNCHANGED Promise!answerVars
  BY DEF Promise!answerVars
<1> QED
  BY <1>1 DEF AnswerStep

(* The outcomes the loop itself knows are among those of the step.         *)
LEMMA AnswersAreTheSteps ==
    ASSUME StepIsOfRequest, RecordedFitsStep, stage = "open"
    PROVE  /\ Recorded => finalize.outcome \in AnswersOf(req)
           /\ MaxTurnsOutcome \in AnswersOf(req)
           /\ (IF step.fallback # NoOutcome THEN step.fallback ELSE "failure") \in AnswersOf(req)
<1>1. Recorded => finalize.outcome \in step.allowed
  BY DEF Recorded, RecordedFitsStep, FitsStep, Answer
<1> QED
  BY <1>1 DEF StepIsOfRequest, AnswersOf, MaxTurnsOutcome

(* What is decided is an error or an outcome of the step it was asked of. *)
AnswerFits ==
    pc \in Deferred =>
       \/ result.kind = "error" /\ result.outcome = NoOutcome
       \/ result.kind = "result" /\ result.outcome \in AnswersOf(req)

LEMMA DecisionFits ==
    ASSUME StepIsOfRequest, RecordedFitsStep, AnswerFits, [TurnNext]_turnVars
    PROVE  AnswerFits'
<1>1. CASE ExecuteNext /\ pc' \in Deferred /\ pc # "restore"
  <2>1. Decision
    BY <1>1, Decisions
  <2>2. stage = "open" /\ req' = req
    BY <2>1 DEF Decision, StepIsOfRequest
  <2> QED
    BY <2>1, <2>2, AnswersAreTheSteps DEF Decision, Reports, AnswerFits, AnswersOf
<1>2. CASE ExecuteNext /\ pc' \in Deferred /\ pc = "restore"
  <2>1. RestoreEffort
    BY <1>2, OnlyRestores
  <2> QED
    BY <1>2, <2>1 DEF RestoreEffort, AnswerFits, AnswersOf, answerOf, envVars, Deferred
<1>3. CASE ExecuteNext /\ pc' \notin Deferred
  BY <1>3 DEF AnswerFits
<1>4. CASE UNCHANGED <<pc, req, result>>
  BY <1>4 DEF AnswerFits, AnswersOf
<1>5. CASE \E h \in Handshakes, limit \in MaxTurnsInputs : Begin(h, limit)
  BY <1>5 DEF Begin, AnswerFits, Deferred
<1> QED
  BY <1>1, <1>2, <1>3, <1>4, <1>5, Others DEF TurnNext, ModelSubmits, envVars

LEMMA ReturnFinishes ==
    ASSUME AnswerFits, Closes
    PROVE  AnswerStep
<1>1. /\ stage # "idle" /\ stage' = "idle" /\ UNCHANGED <<req, result>>
      /\ \/ result.kind = "error" /\ result.outcome = NoOutcome
         \/ result.kind = "result" /\ result.outcome \in AnswersOf(req)
  BY DEF Closes, EndExecution, AnswerFits, Deferred
<1>2. Promise!Finish
  BY <1>1 DEF Promise!Finish, Promise!Failure, Promise!Result, NoOutcome
<1> QED
  BY <1>2 DEF AnswerStep

LEMMA ExecuteAnswers ==
    ASSUME OwnFallbacks, req \in Handshakes, StepIsOfRequest, AnswerFits, ExecuteNext
    PROVE  AnswerStep
<1>1. CASE Closes
  BY <1>1, ReturnFinishes
<1>2. CASE GoesOn
  <2>1. stage = "open"
    BY <1>2 DEF GoesOn, StepIsOfRequest
  <2> QED
    BY <1>2, <2>1, Silent DEF GoesOn
<1>3. CASE Configure
  BY <1>3, ConfigureBelongs, Silent
<1> QED
  BY <1>1, <1>2, <1>3, ThreeWays

LEMMA OthersAnswer ==
    ASSUME CliNext \/ HostNext \/ UNCHANGED turnVars
    PROVE  AnswerStep
<1>1. CASE UNCHANGED <<submitVars, pc, req, result, late>> \/ \E sub \in Submissions : ModelSubmits(sub)
  <2>1. UNCHANGED <<stage, req, result>>
    BY <1>1 DEF ModelSubmits, SubmitOutcome, submitVars, envVars
  <2> QED
    BY <2>1, Silent
<1>2. ASSUME NEW h \in Handshakes, NEW limit \in MaxTurnsInputs, Begin(h, limit)
      PROVE  AnswerStep
  <2>1. stage = "idle" /\ stage' = "begun" /\ req' = h /\ result' = Idle
    BY <1>2 DEF Begin, BeginExecution
  <2>2. Promise!Start
    BY <2>1 DEF Promise!Start, Promise!Nothing, Idle, NoOutcome
  <2> QED
    BY <2>2 DEF AnswerStep
<1> QED
  BY <1>1, <1>2, Others

(* The safety half of KeepsPromise, for every budget, step and call: an    *)
(* Execute answers the host once, with an error or an outcome of its own   *)
(* step, unless a turn that outlived its Execute is heard in the window    *)
(* before the handshake or a step takes over the fallback of an earlier    *)
(* one.                                                                    *)
THEOREM TurnKeepsPromise ==
    ASSUME OwnFallbacks
    PROVE  TurnSpec /\ [][NoneBeforeHandshake]_submitVars => Promise!SafeSpec
<1>1. TurnInit => Promise!Init
  <2> SUFFICES ASSUME TurnInit PROVE Promise!Init
    OBVIOUS
  <2>1. stage = "idle" /\ req \in Handshakes /\ result = Idle
    BY DEF TurnInit, SubmitInit
  <2> QED
    BY <2>1 DEF Promise!Init, Promise!Nothing, Idle, NoOutcome
<1>2. TurnInit => AnswerFits
  BY DEF TurnInit, AnswerFits, Deferred
<1>3. /\ TurnInv /\ RecordedFitsStep /\ StepIsOfRequest /\ AnswerFits /\ [TurnNext]_turnVars
        => AnswerFits' /\ AnswerStep
  BY ExecuteAnswers, OthersAnswer, DecisionFits DEF TurnNext, TurnInv, TurnTypeOK, LoopTypeOK
<1> QED
  BY <1>1, <1>2, <1>3, TurnInvariant, TurnRecordsFitting, StepsBelong, PTL
     DEF TurnSpec, Promise!SafeSpec, AnswerStep

(* The same of an Execute whose predecessors left no turn behind. *)
THEOREM TurnKeepsPromiseAlone ==
    ASSUME OwnFallbacks, ~StraySubmits
    PROVE  TurnSpec => Promise!SafeSpec
BY TurnKeepsPromise, NothingStray, TurnImplementsSubmit, PTL DEF SubmitSpec

-----------------------------------------------------------------------------
(* The step that fails on the legacy path.                                 *)

(* Only failExhausted decides for this cause. *)
ExhaustedFails ==
    pc \in Deferred /\ result.cause = "exhausted" /\ Fallbacks(req.contracts) = {}
        => result.outcome = "failure"

LEMMA DecisionFails ==
    ASSUME StepIsOfRequest, ExhaustedFails, [TurnNext]_turnVars
    PROVE  ExhaustedFails'
<1>1. CASE ExecuteNext /\ pc' \in Deferred /\ pc # "restore"
  <2>1. Decision
    BY <1>1, Decisions
  <2>2. stage = "open" /\ req' = req
    BY <2>1 DEF Decision, StepIsOfRequest
  <2>3. Fallbacks(req.contracts) = {} => step.fallback = NoOutcome
    BY <2>2 DEF StepIsOfRequest
  <2> QED
    BY <2>1, <2>2, <2>3 DEF Decision, Reports, ExhaustedFails, Fallbacks, Declared
<1>2. CASE ExecuteNext /\ pc' \in Deferred /\ pc = "restore"
  <2>1. RestoreEffort
    BY <1>2, OnlyRestores
  <2> QED
    BY <1>2, <2>1 DEF RestoreEffort, ExhaustedFails, Fallbacks, Declared, answerOf, envVars, Deferred
<1>3. CASE ExecuteNext /\ pc' \notin Deferred
  BY <1>3 DEF ExhaustedFails
<1>4. CASE UNCHANGED <<pc, req, result>>
  BY <1>4 DEF ExhaustedFails, Fallbacks, Declared
<1>5. CASE \E h \in Handshakes, limit \in MaxTurnsInputs : Begin(h, limit)
  BY <1>5 DEF Begin, ExhaustedFails, Deferred
<1> QED
  BY <1>1, <1>2, <1>3, <1>4, <1>5, Others DEF TurnNext, ModelSubmits, envVars

(* A step without a fallback of its own whose finalize loop ran out fails  *)
(* as on the legacy path, or the host's stream refuses even that; unless   *)
(* it takes over the fallback of an earlier step (copilot_turn.go:848).    *)
THEOREM LegacyFailure ==
    ASSUME OwnFallbacks
    PROVE  TurnSpec => LegacyFailureWithoutFallback
<1> DEFINE Legacy == Ends /\ result'.cause = "exhausted" /\ Fallbacks(req.contracts) = {}
                        => result'.outcome = "failure"
<1>1. TurnInit => ExhaustedFails
  BY DEF TurnInit, ExhaustedFails, Deferred
<1>2. StepIsOfRequest /\ ExhaustedFails /\ [TurnNext]_turnVars => ExhaustedFails'
  BY DecisionFails
<1>3. ExhaustedFails /\ [TurnNext]_turnVars => [Legacy]_turnVars
  <2> SUFFICES ASSUME ExhaustedFails, TurnNext, Ends, result'.cause = "exhausted",
                      Fallbacks(req.contracts) = {}
               PROVE  result'.outcome = "failure"
    OBVIOUS
  <2>1. Return
    BY OnlyReturnEnds
  <2> QED
    BY <2>1 DEF Return, ExhaustedFails, answerOf, Deferred
<1> QED
  BY <1>1, <1>2, <1>3, StepsBelong, PTL DEF TurnSpec, LegacyFailureWithoutFallback

=============================================================================

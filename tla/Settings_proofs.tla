--------------------------- MODULE Settings_proofs --------------------------
(* What holds of the model and the effort of a session for any sets of     *)
(* models and efforts and any number of SDK sessions.                      *)
EXTENDS Settings, TLAPS

Steps == {"effort", "model", "turn", "restore"}

(* The calls under way have read a session there is. *)
TargetsExist ==
    /\ pc # "closed" => current \in Sdks
    /\ pc \in Steps \cup {"opening"} => target \in Sdks

(* Efforts are validated before anything depends on them. *)
EffortsValid ==
    /\ defaults.effort \in Efforts \cup {Unset}
    /\ pc \in {"model", "turn"} => input.effort \in Efforts \cup {Unset}
    /\ pc \in {"published", "opening"} => defaults = Nothing

(* The restore of an effort is deferred exactly when one was overridden. *)
RestoreIsDue ==
    /\ pc \in {"model", "turn"} => restores = (input.effort # Unset)
    /\ pc = "restore" => input.effort # Unset
    /\ pc = "effort" => ~restores

(* Whatever replaces the SDK session of an overriding step is noted. *)
ReplacementNoted == Overriding /\ current # target => current \in inherited

(* What a step asked for has reached the session it read. *)
Asked ==
    /\ pc = "model" /\ current = target /\ input.effort # Unset /\ input.model = Unset
          => sdk[current].effort = input.effort
    /\ StepRunsAsAsked

(* Where no override is in force the effort is the default one, or none. *)
Overridden == pc \in {"model", "turn", "restore"} /\ input.effort # Unset

EffortIsDefault ==
    pc # "closed" /\ ~Overridden
        => \/ sdk[current].effort \in {defaults.effort, Unset}
           \/ current \in failed \cup inherited

SettingInv ==
    /\ SettingTypeOK /\ TargetsExist /\ EffortsValid /\ RestoreIsDue
    /\ ReplacementNoted /\ Asked /\ EffortIsDefault

SdkTypes ==
    /\ sdk \in [Sdks -> [model : Models \cup {Unset}, effort : Efforts \cup {Unset}]]
    /\ failed \subseteq Sdks /\ inherited \subseteq Sdks

-----------------------------------------------------------------------------

LEMMA RequestParts ==
    /\ Nothing \in Requests /\ Nothing.effort = Unset /\ Nothing.model = Unset
    /\ \A r \in Requests : /\ r.model \in Models \cup {Unset}
                           /\ r.effort \in Efforts \cup OtherEfforts \cup {Unset}
BY DEF Requests, Nothing

LEMMA InitInv == SettingInit => SettingInv
<1> SUFFICES ASSUME SettingInit PROVE SettingInv
  OBVIOUS
<1>1. /\ Nothing \in [model : Models \cup {Unset}, effort : Efforts \cup {Unset}]
      /\ MaxSdkSessions \in Nat
  BY SettingsAssumption DEF Nothing
<1>2. SettingTypeOK
  <2>1. sdk \in [Sdks -> [model : Models \cup {Unset}, effort : Efforts \cup {Unset}]]
    BY <1>1 DEF SettingInit
  <2>2. current \in 0..MaxSdkSessions /\ target \in 0..current
    BY <1>1 DEF SettingInit
  <2>3. restores \in BOOLEAN /\ failed \subseteq Sdks /\ inherited \subseteq Sdks
    BY DEF SettingInit
  <2>4. /\ config \in Requests /\ input \in Requests /\ defaults \in {Nothing, config}
        /\ pc = "closed"
    BY RequestParts DEF SettingInit
  <2> QED
    BY <2>1, <2>2, <2>3, <2>4 DEF SettingTypeOK
<1>3. TargetsExist /\ EffortsValid /\ RestoreIsDue
  BY RequestParts DEF SettingInit, TargetsExist, EffortsValid, RestoreIsDue, Steps
<1>4. ReplacementNoted /\ Asked /\ EffortIsDefault
  BY DEF SettingInit, ReplacementNoted, Asked, StepRunsAsAsked, EffortIsDefault, Overriding
<1> QED
  BY <1>2, <1>3, <1>4 DEF SettingInv

(* What a call of SetModel does to the SDK sessions, whichever way it ends. *)
LEMMA SetModelMoves ==
    ASSUME SettingTypeOK, target \in Sdks,
           NEW m \in Models \cup {Unset}, NEW e \in Efforts \cup {Unset},
           SetModelSucceeds(m, e) \/ SetModelFails(m, e)
    PROVE  /\ SdkTypes'
           /\ \A n \in Sdks : n # target => sdk'[n] = sdk[n]
           /\ \A n \in Sdks : n # target =>
                 n \in failed' \cup inherited' <=> n \in failed \cup inherited
           /\ \A n \in Sdks : n # target => n \in inherited' <=> n \in inherited
           /\ target # current => sdk' = sdk /\ target \in failed'
<1>1. Applied(m, e) \in [model : Models \cup {Unset}, effort : Efforts \cup {Unset}]
  BY DEF Applied, SettingTypeOK
<1> QED
  BY <1>1 DEF SetModelSucceeds, SetModelFails, SettingTypeOK, SdkTypes

LEMMA SetModelHits ==
    ASSUME SettingTypeOK, target \in Sdks,
           NEW m \in Models \cup {Unset}, NEW e \in Efforts \cup {Unset},
           SetModelSucceeds(m, e)
    PROVE  /\ target = current
           /\ sdk'[target].effort = e
           /\ m # Unset => sdk'[target].model = m
BY DEF SetModelSucceeds, Applied, SettingTypeOK

-----------------------------------------------------------------------------
(* The invariant is inductive. *)

LEMMA OpenInv ==
    ASSUME SettingInv, NEW request \in Requests, Open(request)
    PROVE  SettingInv'
<1> PICK effort \in Efforts \cup {Unset} : Adopt(request.model, effort, effort # Unset)
  BY DEF Open
<1>1. current + 1 \in Sdks /\ current' = current + 1
  BY SettingsAssumption DEF Open, Adopt, SettingInv, SettingTypeOK, Sdks
<1>2. SettingTypeOK'
  BY <1>1, RequestParts, SettingsAssumption
     DEF Open, Adopt, SettingInv, SettingTypeOK, Sdks
<1>3. sdk'[current'].effort = effort /\ (effort # Unset => current' \in inherited')
  BY <1>1 DEF Adopt, SettingInv, SettingTypeOK
<1> QED
  BY <1>1, <1>2, <1>3, RequestParts
     DEF Open, SettingInv, TargetsExist, EffortsValid, RestoreIsDue, ReplacementNoted, Asked,
         StepRunsAsAsked, EffortIsDefault, Overriding, Overridden, Steps

LEMMA ReadSessionInv == SettingInv /\ ReadSession => SettingInv'
BY DEF ReadSession, SettingInv, SettingTypeOK, TargetsExist, EffortsValid, RestoreIsDue,
       ReplacementNoted, Asked, StepRunsAsAsked, EffortIsDefault, Overriding, Overridden, Steps,
       cliVars, Sdks

LEMMA ApplyOpenInv ==
    ASSUME SettingInv, ApplyOpen
    PROVE  SettingInv'
<1> USE DEF SettingInv
<1>1. /\ target \in Sdks /\ current \in Sdks
      /\ UNCHANGED <<config, input, restores, current, target>>
      /\ config.model \in Models \cup {Unset}
      /\ defaults = Nothing
  BY RequestParts DEF ApplyOpen, TargetsExist, EffortsValid, SettingTypeOK
<1>2. CASE pc' = "closed" /\ UNCHANGED <<defaults, cliVars>>
  BY <1>1, <1>2
     DEF SettingTypeOK, TargetsExist, EffortsValid, RestoreIsDue, ReplacementNoted, Asked,
         StepRunsAsAsked, EffortIsDefault, Overriding, Overridden, Steps, cliVars
<1>3. CASE /\ config = Nothing /\ UNCHANGED cliVars /\ defaults' = config /\ pc' = "idle"
           /\ pc = "opening"
  BY <1>1, <1>3, RequestParts
     DEF SettingTypeOK, TargetsExist, EffortsValid, RestoreIsDue, ReplacementNoted, Asked,
         StepRunsAsAsked, EffortIsDefault, Overriding, Overridden, Steps, cliVars
<1>4. CASE /\ config.effort \in Efforts \cup {Unset}
           /\ SetModelSucceeds(config.model, config.effort)
           /\ defaults' = config /\ pc' = "idle"
  <2>1. SdkTypes' /\ target = current /\ sdk'[current].effort = config.effort
    BY <1>1, <1>4, SetModelMoves, SetModelHits
  <2> QED
    BY <1>1, <1>4, <2>1
       DEF SdkTypes, SettingTypeOK, TargetsExist, EffortsValid, RestoreIsDue, ReplacementNoted,
           Asked, StepRunsAsAsked, EffortIsDefault, Overriding, Overridden, Steps
<1>5. CASE /\ config.effort \in Efforts \cup {Unset}
           /\ SetModelFails(config.model, config.effort)
           /\ pc' = "closed" /\ UNCHANGED defaults
  <2>1. SdkTypes'
    BY <1>1, <1>5, SetModelMoves
  <2> QED
    BY <1>1, <1>5, <2>1
       DEF SdkTypes, SettingTypeOK, TargetsExist, EffortsValid, RestoreIsDue, ReplacementNoted,
           Asked, StepRunsAsAsked, EffortIsDefault, Overriding, Overridden, Steps
<1> QED
  BY <1>2, <1>3, <1>4, <1>5 DEF ApplyOpen, validateReasoningEffort

LEMMA BeginInv ==
    ASSUME SettingInv, NEW request \in Requests, Begin(request)
    PROVE  SettingInv'
<1> USE DEF SettingInv
<1>1. /\ pc = "idle" /\ pc' = "effort" /\ input' = request /\ restores' = FALSE
      /\ target' = current
      /\ UNCHANGED <<config, defaults, current, sdk, failed, inherited>>
  BY DEF Begin, cliVars
<1>2. TargetsExist' /\ current \in 0..current
  BY <1>1 DEF SettingTypeOK, TargetsExist, Steps, Sdks
<1>3. SettingTypeOK'
  <2>1. restores' \in BOOLEAN /\ pc' = "effort" /\ input' \in Requests
    BY <1>1
  <2>2. target' \in 0..current'
    BY <1>1, <1>2
  <2> QED
    BY <1>1, <2>1, <2>2 DEF SettingTypeOK
<1>4. EffortsValid' /\ RestoreIsDue'
  BY <1>1 DEF EffortsValid, RestoreIsDue
<1>5. ReplacementNoted' /\ Asked' /\ EffortIsDefault'
  BY <1>1
     DEF ReplacementNoted, Asked, StepRunsAsAsked, EffortIsDefault, Overriding, Overridden
<1> QED
  BY <1>2, <1>3, <1>4, <1>5

LEMMA ApplyEffortInv ==
    ASSUME SettingInv, ApplyEffort
    PROVE  SettingInv'
<1> USE DEF SettingInv
<1>1. /\ pc = "effort" /\ target \in Sdks /\ current \in Sdks /\ restores = FALSE
      /\ UNCHANGED <<config, defaults, input, current, target>>
  BY DEF ApplyEffort, TargetsExist, RestoreIsDue, Steps, SettingTypeOK
<1>2. CASE pc' = "model" /\ input.effort = Unset /\ UNCHANGED <<cliVars, restores>>
  BY <1>1, <1>2
     DEF SettingTypeOK, TargetsExist, EffortsValid, RestoreIsDue, ReplacementNoted, Asked,
         StepRunsAsAsked, EffortIsDefault, Overriding, Overridden, Steps, cliVars
<1>3. CASE pc' = "idle" /\ UNCHANGED <<cliVars, restores>>
  BY <1>1, <1>3
     DEF SettingTypeOK, TargetsExist, EffortsValid, RestoreIsDue, ReplacementNoted, Asked,
         StepRunsAsAsked, EffortIsDefault, Overriding, Overridden, Steps, cliVars
<1>4. CASE /\ pc' = "model" /\ restores' = TRUE /\ UNCHANGED cliVars
           /\ input.effort # Unset /\ input.model # Unset /\ input.effort \in Efforts
  BY <1>1, <1>4
     DEF SettingTypeOK, TargetsExist, EffortsValid, RestoreIsDue, ReplacementNoted, Asked,
         StepRunsAsAsked, EffortIsDefault, Overriding, Overridden, Steps, cliVars
<1>5. CASE /\ pc' = "model" /\ restores' = TRUE /\ SetModelSucceeds(Unset, input.effort)
           /\ input.effort # Unset /\ input.effort \in Efforts
  <2>1. SdkTypes' /\ target = current /\ sdk'[current].effort = input.effort
    BY <1>1, <1>5, SetModelMoves, SetModelHits
  <2> QED
    BY <1>1, <1>5, <2>1
       DEF SdkTypes, SettingTypeOK, TargetsExist, EffortsValid, RestoreIsDue, ReplacementNoted,
           Asked, StepRunsAsAsked, EffortIsDefault, Overriding, Overridden, Steps
<1>6. CASE /\ pc' = "idle" /\ UNCHANGED restores /\ SetModelFails(Unset, input.effort)
           /\ input.effort # Unset /\ input.effort \in Efforts
  <2>1. /\ SdkTypes'
        /\ target # current => sdk'[current] = sdk[current] /\ current \in inherited'
        /\ target = current => current \in failed'
    BY <1>1, <1>6, SetModelMoves DEF SetModelFails, ReplacementNoted, Overriding
  <2> QED
    BY <1>1, <1>6, <2>1
       DEF SdkTypes, SettingTypeOK, TargetsExist, EffortsValid, RestoreIsDue, ReplacementNoted,
           Asked, StepRunsAsAsked, EffortIsDefault, Overriding, Overridden, Steps
<1> QED
  BY <1>1, <1>2, <1>3, <1>4, <1>5, <1>6 DEF ApplyEffort, validateReasoningEffort

LEMMA ApplyModelInv ==
    ASSUME SettingInv, ApplyModel
    PROVE  SettingInv'
<1> USE DEF SettingInv
<1>1. /\ pc = "model" /\ target \in Sdks /\ current \in Sdks
      /\ restores = (input.effort # Unset) /\ input.effort \in Efforts \cup {Unset}
      /\ input.model \in Models \cup {Unset}
      /\ UNCHANGED <<config, defaults, input, restores, current, target>>
  BY RequestParts DEF ApplyModel, TargetsExist, EffortsValid, RestoreIsDue, Steps, SettingTypeOK
<1>2. CASE input.model = Unset /\ pc' = "turn" /\ UNCHANGED cliVars
  BY <1>1, <1>2
     DEF SettingTypeOK, TargetsExist, EffortsValid, RestoreIsDue, ReplacementNoted, Asked,
         StepRunsAsAsked, EffortIsDefault, Overriding, Overridden, Steps, cliVars
<1>3. CASE input.model # Unset /\ pc' = "turn" /\ SetModelSucceeds(input.model, input.effort)
  <2>1. /\ SdkTypes' /\ target = current
        /\ sdk'[current].effort = input.effort /\ sdk'[current].model = input.model
    BY <1>1, <1>3, SetModelMoves, SetModelHits
  <2> QED
    BY <1>1, <1>3, <2>1
       DEF SdkTypes, SettingTypeOK, TargetsExist, EffortsValid, RestoreIsDue, ReplacementNoted,
           Asked, StepRunsAsAsked, EffortIsDefault, Overriding, Overridden, Steps
<1>4. CASE input.model # Unset /\ SetModelFails(input.model, input.effort) /\ Return
  <2>1. /\ SdkTypes'
        /\ target # current => /\ sdk'[current] = sdk[current]
                               /\ current \in failed \cup inherited
                                     => current \in failed' \cup inherited'
        /\ current \in inherited <=> current \in inherited'
        /\ target = current => current \in failed'
    BY <1>1, <1>4, SetModelMoves DEF SetModelFails
  <2> QED
    BY <1>1, <1>4, <2>1
       DEF Return, SdkTypes, SettingTypeOK, TargetsExist, EffortsValid, RestoreIsDue,
           ReplacementNoted, Asked, StepRunsAsAsked, EffortIsDefault, Overriding, Overridden, Steps
<1> QED
  BY <1>2, <1>3, <1>4 DEF ApplyModel

LEMMA EndTurnInv == SettingInv /\ EndTurn => SettingInv'
BY DEF EndTurn, Return, SettingInv, SettingTypeOK, TargetsExist, EffortsValid, RestoreIsDue,
       ReplacementNoted, Asked, StepRunsAsAsked, EffortIsDefault, Overriding, Overridden, Steps,
       cliVars, Sdks

LEMMA RestoreInv ==
    ASSUME SettingInv, Restore
    PROVE  SettingInv'
<1> USE DEF SettingInv
<1>1. /\ pc = "restore" /\ pc' = "idle" /\ target \in Sdks /\ current \in Sdks
      /\ defaults.effort \in Efforts \cup {Unset} /\ defaults.model \in Models \cup {Unset}
      /\ input.effort # Unset
      /\ UNCHANGED <<config, defaults, input, restores, current, target>>
  BY RequestParts DEF Restore, TargetsExist, EffortsValid, RestoreIsDue, Steps, SettingTypeOK
<1>2. SdkTypes'
  BY <1>1, SetModelMoves DEF Restore
<1>3. \/ sdk'[current].effort = defaults.effort
      \/ current \in failed' \cup inherited'
  <2>1. CASE SetModelSucceeds(defaults.model, defaults.effort)
    BY <1>1, <2>1, SetModelHits
  <2>2. CASE SetModelFails(defaults.model, defaults.effort)
    BY <1>1, <2>2 DEF SetModelFails, ReplacementNoted, Overriding
  <2> QED
    BY <2>1, <2>2 DEF Restore
<1> QED
  BY <1>1, <1>2, <1>3
     DEF SdkTypes, SettingTypeOK, TargetsExist, EffortsValid, RestoreIsDue, ReplacementNoted,
         Asked, StepRunsAsAsked, EffortIsDefault, Overriding, Overridden, Steps

LEMMA ReopenInv ==
    ASSUME SettingInv, Reopen
    PROVE  SettingInv'
<1> USE DEF SettingInv
<1>1. /\ current \in Sdks /\ current + 1 \in Sdks /\ current' = current + 1
      /\ UNCHANGED <<pc, config, defaults, input, restores, target>>
  BY SettingsAssumption DEF Reopen, Adopt, Sdks
<1>2. /\ config.model \in Models \cup {Unset}
      /\ sdk[current].effort \in Efforts \cup {Unset}
  BY <1>1, RequestParts DEF SettingTypeOK
<1>3. /\ SdkTypes' /\ failed' = failed
      /\ sdk'[current'].effort \in {Unset, sdk[current].effort}
      /\ Overriding \/ current \in failed \cup inherited => current' \in inherited'
      /\ target # current'
  BY <1>1, <1>2, SettingsAssumption DEF Reopen, Adopt, SettingTypeOK, SdkTypes, Sdks
<1>4. SettingTypeOK'
  BY <1>1, <1>3, SettingsAssumption DEF SettingTypeOK, SdkTypes, Sdks
<1>5. EffortIsDefault'
  BY <1>1, <1>3 DEF EffortIsDefault, Overridden, Overriding, Steps
<1>6. ReplacementNoted'
  BY <1>1, <1>3 DEF ReplacementNoted, Overriding
<1>7. TargetsExist' /\ EffortsValid' /\ RestoreIsDue'
  BY <1>1 DEF TargetsExist, EffortsValid, RestoreIsDue, Sdks
<1>8. Asked'
  BY <1>1, <1>3 DEF Asked, StepRunsAsAsked
<1> QED
  BY <1>4, <1>5, <1>6, <1>7, <1>8

LEMMA NextInv == SettingInv /\ [SettingNext]_settingVars => SettingInv'
<1> SUFFICES ASSUME SettingInv, [SettingNext]_settingVars PROVE SettingInv'
  OBVIOUS
<1>1. CASE UNCHANGED settingVars
  BY <1>1
     DEF settingVars, cliVars, SettingInv, SettingTypeOK, TargetsExist, EffortsValid, RestoreIsDue,
         ReplacementNoted, Asked, StepRunsAsAsked, EffortIsDefault, Overriding, Overridden, Steps
<1> QED
  BY <1>1, OpenInv, BeginInv, ReadSessionInv, ApplyOpenInv, ApplyEffortInv, ApplyModelInv,
     EndTurnInv, RestoreInv, ReopenInv
     DEF SettingNext

-----------------------------------------------------------------------------
(* The theorems. *)

(* The strengthening under which the properties are inductive: who has     *)
(* read which SDK session, and which of them may carry a step's effort.    *)
THEOREM SettingInvariant == SettingSpec => []SettingInv
<1> QED
  BY InitInv, NextInv, PTL DEF SettingSpec

(* No SDK session ever runs with an effort outside the documented set, for *)
(* any sets of efforts and of strings that are none: validateReasoningEffort*)
(* stands before every call of SetModel.                                   *)
THEOREM SettingTypeCorrect == SettingSpec => []SettingTypeOK
<1>1. SettingInv => SettingTypeOK
  BY DEF SettingInv
<1> QED
  BY <1>1, SettingInvariant, PTL

(* The prompt of a step runs with the model and effort the step asked for, *)
(* unless the SDK session it was set on has been replaced since            *)
(* (applyRequestEffort, applyRequestModel).                                *)
THEOREM StepsRunAsAsked == SettingSpec => []StepRunsAsAsked
<1>1. SettingInv => StepRunsAsAsked
  BY DEF SettingInv, Asked
<1> QED
  BY <1>1, SettingInvariant, PTL

(* No step runs with the effort another one asked for, however often the   *)
(* sweep re-opens the session in between.                                  *)
THEOREM OverridesStay == SettingSpec => []OverrideDoesNotLeak
<1>1. SettingInv => OverrideDoesNotLeak
  BY DEF SettingInv, EffortIsDefault, OverrideDoesNotLeak, Overridden
<1> QED
  BY <1>1, SettingInvariant, PTL

-----------------------------------------------------------------------------
(* When the default effort does return. *)

(* A new SDK session takes over no effort, and none replaces one that had  *)
(* a default; a step that names a model names an effort too, or there is   *)
(* no default to lose.                                                     *)
EffortUndisturbed ==
    /\ current' # current => current' \notin inherited' /\ (pc = "closed" \/ defaults.effort = Unset)
    /\ pc = "idle" /\ pc' = "effort" /\ input'.model # Unset
          => input'.effort # Unset \/ defaults.effort = Unset

(* Outside an override the effort is the default, not merely "or none".    *)
DefaultInForce ==
    \/ pc \in {"idle", "effort"}
    \/ pc \in {"model", "turn"} /\ input.effort = Unset

DefaultInv ==
    /\ pc \in {"published", "opening"} => sdk[current].effort = Unset
    /\ DefaultInForce => current \in failed \/ sdk[current].effort = defaults.effort
    /\ pc \in {"effort", "model"} /\ input.effort = Unset /\ input.model # Unset
          => defaults.effort = Unset
    /\ Overriding => target = current

(* A new SDK session, from an open or a re-open. *)
LEMMA AdoptKeepsDefault ==
    ASSUME SettingInv, SettingInv', DefaultInv, EffortUndisturbed,
           Reopen \/ \E request \in Requests : Open(request)
    PROVE  DefaultInv'
<1> USE DEF SettingInv
<1>1. CASE Reopen
  <2>1. PICK effort \in {Unset, sdk[current].effort} :
             Adopt(config.model, effort, Overriding \/ current \in failed \cup inherited)
    BY <1>1 DEF Reopen
  <2>2. /\ current' = current + 1 /\ current \in Sdks /\ current + 1 \in Sdks
        /\ UNCHANGED <<pc, config, defaults, input, restores, target>>
    BY <1>1, <2>1, SettingsAssumption DEF Reopen, Adopt, Sdks
  <2>3. ~Overriding /\ current \notin failed /\ (pc = "closed" \/ defaults.effort = Unset)
    BY <2>1, <2>2, SettingsAssumption DEF EffortUndisturbed, Adopt, Sdks
  <2>4. sdk'[current'].effort \in {Unset, sdk[current].effort}
    BY <2>1, <2>2 DEF Adopt, SettingTypeOK
  <2> QED
    BY <2>2, <2>3, <2>4 DEF DefaultInv, DefaultInForce, Overriding
<1>2. ASSUME NEW request \in Requests, Open(request)
      PROVE  DefaultInv'
  <2>1. PICK effort \in Efforts \cup {Unset} : Adopt(request.model, effort, effort # Unset)
    BY <1>2 DEF Open
  <2>2. current' = current + 1 /\ current + 1 \in Sdks /\ current \in Nat /\ pc' = "published"
    BY <1>2, <2>1, SettingsAssumption DEF Open, Adopt, Sdks, SettingTypeOK
  <2>3. effort = Unset
    BY <2>1, <2>2 DEF EffortUndisturbed, Adopt
  <2>4. sdk'[current'].effort = Unset
    BY <2>1, <2>2, <2>3 DEF Adopt, SettingTypeOK
  <2> QED
    BY <2>2, <2>4 DEF DefaultInv, DefaultInForce, Overriding
<1> QED
  BY <1>1, <1>2

LEMMA OpenKeepsDefault ==
    ASSUME SettingInv, DefaultInv, ReadSession \/ ApplyOpen
    PROVE  DefaultInv'
<1> USE DEF SettingInv
<1>1. CASE ReadSession
  BY <1>1 DEF ReadSession, DefaultInv, DefaultInForce, Overriding, cliVars
<1>2. CASE ApplyOpen
  <2>1. pc = "opening" /\ target \in Sdks /\ UNCHANGED current /\ sdk[current].effort = Unset
    BY <1>2 DEF ApplyOpen, TargetsExist, DefaultInv
  <2>2. CASE pc' = "closed"
    BY <2>2 DEF DefaultInv, DefaultInForce, Overriding
  <2>3. CASE pc' = "idle" /\ config = Nothing /\ UNCHANGED cliVars /\ defaults' = config
    BY <2>1, <2>3, RequestParts DEF DefaultInv, DefaultInForce, Overriding, cliVars
  <2>4. CASE /\ pc' = "idle" /\ SetModelSucceeds(config.model, config.effort)
             /\ config.effort \in Efforts \cup {Unset} /\ defaults' = config
    <3>1. sdk'[current].effort = config.effort
      BY <2>1, <2>4, SetModelHits, RequestParts DEF SettingTypeOK
    <3> QED
      BY <2>1, <2>4, <3>1 DEF DefaultInv, DefaultInForce, Overriding
  <2> QED
    BY <1>2, <2>2, <2>3, <2>4 DEF ApplyOpen, validateReasoningEffort
<1> QED
  BY <1>1, <1>2

LEMMA BeginKeepsDefault ==
    ASSUME SettingInv, DefaultInv, EffortUndisturbed, NEW request \in Requests, Begin(request)
    PROVE  DefaultInv'
BY DEF Begin, DefaultInv, DefaultInForce, EffortUndisturbed, Overriding, cliVars

LEMMA ApplyKeepsDefault ==
    ASSUME SettingInv, DefaultInv, ApplyEffort \/ ApplyModel
    PROVE  DefaultInv'
<1> USE DEF SettingInv
<1>1. /\ pc \in {"effort", "model"} /\ target \in Sdks /\ current \in Sdks
      /\ UNCHANGED <<config, defaults, input, current, target>>
      /\ input.model \in Models \cup {Unset}
  BY RequestParts DEF ApplyEffort, ApplyModel, TargetsExist, Steps, SettingTypeOK
<1>2. CASE UNCHANGED cliVars /\ pc' \in {"idle", "model", "turn"}
           /\ (pc = "model" => pc' = "turn")
  BY <1>1, <1>2 DEF DefaultInv, DefaultInForce, Overriding, cliVars
<1>3. CASE pc = "effort" /\ input.effort # Unset
  <2>1. target = current
    BY <1>3 DEF DefaultInv, Overriding
  <2>2. CASE pc' = "model"
    BY <1>1, <1>3, <2>1, <2>2 DEF DefaultInv, DefaultInForce, Overriding
  <2>3. CASE SetModelFails(Unset, input.effort)
    <3>1. current \in failed'
      BY <2>1, <2>3 DEF SetModelFails
    <3>2. pc' \in {"idle", "model"}
      BY <1>1, <1>3 DEF ApplyEffort, ApplyModel
    <3> QED
      BY <1>1, <1>3, <2>1, <3>1, <3>2 DEF DefaultInv, DefaultInForce, Overriding
  <2> QED
    BY <1>2, <1>3, <2>2, <2>3 DEF ApplyEffort, ApplyModel
<1>4. CASE pc = "model" /\ input.model # Unset
  <2>0. input.effort \in Efforts \cup {Unset}
    BY <1>4 DEF EffortsValid
  <2>1. CASE SetModelSucceeds(input.model, input.effort) /\ pc' = "turn"
    <3>1. target = current /\ sdk'[current].effort = input.effort
      BY <1>1, <2>0, <2>1, SetModelHits
    <3> QED
      BY <1>1, <1>4, <2>1, <3>1 DEF DefaultInv, DefaultInForce, Overriding
  <2>2. CASE SetModelFails(input.model, input.effort) /\ Return
    <3>1. \/ target = current /\ current \in failed'
          \/ /\ target # current /\ sdk'[current] = sdk[current]
             /\ current \in failed => current \in failed'
      BY <2>2 DEF SetModelFails
    <3>2. pc' = IF input.effort # Unset THEN "restore" ELSE "idle"
      BY <1>4, <2>2 DEF Return, RestoreIsDue
    <3> QED
      BY <1>1, <1>4, <3>1, <3>2 DEF DefaultInv, DefaultInForce, Overriding
  <2> QED
    BY <1>4, <2>1, <2>2 DEF ApplyEffort, ApplyModel
<1> QED
  BY <1>1, <1>2, <1>3, <1>4 DEF ApplyEffort, ApplyModel

LEMMA EndKeepsDefault ==
    ASSUME SettingInv, DefaultInv, EndTurn \/ Restore
    PROVE  DefaultInv'
<1> USE DEF SettingInv
<1>1. CASE EndTurn
  BY <1>1 DEF EndTurn, Return, RestoreIsDue, DefaultInv, DefaultInForce, Overriding, cliVars
<1>2. CASE Restore
  <2>1. /\ pc' = "idle" /\ target = current /\ current \in Sdks
        /\ UNCHANGED <<defaults, current>>
        /\ defaults.effort \in Efforts \cup {Unset}
        /\ defaults.model \in Models \cup {Unset}
    BY <1>2, RequestParts
       DEF Restore, RestoreIsDue, DefaultInv, Overriding, TargetsExist, Steps, EffortsValid,
           SettingTypeOK
  <2>2. sdk'[current].effort = defaults.effort \/ current \in failed'
    BY <1>2, <2>1, SetModelHits DEF Restore, SetModelFails
  <2> QED
    BY <2>1, <2>2 DEF DefaultInv, DefaultInForce, Overriding
<1> QED
  BY <1>1, <1>2

(* Between steps a session runs with its default effort unless the call    *)
(* that would have set it failed, but for the three ways the code has to   *)
(* lose it: a re-open of a session with a default, a step that names a     *)
(* model and no effort, and an SDK session resumed with another effort     *)
(* (copilot_session.go:483, copilot_model.go:15).                          *)
THEOREM DefaultReturnsUndisturbed ==
    SettingSpec /\ [][EffortUndisturbed]_settingVars => []DefaultReturns
<1>1. SettingInit => DefaultInv
  BY DEF SettingInit, DefaultInv, DefaultInForce, Overriding
<1>2. /\ SettingInv /\ SettingInv' /\ DefaultInv
      /\ [SettingNext]_settingVars /\ [EffortUndisturbed]_settingVars
      => DefaultInv'
  <2> SUFFICES ASSUME SettingInv, SettingInv', DefaultInv,
                      [SettingNext]_settingVars, [EffortUndisturbed]_settingVars
               PROVE  DefaultInv'
    OBVIOUS
  <2>1. CASE UNCHANGED settingVars
    BY <2>1 DEF settingVars, cliVars, DefaultInv, DefaultInForce, Overriding
  <2>2. CASE SettingNext /\ EffortUndisturbed
    BY <2>2, AdoptKeepsDefault, OpenKeepsDefault, BeginKeepsDefault, ApplyKeepsDefault,
       EndKeepsDefault
       DEF SettingNext
  <2> QED
    BY <2>1, <2>2
<1>3. DefaultInv => DefaultReturns
  BY DEF DefaultInv, DefaultInForce, DefaultReturns
<1> QED
  BY <1>1, <1>2, <1>3, SettingInvariant, PTL DEF SettingSpec

=============================================================================

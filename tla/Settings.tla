------------------------------ MODULE Settings ------------------------------
(***************************************************************************)
(* The model and reasoning effort a session runs with (copilot_model.go,   *)
(* applyOpenSessionModel in copilot_session.go, and Execute's overrides).  *)
(*                                                                         *)
(* The CLI keeps them for each SDK session; the adapter sets them when the *)
(* session is opened, before a step that overrides them, and after it.     *)
(* Meanwhile a recovery may move the adapter session to another SDK        *)
(* session (SessionBinding), and each call may fail.                       *)
(***************************************************************************)
EXTENDS Naturals

CONSTANTS
    Models, Efforts,   \* names of models, and validReasoningEfforts
    OtherEfforts,      \* strings that are not valid efforts
    MaxSdkSessions     \* bound on the SDK sessions of the adapter session

Unset == ""

ASSUME SettingsAssumption ==
    /\ Unset \notin Models \cup Efforts \cup OtherEfforts
    /\ Efforts \cap OtherEfforts = {}
    /\ MaxSdkSessions \in Nat \ {0}

Requests == [model : Models \cup {Unset}, effort : Efforts \cup OtherEfforts \cup {Unset}]
Nothing == [model |-> Unset, effort |-> Unset]

VARIABLES
    pc,        \* how far OpenSession or the Execute is
    config,    \* what OpenSession was asked for
    defaults,  \* sessionState.defaultModel and defaultEffort
    input,     \* what the step asks for
    restores,  \* a restore of the effort is deferred
    current,   \* the SDK session of sessionState.session; 0: none yet
    target,    \* the one Execute, or the call under way, has read
    sdk,       \* what each SDK session runs with
    failed,    \* the SDK sessions on which a SetModel call failed
    inherited  \* those that may have kept the effort of a step: re-opened
               \* within one, or left over from an earlier process

cliVars == <<sdk, failed, inherited>>
settingVars == <<pc, config, defaults, input, restores, current, target, cliVars>>

Sdks == 1..MaxSdkSessions

SettingInit ==
    /\ pc = "closed"
    /\ config = Nothing /\ defaults = Nothing /\ input = Nothing
    /\ restores = FALSE
    /\ current = 0 /\ target = 0
    /\ sdk = [n \in Sdks |-> Nothing]
    /\ failed = {} /\ inherited = {}

-----------------------------------------------------------------------------
(* SetModel on the SDK session that was read. *)

(* Mutant: any effort passes. *)
AnyEffort(effort) == TRUE

validateReasoningEffort(effort) == effort \in Efforts

(* No model keeps the model, no effort clears the effort.                  *)
Applied(model, effort) ==
    [model |-> IF model = Unset THEN sdk[target].model ELSE model, effort |-> effort]

(* It succeeds only on a session whose CLI still runs.                     *)
SetModelSucceeds(model, effort) ==
    /\ target = current
    /\ sdk' = [sdk EXCEPT ![target] = Applied(model, effort)]
    /\ failed' = failed \ {target} /\ inherited' = inherited \ {target}

(* A call that fails may have been carried out.                            *)
SetModelFails(model, effort) ==
    /\ failed' = failed \cup {target}
    /\ \/ UNCHANGED sdk
       \/ target = current /\ sdk' = [sdk EXCEPT ![target] = Applied(model, effort)]
    /\ UNCHANGED inherited

-----------------------------------------------------------------------------
(* OpenSession. *)

(* The SDK session has the model of the config.  Its effort, which the     *)
(* config passed to create and resume does not name, is none if it was     *)
(* created; of one that was resumed, the CLI may have kept it.             *)
Adopt(model, effort, doubt) ==
    /\ current' = current + 1
    /\ sdk' = [sdk EXCEPT ![current + 1] = [model |-> model, effort |-> effort]]
    /\ inherited' = IF doubt THEN inherited \cup {current + 1} ELSE inherited
    /\ UNCHANGED failed

(* Up to the publication of the session.                                   *)
Open(request) ==
    /\ pc = "closed" /\ current < MaxSdkSessions
    /\ pc' = "published"
    /\ config' = request /\ defaults' = Nothing
    /\ \E effort \in Efforts \cup {Unset} : Adopt(request.model, effort, effort # Unset)
    /\ UNCHANGED <<input, restores, target>>

ReadSession ==
    /\ pc = "published"
    /\ pc' = "opening" /\ target' = current
    /\ UNCHANGED <<config, defaults, input, restores, current, cliVars>>

(* applyOpenSessionModel.  When it fails the host is told, and the session *)
(* stays published.                                                        *)
ApplyOpen ==
    /\ pc = "opening"
    /\ \/ /\ config.effort # Unset /\ ~validateReasoningEffort(config.effort)
          /\ pc' = "closed"
          /\ UNCHANGED <<defaults, cliVars>>
       \/ /\ config.effort = Unset \/ validateReasoningEffort(config.effort)
          /\ \/ /\ \/ config = Nothing /\ UNCHANGED cliVars
                   \/ config # Nothing /\ SetModelSucceeds(config.model, config.effort)
                /\ defaults' = config
                /\ pc' = "idle"
             \/ /\ config # Nothing
                /\ SetModelFails(config.model, config.effort)
                /\ pc' = "closed"
                /\ UNCHANGED defaults
    /\ UNCHANGED <<config, input, restores, current, target>>

-----------------------------------------------------------------------------
(* Execute. *)

(* It reads the SDK session once.                                          *)
Begin(request) ==
    /\ pc = "idle"
    /\ pc' = "effort"
    /\ input' = request /\ restores' = FALSE
    /\ target' = current
    /\ UNCHANGED <<config, defaults, current, cliVars>>

(* Mutant: with a model the restore is left out with the call. *)
ApplyEffortOrModel ==
    /\ pc = "effort"
    /\ IF input.effort = Unset \/ input.model # Unset
       THEN pc' = "model" /\ UNCHANGED <<cliVars, restores>>
       ELSE IF ~validateReasoningEffort(input.effort)
       THEN pc' = "idle" /\ UNCHANGED <<cliVars, restores>>
       ELSE \/ SetModelSucceeds(Unset, input.effort) /\ restores' = TRUE /\ pc' = "model"
            \/ SetModelFails(Unset, input.effort) /\ pc' = "idle" /\ UNCHANGED restores
    /\ UNCHANGED <<config, defaults, input, current, target>>

(* applyRequestEffort.  With a model the call is left to applyRequestModel.*)
ApplyEffort ==
    /\ pc = "effort"
    /\ \/ /\ input.effort = Unset
          /\ pc' = "model" /\ UNCHANGED <<cliVars, restores>>
       \/ /\ input.effort # Unset /\ ~validateReasoningEffort(input.effort)
          /\ pc' = "idle" /\ UNCHANGED <<cliVars, restores>>
       \/ /\ input.effort # Unset /\ validateReasoningEffort(input.effort)
          /\ \/ /\ \/ input.model # Unset /\ UNCHANGED cliVars
                   \/ input.model = Unset /\ SetModelSucceeds(Unset, input.effort)
                /\ pc' = "model" /\ restores' = TRUE
             \/ /\ input.model = Unset /\ SetModelFails(Unset, input.effort)
                /\ pc' = "idle" /\ UNCHANGED restores
    /\ UNCHANGED <<config, defaults, input, current, target>>

(* The deferred restore is due, if there is one. *)
Return == pc' = IF restores THEN "restore" ELSE "idle"

(* Mutant: the effort is forgotten in the combined call. *)
ApplyBareModel ==
    /\ pc = "model"
    /\ \/ input.model = Unset /\ pc' = "turn" /\ UNCHANGED cliVars
       \/ input.model # Unset /\ SetModelSucceeds(input.model, Unset) /\ pc' = "turn"
       \/ input.model # Unset /\ SetModelFails(input.model, Unset) /\ Return
    /\ UNCHANGED <<config, defaults, input, restores, current, target>>

(* applyRequestModel. *)
ApplyModel ==
    /\ pc = "model"
    /\ \/ input.model = Unset /\ pc' = "turn" /\ UNCHANGED cliVars
       \/ input.model # Unset /\ SetModelSucceeds(input.model, input.effort) /\ pc' = "turn"
       \/ input.model # Unset /\ SetModelFails(input.model, input.effort) /\ Return
    /\ UNCHANGED <<config, defaults, input, restores, current, target>>

(* executeTurn returns; its sends went to whatever was current.            *)
EndTurn ==
    /\ pc = "turn"
    /\ Return
    /\ UNCHANGED <<config, defaults, input, restores, current, target, cliVars>>

(* The restore function, on the SDK session that was read; its failure is  *)
(* only logged.                                                            *)
Restore ==
    /\ pc = "restore"
    /\ \/ SetModelSucceeds(defaults.model, defaults.effort)
       \/ SetModelFails(defaults.model, defaults.effort)
    /\ pc' = "idle"
    /\ UNCHANGED <<config, defaults, input, restores, current, target>>

-----------------------------------------------------------------------------
(* reopenSession after a restart of the CLI, at any time. *)

Overriding == input.effort # Unset /\ pc \in {"effort", "model", "turn", "restore"}

Reopen ==
    /\ current \in 1..(MaxSdkSessions - 1)
    /\ \E effort \in {Unset, sdk[current].effort} :
           Adopt(config.model, effort, Overriding \/ current \in failed \cup inherited)
    /\ UNCHANGED <<pc, config, defaults, input, restores, target>>

SettingNext ==
    \/ \E request \in Requests : Open(request) \/ Begin(request)
    \/ ReadSession \/ ApplyOpen \/ ApplyEffort \/ ApplyModel \/ EndTurn \/ Restore
    \/ Reopen

SettingSpec == SettingInit /\ [][SettingNext]_settingVars

-----------------------------------------------------------------------------
(* Properties. *)

(* Type invariant: no SDK session runs with an effort outside the          *)
(* documented set, nor are the defaults ever anything but the config.      *)
SettingTypeOK ==
    /\ pc \in {"closed", "published", "opening", "idle", "effort", "model", "turn", "restore"}
    /\ config \in Requests /\ input \in Requests
    /\ defaults \in {Nothing, config}
    /\ restores \in BOOLEAN
    /\ current \in 0..MaxSdkSessions /\ target \in 0..current
    /\ sdk \in [Sdks -> [model : Models \cup {Unset}, effort : Efforts \cup {Unset}]]
    /\ failed \subseteq Sdks /\ inherited \subseteq Sdks

(* "A step input wins for that step only" (README.md:105): the step's      *)
(* prompt runs with the effort and the model it asked for, unless its SDK  *)
(* session was replaced after Execute had read it.                         *)
StepRunsAsAsked ==
    pc = "turn" /\ current = target
        => /\ input.effort # Unset => sdk[current].effort = input.effort
           /\ input.model # Unset => sdk[current].model = input.model

(* The other half: no step runs with the effort another one asked for.     *)
(* Outside an overriding step the effort is the default or, after a        *)
(* re-open or a model override, none; except where the last call failed,   *)
(* or none was made since the SDK session took the place of one whose      *)
(* effort a step had set.                                                  *)
OverrideDoesNotLeak ==
    pc = "idle" \/ (pc = "turn" /\ input.effort = Unset)
        => \/ sdk[current].effort \in {defaults.effort, Unset}
           \/ current \in failed \cup inherited

(* "reasoning_effort then resets to the session default" (README.md:106):  *)
(* between steps the session has its default effort, unless the call that  *)
(* would have set it failed.                                               *)
DefaultReturns ==
    pc = "idle" /\ current \notin failed => sdk[current].effort = defaults.effort

=============================================================================

--------------------------- MODULE TriggerDriver ---------------------------
(***************************************************************************)
(* The trigger input, main/UserInterface/triggerDriver.c: a task samples   *)
(* the pin every 20 ms and debounces it with two saturating counters.      *)
(*                                                                         *)
(* One iteration of the task is one step: its variables are its own once   *)
(* TRIGGER_InitDriver has created it.  The file is not in the build's list *)
(* of sources and spells a counter "trigger_release" on line 109; the      *)
(* model takes this for trigger_release_cptr.                              *)
(***************************************************************************)
EXTENDS Naturals

CONSTANTS
    Debounce,   \* TRIGGER_DEBOUNCE_FACTOR
    Saturated   \* 0xFFFFFFFF, where the counters stop

ASSUME TriggerAssumption ==
    /\ Debounce \in Nat \ {0}
    /\ Saturated \in Nat
    /\ Debounce < Saturated

VARIABLES
    level,                  \* the pin
    active_level,           \* of trigger_config
    state_change_callback,  \* whether there is one
    current_state, trigger_press_cptr, trigger_release_cptr,
    task,                   \* whether the task was created
    told                    \* the state the user of the driver knows

tvars == <<level, active_level, state_change_callback, current_state,
           trigger_press_cptr, trigger_release_cptr, task, told>>

TriggerTypeOK ==
    /\ level \in 0..1
    /\ active_level \in {"LOW", "HIGH"}
    /\ state_change_callback \in BOOLEAN
    /\ current_state \in {"RELEASE", "PRESS", "INVALID"}
    /\ trigger_press_cptr \in 0..Saturated
    /\ trigger_release_cptr \in 0..Saturated
    /\ task \in BOOLEAN
    /\ told \in {"RELEASE", "PRESS", "INVALID"}

TriggerInit ==
    /\ level \in 0..1
    /\ active_level = "LOW"
    /\ state_change_callback = FALSE
    /\ current_state = "INVALID"
    /\ trigger_press_cptr = 0
    /\ trigger_release_cptr = 0
    /\ task = FALSE
    /\ told = "INVALID"

(* TRIGGER_InitDriver(pConfig, callback), until it has created the task;   *)
(* a failed gpio_config changes nothing, a failed xTaskCreate leaves the   *)
(* configuration and the state set.                                        *)
TRIGGER_InitDriver(active, callback, created) ==
    /\ ~task
    /\ active_level' = active
    /\ state_change_callback' = callback
    /\ current_state' = "RELEASE"
    /\ told' = "RELEASE"
    /\ task' = created
    /\ UNCHANGED <<level, trigger_press_cptr, trigger_release_cptr>>

InputChange == /\ level' = 1 - level
               /\ UNCHANGED <<active_level, state_change_callback, current_state,
                              trigger_press_cptr, trigger_release_cptr, task, told>>

-----------------------------------------------------------------------------
(* tTriggerTask *)

NewState == IF \/ level = 1 /\ active_level = "HIGH"
               \/ level = 0 /\ active_level = "LOW"
            THEN "PRESS" ELSE "RELEASE"

(* Mutant of Increment: the counters do not saturate. *)
IncrementAlways(cptr) == cptr + 1

Increment(cptr) == IF cptr < Saturated THEN cptr + 1 ELSE cptr

(* Mutant of Debounced: one sample more. *)
DebouncedLate(cptr) == cptr > Debounce /\ cptr # Saturated

Debounced(cptr) == cptr >= Debounce /\ cptr # Saturated

(* Mutant of Sampled: the other counter is not reset. *)
SampledNoReset(cptr, other) ==
    LET new == Increment(cptr)
        change == Debounced(new) /\ current_state # NewState
    IN  /\ cptr' = IF change THEN Saturated ELSE new
        /\ other' = other
        /\ current_state' = IF change THEN NewState ELSE current_state
        /\ told' = IF change /\ state_change_callback THEN NewState ELSE told

(* Mutant of Sampled: the callback gets the state before the change. *)
SampledTellsOld(cptr, other) ==
    LET new == Increment(cptr)
        change == Debounced(new) /\ current_state # NewState
    IN  /\ cptr' = IF change THEN Saturated ELSE new
        /\ other' = 0
        /\ current_state' = IF change THEN NewState ELSE current_state
        /\ told' = IF change /\ state_change_callback THEN current_state ELSE told

(* A sample counted by cptr; other is the counter of the other state.      *)
Sampled(cptr, other) ==
    LET new == Increment(cptr)
        change == Debounced(new) /\ current_state # NewState
    IN  /\ cptr' = IF change THEN Saturated ELSE new
        /\ other' = 0
        /\ current_state' = IF change THEN NewState ELSE current_state
        /\ told' = IF change /\ state_change_callback THEN NewState ELSE told

TriggerTask ==
    /\ task
    /\ \/ /\ NewState = "PRESS"
          /\ Sampled(trigger_press_cptr, trigger_release_cptr)
       \/ /\ NewState = "RELEASE"
          /\ Sampled(trigger_release_cptr, trigger_press_cptr)
    /\ UNCHANGED <<level, active_level, state_change_callback, task>>

TriggerNext ==
    \/ \E active \in {"LOW", "HIGH"}, callback, created \in BOOLEAN :
          TRIGGER_InitDriver(active, callback, created)
    \/ InputChange
    \/ TriggerTask

TriggerSpec == TriggerInit /\ [][TriggerNext]_tvars

(* vTaskDelay returns: the task keeps sampling. *)
FairTriggerSpec == TriggerSpec /\ WF_tvars(TriggerTask)

-----------------------------------------------------------------------------
(* The counters agree with the state: a run of Debounce samples is only on *)
(* record for the state the driver is in, so a counter that saturates,     *)
(* whose value the test on line 98 (113) excludes, never hides a change;   *)
(* and one of the two counters is always 0.                                *)
CountersAgree ==
    /\ trigger_press_cptr = 0 \/ trigger_release_cptr = 0
    /\ trigger_press_cptr >= Debounce => current_state = "PRESS"
    /\ trigger_release_cptr >= Debounce => current_state = "RELEASE"
    /\ ~task => trigger_press_cptr = 0 /\ trigger_release_cptr = 0
    /\ task => current_state # "INVALID"

(* With a callback, the user of the driver always knows the state. *)
UserKnowsState == state_change_callback => told = current_state

(* The driver implements the debouncer: the counter that is not 0 is the   *)
(* run of equal samples, whatever the saturation does to its value.        *)
Run(a, b) == LET n == a + b IN IF n < Debounce THEN n ELSE Debounce

Abstract == INSTANCE Debouncer WITH
    state  <- current_state,
    last   <- IF trigger_press_cptr > 0 THEN "PRESS" ELSE "RELEASE",
    streak <- Run(trigger_press_cptr, trigger_release_cptr)

ImplementsDebouncer == Abstract!DSpec

(* A trigger that is held long enough is seen, also after any number of    *)
(* earlier presses.                                                        *)
FollowsInput ==
    \A s \in {"PRESS", "RELEASE"} :
        <>[](task /\ NewState = s) => <>[](current_state = s)

=============================================================================

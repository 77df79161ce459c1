------------------------ MODULE TriggerDriverProofs ------------------------
(***************************************************************************)
(* The debouncing of the trigger for every debounce factor and every       *)
(* saturation value above it, 2^32 - 1 included.                           *)
(***************************************************************************)
EXTENDS TriggerDriver, TLAPS

TriggerInv == TriggerTypeOK /\ CountersAgree /\ UserKnowsState

(* A sample of either state keeps the invariant. *)
LEMMA SampleInv ==
    ASSUME TriggerInv, TriggerTask
    PROVE  TriggerInv'
<1> USE TriggerAssumption DEF TriggerInv
<1>1. CASE NewState = "PRESS"
  <2>1. TriggerTypeOK'
    BY <1>1 DEF TriggerTask, Sampled, Increment, Debounced, TriggerTypeOK
  <2>2. CountersAgree'
    BY <1>1 DEF TriggerTask, Sampled, Increment, Debounced, TriggerTypeOK, CountersAgree
  <2>3. UserKnowsState'
    BY <1>1 DEF TriggerTask, Sampled, TriggerTypeOK, UserKnowsState
  <2> QED BY <2>1, <2>2, <2>3
<1>2. CASE NewState = "RELEASE"
  <2>1. TriggerTypeOK'
    BY <1>2 DEF TriggerTask, Sampled, Increment, Debounced, TriggerTypeOK
  <2>2. CountersAgree'
    BY <1>2 DEF TriggerTask, Sampled, Increment, Debounced, TriggerTypeOK, CountersAgree
  <2>3. UserKnowsState'
    BY <1>2 DEF TriggerTask, Sampled, TriggerTypeOK, UserKnowsState
  <2> QED BY <2>1, <2>2, <2>3
<1> QED BY <1>1, <1>2 DEF NewState

(* The counters never contradict the state and the user is never behind. *)
THEOREM TriggerInvariance == TriggerSpec => []TriggerInv
<1>1. TriggerInit => TriggerInv
  <2> SUFFICES ASSUME TriggerInit PROVE TriggerInv
    OBVIOUS
  <2>1. TriggerTypeOK
    <3>1. task \in BOOLEAN /\ state_change_callback \in BOOLEAN
      BY Zenon DEF TriggerInit
    <3> QED BY <3>1, TriggerAssumption DEF TriggerInit, TriggerTypeOK
  <2>2. CountersAgree
    BY TriggerAssumption DEF TriggerInit, CountersAgree
  <2>3. UserKnowsState
    BY DEF TriggerInit, UserKnowsState
  <2> QED BY <2>1, <2>2, <2>3 DEF TriggerInv
<1>2. TriggerInv /\ [TriggerNext]_tvars => TriggerInv'
  <2> SUFFICES ASSUME TriggerInv, [TriggerNext]_tvars
               PROVE  TriggerInv'
    OBVIOUS
  <2>1. ASSUME NEW active \in {"LOW", "HIGH"}, NEW callback \in BOOLEAN,
               NEW created \in BOOLEAN,
               TRIGGER_InitDriver(active, callback, created)
        PROVE  TriggerInv'
    <3>1. TriggerTypeOK'
      BY <2>1 DEF TRIGGER_InitDriver, TriggerInv, TriggerTypeOK
    <3>2. CountersAgree'
      BY <2>1, TriggerAssumption
      DEF TRIGGER_InitDriver, TriggerInv, TriggerTypeOK, CountersAgree
    <3>3. UserKnowsState'
      BY <2>1 DEF TRIGGER_InitDriver, UserKnowsState
    <3> QED BY <3>1, <3>2, <3>3 DEF TriggerInv
  <2>2. CASE InputChange
    BY <2>2 DEF InputChange, TriggerInv, TriggerTypeOK, CountersAgree, UserKnowsState
  <2>3. CASE TriggerTask
    BY <2>3, SampleInv
  <2>4. CASE UNCHANGED tvars
    BY <2>4 DEF tvars, TriggerInv, TriggerTypeOK, CountersAgree, UserKnowsState
  <2> QED BY <2>1, <2>2, <2>3, <2>4 DEF TriggerNext
<1> QED BY <1>1, <1>2, PTL DEF TriggerSpec

(* The counters stay within 0 .. 2^32 - 1 and the state is one of the      *)
(* driver's states, over any sequence of samples and initialisations.      *)
THEOREM TriggerTypeCorrect == TriggerSpec => []TriggerTypeOK
<1>1. TriggerInv => TriggerTypeOK
  BY DEF TriggerInv
<1> QED BY <1>1, TriggerInvariance, PTL

(* A saturated counter never hides a change of the trigger. *)
THEOREM CountersAlwaysAgree == TriggerSpec => []CountersAgree
<1>1. TriggerInv => CountersAgree
  BY DEF TriggerInv
<1> QED BY <1>1, TriggerInvariance, PTL

(* The user of the driver always knows the state. *)
THEOREM UserAlwaysKnows == TriggerSpec => []UserKnowsState
<1>1. TriggerInv => UserKnowsState
  BY DEF TriggerInv
<1> QED BY <1>1, TriggerInvariance, PTL

-----------------------------------------------------------------------------
(* The refinement, with the mapping of TriggerDriver!Abstract. *)

LastSample == IF trigger_press_cptr > 0 THEN "PRESS" ELSE "RELEASE"

Streak == Run(trigger_press_cptr, trigger_release_cptr)

(* One iteration of the task is one sample of the debouncer. *)
LEMMA SampleRefines ==
    ASSUME TriggerInv, TriggerTask
    PROVE  Abstract!Sample(NewState)
<1> USE TriggerAssumption DEF TriggerInv, TriggerTypeOK, CountersAgree
<1>0. NewState \in {"PRESS", "RELEASE"}
  BY DEF NewState
<1>1. current_state # "INVALID"
  BY DEF TriggerTask
<1>2. LastSample' = NewState
  BY <1>0 DEF TriggerTask, Sampled, Increment, Debounced, LastSample
<1>3. Streak' = IF NewState # LastSample THEN 1
                ELSE IF Streak < Debounce THEN Streak + 1 ELSE Streak
  <2>1. CASE NewState = "PRESS"
    BY <2>1 DEF TriggerTask, Sampled, Increment, Debounced, LastSample, Streak, Run
  <2>2. CASE NewState = "RELEASE"
    BY <2>2 DEF TriggerTask, Sampled, Increment, Debounced, LastSample, Streak, Run
  <2> QED BY <1>0, <2>1, <2>2
<1>4. current_state' = IF Streak' = Debounce THEN NewState ELSE current_state
  <2>1. CASE NewState = "PRESS"
    BY <2>1 DEF TriggerTask, Sampled, Increment, Debounced, Streak, Run
  <2>2. CASE NewState = "RELEASE"
    BY <2>2 DEF TriggerTask, Sampled, Increment, Debounced, Streak, Run
  <2> QED BY <1>0, <2>1, <2>2
<1> QED BY <1>1, <1>2, <1>3, <1>4 DEF Abstract!Sample, LastSample, Streak

(* The driver implements the debouncer. *)
THEOREM TriggerImplementsDebouncer == TriggerSpec => ImplementsDebouncer
<1>1. TriggerInit => Abstract!DInit
  BY TriggerAssumption DEF TriggerInit, Abstract!DInit, Run
<1>2. TriggerInv /\ [TriggerNext]_tvars => [Abstract!DNext]_(Abstract!dvars)
  <2> SUFFICES ASSUME TriggerInv, [TriggerNext]_tvars
               PROVE  [Abstract!DNext]_(Abstract!dvars)
    OBVIOUS
  <2>1. ASSUME NEW active \in {"LOW", "HIGH"}, NEW callback \in BOOLEAN,
               NEW created \in BOOLEAN,
               TRIGGER_InitDriver(active, callback, created)
        PROVE  Abstract!Start
    BY <2>1, TriggerAssumption
    DEF TRIGGER_InitDriver, TriggerInv, CountersAgree, Abstract!Start, Run
  <2>2. CASE InputChange
    BY <2>2 DEF InputChange, Abstract!dvars
  <2>3. CASE TriggerTask
    <3>1. Abstract!Sample(NewState)
      BY <2>3, SampleRefines
    <3>2. NewState \in Abstract!Value
      BY DEF NewState, Abstract!Value
    <3> QED BY <3>1, <3>2 DEF Abstract!DNext
  <2>4. CASE UNCHANGED tvars
    BY <2>4 DEF tvars, Abstract!dvars
  <2> QED BY <2>1, <2>2, <2>3, <2>4 DEF TriggerNext, Abstract!DNext
<1> QED BY <1>1, <1>2, TriggerInvariance, PTL
        DEF TriggerSpec, ImplementsDebouncer, Abstract!DSpec

=============================================================================

------------------------ MODULE AdcControllerProofs ------------------------
(***************************************************************************)
(* Proofs about AdcController, for any set of tasks, channels, continuous  *)
(* objects and calls, and whether allocations may fail or not.             *)
(*                                                                         *)
(* Safe is the inductive invariant, together with TypeOK.  MutexDiscipline *)
(* gives the exclusion between calls that hold the mutex; PhaseInvariant   *)
(* ties the drivers' state to the points between two steps of one call;    *)
(* the other two conjuncts are the properties themselves.                  *)
(***************************************************************************)
EXTENDS AdcController, TLAPS

Safe == /\ MutexDiscipline
        /\ OneShotHasUnit
        /\ ConverterExclusive
        /\ PhaseInvariant

Inv == TypeOK /\ Safe

(* What the steps' helpers say about the groups of variables. *)
USE DEF Goto, Leave, SetActive, SetMutex, SetCallback, SetFsm, Stop,
        ReadBegin, ReadEnd, NewUnit, DelUnit,
        ctrlVars, contVars, isrVars, sdkVars, callVars, LiveUnit

-----------------------------------------------------------------------------

(* The arguments of a call have the types the steps rely on. *)
LEMMA RequestFacts ==
    ASSUME NEW r \in Request \cup {NoRequest}
    PROVE  r.mask \subseteq Bit /\ r.n \in 0..MaxSample
BY ConstantsAssumption DEF RequestType, NoRequest, Single, Bit

(* Every function but ADC_StartTimeCriticalSampling has an entry point     *)
(* behind the mutex.                                                       *)
LEMMA RequestEntry ==
    ASSUME NEW r \in Request
    PROVE  r.op = "Critical" \/ r.op \in DOMAIN EntryPoint
BY ConstantsAssumption DEF RequestType, EntryPoint

(* The state after a reset of the program satisfies the invariant. *)
LEMMA InitInv == Init => Inv
<1> SUFFICES ASSUME Init PROVE Inv
    OBVIOUS
<1>1. pc \in [Task -> Locked \cup Unlocked]
    BY DEF Init, Unlocked
<1>2. left \in [Task -> 0..MaxSample]
    BY ConstantsAssumption DEF Init
<1>3. ret \in [Task -> Status] /\ fault \in Fault
    BY DEF Init, Status, Fault
<1>4. req \in [Task -> Request \cup {NoRequest}]
    BY DEF Init
<1>5. cont_fsm \in [Handle -> {"free", "init", "starting", "started", "freeing"}]
    BY DEF Init
<1>6. TypeOK
    BY <1>1, <1>2, <1>3, <1>4, <1>5 DEF Init, TypeOK
<1>7. Safe
    BY ConstantsAssumption
    DEF Init, Safe, MutexDiscipline, OneShotHasUnit,
        ConverterExclusive, PhaseInvariant, StartedObjects, Locked, Reading
<1> QED
    BY <1>6, <1>7 DEF Inv

-----------------------------------------------------------------------------

(* The types after a step that makes or deletes the one-shot unit, from    *)
(* those of the variables it may change.                                   *)
LEMMA UnitStepType ==
    ASSUME TypeOK,
           active_ctrl_channels' \in SUBSET Bit, oneshot_handle' \in {"NULL", "unit"},
           unit_claimed' \in BOOLEAN, pc' \in [Task -> Locked \cup Unlocked],
           ret' \in [Task -> Status], fault' \in Fault,
           UNCHANGED <<continuous_handle, active_continuous_callback, adc_mutex_handle,
                       initialised, contVars, adc1_lock, isrVars, req, left, lost>>
    PROVE  TypeOK'
<1>1. /\ continuous_handle' \in Handle \cup {NoHandle}
      /\ active_continuous_callback' \in Task \cup {NoTask}
      /\ adc_mutex_handle' \in Task \cup {NoTask}
    BY Zenon DEF TypeOK
<1>2. /\ initialised' \in BOOLEAN /\ adc1_lock' \in Task \cup {NoTask}
      /\ lost' \in SUBSET Task
    BY Zenon DEF TypeOK
<1>3. /\ cont_fsm' \in [Handle -> {"free", "init", "starting", "started", "freeing"}]
      /\ gdma_conn' \in Handle \cup {NoHandle} /\ pool_full' \in SUBSET Handle
      /\ isr' \in Handle \cup {NoHandle} /\ isr_at' \in {"idle", "frame", "call", "more"}
    BY Zenon DEF TypeOK
<1>4. /\ req' \in [Task -> Request \cup {NoRequest}] /\ left' \in [Task -> 0..MaxSample]
    BY Zenon DEF TypeOK
<1> QED BY <1>1, <1>2, <1>3, <1>4, Zenon DEF TypeOK

(* No step of a task that runs a function breaks the types: the channel    *)
(* masks stay masks, the loops never count below zero, and every call      *)
(* enters at a label of the program.                                       *)
LEMMA TaskStepType ==
    ASSUME Inv, NEW t \in Task,
           TakeMutex(t) \/ Inside(t) \/ Return(t)
    PROVE  TypeOK'
<1> USE DEF Inv, TypeOK, Locked, Status, Fault
<1>1. CASE SetupCheck(t)
    BY <1>1, RequestFacts DEF SetupCheck
<1>2. CASE SetupUnit(t)
  <2>1. /\ active_ctrl_channels' \in SUBSET Bit /\ oneshot_handle' \in {"NULL", "unit"}
        /\ pc' \in [Task -> Locked \cup Unlocked]
        /\ ret' \in [Task -> Status] /\ fault' \in Fault
      BY <1>2 DEF SetupUnit
  <2>2. unit_claimed' \in BOOLEAN
      BY <1>2, Zenon DEF SetupUnit
  <2>3. UNCHANGED <<continuous_handle, active_continuous_callback, adc_mutex_handle,
                    initialised, contVars, adc1_lock, isrVars, req, left, lost>>
      BY <1>2 DEF SetupUnit
  <2> QED BY <2>1, <2>2, <2>3, UnitStepType
<1>3. CASE CriticalCheck(t)
    BY <1>3 DEF CriticalCheck, Unlocked
<1>4. CASE CriticalRead(t)
    BY <1>4, ConstantsAssumption DEF CriticalRead, Unlocked
<1>5. CASE CriticalReadEnd(t)
    BY <1>5, ConstantsAssumption DEF CriticalReadEnd, Unlocked, PhaseInvariant, Safe, Reading
<1>6. CASE CriticalStore(t)
    BY <1>6 DEF CriticalStore, Unlocked
<1>7. CASE BadMode(t)
    BY <1>7 DEF BadMode
<1>8. CASE OneShotCheck(t)
    BY <1>8, RequestFacts DEF OneShotCheck
<1>8a. CASE OneShotNoResult(t)
    BY <1>8a, RequestFacts DEF OneShotNoResult
<1>9. CASE OneShotUnit(t)
  <2>1. /\ active_ctrl_channels' \in SUBSET Bit /\ oneshot_handle' \in {"NULL", "unit"}
        /\ pc' \in [Task -> Locked \cup Unlocked]
        /\ ret' \in [Task -> Status] /\ fault' \in Fault
      BY <1>9 DEF OneShotUnit
  <2>2. unit_claimed' \in BOOLEAN
      BY <1>9, Zenon DEF OneShotUnit
  <2>3. UNCHANGED <<continuous_handle, active_continuous_callback, adc_mutex_handle,
                    initialised, contVars, adc1_lock, isrVars, req, left, lost>>
      BY <1>9 DEF OneShotUnit
  <2> QED BY <2>1, <2>2, <2>3, UnitStepType
<1>10. CASE OneShotConfig(t)
  <2>1. /\ active_ctrl_channels' \in SUBSET Bit /\ oneshot_handle' \in {"NULL", "unit"}
        /\ pc' \in [Task -> Locked \cup Unlocked]
        /\ ret' \in [Task -> Status] /\ fault' \in Fault
      BY <1>10 DEF OneShotConfig
  <2>2. unit_claimed' \in BOOLEAN
      BY <1>10, Zenon DEF OneShotConfig
  <2>3. UNCHANGED <<continuous_handle, active_continuous_callback, adc_mutex_handle,
                    initialised, contVars, adc1_lock, isrVars, req, left, lost>>
      BY <1>10 DEF OneShotConfig
  <2> QED BY <2>1, <2>2, <2>3, UnitStepType
<1>11. CASE OneShotRead(t)
    BY <1>11, ConstantsAssumption DEF OneShotRead
<1>12. CASE OneShotReadEnd(t)
    BY <1>12, ConstantsAssumption DEF OneShotReadEnd, PhaseInvariant, Safe, Reading
<1>13. CASE OneShotStore(t)
  <2>1. /\ active_ctrl_channels' \in SUBSET Bit /\ oneshot_handle' \in {"NULL", "unit"}
        /\ pc' \in [Task -> Locked \cup Unlocked]
        /\ ret' \in [Task -> Status] /\ fault' \in Fault
      BY <1>13 DEF OneShotStore
  <2>2. unit_claimed' \in BOOLEAN
      BY <1>13, Zenon DEF OneShotStore
  <2>3. UNCHANGED <<continuous_handle, active_continuous_callback, adc_mutex_handle,
                    initialised, contVars, adc1_lock, isrVars, req, left, lost>>
      BY <1>13 DEF OneShotStore
  <2> QED BY <2>1, <2>2, <2>3, UnitStepType
<1>14. CASE OneShotReset(t)
    BY <1>14 DEF OneShotReset
<1>15. CASE ContinuousCheck(t)
    BY <1>15, RequestFacts DEF ContinuousCheck
<1>16. CASE ContinuousNew(t)
    BY <1>16 DEF ContinuousNew
<1>17. CASE ContinuousConfig(t)
    BY <1>17 DEF ContinuousConfig
<1>18. CASE ContinuousRegister(t)
    BY <1>18 DEF ContinuousRegister
<1>19. CASE ContinuousStart(t)
    BY <1>19 DEF ContinuousStart, Safe, PhaseInvariant, ObjectIn, NoObject
<1>20. CASE ContinuousLock(t)
    BY <1>20 DEF ContinuousLock, Safe, PhaseInvariant, ObjectIn, NoObject
<1>21. CASE ReleaseCheck(t)
    BY <1>21 DEF ReleaseCheck
<1>22. CASE ReleaseCallback(t)
    BY <1>22 DEF ReleaseCallback
<1>23. CASE ReleaseStop(t)
    BY <1>23 DEF ReleaseStop
<1>23a. CASE ReleaseFree(t)
    BY <1>23a DEF ReleaseFree
<1>24. CASE ReleaseDeinit(t)
    BY <1>24 DEF ReleaseDeinit
<1>25. CASE CriticalReleaseCheck(t)
    BY <1>25 DEF CriticalReleaseCheck
<1>26. CASE CriticalReleaseDel(t)
  <2>1. /\ active_ctrl_channels' \in SUBSET Bit /\ oneshot_handle' \in {"NULL", "unit"}
        /\ pc' \in [Task -> Locked \cup Unlocked]
        /\ ret' \in [Task -> Status] /\ fault' \in Fault
      BY <1>26 DEF CriticalReleaseDel
  <2>2. unit_claimed' \in BOOLEAN
      BY <1>26, Zenon DEF CriticalReleaseDel
  <2>3. UNCHANGED <<continuous_handle, active_continuous_callback, adc_mutex_handle,
                    initialised, contVars, adc1_lock, isrVars, req, left, lost>>
      BY <1>26 DEF CriticalReleaseDel
  <2> QED BY <2>1, <2>2, <2>3, UnitStepType
<1>27. CASE CriticalReleaseClear(t)
    BY <1>27 DEF CriticalReleaseClear
<1>28. CASE Calibrate(t)
    BY <1>28 DEF Calibrate
<1>29. CASE ADC_IsControllerAvailable(t)
    BY <1>29 DEF ADC_IsControllerAvailable
<1>30. CASE GiveMutex(t)
    BY <1>30, ConstantsAssumption DEF GiveMutex, Unlocked
<1>31. CASE TakeMutex(t)
    BY <1>31 DEF TakeMutex, PhaseInvariant, Safe, EntryPoint
<1>32. CASE Return(t)
    BY <1>32, ConstantsAssumption DEF Return, Unlocked
<1> QED
    BY <1>1, <1>2, <1>3, <1>4, <1>5, <1>6, <1>7, <1>8, <1>8a, <1>9, <1>10, <1>11,
          <1>12, <1>13, <1>14, <1>15, <1>16, <1>17, <1>18, <1>19, <1>20,
          <1>21, <1>22, <1>23, <1>23a, <1>24, <1>25, <1>26, <1>27, <1>28, <1>29,
          <1>30, <1>31, <1>32
    DEF Inside

(* No step of a task that runs a function breaks the properties.           *)
LEMMA TaskStepSafe ==
    ASSUME Inv, NEW t \in Task,
           TakeMutex(t) \/ Inside(t) \/ Return(t)
    PROVE  Safe'
<1> USE ConstantsAssumption
    DEF Inv, TypeOK, Safe, MutexDiscipline, OneShotHasUnit,
        ConverterExclusive, StartedObjects, PhaseInvariant, Locked, Unlocked,
        Reading, NoObject, ObjectIn
<1>1. CASE SetupCheck(t)
    BY <1>1 DEF SetupCheck
<1>2. CASE SetupUnit(t)
    BY <1>2 DEF SetupUnit, NewUnitOk
<1>3. CASE CriticalCheck(t)
    BY <1>3 DEF CriticalCheck
<1>4. CASE CriticalRead(t)
    BY <1>4 DEF CriticalRead
<1>5. CASE CriticalReadEnd(t)
    BY <1>5 DEF CriticalReadEnd
<1>6. CASE CriticalStore(t)
    BY <1>6 DEF CriticalStore
<1>7. CASE BadMode(t)
    BY <1>7 DEF BadMode
<1>8. CASE OneShotCheck(t)
    BY <1>8 DEF OneShotCheck
<1>8a. CASE OneShotNoResult(t)
    BY <1>8a DEF OneShotNoResult
<1>9. CASE OneShotUnit(t)
    BY <1>9 DEF OneShotUnit, NewUnitOk
<1>10. CASE OneShotConfig(t)
    BY <1>10 DEF OneShotConfig, DelUnitOk, UnitInUse
<1>11. CASE OneShotRead(t)
    BY <1>11 DEF OneShotRead
<1>12. CASE OneShotReadEnd(t)
    BY <1>12 DEF OneShotReadEnd
<1>13. CASE OneShotStore(t)
    BY <1>13 DEF OneShotStore, DelUnitOk, UnitInUse
<1>14. CASE OneShotReset(t)
    BY <1>14 DEF OneShotReset
<1>15. CASE ContinuousCheck(t)
    BY <1>15 DEF ContinuousCheck
<1>16. CASE ContinuousNew(t)
    BY <1>16 DEF ContinuousNew
<1>17. CASE ContinuousConfig(t)
    BY <1>17 DEF ContinuousConfig
<1>18. CASE ContinuousRegister(t)
    BY <1>18 DEF ContinuousRegister
<1>19. CASE ContinuousStart(t)
    BY <1>19 DEF ContinuousStart
<1>20. CASE ContinuousLock(t)
    BY <1>20 DEF ContinuousLock
<1>21. CASE ReleaseCheck(t)
    BY <1>21 DEF ReleaseCheck
<1>22. CASE ReleaseCallback(t)
    BY <1>22 DEF ReleaseCallback
<1>23. CASE ReleaseStop(t)
    BY <1>23 DEF ReleaseStop
<1>23a. CASE ReleaseFree(t)
    BY <1>23a DEF ReleaseFree
<1>24. CASE ReleaseDeinit(t)
    BY <1>24 DEF ReleaseDeinit
<1>25. CASE CriticalReleaseCheck(t)
    BY <1>25 DEF CriticalReleaseCheck
<1>26. CASE CriticalReleaseDel(t)
    BY <1>26 DEF CriticalReleaseDel, DelUnitOk, UnitInUse
<1>27. CASE CriticalReleaseClear(t)
    BY <1>27 DEF CriticalReleaseClear
<1>28. CASE Calibrate(t)
    BY <1>28 DEF Calibrate
<1>29. CASE ADC_IsControllerAvailable(t)
    BY <1>29 DEF ADC_IsControllerAvailable
<1>30. CASE GiveMutex(t)
    BY <1>30 DEF GiveMutex
<1>31. CASE TakeMutex(t)
    BY <1>31 DEF TakeMutex, EntryPoint
<1>32. CASE Return(t)
    BY <1>32 DEF Return
<1> QED
    BY <1>1, <1>2, <1>3, <1>4, <1>5, <1>6, <1>7, <1>8, <1>8a, <1>9, <1>10, <1>11,
          <1>12, <1>13, <1>14, <1>15, <1>16, <1>17, <1>18, <1>19, <1>20,
          <1>21, <1>22, <1>23, <1>23a, <1>24, <1>25, <1>26, <1>27, <1>28, <1>29,
          <1>30, <1>31, <1>32
    DEF Inside

(* A new call, whatever its arguments. *)
LEMMA CallInv ==
    ASSUME Inv, NEW t \in Task, NEW r \in Request, Call(t, r)
    PROVE  Inv'
<1>1. TypeOK'
    BY RequestFacts DEF Inv, TypeOK, Call, Unlocked
<1>2. Safe'
    BY RequestEntry, ConstantsAssumption
    DEF Inv, TypeOK, Call, Safe, MutexDiscipline,
        OneShotHasUnit, ConverterExclusive, StartedObjects, PhaseInvariant,
        Locked, Unlocked, Reading, NoObject, ObjectIn
<1> QED
    BY <1>1, <1>2 DEF Inv

(* The interrupt and the initialisation. *)
LEMMA InterruptInv ==
    ASSUME Inv, Interrupt \/ ADC_InitController
    PROVE  Inv'
<1> USE ConstantsAssumption
    DEF Inv, TypeOK, Safe, MutexDiscipline, OneShotHasUnit,
        ConverterExclusive, StartedObjects, PhaseInvariant, Locked, Reading,
        NoObject, ObjectIn
<1>1. CASE IsrCall
    BY <1>1 DEF IsrCall, Fault
<1>2. CASE IsrFrame
    BY <1>2 DEF IsrFrame, Fault
<1>3. ASSUME NEW h \in Handle, IsrEnter(h) PROVE Inv'
    BY <1>3 DEF IsrEnter
<1>4. CASE IsrLeave
    BY <1>4 DEF IsrLeave
<1>5. CASE ADC_InitController
  <2>1. initialised' \in BOOLEAN /\ \A t \in Task : pc'[t] = "idle"
      BY <1>5 DEF ADC_InitController
  <2> QED BY <1>5, <2>1 DEF ADC_InitController
<1> QED
    BY <1>1, <1>2, <1>3, <1>4, <1>5 DEF Interrupt

(* Every step of the specification preserves the invariant. *)
LEMMA NextInv == Inv /\ [Next]_vars => Inv'
<1> SUFFICES ASSUME Inv, [Next]_vars PROVE Inv'
    OBVIOUS
<1>1. ASSUME NEW t \in Task, TakeMutex(t) \/ Inside(t) \/ Return(t)
      PROVE  Inv'
    BY <1>1, TaskStepType, TaskStepSafe DEF Inv
<1>2. ASSUME NEW t \in Task, NEW r \in Request, Call(t, r)
      PROVE  Inv'
    BY <1>2, CallInv
<1>3. CASE Interrupt \/ ADC_InitController
    BY <1>3, InterruptInv
<1>4. CASE Reboot
  <2>1. Init'
      BY <1>4 DEF Reboot, Init
  <2> QED
      BY <2>1, InitInv, PTL
<1>5. CASE UNCHANGED vars
    BY <1>5
    DEF vars, Inv, TypeOK, Safe, MutexDiscipline,
        OneShotHasUnit, ConverterExclusive, StartedObjects, PhaseInvariant,
        NoObject, ObjectIn
<1> QED
    BY <1>1, <1>2, <1>3, <1>4, <1>5 DEF Next, Run

(* The inductive invariant holds in every reachable state. *)
THEOREM Invariance == Spec => []Inv
BY InitInv, NextInv, PTL DEF Spec

-----------------------------------------------------------------------------

(* Type correctness of the controller and of the drivers' state it uses. *)
THEOREM TypeCorrect == Spec => []TypeOK
<1>1. Inv => TypeOK
    BY DEF Inv
<1> QED
    BY <1>1, Invariance, PTL

(* Every function of adcController.c that takes the mutex gives it back on *)
(* each of its return paths, and holds it at every point in between.       *)
THEOREM MutexAlwaysGivenBack == Spec => []MutexDiscipline
<1>1. Inv => MutexDiscipline
    BY DEF Inv, Safe
<1> QED
    BY <1>1, Invariance, PTL

(* The unit of a one-shot call in progress is live, so the error branch of *)
(* adc_oneshot_del_unit in ADC_StartSampling cannot be taken.              *)
THEOREM OneShotUnitLive == Spec => []OneShotHasUnit
<1>1. Inv => OneShotHasUnit
    BY DEF Inv, Safe
<1> QED
    BY <1>1, Invariance, PTL

(* The converter has one user at a time, with or without discipline of the *)
(* clients.                                                                *)
THEOREM ConverterHasOneUser == Spec => []ConverterExclusive
<1>1. Inv => ConverterExclusive
    BY DEF Inv, Safe
<1> QED
    BY <1>1, Invariance, PTL

(* What the drivers promise between two steps of a function. *)
THEOREM PhasesHold == Spec => []PhaseInvariant
<1>1. Inv => PhaseInvariant
    BY DEF Inv, Safe
<1> QED
    BY <1>1, Invariance, PTL

-----------------------------------------------------------------------------
(* ReservationBacked speaks of the moments when no function runs.  Inside  *)
(* the mutex a reservation may be without hardware, from the check that    *)
(* makes it to the step that brings the hardware up, and in a critical     *)
(* release from the deletion of the unit on; a release of a continuous     *)
(* session drops the reservation before it stops the object.               *)

Reserving == {"setup_unit", "one_null", "one_unit", "one_config", "one_read", "one_reading",
              "one_store", "one_reset", "cont_new", "cont_config",
              "cont_register", "cont_start", "cont_lock", "crel_clear"}

Backed == \/ unit_claimed \/ StartedObjects # {}
          \/ HeapMayFail /\ oneshot_handle = "NULL" /\ active_ctrl_channels \in Single

Backing ==
    /\ active_ctrl_channels # {} /\ (\A t \in Task : pc[t] \notin Reserving) => Backed
    /\ \A t \in Task : pc[t] \in {"rel_callback", "rel_stop", "rel_free", "rel_deinit"} =>
            active_ctrl_channels = {}
    /\ \A t \in Task : pc[t] = "setup_check" => req[t].mask \in Single
    /\ \A t \in Task : pc[t] = "setup_unit" => active_ctrl_channels \in Single

(* ADC_SetupTimeCriticalSampling is for one channel. *)
LEMMA SetupMask ==
    ASSUME NEW r \in Request, r.op = "Setup"
    PROVE  r.mask \in Single
BY ConstantsAssumption DEF RequestType

(* A step of a task that runs a function. *)
LEMMA TaskStepBacking ==
    ASSUME Inv, Backing, NEW t \in Task,
           TakeMutex(t) \/ Inside(t) \/ Return(t)
    PROVE  Backing'
<1> USE ConstantsAssumption
    DEF Inv, TypeOK, Safe, MutexDiscipline, PhaseInvariant, Backing, Backed,
        StartedObjects, Locked, Reserving, NoObject, ObjectIn
<1>1. CASE SetupCheck(t)
    BY <1>1 DEF SetupCheck
<1>2. CASE SetupUnit(t)
    BY <1>2 DEF SetupUnit, NewUnitOk, NewUnitFail, Dangling
<1>3. CASE CriticalCheck(t)
    BY <1>3 DEF CriticalCheck
<1>4. CASE CriticalRead(t)
    BY <1>4 DEF CriticalRead
<1>5. CASE CriticalReadEnd(t)
    BY <1>5 DEF CriticalReadEnd
<1>6. CASE CriticalStore(t)
    BY <1>6 DEF CriticalStore
<1>7. CASE BadMode(t)
    BY <1>7 DEF BadMode
<1>8. CASE OneShotCheck(t)
    BY <1>8 DEF OneShotCheck
<1>8a. CASE OneShotNoResult(t)
    BY <1>8a DEF OneShotNoResult
<1>9. CASE OneShotUnit(t)
    BY <1>9 DEF OneShotUnit, NewUnitOk
<1>10. CASE OneShotConfig(t)
    BY <1>10 DEF OneShotConfig, DelUnitOk
<1>11. CASE OneShotRead(t)
    BY <1>11 DEF OneShotRead
<1>12. CASE OneShotReadEnd(t)
    BY <1>12 DEF OneShotReadEnd
<1>13. CASE OneShotStore(t)
    BY <1>13 DEF OneShotStore, DelUnitOk
<1>14. CASE OneShotReset(t)
    BY <1>14 DEF OneShotReset
<1>15. CASE ContinuousCheck(t)
    BY <1>15 DEF ContinuousCheck
<1>16. CASE ContinuousNew(t)
    BY <1>16 DEF ContinuousNew
<1>17. CASE ContinuousConfig(t)
    BY <1>17 DEF ContinuousConfig
<1>18. CASE ContinuousRegister(t)
    BY <1>18 DEF ContinuousRegister
<1>19. CASE ContinuousStart(t)
    BY <1>19 DEF ContinuousStart
<1>20. CASE ContinuousLock(t)
    BY <1>20 DEF ContinuousLock
<1>21. CASE ReleaseCheck(t)
    BY <1>21 DEF ReleaseCheck
<1>22. CASE ReleaseCallback(t)
    BY <1>22 DEF ReleaseCallback
<1>23. CASE ReleaseStop(t)
    BY <1>23 DEF ReleaseStop
<1>23a. CASE ReleaseFree(t)
    BY <1>23a DEF ReleaseFree
<1>24. CASE ReleaseDeinit(t)
    BY <1>24 DEF ReleaseDeinit
<1>25. CASE CriticalReleaseCheck(t)
    BY <1>25 DEF CriticalReleaseCheck
<1>26. CASE CriticalReleaseDel(t)
    BY <1>26 DEF CriticalReleaseDel, DelUnitOk
<1>27. CASE CriticalReleaseClear(t)
    BY <1>27 DEF CriticalReleaseClear
<1>28. CASE Calibrate(t)
    BY <1>28 DEF Calibrate
<1>29. CASE ADC_IsControllerAvailable(t)
    BY <1>29 DEF ADC_IsControllerAvailable
<1>30. CASE GiveMutex(t)
    BY <1>30 DEF GiveMutex
<1>31. CASE TakeMutex(t)
  <2>1. /\ pc[t] = "take" /\ pc' = [pc EXCEPT ![t] = EntryPoint[req[t].op]]
        /\ UNCHANGED <<active_ctrl_channels, oneshot_handle, sdkVars, req>>
      BY <1>31 DEF TakeMutex
  <2>2. req[t].op \in DOMAIN EntryPoint /\ req[t].op # "none"
      BY <2>1 DEF EntryPoint
  <2>3. EntryPoint[req[t].op] = "setup_check" => req[t].op = "Setup"
      BY <2>2 DEF EntryPoint
  <2>4. EntryPoint[req[t].op] \notin Reserving \cup {"rel_callback", "rel_stop", "rel_free", "rel_deinit"}
      BY <2>2 DEF EntryPoint
  <2>5. req[t] \in Request
      BY <2>2 DEF NoRequest
  <2>6. EntryPoint[req[t].op] = "setup_check" => req[t].mask \in Single
      BY <2>3, <2>5, SetupMask
  <2> QED BY <2>1, <2>4, <2>6
<1>32. CASE Return(t)
    BY <1>32 DEF Return
<1> QED
    BY <1>1, <1>2, <1>3, <1>4, <1>5, <1>6, <1>7, <1>8, <1>8a, <1>9, <1>10, <1>11,
       <1>12, <1>13, <1>14, <1>15, <1>16, <1>17, <1>18, <1>19, <1>20, <1>21,
       <1>22, <1>23, <1>23a, <1>24, <1>25, <1>26, <1>27, <1>28, <1>29, <1>30, <1>31,
       <1>32
    DEF Inside

(* Every step. *)
LEMMA NextBacking == Inv /\ Backing /\ [Next]_vars => Backing'
<1> SUFFICES ASSUME Inv, Backing, [Next]_vars PROVE Backing'
    OBVIOUS
<1>1. ASSUME NEW t \in Task, TakeMutex(t) \/ Inside(t) \/ Return(t)
      PROVE  Backing'
    BY <1>1, TaskStepBacking
<1>2. ASSUME NEW t \in Task, NEW r \in Request, Call(t, r)
      PROVE  Backing'
    BY <1>2 DEF Call, Backing, Backed, StartedObjects, Reserving, Inv, TypeOK
<1>3. CASE Interrupt
    BY <1>3 DEF Interrupt, IsrFrame, IsrCall, IsrLeave, IsrEnter, Backing, Backed, StartedObjects
<1>4. CASE ADC_InitController \/ Reboot
    BY <1>4 DEF ADC_InitController, Reboot, Backing
<1>5. CASE UNCHANGED vars
    BY <1>5 DEF vars, Backing, Backed, StartedObjects
<1> QED
    BY <1>1, <1>2, <1>3, <1>4, <1>5 DEF Next, Run

(* Whatever the clients call, a reservation that stands when no function   *)
(* runs has a claimed unit or a running object behind it.  Only if the     *)
(* allocations of the drivers may fail is there an exception: a setup for  *)
(* time-critical sampling that got no unit.                                *)
THEOREM ReservationAlwaysBacked == Spec => []ReservationBacked
<1>1. Init => Backing
    BY DEF Init, Backing, Backed
<1>2. Inv /\ Backing => ReservationBacked
    BY ConstantsAssumption
    DEF Inv, Safe, MutexDiscipline, TypeOK, Backing, Backed, ReservationBacked,
        Reserving, Locked
<1> QED
    BY <1>1, <1>2, NextBacking, Invariance, PTL DEF Spec

-----------------------------------------------------------------------------
(* No step hands the controller from one channel mask to another. *)
THEOREM NoDirectHandover == Spec => HandoverThroughFree
<1>1. ASSUME NEW t \in Task, Inside(t)
      PROVE  Handover
  <2> USE DEF Handover
  <2>1. CASE SetupCheck(t)
      BY <2>1 DEF SetupCheck
  <2>2. CASE SetupUnit(t)
      BY <2>2 DEF SetupUnit
  <2>3. CASE CriticalCheck(t)
      BY <2>3 DEF CriticalCheck
  <2>4. CASE CriticalRead(t)
      BY <2>4 DEF CriticalRead
  <2>5. CASE CriticalReadEnd(t)
      BY <2>5 DEF CriticalReadEnd
  <2>6. CASE CriticalStore(t)
      BY <2>6 DEF CriticalStore
  <2>7. CASE BadMode(t)
      BY <2>7 DEF BadMode
  <2>8. CASE OneShotCheck(t)
      BY <2>8 DEF OneShotCheck, MayUse
  <2>8a. CASE OneShotNoResult(t)
      BY <2>8a DEF OneShotNoResult, MayUse
  <2>9. CASE OneShotUnit(t)
      BY <2>9 DEF OneShotUnit
  <2>10. CASE OneShotConfig(t)
      BY <2>10 DEF OneShotConfig
  <2>11. CASE OneShotRead(t)
      BY <2>11 DEF OneShotRead
  <2>12. CASE OneShotReadEnd(t)
      BY <2>12 DEF OneShotReadEnd
  <2>13. CASE OneShotStore(t)
      BY <2>13 DEF OneShotStore
  <2>14. CASE OneShotReset(t)
      BY <2>14 DEF OneShotReset
  <2>15. CASE ContinuousCheck(t)
      BY <2>15 DEF ContinuousCheck, MayUse
  <2>16. CASE ContinuousNew(t)
      BY <2>16 DEF ContinuousNew
  <2>17. CASE ContinuousConfig(t)
      BY <2>17 DEF ContinuousConfig
  <2>18. CASE ContinuousRegister(t)
      BY <2>18 DEF ContinuousRegister
  <2>19. CASE ContinuousStart(t)
      BY <2>19 DEF ContinuousStart
  <2>20. CASE ContinuousLock(t)
      BY <2>20 DEF ContinuousLock
  <2>21. CASE ReleaseCheck(t)
      BY <2>21 DEF ReleaseCheck
  <2>22. CASE ReleaseCallback(t)
      BY <2>22 DEF ReleaseCallback
  <2>23. CASE ReleaseStop(t)
      BY <2>23 DEF ReleaseStop
  <2>23a. CASE ReleaseFree(t)
      BY <2>23a DEF ReleaseFree
  <2>24. CASE ReleaseDeinit(t)
      BY <2>24 DEF ReleaseDeinit
  <2>25. CASE CriticalReleaseCheck(t)
      BY <2>25 DEF CriticalReleaseCheck
  <2>26. CASE CriticalReleaseDel(t)
      BY <2>26 DEF CriticalReleaseDel
  <2>27. CASE CriticalReleaseClear(t)
      BY <2>27 DEF CriticalReleaseClear
  <2>28. CASE Calibrate(t)
      BY <2>28 DEF Calibrate
  <2>29. CASE ADC_IsControllerAvailable(t)
      BY <2>29 DEF ADC_IsControllerAvailable
  <2>30. CASE GiveMutex(t)
      BY <2>30 DEF GiveMutex
  <2> QED
      BY <1>1, <2>1, <2>2, <2>3, <2>4, <2>5, <2>6, <2>7, <2>8, <2>8a, <2>9, <2>10,
          <2>11, <2>12, <2>13, <2>14, <2>15, <2>16, <2>17, <2>18, <2>19,
          <2>20, <2>21, <2>22, <2>23, <2>23a, <2>24, <2>25, <2>26, <2>27, <2>28,
          <2>29, <2>30
      DEF Inside
<1>2. [Next]_vars => Handover
  <2> SUFFICES ASSUME [Next]_vars PROVE Handover
      OBVIOUS
  <2>1. CASE \E t \in Task : TakeMutex(t) \/ Return(t)
      BY <2>1 DEF TakeMutex, Return, Handover
  <2>2. CASE \E t \in Task, r \in Request : Call(t, r)
      BY <2>2 DEF Call, Handover
  <2>3. CASE Interrupt
      BY <2>3 DEF Interrupt, IsrFrame, IsrCall, IsrLeave, IsrEnter, Handover
  <2>4. CASE ADC_InitController \/ Reboot
      BY <2>4 DEF ADC_InitController, Reboot, Handover
  <2>5. CASE UNCHANGED vars
      BY <2>5 DEF vars, Handover
  <2> QED
      BY <1>1, <2>1, <2>2, <2>3, <2>4, <2>5 DEF Next, Run
<1> QED
    BY <1>2, PTL DEF Spec, HandoverThroughFree

-----------------------------------------------------------------------------
(* However the calls are mixed and whichever allocation fails, the handle  *)
(* of a claimed unit is lost by nothing but a repeated ADC_InitController. *)
THEOREM OnlyInitLosesUnit == Spec => UnitLostOnlyByInit
<1> DEFINE Keeps == ~Unreachable /\ Unreachable' => ADC_InitController
<1>1. ASSUME Inv, NEW t \in Task, Inside(t)
      PROVE  Keeps
  <2>1. CASE SetupUnit(t) \/ OneShotUnit(t)
      BY <2>1 DEF SetupUnit, OneShotUnit, Unreachable
  <2>2. CASE OneShotReset(t)
    <3>1. pc[t] = "one_reset" /\ UNCHANGED unit_claimed
        BY <2>2 DEF OneShotReset
    <3>2. ~unit_claimed
        BY <1>1, <3>1 DEF Inv, Safe, PhaseInvariant
    <3> QED BY <3>1, <3>2, Zenon DEF Unreachable
  <2>3. CASE OneShotConfig(t) \/ OneShotStore(t) \/ CriticalReleaseDel(t)
      BY <2>3 DEF OneShotConfig, OneShotStore, CriticalReleaseDel, Unreachable
  <2>4. ASSUME UNCHANGED <<oneshot_handle, unit_claimed>> PROVE Keeps
      BY <2>4 DEF Unreachable
  <2>5. CASE \/ SetupCheck(t) \/ CriticalCheck(t) \/ CriticalRead(t) \/ CriticalReadEnd(t)
             \/ CriticalStore(t) \/ BadMode(t) \/ OneShotCheck(t) \/ OneShotNoResult(t)
             \/ OneShotRead(t) \/ OneShotReadEnd(t)
      BY <2>4, <2>5 DEF SetupCheck, CriticalCheck, CriticalRead, CriticalReadEnd,
         CriticalStore, BadMode, OneShotCheck, OneShotNoResult, OneShotRead, OneShotReadEnd
  <2>6. CASE \/ ContinuousCheck(t) \/ ContinuousNew(t) \/ ContinuousConfig(t)
             \/ ContinuousRegister(t) \/ ContinuousStart(t) \/ ContinuousLock(t)
      BY <2>4, <2>6 DEF ContinuousCheck, ContinuousNew, ContinuousConfig,
         ContinuousRegister, ContinuousStart, ContinuousLock
  <2>7. CASE \/ ReleaseCheck(t) \/ ReleaseCallback(t) \/ ReleaseStop(t) \/ ReleaseFree(t)
             \/ ReleaseDeinit(t) \/ CriticalReleaseCheck(t) \/ CriticalReleaseClear(t)
             \/ Calibrate(t) \/ ADC_IsControllerAvailable(t) \/ GiveMutex(t)
      BY <2>4, <2>7 DEF ReleaseCheck, ReleaseCallback, ReleaseStop, ReleaseFree,
         ReleaseDeinit, CriticalReleaseCheck, CriticalReleaseClear, Calibrate,
         ADC_IsControllerAvailable, GiveMutex
  <2> QED BY <1>1, <2>1, <2>2, <2>3, <2>5, <2>6, <2>7 DEF Inside
<1>2. Inv /\ [Next]_vars => Keeps
  <2> SUFFICES ASSUME Inv, [Next]_vars PROVE Keeps
      OBVIOUS
  <2>1. CASE \E t \in Task : TakeMutex(t) \/ Return(t)
      BY <2>1 DEF TakeMutex, Return, Unreachable
  <2>2. CASE \E t \in Task, r \in Request : Call(t, r)
      BY <2>2 DEF Call, Unreachable
  <2>3. CASE Interrupt
      BY <2>3 DEF Interrupt, IsrFrame, IsrCall, IsrLeave, IsrEnter, Unreachable
  <2>4. CASE Reboot \/ ADC_InitController
      BY <2>4 DEF Reboot, Unreachable
  <2>5. CASE UNCHANGED vars
      BY <2>5 DEF vars, Unreachable
  <2> QED BY <1>1, <2>1, <2>2, <2>3, <2>4, <2>5 DEF Next, Run
<1> QED
    BY <1>2, Invariance, PTL DEF Spec, UnitLostOnlyByInit

=============================================================================

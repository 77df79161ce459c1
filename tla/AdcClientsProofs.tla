-------------------------- MODULE AdcClientsProofs --------------------------
(***************************************************************************)
(* Proofs about the clients of the ADC controller that keep to the rules   *)
(* of its header, for any number of tasks, channels, continuous objects    *)
(* and samples.  ClientInv is the inductive invariant: one task at a time  *)
(* has the controller, and with it all of the hardware in use.  It needs   *)
(* that no allocation of the drivers fails (ADC_SetupTimeCriticalSampling  *)
(* reports success without a unit otherwise) and that no client asks for a *)
(* frequency below what adc_continuous_config accepts (the object stays    *)
(* allocated then); both are hypotheses of the theorems.                   *)
(***************************************************************************)
EXTENDS AdcClients, AdcControllerProofs

Rules == ~HeapMayFail /\ "slow_freq" \notin ClientArgs

(* Allowed, of a task t whose session is s. *)
MayCall(t, s, r) ==
    \/ r.op = "IsAvailable"
    \/ r.op = "Calibrate" /\ r.mask \in Owned(t)
    \/ /\ s.kind = "none"
       /\ r.op \in {"Setup", "OneShot", "Continuous"}
       /\ r.mask \in Owned(t)
       /\ r.arg # "slow_freq"
       /\ r.op # "Setup" => r.n > 0
    \/ /\ s.kind = "critical"
       /\ r.op = "ReleaseCritical" \/ (r.op = "Critical" /\ r.n > 0)
       /\ r.mask = s.mask
    \/ s.kind = "continuous" /\ r.op = "Release" /\ r.mask = s.mask

(* The function that has a point p of the program. *)
PointOf(p, op) ==
    /\ p = "idle" <=> op = "none"
    /\ p \in {"setup_check", "setup_unit"} => op = "Setup"
    /\ p \in {"crit_check", "crit_read", "crit_reading", "crit_store"} => op = "Critical"
    /\ p \in {"one_check", "one_null", "one_unit", "one_config", "one_read",
              "one_reading", "one_store", "one_reset"} => op = "OneShot"
    /\ p \in {"cont_check", "cont_new", "cont_config", "cont_register", "cont_start",
              "cont_lock"} => op = "Continuous"
    /\ p \in {"rel_check", "rel_callback", "rel_stop", "rel_free", "rel_deinit"} => op = "Release"
    /\ p \in {"crel_check", "crel_del", "crel_clear"} => op = "ReleaseCritical"
    /\ p = "calibrate" => op = "Calibrate"
    /\ p = "avail" => op = "IsAvailable"
    /\ p # "bad_mode"
    /\ op = "Critical" => p \notin {"take", "give"}

(* The result of a call is set. *)
Ended(t) == pc[t] \in {"give", "return"}

(* A task is at a point of a function that it may call; its session is of  *)
(* channels of its own, and the end of a session does not fail.            *)
CallerOK(t) ==
    /\ PointOf(pc[t], req[t].op)
    /\ req[t].op # "none" => MayCall(t, session[t], req[t])
    /\ session[t].kind = "none" \/ session[t].mask \in Owned(t)
    /\ ~Ended(t) => ret[t] = "none"
    /\ Ended(t) => ret[t] # "none"
    /\ Ended(t) /\ req[t].op \in {"Release", "ReleaseCritical"} => ret[t] = "SUCCESS"

(* The channels task t has the controller for. *)
Mask(t) == IF session[t].kind # "none" THEN session[t].mask ELSE req[t].mask

(* The task is set up for time-critical sampling. *)
Critical(t) ==
    \/ /\ session[t].kind = "critical"
       /\ req[t].op = "ReleaseCritical" => pc[t] \in {"take", "crel_check", "crel_del"}
    \/ req[t].op = "Setup" /\ Ended(t) /\ ret[t] = "SUCCESS"

(* The task's continuous sampling runs. *)
Sampling(t) ==
    \/ /\ session[t].kind = "continuous"
       /\ req[t].op = "Release" => pc[t] \in {"take", "rel_check"}
    \/ req[t].op = "Continuous" /\ Ended(t) /\ ret[t] = "SUCCESS"

HasUnit(t) == Critical(t) \/ pc[t] \in {"one_config", "one_read", "one_reading", "one_store"}

ObjectInit(t) == pc[t] \in {"cont_config", "cont_register", "cont_start", "rel_free"}
ObjectStarted(t) == Sampling(t) \/ pc[t] \in {"rel_callback", "rel_stop"}
HasObject(t) == ObjectInit(t) \/ pc[t] \in {"cont_lock", "rel_deinit"} \/ ObjectStarted(t)

Reserved(t) ==
    \/ HasUnit(t) \/ Sampling(t)
    \/ pc[t] \in {"setup_unit", "one_null", "one_unit", "one_reset", "cont_new", "cont_config",
                  "cont_register", "cont_start", "cont_lock", "crel_clear"}

Holds(t) == Reserved(t) \/ HasObject(t)

(* One task has the controller and the unit. *)
HolderOK ==
    /\ \A t, u \in Task : Holds(t) /\ Holds(u) => t = u
    /\ \A t \in Task : Reserved(t) => active_ctrl_channels = Mask(t)
    /\ active_ctrl_channels # {} => \E t \in Task : Reserved(t)
    /\ \A t \in Task : HasUnit(t) => unit_claimed /\ oneshot_handle # "NULL"
    /\ unit_claimed => \E t \in Task : HasUnit(t)

(* The one continuous object there may be is where its task has got to. *)
ObjectOK ==
    /\ \A t \in Task : HasObject(t) =>
          /\ continuous_handle # NoHandle /\ gdma_conn = continuous_handle
          /\ ObjectInit(t) => cont_fsm[continuous_handle] = "init"
          /\ pc[t] = "cont_lock" => cont_fsm[continuous_handle] = "starting"
          /\ pc[t] = "rel_deinit" => cont_fsm[continuous_handle] = "freeing"
          /\ ObjectStarted(t) => cont_fsm[continuous_handle] = "started" /\ adc1_lock = t
          /\ Sampling(t) \/ pc[t] \in {"cont_start", "cont_lock", "rel_callback"} =>
                active_continuous_callback = t
    /\ \A h \in Handle : cont_fsm[h] # "free" =>
          h = continuous_handle /\ \E t \in Task : HasObject(t)
    /\ gdma_conn # NoHandle => cont_fsm[gdma_conn] # "free"

(* The interrupt runs for an object that has been started and is not freed *)
(* before it ends.                                                         *)
IsrOK ==
    isr # NoHandle =>
        /\ cont_fsm[isr] # "free"
        /\ \A t \in Task : pc[t] \notin {"cont_config", "cont_register", "cont_start", "cont_lock"}

(* Only ADC_ApplyCalibration returns data that are none. *)
LostOK == \A t \in Task : t \in lost => req[t].op = "Calibrate"

ClientInv ==
    /\ session \in [Task -> Session]
    /\ \A t \in Task : CallerOK(t)
    /\ HolderOK
    /\ ObjectOK
    /\ IsrOK
    /\ LostOK
    /\ OnlyReleaseRace
    /\ ~initialised => \A t \in Task : session[t] = NoSession

USE DEF Goto, Leave, SetActive, SetMutex, SetCallback, SetFsm, Stop,
        ReadBegin, ReadEnd, NewUnit, DelUnit,
        ctrlVars, contVars, isrVars, sdkVars, callVars, LiveUnit

-----------------------------------------------------------------------------

(* The channels of a task are no other task's. *)
LEMMA OwnedFacts ==
    ASSUME NEW t \in Task, NEW m \in Owned(t)
    PROVE  /\ m # {} /\ m \subseteq Channel /\ m # {INVALID}
           /\ \A u \in Task : m \in Owned(u) => u = t
           /\ \A c \in m : Owner[c] = t
BY ConstantsAssumption, ClientAssumption DEF Owned

(* A call that is allowed. *)
LEMMA AllowedMayCall ==
    ASSUME Rules, NEW t \in Task, NEW r \in Request, Allowed(t, r)
    PROVE  MayCall(t, session[t], r)
BY DEF Rules, Allowed, MayCall

(* Steps of other tasks do not change what a task has. *)
LEMMA Unaffected ==
    ASSUME NEW u \in Task, pc'[u] = pc[u], req'[u] = req[u], ret'[u] = ret[u],
           session'[u] = session[u]
    PROVE  /\ Critical(u)' <=> Critical(u)
           /\ Sampling(u)' <=> Sampling(u)
           /\ HasUnit(u)' <=> HasUnit(u)
           /\ ObjectInit(u)' <=> ObjectInit(u)
           /\ ObjectStarted(u)' <=> ObjectStarted(u)
           /\ HasObject(u)' <=> HasObject(u)
           /\ Reserved(u)' <=> Reserved(u)
           /\ Holds(u)' <=> Holds(u)
           /\ CallerOK(u)' <=> CallerOK(u)
           /\ Mask(u)' = Mask(u)
BY DEF Critical, Sampling, HasUnit, ObjectInit, ObjectStarted, HasObject,
       Reserved, Holds, CallerOK, Mask, Ended

(* Who reads has a unit. *)
LEMMA ReaderHasUnit ==
    ASSUME ClientInv, NEW u \in Task, pc[u] \in Reading \cup {"crit_read", "crit_store"}
    PROVE  HasUnit(u)
<1>1. CallerOK(u)
    BY DEF ClientInv
<1> QED BY <1>1 DEF CallerOK, PointOf, MayCall, HasUnit, Critical, Reading

(* A task that has the controller shares neither the unit nor the adc1     *)
(* lock with a reader.                                                     *)
LEMMA NobodyElseReads ==
    ASSUME Inv, ClientInv, NEW t \in Task, Holds(t), pc[t] \notin Reading
    PROVE  /\ ~UnitInUse
           /\ HasUnit(t) => unit_claimed /\ adc1_lock = NoTask
<1>1. ASSUME NEW u \in Task, pc[u] \in Reading PROVE FALSE
  <2>1. Holds(u)
      BY <1>1, ReaderHasUnit DEF Holds, Reserved
  <2> QED BY <1>1, <2>1 DEF ClientInv, HolderOK
<1>2. ASSUME HasUnit(t) PROVE StartedObjects = {}
  <2>1. ASSUME NEW u \in Task, HasObject(u) PROVE FALSE
    <3>1. u = t
        BY <2>1 DEF ClientInv, HolderOK, Holds
    <3>2. CallerOK(t)
        BY DEF ClientInv
    <3> QED BY <1>2, <2>1, <3>1, <3>2
        DEF CallerOK, PointOf, MayCall, HasUnit, Critical, HasObject, ObjectInit,
            ObjectStarted, Sampling, Ended
  <2> QED BY <2>1 DEF ClientInv, ObjectOK, StartedObjects
<1>3. ASSUME HasUnit(t) PROVE unit_claimed /\ adc1_lock = NoTask
    BY <1>1, <1>2, <1>3, ConstantsAssumption
    DEF ClientInv, HolderOK, Inv, TypeOK, Safe, ConverterExclusive
<1> QED BY <1>1, <1>3 DEF UnitInUse

(* Where a function looks whether the controller is free, it is not        *)
(* reserved for the caller, and free means that nobody has it.             *)
LEMMA FreeForAll ==
    ASSUME Inv, ClientInv, NEW t \in Task,
           pc[t] \in {"setup_check", "one_check", "cont_check"}
    PROVE  /\ active_ctrl_channels # req[t].mask
           /\ active_ctrl_channels = {} => \A u \in Task : ~Holds(u)
<1>1. /\ CallerOK(t) /\ req[t].mask \in Owned(t) /\ req[t].mask # {}
      /\ session[t].kind = "none" /\ ~Holds(t)
  <2>1. CallerOK(t)
      BY DEF ClientInv
  <2>2. req[t].mask \in Owned(t) /\ session[t].kind = "none"
      BY <2>1 DEF CallerOK, PointOf, MayCall
  <2>3. ~Holds(t)
      BY <2>1, <2>2 DEF CallerOK, PointOf, Holds, Reserved, HasUnit, HasObject,
                         ObjectInit, ObjectStarted, Critical, Sampling, Ended
  <2> QED BY <2>1, <2>2, <2>3, OwnedFacts
<1>2. ASSUME NEW u \in Task, Reserved(u)
      PROVE  active_ctrl_channels \in Owned(u) /\ active_ctrl_channels # {} /\ u # t
  <2>1. active_ctrl_channels = Mask(u) /\ CallerOK(u)
      BY <1>2 DEF ClientInv, HolderOK
  <2>2. Mask(u) \in Owned(u)
      BY <1>2, <2>1 DEF CallerOK, PointOf, MayCall, Mask, Reserved, HasUnit, Critical,
                         Sampling, Ended
  <2> QED BY <1>1, <1>2, <2>1, <2>2, OwnedFacts DEF Holds
<1>3. active_ctrl_channels # req[t].mask
  <2>1. ASSUME active_ctrl_channels = req[t].mask PROVE FALSE
    <3>1. PICK u \in Task : Reserved(u)
        BY <1>1, <2>1 DEF ClientInv, HolderOK
    <3> QED BY <1>1, <1>2, <2>1, <3>1, OwnedFacts
  <2> QED BY <2>1
<1>4. ASSUME NEW u \in Task, Holds(u), ~Reserved(u) PROVE FALSE
  <2>1. pc[u] \in {"rel_callback", "rel_stop", "rel_free", "rel_deinit"}
      BY <1>4 DEF Holds, Reserved, HasObject, ObjectInit, ObjectStarted
  <2>2. adc_mutex_handle = t /\ adc_mutex_handle = u
      BY <2>1 DEF Inv, Safe, MutexDiscipline, Locked
  <2> QED BY <1>1, <1>4, <2>2
<1> QED BY <1>2, <1>3, <1>4

(* Where a release function looks whether the controller is reserved for   *)
(* the caller, it is.                                                      *)
LEMMA ReservedForMe ==
    ASSUME ClientInv, NEW t \in Task, pc[t] \in {"rel_check", "crel_check", "crit_check"}
    PROVE  /\ active_ctrl_channels = req[t].mask
           /\ req[t].mask # {} /\ req[t].mask # {INVALID}
<1>1. CallerOK(t)
    BY DEF ClientInv
<1>2. req[t].mask = session[t].mask /\ session[t].mask \in Owned(t) /\ session[t].kind # "none"
    BY <1>1 DEF CallerOK, PointOf, MayCall
<1>3. Reserved(t)
    BY <1>1, <1>2 DEF CallerOK, PointOf, MayCall, Reserved, HasUnit, Critical, Sampling
<1>4. active_ctrl_channels = Mask(t)
    BY <1>3 DEF ClientInv, HolderOK
<1> QED BY <1>2, <1>4, OwnedFacts DEF Mask

(* Every task stays at a point of the function it called.                  *)
LEMMA TaskStepCaller ==
    ASSUME Rules, Inv, ClientInv, NEW t \in Task, UNCHANGED session,
           TakeMutex(t) \/ Inside(t)
    PROVE  \A u \in Task : CallerOK(u)'
<1>0. /\ \A u \in Task : CallerOK(u)
      /\ pc \in [Task -> Locked \cup Unlocked] /\ ret \in [Task -> Status]
    BY DEF ClientInv, Inv, TypeOK
<1> USE DEF CallerOK, PointOf, MayCall, Ended, Rules
<1>1. CASE SetupCheck(t)
    BY <1>1, <1>0 DEF SetupCheck
<1>2. CASE SetupUnit(t)
    BY <1>2, <1>0 DEF SetupUnit, NewUnitOk, NewUnitFail, Dangling
<1>3. CASE CriticalCheck(t)
    BY <1>3, <1>0 DEF CriticalCheck
<1>4. CASE CriticalRead(t)
    BY <1>4, <1>0 DEF CriticalRead, ReadFails, Dangling
<1>5. CASE CriticalReadEnd(t)
    BY <1>5, <1>0 DEF CriticalReadEnd
<1>6. CASE CriticalStore(t)
    BY <1>6, <1>0 DEF CriticalStore
<1>7. CASE BadMode(t)
    BY <1>7, <1>0 DEF BadMode
<1>8. CASE OneShotCheck(t)
    BY <1>8, <1>0 DEF OneShotCheck, MayUse
<1>8a. CASE OneShotNoResult(t)
    BY <1>8a, <1>0 DEF OneShotNoResult, MayUse
<1>9. CASE OneShotUnit(t)
    BY <1>9, <1>0 DEF OneShotUnit, NewUnitOk, NewUnitFail
<1>10. CASE OneShotConfig(t)
    BY <1>10, <1>0 DEF OneShotConfig, DelUnitOk, DelUnitFault, UnitInUse, Dangling
<1>11. CASE OneShotRead(t)
    BY <1>11, <1>0 DEF OneShotRead, ReadFails, Dangling
<1>12. CASE OneShotReadEnd(t)
    BY <1>12, <1>0 DEF OneShotReadEnd
<1>13. CASE OneShotStore(t)
    BY <1>13, <1>0 DEF OneShotStore, DelUnitOk, DelUnitFault, UnitInUse, Dangling
<1>14. CASE OneShotReset(t)
    BY <1>14, <1>0 DEF OneShotReset
<1>15. CASE ContinuousCheck(t)
    BY <1>15, <1>0 DEF ContinuousCheck, MayUse
<1>16. CASE ContinuousNew(t)
    BY <1>16, <1>0 DEF ContinuousNew
<1>17. CASE ContinuousConfig(t)
    BY <1>17, <1>0 DEF ContinuousConfig
<1>18. CASE ContinuousRegister(t)
    BY <1>18, <1>0 DEF ContinuousRegister
<1>19. CASE ContinuousStart(t)
    BY <1>19, <1>0 DEF ContinuousStart
<1>20. CASE ContinuousLock(t)
    BY <1>20, <1>0 DEF ContinuousLock
<1>21. CASE ReleaseCheck(t)
    BY <1>21, <1>0, ReservedForMe DEF ReleaseCheck
<1>22. CASE ReleaseCallback(t)
    BY <1>22, <1>0 DEF ReleaseCallback
<1>23. CASE ReleaseStop(t)
    BY <1>23, <1>0 DEF ReleaseStop, NoObject, ObjectIn
<1>23a. CASE ReleaseFree(t)
    BY <1>23a, <1>0 DEF ReleaseFree, NoObject, ObjectIn
<1>24. CASE ReleaseDeinit(t)
    BY <1>24, <1>0 DEF ReleaseDeinit, NoObject, ObjectIn
<1>25. CASE CriticalReleaseCheck(t)
    BY <1>25, <1>0, ReservedForMe DEF CriticalReleaseCheck
<1>26. CASE CriticalReleaseDel(t)
    BY <1>26, <1>0 DEF CriticalReleaseDel, DelUnitOk, DelUnitFault, UnitInUse, Dangling
<1>27. CASE CriticalReleaseClear(t)
    BY <1>27, <1>0 DEF CriticalReleaseClear
<1>28. CASE Calibrate(t)
    BY <1>28, <1>0 DEF Calibrate
<1>29. CASE ADC_IsControllerAvailable(t)
    BY <1>29, <1>0 DEF ADC_IsControllerAvailable
<1>30. CASE GiveMutex(t)
    BY <1>30, <1>0 DEF GiveMutex
<1>31. CASE TakeMutex(t)
    BY <1>31, <1>0 DEF TakeMutex, EntryPoint
<1> QED
    BY <1>1, <1>2, <1>3, <1>4, <1>5, <1>6, <1>7, <1>8, <1>8a, <1>9, <1>10, <1>11,
       <1>12, <1>13, <1>14, <1>15, <1>16, <1>17, <1>18, <1>19, <1>20, <1>21,
       <1>22, <1>23, <1>23a, <1>24, <1>25, <1>26, <1>27, <1>28, <1>29, <1>30, <1>31
    DEF Inside

(* No call fails to sample or stops the program.                           *)
LEMMA TaskStepSound ==
    ASSUME Rules, Inv, ClientInv, NEW t \in Task, UNCHANGED session, fault = "none",
           TakeMutex(t) \/ Inside(t)
    PROVE  LostOK' /\ fault' = "none"
<1>0. /\ CallerOK(t) /\ LostOK /\ fault = "none"
      /\ req \in [Task -> Request \cup {NoRequest}]
      /\ adc_mutex_handle \in Task \cup {NoTask}
    BY DEF ClientInv, Inv, TypeOK
<1>a. HasUnit(t) /\ pc[t] \notin Reading =>
          ~UnitInUse /\ unit_claimed /\ adc1_lock = NoTask /\ oneshot_handle # "NULL"
    BY NobodyElseReads DEF Holds, Reserved, ClientInv, HolderOK
<1>b. pc[t] = "rel_stop" => cont_fsm[continuous_handle] = "started" /\ adc1_lock = t
    BY DEF ClientInv, ObjectOK, HasObject, ObjectStarted
<1> USE DEF Rules, LostOK, CallerOK, PointOf, MayCall, HasUnit, Critical, Reading
<1>1. CASE SetupCheck(t)
    BY <1>1, <1>0 DEF SetupCheck
<1>2. CASE SetupUnit(t)
    BY <1>2, <1>0 DEF SetupUnit, NewUnitOk, NewUnitFail, Dangling
<1>3. CASE CriticalCheck(t)
    BY <1>3, <1>0 DEF CriticalCheck
<1>4. CASE CriticalRead(t)
    BY <1>4, <1>0, <1>a DEF CriticalRead, ReadFails, Dangling
<1>5. CASE CriticalReadEnd(t)
    BY <1>5, <1>0 DEF CriticalReadEnd
<1>6. CASE CriticalStore(t)
    BY <1>6, <1>0 DEF CriticalStore
<1>7. CASE BadMode(t)
    BY <1>7, <1>0 DEF BadMode
<1>8. CASE OneShotCheck(t)
    BY <1>8, <1>0 DEF OneShotCheck, MayUse
<1>8a. CASE OneShotNoResult(t)
    BY <1>8a, <1>0 DEF OneShotNoResult, MayUse
<1>9. CASE OneShotUnit(t)
    BY <1>9, <1>0 DEF OneShotUnit, NewUnitOk, NewUnitFail
<1>10. CASE OneShotConfig(t)
    BY <1>10, <1>0, <1>a DEF OneShotConfig, DelUnitFault, Dangling
<1>11. CASE OneShotRead(t)
    BY <1>11, <1>0, <1>a DEF OneShotRead, ReadFails, Dangling
<1>12. CASE OneShotReadEnd(t)
    BY <1>12, <1>0 DEF OneShotReadEnd
<1>13. CASE OneShotStore(t)
  <2>1. req[t].n > 0 /\ HasUnit(t) /\ pc[t] \notin Reading
      BY <1>13, <1>0 DEF OneShotStore
  <2>2. ~DelUnitFault
      BY <1>a, <2>1 DEF DelUnitFault, Dangling
  <2> QED BY <1>13, <1>0, <2>1, <2>2 DEF OneShotStore
<1>14. CASE OneShotReset(t)
    BY <1>14, <1>0 DEF OneShotReset
<1>15. CASE ContinuousCheck(t)
    BY <1>15, <1>0 DEF ContinuousCheck, MayUse
<1>16. CASE ContinuousNew(t)
    BY <1>16, <1>0 DEF ContinuousNew
<1>17. CASE ContinuousConfig(t)
    BY <1>17, <1>0 DEF ContinuousConfig
<1>18. CASE ContinuousRegister(t)
    BY <1>18, <1>0 DEF ContinuousRegister
<1>19. CASE ContinuousStart(t)
    BY <1>19, <1>0 DEF ContinuousStart
<1>20. CASE ContinuousLock(t)
    BY <1>20, <1>0 DEF ContinuousLock
<1>21. CASE ReleaseCheck(t)
    BY <1>21, <1>0 DEF ReleaseCheck
<1>22. CASE ReleaseCallback(t)
    BY <1>22, <1>0 DEF ReleaseCallback
<1>23. CASE ReleaseStop(t)
    BY <1>23, <1>0, <1>b DEF ReleaseStop, ObjectIn, NoObject
<1>23a. CASE ReleaseFree(t)
    BY <1>23a, <1>0, <1>b DEF ReleaseFree, ObjectIn, NoObject
<1>24. CASE ReleaseDeinit(t)
    BY <1>24, <1>0 DEF ReleaseDeinit, NoObject, ObjectIn
<1>25. CASE CriticalReleaseCheck(t)
    BY <1>25, <1>0 DEF CriticalReleaseCheck
<1>26. CASE CriticalReleaseDel(t)
    BY <1>26, <1>0, <1>a DEF CriticalReleaseDel, DelUnitFault, Dangling
<1>27. CASE CriticalReleaseClear(t)
    BY <1>27, <1>0 DEF CriticalReleaseClear
<1>28. CASE Calibrate(t)
    BY <1>28, <1>0 DEF Calibrate
<1>29. CASE ADC_IsControllerAvailable(t)
    BY <1>29, <1>0 DEF ADC_IsControllerAvailable
<1>30. CASE GiveMutex(t)
    BY <1>30, <1>0 DEF GiveMutex
<1>31. CASE TakeMutex(t)
    BY <1>31, <1>0 DEF TakeMutex, EntryPoint
<1> QED
    BY <1>1, <1>2, <1>3, <1>4, <1>5, <1>6, <1>7, <1>8, <1>8a, <1>9, <1>10, <1>11,
       <1>12, <1>13, <1>14, <1>15, <1>16, <1>17, <1>18, <1>19, <1>20, <1>21,
       <1>22, <1>23, <1>23a, <1>24, <1>25, <1>26, <1>27, <1>28, <1>29, <1>30, <1>31
    DEF Inside

(* A call that gets the mutex goes to the first point of its function and  *)
(* is neither more nor less of a holder than before.                       *)
LEMMA EntryFacts ==
    ASSUME NEW t \in Task, pc \in [Task -> Locked \cup Unlocked], CallerOK(t), TakeMutex(t),
           UNCHANGED session
    PROVE  /\ \A u \in Task : u # t => pc'[u] = pc[u]
           /\ Reserved(t)' <=> Reserved(t)
           /\ HasUnit(t)' <=> HasUnit(t)
           /\ Holds(t)' <=> Holds(t)
<1>1. /\ pc[t] = "take" /\ pc' = [pc EXCEPT ![t] = EntryPoint[req[t].op]]
      /\ req' = req /\ ret' = ret
    BY DEF TakeMutex
<1> DEFINE p == EntryPoint[req[t].op]
<1>2. /\ req[t].op \in {"Setup", "OneShot", "Continuous", "Calibrate", "Release",
                        "ReleaseCritical", "IsAvailable"}
      /\ ret[t] = "none"
    BY <1>1 DEF CallerOK, PointOf, MayCall, Ended
<1>3. /\ p \in {"setup_check", "one_check", "cont_check", "calibrate", "rel_check",
                "crel_check", "avail"}
      /\ req[t].op = "Release" => p = "rel_check"
      /\ req[t].op = "ReleaseCritical" => p = "crel_check"
    BY <1>2 DEF EntryPoint
<1> HIDE DEF p
<1>4. pc'[t] = p /\ \A u \in Task : u # t => pc'[u] = pc[u]
    BY <1>1 DEF p
<1>5. (Critical(t)' <=> Critical(t)) /\ (Sampling(t)' <=> Sampling(t))
    BY <1>1, <1>2, <1>3, <1>4 DEF Critical, Sampling, Ended
<1>6. HasUnit(t)' <=> HasUnit(t)
    BY <1>1, <1>3, <1>4, <1>5 DEF HasUnit
<1>7. Reserved(t)' <=> Reserved(t)
    BY <1>1, <1>3, <1>4, <1>5, <1>6 DEF Reserved
<1>8. HasObject(t)' <=> HasObject(t)
    BY <1>1, <1>3, <1>4, <1>5 DEF HasObject, ObjectInit, ObjectStarted
<1> QED BY <1>4, <1>6, <1>7, <1>8 DEF Holds

(* One task has the controller and the unit.                               *)
LEMMA TaskStepHolder ==
    ASSUME Rules, Inv, ClientInv, NEW t \in Task, UNCHANGED session,
           TakeMutex(t) \/ Inside(t)
    PROVE  HolderOK'
<1>0. /\ \A u \in Task : CallerOK(u)
      /\ pc \in [Task -> Locked \cup Unlocked] /\ ret \in [Task -> Status]
      /\ HolderOK
    BY DEF ClientInv, Inv, TypeOK
<1>a. /\ pc[t] \in {"setup_check", "one_check", "cont_check"} =>
             /\ active_ctrl_channels # req[t].mask
             /\ active_ctrl_channels = {} => \A u \in Task : ~Holds(u)
    BY FreeForAll
<1>b. HasUnit(t) => oneshot_handle # "NULL"
    BY <1>0 DEF HolderOK
<1> USE DEF Rules, CallerOK, PointOf, MayCall, Ended, HolderOK, Holds, Reserved, HasObject,
            HasUnit, Critical, Sampling, ObjectInit, ObjectStarted, Mask
<1>1. CASE SetupCheck(t)
    BY <1>1, <1>0, <1>a DEF SetupCheck
<1>2. CASE SetupUnit(t)
    BY <1>2, <1>0, <1>a DEF SetupUnit, NewUnitOk, NewUnitFail, Dangling
<1>3. CASE CriticalCheck(t)
    BY <1>3, <1>0, <1>a DEF CriticalCheck
<1>4. CASE CriticalRead(t)
    BY <1>4, <1>0, <1>a DEF CriticalRead, ReadFails, Dangling
<1>5. CASE CriticalReadEnd(t)
    BY <1>5, <1>0, <1>a DEF CriticalReadEnd
<1>6. CASE CriticalStore(t)
    BY <1>6, <1>0, <1>a DEF CriticalStore
<1>7. CASE BadMode(t)
    BY <1>7, <1>0, <1>a DEF BadMode
<1>8. CASE OneShotCheck(t)
    BY <1>8, <1>0, <1>a, SMTT(30) DEF OneShotCheck, MayUse
<1>8a. CASE OneShotNoResult(t)
    BY <1>8a, <1>0, <1>a, SMTT(30) DEF OneShotNoResult, MayUse
<1>9. CASE OneShotUnit(t)
    BY <1>9, <1>0, <1>a DEF OneShotUnit, NewUnitOk, NewUnitFail
<1>10. CASE OneShotConfig(t)
    BY <1>10, <1>0, <1>a DEF OneShotConfig, DelUnitOk, DelUnitFault, UnitInUse, Dangling
<1>11. CASE OneShotRead(t)
    BY <1>11, <1>0, <1>a DEF OneShotRead, ReadFails, Dangling
<1>12. CASE OneShotReadEnd(t)
    BY <1>12, <1>0, <1>a DEF OneShotReadEnd
<1>13. CASE OneShotStore(t)
    BY <1>13, <1>0, <1>a DEF OneShotStore, DelUnitOk, DelUnitFault, UnitInUse, Dangling
<1>14. CASE OneShotReset(t)
    BY <1>14, <1>0, <1>a DEF OneShotReset
<1>15. CASE ContinuousCheck(t)
  <2>1. CASE MayUse(req[t].mask)
      BY <1>15, <1>0, <1>a, <2>1, SMTT(30) DEF ContinuousCheck, MayUse
  <2>2. CASE ~MayUse(req[t].mask)
      BY <1>15, <1>0, <1>a, <2>2, SMTT(30) DEF ContinuousCheck
  <2> QED BY <2>1, <2>2
<1>16. CASE ContinuousNew(t)
    BY <1>16, <1>0, <1>a DEF ContinuousNew
<1>17. CASE ContinuousConfig(t)
    BY <1>17, <1>0, <1>a DEF ContinuousConfig
<1>18. CASE ContinuousRegister(t)
    BY <1>18, <1>0, <1>a DEF ContinuousRegister
<1>19. CASE ContinuousStart(t)
    BY <1>19, <1>0, <1>a DEF ContinuousStart
<1>20. CASE ContinuousLock(t)
    BY <1>20, <1>0, <1>a DEF ContinuousLock
<1>21. CASE ReleaseCheck(t)
    BY <1>21, <1>0, <1>a DEF ReleaseCheck
<1>22. CASE ReleaseCallback(t)
    BY <1>22, <1>0, <1>a DEF ReleaseCallback
<1>23. CASE ReleaseStop(t)
    BY <1>23, <1>0, <1>a DEF ReleaseStop, NoObject, ObjectIn
<1>23a. CASE ReleaseFree(t)
    BY <1>23a, <1>0, <1>a DEF ReleaseFree, NoObject, ObjectIn
<1>24. CASE ReleaseDeinit(t)
    BY <1>24, <1>0, <1>a DEF ReleaseDeinit, NoObject, ObjectIn
<1>25. CASE CriticalReleaseCheck(t)
    BY <1>25, <1>0, ReservedForMe DEF CriticalReleaseCheck
<1>26. CASE CriticalReleaseDel(t)
    BY <1>26, <1>0, <1>b DEF CriticalReleaseDel, DelUnitOk
<1>27. CASE CriticalReleaseClear(t)
    BY <1>27, <1>0, <1>a DEF CriticalReleaseClear
<1>28. CASE Calibrate(t)
    BY <1>28, <1>0, <1>a DEF Calibrate
<1>29. CASE ADC_IsControllerAvailable(t)
    BY <1>29, <1>0, <1>a DEF ADC_IsControllerAvailable
<1>30. CASE GiveMutex(t)
    BY <1>30, <1>0, <1>a DEF GiveMutex
<1>31. CASE TakeMutex(t)
  <2>1. UNCHANGED <<active_ctrl_channels, oneshot_handle, unit_claimed, req, ret, session>>
      BY <1>31 DEF TakeMutex
  <2>2. /\ \A u \in Task : u # t => pc'[u] = pc[u]
        /\ Reserved(t)' <=> Reserved(t)
        /\ HasUnit(t)' <=> HasUnit(t)
        /\ Holds(t)' <=> Holds(t)
      BY ONLY <1>31, <1>0, <2>1, EntryFacts
  <2>3. \A u \in Task : /\ Reserved(u)' <=> Reserved(u)
                        /\ HasUnit(u)' <=> HasUnit(u)
                        /\ Holds(u)' <=> Holds(u)
                        /\ Mask(u)' = Mask(u)
      BY <2>1, <2>2
  <2> QED BY ONLY <1>0, <2>1, <2>3 DEF HolderOK
<1> QED
    BY <1>1, <1>2, <1>3, <1>4, <1>5, <1>6, <1>7, <1>8, <1>8a, <1>9, <1>10, <1>11,
       <1>12, <1>13, <1>14, <1>15, <1>16, <1>17, <1>18, <1>19, <1>20, <1>21,
       <1>22, <1>23, <1>23a, <1>24, <1>25, <1>26, <1>27, <1>28, <1>29, <1>30, <1>31
    DEF Inside

(* The continuous object is where its task has got to.                     *)
LEMMA TaskStepObject ==
    ASSUME Rules, Inv, ClientInv, NEW t \in Task, UNCHANGED session,
           TakeMutex(t) \/ Inside(t)
    PROVE  ObjectOK'
<1>0. /\ \A u \in Task : CallerOK(u)
      /\ pc \in [Task -> Locked \cup Unlocked] /\ ret \in [Task -> Status]
      /\ cont_fsm \in [Handle -> {"free", "init", "starting", "started", "freeing"}]
      /\ continuous_handle \in Handle \cup {NoHandle} /\ gdma_conn \in Handle \cup {NoHandle}
      /\ ObjectOK /\ NoHandle \notin Handle /\ NoTask \notin Task
      /\ \A u \in Task : Holds(u) /\ Holds(t) => u = t
    BY ConstantsAssumption DEF ClientInv, HolderOK, Inv, TypeOK
<1> USE DEF Rules, CallerOK, PointOf, MayCall, Ended, ObjectOK, Holds, Reserved, HasObject,
            HasUnit, Critical, Sampling, ObjectInit, ObjectStarted
<1>1. CASE SetupCheck(t)
    BY <1>1, <1>0 DEF SetupCheck
<1>2. CASE SetupUnit(t)
    BY <1>2, <1>0 DEF SetupUnit, NewUnitOk, NewUnitFail, Dangling
<1>3. CASE CriticalCheck(t)
    BY <1>3, <1>0 DEF CriticalCheck
<1>4. CASE CriticalRead(t)
    BY <1>4, <1>0 DEF CriticalRead, ReadFails, Dangling
<1>5. CASE CriticalReadEnd(t)
    BY <1>5, <1>0 DEF CriticalReadEnd
<1>6. CASE CriticalStore(t)
    BY <1>6, <1>0 DEF CriticalStore
<1>7. CASE BadMode(t)
    BY <1>7, <1>0 DEF BadMode
<1>8. CASE OneShotCheck(t)
    BY <1>8, <1>0 DEF OneShotCheck, MayUse
<1>8a. CASE OneShotNoResult(t)
    BY <1>8a, <1>0 DEF OneShotNoResult, MayUse
<1>9. CASE OneShotUnit(t)
    BY <1>9, <1>0 DEF OneShotUnit, NewUnitOk, NewUnitFail
<1>10. CASE OneShotConfig(t)
    BY <1>10, <1>0 DEF OneShotConfig, DelUnitOk, DelUnitFault, UnitInUse, Dangling
<1>11. CASE OneShotRead(t)
    BY <1>11, <1>0 DEF OneShotRead, ReadFails, Dangling
<1>12. CASE OneShotReadEnd(t)
    BY <1>12, <1>0 DEF OneShotReadEnd
<1>13. CASE OneShotStore(t)
    BY <1>13, <1>0 DEF OneShotStore, DelUnitOk, DelUnitFault, UnitInUse, Dangling
<1>14. CASE OneShotReset(t)
    BY <1>14, <1>0 DEF OneShotReset
<1>15. CASE ContinuousCheck(t)
    BY <1>15, <1>0 DEF ContinuousCheck, MayUse
<1>16. CASE ContinuousNew(t)
    BY <1>16, <1>0 DEF ContinuousNew
<1>17. CASE ContinuousConfig(t)
    BY <1>17, <1>0 DEF ContinuousConfig
<1>18. CASE ContinuousRegister(t)
    BY <1>18, <1>0 DEF ContinuousRegister
<1>19. CASE ContinuousStart(t)
    BY <1>19, <1>0 DEF ContinuousStart
<1>20. CASE ContinuousLock(t)
    BY <1>20, <1>0 DEF ContinuousLock
<1>21. CASE ReleaseCheck(t)
    BY <1>21, <1>0, ReservedForMe DEF ReleaseCheck
<1>22. CASE ReleaseCallback(t)
    BY <1>22, <1>0 DEF ReleaseCallback
<1>23. CASE ReleaseStop(t)
    BY <1>23, <1>0 DEF ReleaseStop, NoObject, ObjectIn
<1>23a. CASE ReleaseFree(t)
    BY <1>23a, <1>0 DEF ReleaseFree, NoObject, ObjectIn
<1>24. CASE ReleaseDeinit(t)
    BY <1>24, <1>0 DEF ReleaseDeinit, NoObject, ObjectIn
<1>25. CASE CriticalReleaseCheck(t)
    BY <1>25, <1>0 DEF CriticalReleaseCheck
<1>26. CASE CriticalReleaseDel(t)
    BY <1>26, <1>0 DEF CriticalReleaseDel, DelUnitOk, DelUnitFault, UnitInUse, Dangling
<1>27. CASE CriticalReleaseClear(t)
    BY <1>27, <1>0 DEF CriticalReleaseClear
<1>28. CASE Calibrate(t)
    BY <1>28, <1>0 DEF Calibrate
<1>29. CASE ADC_IsControllerAvailable(t)
    BY <1>29, <1>0 DEF ADC_IsControllerAvailable
<1>30. CASE GiveMutex(t)
    BY <1>30, <1>0 DEF GiveMutex
<1>31. CASE TakeMutex(t)
    BY <1>31, <1>0 DEF TakeMutex, EntryPoint
<1> QED
    BY <1>1, <1>2, <1>3, <1>4, <1>5, <1>6, <1>7, <1>8, <1>8a, <1>9, <1>10, <1>11,
       <1>12, <1>13, <1>14, <1>15, <1>16, <1>17, <1>18, <1>19, <1>20, <1>21,
       <1>22, <1>23, <1>23a, <1>24, <1>25, <1>26, <1>27, <1>28, <1>29, <1>30, <1>31
    DEF Inside

(* An object is freed once its interrupt has ended, and made when there is *)
(* none that could have an interrupt.                                      *)
LEMMA TaskStepIsr ==
    ASSUME Rules, Inv, ClientInv, NEW t \in Task, UNCHANGED session,
           TakeMutex(t) \/ Inside(t)
    PROVE  IsrOK'
<1>0. /\ IsrOK /\ cont_fsm \in [Handle -> {"free", "init", "starting", "started", "freeing"}]
      /\ continuous_handle \in Handle \cup {NoHandle} /\ isr \in Handle \cup {NoHandle}
      /\ pc \in [Task -> Locked \cup Unlocked]
      /\ req[t].op # "none" => req[t].op \in DOMAIN EntryPoint \cup {"Critical"}
    BY RequestEntry DEF ClientInv, Inv, TypeOK, NoRequest
<1> DEFINE Starting == {"cont_config", "cont_register", "cont_start", "cont_lock"}
<1>1. CASE ContinuousNew(t)
  <2>1. ASSUME isr # NoHandle PROVE FALSE
    <3>1. cont_fsm[isr] # "free" /\ isr \in Handle
        BY <1>0, <2>1 DEF IsrOK
    <3>2. PICK u \in Task : HasObject(u)
        BY <3>1 DEF ClientInv, ObjectOK
    <3>3. pc[t] = "cont_new" /\ CallerOK(t)
        BY <1>1 DEF ContinuousNew, ClientInv
    <3>4. u = t
        BY <3>2, <3>3 DEF ClientInv, HolderOK, Holds, Reserved
    <3> QED BY <3>2, <3>3, <3>4
        DEF HasObject, ObjectInit, ObjectStarted, Sampling, CallerOK, PointOf, MayCall, Ended
  <2>2. isr' = isr
      BY <1>1 DEF ContinuousNew
  <2> QED BY <2>1, <2>2 DEF IsrOK
<1>2. CASE ContinuousConfig(t) \/ ContinuousRegister(t) \/ ContinuousStart(t) \/ ContinuousLock(t)
    BY <1>0, <1>2 DEF ContinuousConfig, ContinuousRegister, ContinuousStart, ContinuousLock, IsrOK
<1>3. CASE ReleaseStop(t) \/ ReleaseFree(t)
    BY <1>0, <1>3 DEF ReleaseStop, ReleaseFree, IsrOK, NoObject
<1>4. CASE ReleaseDeinit(t)
    BY <1>0, <1>4 DEF ReleaseDeinit, IsrOK, NoObject
<1>5. ASSUME UNCHANGED <<cont_fsm, isr>>, pc' = [pc EXCEPT ![t] = pc'[t]], pc'[t] \notin Starting
      PROVE  IsrOK'
    BY <1>0, <1>5 DEF IsrOK
<1>6. CASE TakeMutex(t)
  <2>1. pc[t] = "take" /\ pc' = [pc EXCEPT ![t] = EntryPoint[req[t].op]] /\ UNCHANGED <<cont_fsm, isr>>
      BY <1>6 DEF TakeMutex
  <2>2. req[t].op \in DOMAIN EntryPoint
      BY <2>1 DEF Inv, Safe, PhaseInvariant
  <2>3. EntryPoint[req[t].op] \notin Starting
      BY <2>2 DEF EntryPoint
  <2>4. pc'[t] = EntryPoint[req[t].op]
      BY <1>0, <2>1
  <2> QED BY <1>5, <2>1, <2>3, <2>4
<1>7. CASE \/ SetupCheck(t) \/ SetupUnit(t) \/ CriticalCheck(t) \/ CriticalRead(t)
           \/ CriticalReadEnd(t) \/ CriticalStore(t) \/ BadMode(t)
    BY <1>0, <1>7 DEF IsrOK, SetupCheck, SetupUnit, CriticalCheck, CriticalRead,
       CriticalReadEnd, CriticalStore, BadMode
<1>8. CASE \/ OneShotCheck(t) \/ OneShotNoResult(t) \/ OneShotUnit(t) \/ OneShotConfig(t)
           \/ OneShotRead(t) \/ OneShotReadEnd(t) \/ OneShotStore(t) \/ OneShotReset(t)
    BY <1>0, <1>8 DEF IsrOK, OneShotCheck, OneShotNoResult, OneShotUnit, OneShotConfig,
       OneShotRead, OneShotReadEnd, OneShotStore, OneShotReset
<1>9. CASE \/ ContinuousCheck(t) \/ ReleaseCheck(t) \/ ReleaseCallback(t)
           \/ CriticalReleaseCheck(t) \/ CriticalReleaseDel(t) \/ CriticalReleaseClear(t)
           \/ Calibrate(t) \/ ADC_IsControllerAvailable(t) \/ GiveMutex(t)
    BY <1>0, <1>9 DEF IsrOK, ContinuousCheck, ReleaseCheck, ReleaseCallback,
       CriticalReleaseCheck, CriticalReleaseDel, CriticalReleaseClear, Calibrate,
       ADC_IsControllerAvailable, GiveMutex
<1> QED BY <1>1, <1>2, <1>3, <1>4, <1>6, <1>7, <1>8, <1>9 DEF Inside

(* A step of a task inside a function. *)
LEMMA TaskStepClient ==
    ASSUME Rules, Inv, ClientInv, NEW t \in Task, UNCHANGED session, fault = "none",
           TakeMutex(t) \/ Inside(t)
    PROVE  ClientInv'
<1>1. UNCHANGED initialised
    BY DEF TakeMutex, Inside, SetupCheck, SetupUnit, CriticalCheck, CriticalRead,
           CriticalReadEnd, CriticalStore, BadMode, OneShotCheck, OneShotNoResult, OneShotUnit, OneShotConfig,
           OneShotRead, OneShotReadEnd, OneShotStore, OneShotReset, ContinuousCheck,
           ContinuousNew, ContinuousConfig, ContinuousRegister, ContinuousStart,
           ContinuousLock, ReleaseCheck, ReleaseCallback, ReleaseStop, ReleaseFree, ReleaseDeinit,
           CriticalReleaseCheck, CriticalReleaseDel, CriticalReleaseClear, Calibrate,
           ADC_IsControllerAvailable, GiveMutex
<1>2. /\ session' \in [Task -> Session]
      /\ ~initialised' => \A u \in Task : session'[u] = NoSession
    BY <1>1 DEF ClientInv
<1> QED BY <1>2, TaskStepCaller, TaskStepSound, TaskStepHolder, TaskStepObject, TaskStepIsr
    DEF ClientInv, OnlyReleaseRace

(* A call: the task has what its session had. *)
LEMMA ClientCallInv ==
    ASSUME Rules, Inv, ClientInv, NEW t \in Task, ClientCall(t), fault = "none"
    PROVE  ClientInv'
<1>1. PICK r \in Request : Allowed(t, r) /\ Call(t, r)
    BY DEF ClientCall
<1>2. MayCall(t, session[t], r)
    BY <1>1, AllowedMayCall
<1>3. /\ pc \in [Task -> Locked \cup Unlocked] /\ req \in [Task -> Request \cup {NoRequest}]
      /\ pc[t] = "idle" /\ pc' = [pc EXCEPT ![t] = IF r.op = "Critical" THEN "crit_check" ELSE "take"]
      /\ req' = [req EXCEPT ![t] = r]
      /\ UNCHANGED <<ctrlVars, sdkVars, lost, ret, fault, session>>
    BY <1>1 DEF Inv, TypeOK, Call, ClientCall
<1>4. \A u \in Task : CallerOK(u) /\ req[t].op = "none"
    BY <1>3 DEF ClientInv, CallerOK, PointOf
<1>5. r.op # "none"
    BY <1>2 DEF MayCall
<1>6. \A u \in Task : CallerOK(u)'
    BY <1>2, <1>3, <1>4, <1>5 DEF CallerOK, PointOf, Ended
<1>7. /\ \A u \in Task : u # t => pc'[u] = pc[u] /\ req'[u] = req[u]
      /\ pc'[t] \in {"take", "crit_check"} /\ req'[t] = r
    BY <1>3
<1>8. ASSUME NEW u \in Task
      PROVE  /\ HasUnit(u)' <=> HasUnit(u)
             /\ Sampling(u)' <=> Sampling(u)
             /\ ObjectInit(u)' <=> ObjectInit(u)
             /\ ObjectStarted(u)' <=> ObjectStarted(u)
             /\ HasObject(u)' <=> HasObject(u)
             /\ Reserved(u)' <=> Reserved(u)
             /\ Holds(u)' <=> Holds(u)
             /\ Reserved(u) => Mask(u)' = Mask(u)
             /\ pc'[u] \in {"take", "crit_check", "idle"} \/ pc'[u] = pc[u]
             /\ pc'[u] # pc[u] => pc[u] \in {"idle", "return"}
  <2>1. CASE u # t
      BY <1>3, <1>7, <2>1, Unaffected
  <2>2. CASE u = t
    <3>1. pc'[t] = IF r.op = "Critical" THEN "crit_check" ELSE "take"
        BY <1>3
    <3> QED BY <1>2, <1>3, <1>4, <1>7, <2>2, <3>1
        DEF Critical, Sampling, HasUnit, ObjectInit, ObjectStarted, HasObject, Reserved, Holds,
            Mask, Ended, MayCall
  <2> QED BY <2>1, <2>2
<1>9. HolderOK'
    BY <1>3, <1>8 DEF ClientInv, HolderOK
<1>10. ObjectOK'
    BY <1>3, <1>8 DEF ClientInv, ObjectOK
<1>11. IsrOK'
    BY <1>3, <1>8 DEF ClientInv, IsrOK
<1>12. LostOK'
    BY <1>3, <1>4, <1>7 DEF ClientInv, LostOK
<1> QED BY <1>3, <1>6, <1>9, <1>10, <1>11, <1>12 DEF ClientInv, OnlyReleaseRace

(* A return: what the task knows is what it has. *)
LEMMA ClientReturnInv ==
    ASSUME Rules, Inv, ClientInv, NEW t \in Task, ClientReturn(t), fault = "none"
    PROVE  ClientInv'
<1>1. /\ pc \in [Task -> Locked \cup Unlocked] /\ req \in [Task -> Request \cup {NoRequest}]
      /\ ret \in [Task -> Status] /\ session \in [Task -> Session]
      /\ pc[t] = "return" /\ pc' = [pc EXCEPT ![t] = "idle"]
      /\ req' = [req EXCEPT ![t] = NoRequest] /\ ret' = [ret EXCEPT ![t] = "none"]
      /\ session' = [session EXCEPT ![t] = NextSession(t)]
      /\ lost' = lost \ {t}
      /\ UNCHANGED <<ctrlVars, sdkVars, fault>>
    BY DEF Inv, TypeOK, Return, ClientReturn, ClientInv
<1>2. /\ \A u \in Task : u # t => /\ pc'[u] = pc[u] /\ req'[u] = req[u]
                                  /\ ret'[u] = ret[u] /\ session'[u] = session[u]
      /\ pc'[t] = "idle" /\ req'[t] = NoRequest /\ ret'[t] = "none"
      /\ session'[t] = NextSession(t)
    BY <1>1
<1>3. CallerOK(t) /\ pc[t] = "return"
    BY <1>1 DEF ClientInv
(* What NextSession makes of the session. *)
<1>4. /\ req[t].op = "Setup" /\ ret[t] = "SUCCESS" =>
            NextSession(t) = [kind |-> "critical", mask |-> req[t].mask]
      /\ req[t].op = "Continuous" /\ ret[t] = "SUCCESS" =>
            NextSession(t) = [kind |-> "continuous", mask |-> req[t].mask]
      /\ req[t].op \in {"Release", "ReleaseCritical"} => NextSession(t) = NoSession
      /\ ~(req[t].op \in {"Setup", "Continuous"} /\ ret[t] = "SUCCESS")
         /\ req[t].op \notin {"Release", "ReleaseCritical"} => NextSession(t) = session[t]
    BY <1>3 DEF NextSession, CallerOK, Ended
<1>5. req[t].op \in {"Setup", "Continuous"} =>
          /\ session[t].kind = "none" /\ req[t].mask \in Owned(t) /\ req[t].mask \subseteq Channel
    BY <1>3, OwnedFacts DEF CallerOK, PointOf, MayCall
<1>6. NextSession(t) \in Session /\ (NextSession(t).kind = "none" \/ NextSession(t).mask \in Owned(t))
    BY <1>1, <1>3, <1>4, <1>5 DEF Session, NoSession, CallerOK
<1>7. \A u \in Task : CallerOK(u)'
  <2>1. CallerOK(t)'
      BY <1>2, <1>6 DEF CallerOK, PointOf, Ended, NoRequest
  <2>2. ASSUME NEW u \in Task, u # t PROVE CallerOK(u)'
    <3>1. CallerOK(u)
        BY DEF ClientInv
    <3> QED BY <1>2, <2>2, <3>1, Unaffected
  <2> QED BY <2>1, <2>2
<1>8. ASSUME NEW u \in Task
      PROVE  /\ HasUnit(u)' <=> HasUnit(u)
             /\ Sampling(u)' <=> Sampling(u)
             /\ ObjectInit(u)' <=> ObjectInit(u)
             /\ ObjectStarted(u)' <=> ObjectStarted(u)
             /\ HasObject(u)' <=> HasObject(u)
             /\ Reserved(u)' <=> Reserved(u)
             /\ Holds(u)' <=> Holds(u)
             /\ Reserved(u) => Mask(u)' = Mask(u)
             /\ pc'[u] \in {"take", "crit_check", "idle"} \/ pc'[u] = pc[u]
             /\ pc'[u] # pc[u] => pc[u] \in {"idle", "return"}
  <2>1. CASE u # t
      BY <1>2, <2>1, Unaffected
  <2>2. CASE u = t
    <3>1. Critical(t)' <=> Critical(t)
        BY <1>2, <1>3, <1>4, <1>5 DEF Critical, Ended, NoRequest, NoSession, CallerOK, PointOf, MayCall
    <3>2. Sampling(t)' <=> Sampling(t)
        BY <1>2, <1>3, <1>4, <1>5 DEF Sampling, Ended, NoRequest, NoSession, CallerOK, PointOf, MayCall
    <3>3. Critical(t) \/ Sampling(t) => Mask(t)' = Mask(t)
        BY <1>2, <1>3, <1>4, <1>5 DEF Mask, Critical, Sampling, Ended, NoRequest, NoSession, CallerOK, PointOf, MayCall
    <3> QED BY <1>2, <1>3, <2>2, <3>1, <3>2, <3>3
        DEF HasUnit, ObjectInit, ObjectStarted, HasObject, Reserved, Holds
  <2> QED BY <2>1, <2>2
<1>9. HolderOK'
    BY <1>1, <1>8 DEF ClientInv, HolderOK
<1>10. ObjectOK'
    BY <1>1, <1>8 DEF ClientInv, ObjectOK
<1>11. initialised
    BY <1>1 DEF Inv, Safe, PhaseInvariant
<1>12. session' \in [Task -> Session] /\ LostOK' /\ OnlyReleaseRace'
    BY <1>1, <1>2, <1>6 DEF ClientInv, OnlyReleaseRace, LostOK
<1>13. IsrOK'
    BY <1>1, <1>8 DEF ClientInv, IsrOK
<1> QED BY <1>1, <1>7, <1>9, <1>10, <1>11, <1>12, <1>13 DEF ClientInv

(* The interrupt, which may find the callback gone or its buffers freed if *)
(* a release is under way, and the initialisation, before which nobody has *)
(* a session.                                                              *)
LEMMA InterruptClient ==
    ASSUME Inv, ClientInv, fault = "none", UNCHANGED session,
           Interrupt \/ (~initialised /\ ADC_InitController)
    PROVE  ClientInv'
<1>1. UNCHANGED callVars
    BY DEF Interrupt, IsrFrame, IsrCall, IsrLeave, IsrEnter, ADC_InitController
<1>2. /\ UNCHANGED <<pc, req, ret, lost>> /\ session' \in [Task -> Session]
      /\ \A u \in Task : CallerOK(u)
    BY <1>1 DEF ClientInv
<1>3. /\ \A u \in Task : CallerOK(u)' /\ (HasUnit(u)' <=> HasUnit(u)) /\ (Sampling(u)' <=> Sampling(u))
      /\ \A u \in Task : (ObjectInit(u)' <=> ObjectInit(u)) /\ (ObjectStarted(u)' <=> ObjectStarted(u))
      /\ \A u \in Task : (HasObject(u)' <=> HasObject(u)) /\ (Reserved(u)' <=> Reserved(u))
      /\ \A u \in Task : (Holds(u)' <=> Holds(u)) /\ Mask(u)' = Mask(u)
      /\ LostOK'
    BY <1>2, Unaffected DEF ClientInv, LostOK
<1>4. CASE Interrupt
  <2>1. UNCHANGED <<ctrlVars, unit_claimed, cont_fsm, gdma_conn, adc1_lock>>
      BY <1>4 DEF Interrupt, IsrFrame, IsrCall, IsrLeave, IsrEnter
  <2>2. HolderOK'
      BY <1>3, <2>1 DEF ClientInv, HolderOK
  <2>3. ObjectOK'
      BY <1>2, <1>3, <2>1 DEF ClientInv, ObjectOK
  <2>4. ASSUME NEW h \in Handle, cont_fsm[h] # "free"
        PROVE  h = continuous_handle /\ \E u \in Task : HasObject(u)
      BY <2>4 DEF ClientInv, ObjectOK
  <2>5. IsrOK'
    <3>1. CASE isr' = isr \/ isr' = NoHandle
        BY <1>2, <2>1, <3>1 DEF ClientInv, IsrOK
    <3>2. ASSUME NEW h \in Handle, IsrEnter(h) PROVE IsrOK'
      <4>1. isr' = h /\ cont_fsm[h] = "started"
          BY <3>2 DEF IsrEnter
      <4>2. ASSUME NEW u \in Task, pc[u] \in {"cont_config", "cont_register", "cont_start", "cont_lock"}
            PROVE  FALSE
        <5>1. HasObject(u) /\ (ObjectInit(u) \/ pc[u] = "cont_lock")
            BY <4>2 DEF HasObject, ObjectInit
        <5>2. cont_fsm[continuous_handle] \in {"init", "starting"}
            BY <5>1 DEF ClientInv, ObjectOK
        <5> QED BY <2>4, <4>1, <5>2
      <4> QED BY <1>2, <2>1, <4>1, <4>2 DEF IsrOK
    <3> QED BY <1>4, <3>1, <3>2 DEF Interrupt, IsrFrame, IsrCall, IsrLeave
  <2>6. ASSUME isr_at # "idle"
        PROVE  \E u \in Task : /\ HasObject(u) /\ isr = continuous_handle /\ isr \in Handle
                               /\ Sampling(u) \/ pc[u] \in {"rel_callback", "rel_stop", "rel_free", "rel_deinit"}
    <3>1. isr \in Handle /\ isr # NoHandle
        BY <2>6 DEF Inv, TypeOK, Safe, PhaseInvariant
    <3>2. isr = continuous_handle /\ \E u \in Task : HasObject(u)
        BY <2>4, <3>1 DEF ClientInv, IsrOK
    <3>3. PICK u \in Task : HasObject(u)
        BY <3>2
    <3>4. Sampling(u) \/ pc[u] \in {"rel_callback", "rel_stop", "rel_free", "rel_deinit"}
        BY <3>1, <3>3 DEF ClientInv, IsrOK, HasObject, ObjectInit, ObjectStarted
    <3> QED BY <3>1, <3>2, <3>3, <3>4
  <2>7. OnlyReleaseRace'
    <3>1. CASE fault' = "none"
        BY <3>1 DEF OnlyReleaseRace
    <3>2. CASE fault' = "freed_dma" /\ BuffersFreed(isr) /\ isr_at # "idle"
      <4>1. PICK u \in Task : /\ HasObject(u) /\ isr = continuous_handle /\ isr \in Handle
                              /\ Sampling(u) \/ pc[u] \in {"rel_callback", "rel_stop", "rel_free", "rel_deinit"}
          BY <2>6, <3>2
      <4>2. cont_fsm[continuous_handle] \in {"freeing", "free"}
          BY <3>2, <4>1 DEF BuffersFreed
      <4>3. pc[u] = "rel_deinit"
          BY <4>1, <4>2 DEF ClientInv, ObjectOK, ObjectStarted, ObjectInit
      <4> QED BY <1>2, <3>2, <4>3 DEF OnlyReleaseRace
    <3>3. CASE fault' = "null_callback" /\ active_continuous_callback = NoTask /\ isr_at # "idle"
      <4>1. PICK u \in Task : /\ HasObject(u) /\ isr = continuous_handle /\ isr \in Handle
                              /\ Sampling(u) \/ pc[u] \in {"rel_callback", "rel_stop", "rel_free", "rel_deinit"}
          BY <2>6, <3>3
      <4>2. pc[u] \in {"rel_stop", "rel_free", "rel_deinit"}
          BY <3>3, <4>1, ConstantsAssumption DEF ClientInv, ObjectOK
      <4> QED BY <1>2, <3>3, <4>2 DEF OnlyReleaseRace
    <3> QED BY <1>4, <3>1, <3>2, <3>3 DEF Interrupt, IsrFrame, IsrCall, IsrLeave, IsrEnter
  <2> QED BY <1>2, <1>3, <2>1, <2>2, <2>3, <2>5, <2>7 DEF ClientInv
<1>5. CASE ~initialised /\ ADC_InitController
  <2>1. /\ ~initialised
        /\ UNCHANGED <<unit_claimed, cont_fsm, gdma_conn, adc1_lock, isr, fault>>
        /\ active_ctrl_channels' = {}
      BY <1>5 DEF ADC_InitController
  <2>2. ASSUME NEW u \in Task PROVE ~Holds(u)
    <3>1. pc[u] = "idle" /\ session[u] = NoSession
        BY <2>1 DEF Inv, Safe, PhaseInvariant, ClientInv
    <3> QED BY <3>1 DEF Holds, Reserved, HasUnit, HasObject, ObjectInit, ObjectStarted,
                         Critical, Sampling, Ended, NoSession
  <2>3. HolderOK'
      BY <1>3, <2>1, <2>2 DEF ClientInv, HolderOK, Holds, Reserved
  <2>4. ObjectOK'
      BY <1>3, <2>1, <2>2 DEF ClientInv, ObjectOK, Holds
  <2>5. IsrOK' /\ OnlyReleaseRace'
      BY <1>2, <2>1 DEF ClientInv, IsrOK, OnlyReleaseRace
  <2>6. \A u \in Task : session'[u] = NoSession
      BY <2>1 DEF ClientInv
  <2> QED BY <1>2, <1>3, <2>1, <2>3, <2>4, <2>5, <2>6 DEF ClientInv
<1> QED BY <1>4, <1>5

(* The state after a start of the program. *)
LEMMA ClientInitInv == ClientInit => ClientInv
<1> SUFFICES ASSUME ClientInit PROVE ClientInv
    OBVIOUS
<1>1. /\ \A t \in Task : /\ pc[t] = "idle" /\ req[t] = NoRequest /\ ret[t] = "none"
                         /\ session[t] = NoSession
      /\ active_ctrl_channels = {} /\ ~unit_claimed /\ \A h \in Handle : cont_fsm[h] = "free"
      /\ gdma_conn = NoHandle /\ isr = NoHandle /\ lost = {} /\ fault = "none"
    BY DEF ClientInit, Init
<1>2. session \in [Task -> Session]
    BY DEF ClientInit, Session, NoSession
<1>3. \A t \in Task : CallerOK(t)
    BY <1>1 DEF CallerOK, PointOf, Ended, NoRequest, NoSession
<1>4. \A t \in Task : ~Holds(t)
    BY <1>1 DEF Holds, Reserved, HasUnit, HasObject, ObjectInit, ObjectStarted, Critical,
                Sampling, Ended, NoRequest, NoSession
<1>5. HolderOK /\ ObjectOK
    BY <1>1, <1>4 DEF HolderOK, ObjectOK, Holds, Reserved
<1> QED BY <1>1, <1>2, <1>3, <1>5 DEF ClientInv, OnlyReleaseRace, IsrOK, LostOK

(* Every step. *)
LEMMA ClientNextInv ==
    ASSUME Rules
    PROVE  Inv /\ ClientInv /\ [ClientNext]_cvars => ClientInv'
<1> SUFFICES ASSUME Inv, ClientInv, [ClientNext]_cvars PROVE ClientInv'
    OBVIOUS
<1>1. ASSUME NEW t \in Task, TakeMutex(t) \/ Inside(t), UNCHANGED session, fault = "none" PROVE ClientInv'
    BY <1>1, TaskStepClient
<1>2. CASE fault = "none" /\ (ClientStart \/ (Interrupt /\ UNCHANGED session))
    BY <1>2, InterruptClient DEF ClientStart
<1>3. ASSUME NEW t \in Task, ClientCall(t), fault = "none" PROVE ClientInv'
    BY <1>3, ClientCallInv
<1>4. ASSUME NEW t \in Task, ClientReturn(t), fault = "none" PROVE ClientInv'
    BY <1>4, ClientReturnInv
<1>5. CASE ClientReboot
  <2>1. ClientInit'
      BY <1>5 DEF ClientReboot, Reboot, ClientInit, Init
  <2> QED BY <2>1, ClientInitInv, PTL
<1>6. CASE UNCHANGED cvars
  <2>1. \A u \in Task : CallerOK(u)
      BY DEF ClientInv
  <2>2. /\ \A u \in Task : CallerOK(u)' /\ (HasUnit(u)' <=> HasUnit(u)) /\ (Sampling(u)' <=> Sampling(u))
        /\ \A u \in Task : (ObjectInit(u)' <=> ObjectInit(u)) /\ (ObjectStarted(u)' <=> ObjectStarted(u))
        /\ \A u \in Task : (HasObject(u)' <=> HasObject(u)) /\ (Reserved(u)' <=> Reserved(u))
        /\ \A u \in Task : (Holds(u)' <=> Holds(u)) /\ Mask(u)' = Mask(u)
      BY <1>6, <2>1, Unaffected DEF cvars, vars
  <2>3. HolderOK'
      BY <1>6, <2>2 DEF ClientInv, HolderOK, cvars, vars
  <2>4. ObjectOK'
      BY <1>6, <2>2 DEF ClientInv, ObjectOK, cvars, vars
  <2> QED BY <1>6, <2>2, <2>3, <2>4 DEF ClientInv, OnlyReleaseRace, IsrOK, LostOK, cvars, vars
<1> QED BY <1>1, <1>2, <1>3, <1>4, <1>5, <1>6 DEF ClientNext, Run

(* Disciplined clients are clients: what holds of the controller whatever  *)
(* is called holds here.                                                   *)
THEOREM ClientsAreClients == ClientSpec => Spec
<1>1. ClientInit => Init
    BY DEF ClientInit
<1>2. [ClientNext]_cvars => [Next]_vars
    BY DEF ClientNext, Next, ClientStart, ClientCall, ClientReturn, ClientReboot, cvars
<1> QED BY <1>1, <1>2, PTL DEF ClientSpec, Spec

(* The invariant of disciplined clients. *)
THEOREM ClientInvariance ==
    ASSUME Rules
    PROVE  ClientSpec => [](Inv /\ ClientInv)
<1>1. Inv /\ ClientInv /\ [ClientNext]_cvars => ClientInv'
    BY ClientNextInv
<1> QED BY <1>1, ClientInitInv, ClientsAreClients, Invariance, PTL DEF ClientSpec

-----------------------------------------------------------------------------
(* With clients that keep to the header's rules, the races of the          *)
(* interrupt with an ADC_ReleaseAdcController in progress, on the callback *)
(* and on the buffers, are the only way to stop the program.               *)
THEOREM OnlyReleaseRaces ==
    ASSUME Rules
    PROVE  ClientSpec => []OnlyReleaseRace
<1>1. ClientInv => OnlyReleaseRace
    BY DEF ClientInv
<1> QED BY <1>1, ClientInvariance, PTL

(* One session at a time, for which the controller is reserved and whose   *)
(* hardware exists.                                                        *)
THEOREM SessionsExclude ==
    ASSUME Rules
    PROVE  ClientSpec => []SessionExclusive
<1>1. ASSUME ClientInv, NEW t \in Task, InSession(t)
      PROVE  /\ Reserved(t) /\ active_ctrl_channels = session[t].mask
             /\ session[t].kind = "critical" => Critical(t)
             /\ session[t].kind = "continuous" => Sampling(t)
             /\ session[t].kind \in {"critical", "continuous"}
  <2>1. session[t].kind \in {"none", "critical", "continuous"}
      BY <1>1 DEF ClientInv, Session
  <2>2. /\ session[t].kind = "critical" => Critical(t)
        /\ session[t].kind = "continuous" => Sampling(t)
        /\ session[t].kind \in {"critical", "continuous"}
      BY <1>1, <2>1 DEF InSession, Critical, Sampling
  <2>3. Reserved(t) /\ Mask(t) = session[t].mask
      BY <2>2 DEF Reserved, HasUnit, Mask
  <2> QED BY <1>1, <2>2, <2>3 DEF ClientInv, HolderOK
<1>2. ASSUME ClientInv PROVE SessionExclusive
  <2>1. \A t, u \in Task : InSession(t) /\ InSession(u) => t = u
      BY <1>1, <1>2 DEF ClientInv, HolderOK, Holds
  <2>2. ASSUME NEW t \in Task, InSession(t)
        PROVE  /\ active_ctrl_channels = session[t].mask
               /\ session[t].kind = "critical" => unit_claimed
               /\ session[t].kind = "continuous" =>
                     /\ ~NoObject /\ cont_fsm[continuous_handle] = "started"
                     /\ gdma_conn = continuous_handle
                     /\ active_continuous_callback = t
    <3>1. active_ctrl_channels = session[t].mask
        BY <1>1, <1>2, <2>2
    <3>2. session[t].kind = "critical" => unit_claimed
        BY <1>1, <1>2, <2>2 DEF ClientInv, HolderOK, HasUnit
    <3>3. ASSUME session[t].kind = "continuous"
          PROVE  /\ ~NoObject /\ cont_fsm[continuous_handle] = "started"
                 /\ gdma_conn = continuous_handle
                 /\ active_continuous_callback = t
        BY <1>1, <1>2, <2>2, <3>3 DEF ClientInv, ObjectOK, HasObject, ObjectStarted, NoObject
    <3> QED BY <3>1, <3>2, <3>3
  <2> QED BY <2>1, <2>2 DEF SessionExclusive
<1>3. ClientInv => SessionExclusive
    BY <1>2
<1> QED BY <1>3, ClientInvariance, PTL

(* ADC_IsControllerAvailable tells disciplined clients the truth. *)
THEOREM AvailabilityIsTruthful ==
    ASSUME Rules
    PROVE  ClientSpec => []AvailabilityTruthful
<1>1. ASSUME Inv, ClientInv, adc_mutex_handle = NoTask
      PROVE  active_ctrl_channels = {} <=> AdcIdle
  <2>1. \A t \in Task : pc[t] \notin Locked
      BY <1>1, ConstantsAssumption DEF Inv, Safe, MutexDiscipline
  <2>2. \A t \in Task : /\ Reserved(t) => Critical(t) \/ Sampling(t)
                        /\ HasObject(t) => Sampling(t)
                        /\ HasUnit(t) => Critical(t)
      BY <2>1 DEF Locked, Reserved, HasUnit, HasObject, ObjectInit, ObjectStarted
  <2>3. ASSUME NEW t \in Task, Reserved(t)
        PROVE  active_ctrl_channels # {} /\ ~AdcIdle
    <3>1. CallerOK(t) /\ active_ctrl_channels = Mask(t)
        BY <1>1, <2>3 DEF ClientInv, HolderOK
    <3>2. Mask(t) \in Owned(t)
        BY <2>2, <2>3, <3>1 DEF CallerOK, MayCall, Mask, Critical, Sampling
    <3>3. Critical(t) => unit_claimed
        BY <1>1 DEF ClientInv, HolderOK, HasUnit
    <3>4. Sampling(t) => continuous_handle \in Handle /\ cont_fsm[continuous_handle] = "started"
        BY <1>1 DEF ClientInv, ObjectOK, HasObject, ObjectStarted, Inv, TypeOK
    <3> QED BY <2>2, <2>3, <3>1, <3>2, <3>3, <3>4, OwnedFacts DEF AdcIdle
  <2>4. ASSUME ~AdcIdle PROVE \E t \in Task : Reserved(t)
    <3>1. CASE unit_claimed
        BY <1>1, <3>1 DEF ClientInv, HolderOK, Reserved
    <3>2. ASSUME NEW h \in Handle, cont_fsm[h] # "free" PROVE \E t \in Task : Reserved(t)
      <4>1. PICK t \in Task : HasObject(t)
          BY <1>1, <3>2 DEF ClientInv, ObjectOK
      <4> QED BY <2>2, <4>1 DEF Reserved
    <3> QED BY <2>4, <3>1, <3>2 DEF AdcIdle
  <2>5. active_ctrl_channels # {} => \E t \in Task : Reserved(t)
      BY <1>1 DEF ClientInv, HolderOK
  <2> QED BY <2>3, <2>4, <2>5
<1>2. Inv /\ ClientInv => AvailabilityTruthful
    BY <1>1 DEF AvailabilityTruthful
<1> QED BY <1>2, ClientInvariance, PTL

(* SUCCESS of a one-shot or time-critical sampling means that every sample *)
(* asked for was converted: no read of a disciplined client finds the      *)
(* converter taken or its unit gone.                                       *)
THEOREM SuccessIsSampled ==
    ASSUME Rules
    PROVE  ClientSpec => []SuccessMeansSampled
<1>1. ClientInv => SuccessMeansSampled
    BY DEF ClientInv, LostOK, SuccessMeansSampled
<1> QED BY <1>1, ClientInvariance, PTL

(* A task can always end its own session. *)
THEOREM OwnersCanRelease ==
    ASSUME Rules
    PROVE  ClientSpec => []OwnerCanRelease
<1>1. ClientInv => OwnerCanRelease
    BY DEF ClientInv, OwnerCanRelease, CallerOK, Ended
<1> QED BY <1>1, ClientInvariance, PTL

-----------------------------------------------------------------------------
(* The refinement of AdcLease. *)

Asks == {"Setup", "OneShot", "Continuous"}

(* The arguments of a call that asks for the converter are good where the  *)
(* call gets past the points that look at them.                            *)
ArgsOK(t) ==
    /\ pc[t] \in {"one_read", "one_reading", "one_store",
                  "one_reset", "cont_new", "cont_config", "cont_register", "cont_start",
                  "cont_lock"} => req[t].arg = "ok"
    /\ pc[t] \in {"one_unit", "one_config"} => req[t].arg # "null_result"
    /\ pc[t] = "one_null" => req[t].arg # "ok"
    /\ Ended(t) /\ req[t].op \in Asks => ret[t] \in {"SUCCESS", "FAIL"}

(* What has become of a call with request r and result x. *)
AskedAs(r, x) ==
    IF r.op \notin Asks THEN "no"
    ELSE CASE x = "SUCCESS" -> "succeeded" [] x = "FAIL" -> "refused"
           [] OTHER -> IF Refusable(r) THEN "badly" ELSE "well"

Asked(t) == AskedAs(req[t], ret[t])

(* A step of task t, seen as one of the lease: it does nothing to it,      *)
(* takes the converter, succeeds, is refused because another task has the  *)
(* converter or because of its own arguments, or gives the converter back. *)
LeaseStep(t) ==
    \/ (Reserved(t)' <=> Reserved(t)) /\ Asked(t)' = Asked(t)
    \/ /\ Asked(t) \in {"well", "badly"} /\ Asked(t)' = Asked(t)
       /\ (\A u \in Task : ~Reserved(u)) /\ Reserved(t)'
    \/ Asked(t) = "well" /\ Asked(t)' = "succeeded" /\ Reserved(t)
    \/ /\ Asked(t) \in {"well", "badly"} /\ Asked(t)' = "refused"
       /\ (\E u \in Task : u # t /\ Reserved(u)) /\ ~Reserved(t)'
    \/ Asked(t) = "badly" /\ Asked(t)' = "refused" /\ ~Reserved(t)'
    \/ Asked(t) = "no" /\ Asked(t)' = "no" /\ Reserved(t) /\ ~Reserved(t)'

(* What a request has asked of the lease, by its answer. *)
LEMMA AskedFacts ==
    ASSUME NEW r, NEW x
    PROVE  /\ r.op \notin Asks => AskedAs(r, x) = "no"
           /\ r.op \in Asks /\ x = "SUCCESS" => AskedAs(r, x) = "succeeded"
           /\ r.op \in Asks /\ x = "FAIL" => AskedAs(r, x) = "refused"
           /\ r.op \in Asks /\ x = "none" /\ ~Refusable(r) => AskedAs(r, x) = "well"
           /\ r.op \in Asks /\ x = "none" /\ Refusable(r) => AskedAs(r, x) = "badly"
BY DEF AskedAs, Asks

(* The arguments each kind of request may have. *)
LEMMA ArgumentFacts ==
    ASSUME NEW r \in Request
    PROVE  /\ r.op = "OneShot" => r.arg \in {"ok", "null_result", "bad_atten"}
           /\ r.op = "Continuous" => r.arg \in {"ok", "null_callback", "bad_freq", "slow_freq"}
           /\ r.op # "none"
BY ConstantsAssumption DEF RequestType

(* The lease is the reservation. *)
HolderReserved ==
    /\ LeaseHolder \in Task \cup {NoTask}
    /\ \A t \in Task : LeaseHolder = t <=> Reserved(t)

(* LeaseHolder is the one task that holds the reservation, if there is one. *)
LEMMA HolderIs == ClientInv => HolderReserved
<1> SUFFICES ASSUME ClientInv PROVE HolderReserved
    OBVIOUS
<1> USE DEF HolderReserved
<1>1. ASSUME NEW t \in Task, Reserved(t) PROVE LeaseHolder = t
  <2>1. CallerOK(t) /\ active_ctrl_channels = Mask(t)
      BY <1>1 DEF ClientInv, HolderOK
  <2>2. Mask(t) \in Owned(t)
      BY <1>1, <2>1 DEF CallerOK, PointOf, MayCall, Mask, Reserved, HasUnit, Critical,
                         Sampling, Ended
  <2>3. /\ active_ctrl_channels # {} /\ active_ctrl_channels \subseteq Channel
        /\ \A c \in active_ctrl_channels : Owner[c] = t
      BY <2>1, <2>2, OwnedFacts
  <2> DEFINE c == CHOOSE c \in Channel : c \in active_ctrl_channels
  <2>4. c \in active_ctrl_channels
      BY <2>3
  <2> QED BY <2>3, <2>4 DEF LeaseHolder
<1>2. ASSUME \A t \in Task : ~Reserved(t) PROVE LeaseHolder = NoTask
    BY <1>2 DEF LeaseHolder, ClientInv, HolderOK
<1>3. CASE \E t \in Task : Reserved(t)
  <2>1. PICK t \in Task : Reserved(t)
      BY <1>3
  <2> QED BY <1>1, <2>1 DEF ClientInv, HolderOK, Holds
<1>4. CASE \A t \in Task : ~Reserved(t)
    BY <1>2, <1>4, ConstantsAssumption
<1> QED BY <1>3, <1>4

(* The arguments stay good.                                                *)
LEMMA TaskStepArgs ==
    ASSUME Rules, Inv, ClientInv, \A u \in Task : ArgsOK(u), NEW t \in Task, UNCHANGED session,
           TakeMutex(t) \/ Inside(t)
    PROVE  \A u \in Task : ArgsOK(u)'
<1>0. /\ \A u \in Task : ArgsOK(u) /\ CallerOK(u)
      /\ pc \in [Task -> Locked \cup Unlocked] /\ ret \in [Task -> Status]
    BY DEF ClientInv, Inv, TypeOK
<1>a. req[t].op # "none" => req[t] \in Request
    BY DEF Inv, TypeOK, NoRequest
<1>b. /\ req[t].op = "OneShot" => req[t].arg \in {"ok", "null_result", "bad_atten"}
      /\ req[t].op = "Continuous" => req[t].arg \in {"ok", "null_callback", "bad_freq", "slow_freq"}
    BY <1>a, ArgumentFacts
<1> USE DEF ArgsOK, CallerOK, PointOf, MayCall, Ended, Asks
<1>1. CASE SetupCheck(t)
    BY <1>1, <1>0, <1>b DEF SetupCheck
<1>2. CASE SetupUnit(t)
    BY <1>2, <1>0, <1>b DEF SetupUnit, NewUnitOk, NewUnitFail, Dangling
<1>3. CASE CriticalCheck(t)
    BY <1>3, <1>0, <1>b DEF CriticalCheck
<1>4. CASE CriticalRead(t)
    BY <1>4, <1>0, <1>b DEF CriticalRead, ReadFails, Dangling
<1>5. CASE CriticalReadEnd(t)
    BY <1>5, <1>0, <1>b DEF CriticalReadEnd
<1>6. CASE CriticalStore(t)
    BY <1>6, <1>0, <1>b DEF CriticalStore
<1>7. CASE BadMode(t)
    BY <1>7, <1>0, <1>b DEF BadMode
<1>8. CASE OneShotCheck(t)
    BY <1>8, <1>0, <1>b DEF OneShotCheck, MayUse
<1>8a. CASE OneShotNoResult(t)
    BY <1>8a, <1>0, <1>b DEF OneShotNoResult, MayUse
<1>9. CASE OneShotUnit(t)
    BY <1>9, <1>0, <1>b DEF OneShotUnit, NewUnitOk, NewUnitFail
<1>10. CASE OneShotConfig(t)
    BY <1>10, <1>0, <1>b DEF OneShotConfig, DelUnitOk, DelUnitFault, UnitInUse, Dangling
<1>11. CASE OneShotRead(t)
    BY <1>11, <1>0, <1>b DEF OneShotRead, ReadFails, Dangling
<1>12. CASE OneShotReadEnd(t)
    BY <1>12, <1>0, <1>b DEF OneShotReadEnd
<1>13. CASE OneShotStore(t)
    BY <1>13, <1>0, <1>b DEF OneShotStore, DelUnitOk, DelUnitFault, UnitInUse, Dangling
<1>14. CASE OneShotReset(t)
    BY <1>14, <1>0, <1>b DEF OneShotReset
<1>15. CASE ContinuousCheck(t)
    BY <1>15, <1>0, <1>b DEF ContinuousCheck, MayUse
<1>16. CASE ContinuousNew(t)
    BY <1>16, <1>0, <1>b DEF ContinuousNew
<1>17. CASE ContinuousConfig(t)
    BY <1>17, <1>0, <1>b DEF ContinuousConfig
<1>18. CASE ContinuousRegister(t)
    BY <1>18, <1>0, <1>b DEF ContinuousRegister
<1>19. CASE ContinuousStart(t)
    BY <1>19, <1>0, <1>b DEF ContinuousStart
<1>20. CASE ContinuousLock(t)
    BY <1>20, <1>0, <1>b DEF ContinuousLock
<1>21. CASE ReleaseCheck(t)
    BY <1>21, <1>0, <1>b DEF ReleaseCheck
<1>22. CASE ReleaseCallback(t)
    BY <1>22, <1>0, <1>b DEF ReleaseCallback
<1>23. CASE ReleaseStop(t)
    BY <1>23, <1>0, <1>b DEF ReleaseStop, NoObject, ObjectIn
<1>23a. CASE ReleaseFree(t)
    BY <1>23a, <1>0, <1>b DEF ReleaseFree, NoObject, ObjectIn
<1>24. CASE ReleaseDeinit(t)
    BY <1>24, <1>0, <1>b DEF ReleaseDeinit, NoObject, ObjectIn
<1>25. CASE CriticalReleaseCheck(t)
    BY <1>25, <1>0, <1>b DEF CriticalReleaseCheck
<1>26. CASE CriticalReleaseDel(t)
    BY <1>26, <1>0, <1>b DEF CriticalReleaseDel, DelUnitOk, DelUnitFault, UnitInUse, Dangling
<1>27. CASE CriticalReleaseClear(t)
    BY <1>27, <1>0, <1>b DEF CriticalReleaseClear
<1>28. CASE Calibrate(t)
    BY <1>28, <1>0, <1>b DEF Calibrate
<1>29. CASE ADC_IsControllerAvailable(t)
    BY <1>29, <1>0, <1>b DEF ADC_IsControllerAvailable
<1>30. CASE GiveMutex(t)
    BY <1>30, <1>0, <1>b DEF GiveMutex
<1>31. CASE TakeMutex(t)
    BY <1>31, <1>0, <1>b DEF TakeMutex, EntryPoint
<1> QED
    BY <1>1, <1>2, <1>3, <1>4, <1>5, <1>6, <1>7, <1>8, <1>8a, <1>9, <1>10, <1>11,
       <1>12, <1>13, <1>14, <1>15, <1>16, <1>17, <1>18, <1>19, <1>20, <1>21,
       <1>22, <1>23, <1>23a, <1>24, <1>25, <1>26, <1>27, <1>28, <1>29, <1>30, <1>31
    DEF Inside

(* Each step of a task is one of the lease.                                *)
LEMMA TaskStepLease ==
    ASSUME Rules, Inv, ClientInv,
           \A u \in Task : ArgsOK(u), NEW t \in Task, UNCHANGED session,
           TakeMutex(t) \/ Inside(t)
    PROVE  LeaseStep(t)
<1>0. /\ CallerOK(t) /\ ArgsOK(t)
      /\ pc \in [Task -> Locked \cup Unlocked] /\ ret \in [Task -> Status]
      /\ req \in [Task -> Request \cup {NoRequest}]
    BY DEF ClientInv, Inv, TypeOK
<1>f. /\ req[t].op \notin Asks => Asked(t) = "no"
      /\ req[t].op \in Asks /\ ret[t] = "SUCCESS" => Asked(t) = "succeeded"
      /\ req[t].op \in Asks /\ ret[t] = "FAIL" => Asked(t) = "refused"
      /\ req[t].op \in Asks /\ ret[t] = "none" /\ (req[t].op = "Setup" \/ req[t].arg = "ok") =>
            Asked(t) = "well"
      /\ req[t].op \in Asks /\ ret[t] = "none" /\ req[t].op # "Setup" /\ req[t].arg # "ok" =>
            Asked(t) = "badly"
    BY AskedFacts DEF Asked, Refusable
<1>g. /\ req'[t].op \notin Asks => Asked(t)' = "no"
      /\ req'[t].op \in Asks /\ ret'[t] = "SUCCESS" => Asked(t)' = "succeeded"
      /\ req'[t].op \in Asks /\ ret'[t] = "FAIL" => Asked(t)' = "refused"
      /\ req'[t] = req[t] /\ ret'[t] = ret[t] => Asked(t)' = Asked(t)
    BY AskedFacts DEF Asked
(* What the checks find. *)
<1>a. pc[t] \in {"setup_check", "one_check", "cont_check"} =>
          /\ active_ctrl_channels # req[t].mask
          /\ active_ctrl_channels = {} => \A u \in Task : ~Reserved(u)
          /\ active_ctrl_channels # {} => \E u \in Task : u # t /\ Reserved(u)
          /\ req[t].mask # {} /\ req[t].mask # {INVALID}
  <2> SUFFICES ASSUME pc[t] \in {"setup_check", "one_check", "cont_check"}
               PROVE  /\ active_ctrl_channels # req[t].mask
                      /\ active_ctrl_channels = {} => \A u \in Task : ~Reserved(u)
                      /\ active_ctrl_channels # {} => \E u \in Task : u # t /\ Reserved(u)
                      /\ req[t].mask # {} /\ req[t].mask # {INVALID}
      OBVIOUS
  <2>1. ~Reserved(t) /\ req[t].mask \in Owned(t)
      BY <1>0 DEF CallerOK, PointOf, MayCall, Reserved, HasUnit, Critical, Sampling, Ended
  <2>2. active_ctrl_channels # {} => \E u \in Task : Reserved(u)
      BY DEF ClientInv, HolderOK
  <2> QED BY <2>1, <2>2, FreeForAll, OwnedFacts DEF Holds
(* What a call finds that has taken the converter. *)
<1>b. /\ pc[t] = "one_unit" => ~unit_claimed
      /\ pc[t] = "cont_new" => \E h \in Handle : cont_fsm[h] = "free"
  <2>1. pc[t] \in {"one_unit", "cont_new"} => Holds(t) /\ ~HasUnit(t) /\ ~HasObject(t)
      BY <1>0 DEF CallerOK, PointOf, MayCall, Holds, Reserved, HasUnit, Critical, Sampling,
                   HasObject, ObjectInit, ObjectStarted, Ended
  <2>2. pc[t] \in {"one_unit", "cont_new"} => \A u \in Task : ~HasUnit(u) /\ ~HasObject(u)
      BY <2>1 DEF ClientInv, HolderOK, Holds, Reserved
  <2> QED BY <2>2, ConstantsAssumption DEF ClientInv, HolderOK, ObjectOK
<1> USE DEF Rules, LeaseStep, CallerOK, ArgsOK, PointOf, MayCall, Ended, Asks, Reserved, HasUnit,
            Critical, Sampling
<1>1. CASE SetupCheck(t)
    BY <1>1, <1>0, <1>a, <1>f, <1>g DEF SetupCheck, MayUse
<1>2. CASE SetupUnit(t)
    BY <1>2, <1>0, <1>f, <1>g DEF SetupUnit, NewUnitOk, NewUnitFail, Dangling
<1>3. CASE CriticalCheck(t)
    BY <1>3, <1>0, <1>f, <1>g DEF CriticalCheck
<1>4. CASE CriticalRead(t)
    BY <1>4, <1>0, <1>f, <1>g DEF CriticalRead, ReadFails, Dangling
<1>5. CASE CriticalReadEnd(t)
    BY <1>5, <1>0, <1>f, <1>g DEF CriticalReadEnd
<1>6. CASE CriticalStore(t)
    BY <1>6, <1>0, <1>f, <1>g DEF CriticalStore
<1>7. CASE BadMode(t)
    BY <1>7, <1>0, <1>f, <1>g DEF BadMode
<1>8. CASE OneShotCheck(t)
    BY <1>8, <1>0, <1>a, <1>f, <1>g DEF OneShotCheck, MayUse
<1>8a. CASE OneShotNoResult(t)
    BY <1>8a, <1>0, <1>a, <1>f, <1>g DEF OneShotNoResult, MayUse
<1>9. CASE OneShotUnit(t)
    BY <1>9, <1>0, <1>b, <1>f, <1>g DEF OneShotUnit, NewUnitOk, NewUnitFail
<1>10. CASE OneShotConfig(t)
    BY <1>10, <1>0, <1>f, <1>g DEF OneShotConfig, DelUnitOk, DelUnitFault, UnitInUse, Dangling
<1>11. CASE OneShotRead(t)
    BY <1>11, <1>0, <1>f, <1>g DEF OneShotRead, ReadFails, Dangling
<1>12. CASE OneShotReadEnd(t)
    BY <1>12, <1>0, <1>f, <1>g DEF OneShotReadEnd
<1>13. CASE OneShotStore(t)
    BY <1>13, <1>0, <1>f, <1>g DEF OneShotStore, DelUnitOk, DelUnitFault, UnitInUse, Dangling
<1>14. CASE OneShotReset(t)
    BY <1>14, <1>0, <1>f, <1>g DEF OneShotReset
<1>15. CASE ContinuousCheck(t)
    BY <1>15, <1>0, <1>a, <1>f, <1>g DEF ContinuousCheck, MayUse
<1>16. CASE ContinuousNew(t)
    BY <1>16, <1>0, <1>b, <1>f, <1>g DEF ContinuousNew, NewUnitOk, NewUnitFail
<1>17. CASE ContinuousConfig(t)
    BY <1>17, <1>0, <1>f, <1>g DEF ContinuousConfig
<1>18. CASE ContinuousRegister(t)
    BY <1>18, <1>0, <1>f, <1>g DEF ContinuousRegister
<1>19. CASE ContinuousStart(t)
    BY <1>19, <1>0, <1>f, <1>g DEF ContinuousStart
<1>20. CASE ContinuousLock(t)
    BY <1>20, <1>0, <1>f, <1>g DEF ContinuousLock
<1>21. CASE ReleaseCheck(t)
    BY <1>21, <1>0, <1>f, <1>g, ReservedForMe DEF ReleaseCheck
<1>22. CASE ReleaseCallback(t)
    BY <1>22, <1>0, <1>f, <1>g DEF ReleaseCallback
<1>23. CASE ReleaseStop(t)
    BY <1>23, <1>0, <1>f, <1>g DEF ReleaseStop, NoObject, ObjectIn
<1>23a. CASE ReleaseFree(t)
    BY <1>23a, <1>0, <1>f, <1>g DEF ReleaseFree, NoObject, ObjectIn
<1>24. CASE ReleaseDeinit(t)
    BY <1>24, <1>0, <1>f, <1>g DEF ReleaseDeinit, NoObject, ObjectIn
<1>25. CASE CriticalReleaseCheck(t)
    BY <1>25, <1>0, <1>f, <1>g, ReservedForMe DEF CriticalReleaseCheck
<1>26. CASE CriticalReleaseDel(t)
    BY <1>26, <1>0, <1>f, <1>g DEF CriticalReleaseDel, DelUnitOk, DelUnitFault, UnitInUse, Dangling
<1>27. CASE CriticalReleaseClear(t)
    BY <1>27, <1>0, <1>f, <1>g DEF CriticalReleaseClear
<1>28. CASE Calibrate(t)
    BY <1>28, <1>0, <1>f, <1>g DEF Calibrate
<1>29. CASE ADC_IsControllerAvailable(t)
    BY <1>29, <1>0, <1>f, <1>g DEF ADC_IsControllerAvailable
<1>30. CASE GiveMutex(t)
    BY <1>30, <1>0, <1>f, <1>g DEF GiveMutex
<1>31. CASE TakeMutex(t)
  <2>1. Reserved(t)' <=> Reserved(t)
      BY ONLY <1>31, <1>0, EntryFacts, UNCHANGED session
  <2>2. req'[t] = req[t] /\ ret'[t] = ret[t]
      BY <1>31 DEF TakeMutex
  <2> QED BY ONLY <1>g, <2>1, <2>2 DEF LeaseStep
<1> QED
    BY <1>1, <1>2, <1>3, <1>4, <1>5, <1>6, <1>7, <1>8, <1>8a, <1>9, <1>10, <1>11,
       <1>12, <1>13, <1>14, <1>15, <1>16, <1>17, <1>18, <1>19, <1>20, <1>21,
       <1>22, <1>23, <1>23a, <1>24, <1>25, <1>26, <1>27, <1>28, <1>29, <1>30, <1>31
    DEF Inside

(* What a step does to the lease, from what it does to the reservation and *)
(* the call of the task that makes it.                                     *)
LEMMA LeaseStepImplements ==
    ASSUME ClientInv, ClientInv', NEW t \in Task, LeaseStep(t), fault = "none", fault' = "none",
           \A u \in Task : u # t => (Reserved(u)' <=> Reserved(u)) /\ Asked(u)' = Asked(u)
    PROVE  [Lease!LeaseNext]_(Lease!leaseVars)
<1>1. /\ LeaseHolder \in Task \cup {NoTask} /\ NoTask \notin Task
      /\ \A u \in Task : LeaseHolder = u <=> Reserved(u)
    BY HolderIs, ConstantsAssumption DEF HolderReserved
<1>2. /\ LeaseHolder' \in Task \cup {NoTask}
      /\ \A u \in Task : LeaseHolder' = u <=> Reserved(u)'
  <2>1. HolderReserved'
      BY HolderIs, PTL
  <2> QED BY <2>1 DEF HolderReserved
<1>3. /\ LeaseAsking = [u \in Task |-> Asked(u)]
      /\ LeaseAsking' = [u \in Task |-> Asked(u)']
    BY DEF LeaseAsking, Asked, AskedAs, Asks
<1>4. /\ LeaseAsking[t] = Asked(t)
      /\ LeaseAsking' = [LeaseAsking EXCEPT ![t] = Asked(t)']
      /\ Asked(t)' = Asked(t) => LeaseAsking' = LeaseAsking
    BY <1>3
<1>5. /\ (fault # "none") = FALSE /\ (fault # "none")' = FALSE
    OBVIOUS
<1>6. (Reserved(t)' <=> Reserved(t)) => LeaseHolder' = LeaseHolder
    BY <1>1, <1>2
<1> USE DEF Lease!LeaseNext, Lease!leaseVars, Lease!Become
<1>7. CASE (Reserved(t)' <=> Reserved(t)) /\ Asked(t)' = Asked(t)
    BY <1>4, <1>5, <1>6, <1>7
<1>8. CASE /\ Asked(t) \in {"well", "badly"} /\ Asked(t)' = Asked(t)
           /\ (\A u \in Task : ~Reserved(u)) /\ Reserved(t)'
  <2>1. Lease!Take(t)
      BY <1>1, <1>2, <1>4, <1>8 DEF Lease!Take
  <2> QED BY <1>5, <2>1
<1>9. CASE Asked(t) = "well" /\ Asked(t)' = "succeeded" /\ Reserved(t)
  <2>1. LeaseHolder' \in {t, NoTask}
      BY <1>1, <1>2, <1>9
  <2>2. Lease!Succeed(t)
      BY <1>1, <1>4, <1>9, <2>1 DEF Lease!Succeed
  <2> QED BY <1>5, <2>2
<1>10. CASE /\ Asked(t) \in {"well", "badly"} /\ Asked(t)' = "refused"
            /\ (\E u \in Task : u # t /\ Reserved(u)) /\ ~Reserved(t)'
  <2>1. PICK u \in Task : u # t /\ Reserved(u)
      BY <1>10
  <2>2. LeaseHolder = u /\ LeaseHolder' = u
      BY <1>1, <1>2, <2>1
  <2>3. Lease!RefuseOther(t)
      BY <1>1, <1>4, <1>10, <2>1, <2>2 DEF Lease!RefuseOther
  <2> QED BY <1>5, <2>3
<1>11. CASE Asked(t) = "badly" /\ Asked(t)' = "refused" /\ ~Reserved(t)'
  <2>1. LeaseHolder' = IF LeaseHolder = t THEN NoTask ELSE LeaseHolder
      BY <1>1, <1>2, <1>11
  <2>2. Lease!RefuseBad(t)
      BY <1>4, <1>11, <2>1 DEF Lease!RefuseBad
  <2> QED BY <1>5, <2>2
<1>12. CASE Asked(t) = "no" /\ Asked(t)' = "no" /\ Reserved(t) /\ ~Reserved(t)'
  <2>1. LeaseHolder = t /\ LeaseHolder' = NoTask
      BY <1>1, <1>2, <1>12
  <2>2. Lease!GiveBack(t)
      BY <1>4, <1>12, <2>1 DEF Lease!GiveBack
  <2> QED BY <1>5, <2>2
<1> QED BY <1>7, <1>8, <1>9, <1>10, <1>11, <1>12 DEF LeaseStep

(* Steps of other tasks leave the call of a task. *)
LEMMA UnaffectedAsked ==
    ASSUME NEW u \in Task, pc'[u] = pc[u], req'[u] = req[u], ret'[u] = ret[u]
    PROVE  Asked(u)' = Asked(u) /\ (ArgsOK(u)' <=> ArgsOK(u))
BY DEF Asked, ArgsOK, Ended

AllArgsOK == \A t \in Task : ArgsOK(t)

(* Steps inside the functions. *)
LEMMA InsideImplements ==
    ASSUME Rules, Inv, ClientInv, ClientInv', AllArgsOK, NEW t \in Task,
           UNCHANGED session, fault = "none", TakeMutex(t) \/ Inside(t)
    PROVE  AllArgsOK' /\ [Lease!LeaseNext]_(Lease!leaseVars)
<1>1. \A u \in Task : u # t => pc'[u] = pc[u] /\ req'[u] = req[u] /\ ret'[u] = ret[u]
    BY DEF Inv, TypeOK, TakeMutex, Inside, SetupCheck, SetupUnit, CriticalCheck, CriticalRead,
           CriticalReadEnd, CriticalStore, BadMode, OneShotCheck, OneShotNoResult, OneShotUnit, OneShotConfig,
           OneShotRead, OneShotReadEnd, OneShotStore, OneShotReset, ContinuousCheck,
           ContinuousNew, ContinuousConfig, ContinuousRegister, ContinuousStart,
           ContinuousLock, ReleaseCheck, ReleaseCallback, ReleaseStop, ReleaseFree, ReleaseDeinit,
           CriticalReleaseCheck, CriticalReleaseDel, CriticalReleaseClear, Calibrate,
           ADC_IsControllerAvailable, GiveMutex
<1>2. fault' = "none"
    BY TaskStepSound
<1>4. ASSUME NEW u \in Task, u # t
      PROVE  (Reserved(u)' <=> Reserved(u)) /\ Asked(u)' = Asked(u)
    BY <1>1, <1>4, Unaffected, UnaffectedAsked
<1>5. LeaseStep(t) /\ AllArgsOK'
    BY TaskStepLease, TaskStepArgs DEF AllArgsOK
<1> QED BY <1>2, <1>4, <1>5, LeaseStepImplements

(* A call asks, unless it is none of those that do. *)
LEMMA CallImplements ==
    ASSUME Inv, ClientInv, ClientInv', AllArgsOK, NEW t \in Task, fault = "none", ClientCall(t)
    PROVE  AllArgsOK' /\ [Lease!LeaseNext]_(Lease!leaseVars)
<1>1. PICK r \in Request : Call(t, r)
    BY DEF ClientCall
<1>2. /\ pc[t] = "idle" /\ pc'[t] \in {"crit_check", "take"} /\ req'[t] = r
      /\ \A u \in Task : u # t => pc'[u] = pc[u] /\ req'[u] = req[u]
      /\ UNCHANGED <<active_ctrl_channels, ret, fault>>
    BY <1>1 DEF Inv, TypeOK, Call
<1>3. req[t].op = "none" /\ ret[t] = "none"
    BY <1>2 DEF ClientInv, CallerOK, PointOf, Ended
<1>4. AllArgsOK'
  <2>1. ArgsOK(t)'
      BY <1>2 DEF ArgsOK, Ended
  <2> QED BY <1>2, <2>1, UnaffectedAsked DEF AllArgsOK
<1>5. Asked(t) = "no" /\ Asked(t)' \in {"no", "well", "badly"}
  <2>1. req[t].op \notin Asks
      BY <1>3 DEF Asks
  <2>2. ret'[t] = "none"
      BY <1>2, <1>3
  <2> QED BY <2>1, <2>2, AskedFacts DEF Asked
<1>6. /\ LeaseAsking[t] = Asked(t) /\ LeaseHolder' = LeaseHolder
      /\ LeaseAsking' = [LeaseAsking EXCEPT ![t] = Asked(t)']
      /\ Asked(t)' = Asked(t) => LeaseAsking' = LeaseAsking
  <2>1. /\ LeaseAsking = [u \in Task |-> Asked(u)]
        /\ LeaseAsking' = [u \in Task |-> Asked(u)']
      BY DEF LeaseAsking, Asked, AskedAs, Asks
  <2>2. \A u \in Task : u # t => Asked(u)' = Asked(u)
      BY <1>2, UnaffectedAsked
  <2> QED BY <1>2, <2>1, <2>2 DEF LeaseHolder
<1>7. fault' = "none" /\ (fault # "none") = FALSE /\ (fault # "none")' = FALSE
    BY <1>2
<1>8. CASE Asked(t)' = "no"
    BY <1>4, <1>5, <1>6, <1>7, <1>8 DEF Lease!leaseVars
<1>9. CASE Asked(t)' \in {"well", "badly"}
  <2>1. Lease!Ask(t)
      BY <1>5, <1>6, <1>9 DEF Lease!Ask, Lease!Become
  <2> QED BY <1>4, <1>7, <2>1 DEF Lease!LeaseNext
<1> QED BY <1>4, <1>5, <1>8, <1>9

(* A return answers what was asked. *)
LEMMA ReturnImplements ==
    ASSUME Inv, ClientInv, ClientInv', AllArgsOK, NEW t \in Task, fault = "none", ClientReturn(t)
    PROVE  AllArgsOK' /\ [Lease!LeaseNext]_(Lease!leaseVars)
<1>1. /\ pc[t] = "return" /\ pc'[t] = "idle" /\ req'[t] = NoRequest /\ ret'[t] = "none"
      /\ \A u \in Task : u # t => pc'[u] = pc[u] /\ req'[u] = req[u] /\ ret'[u] = ret[u]
      /\ UNCHANGED <<active_ctrl_channels, fault>>
    BY DEF Inv, TypeOK, ClientReturn, Return
<1>2. AllArgsOK'
  <2>1. ArgsOK(t)'
      BY <1>1 DEF ArgsOK, Ended
  <2> QED BY <1>1, <2>1, UnaffectedAsked DEF AllArgsOK
<1>3. Asked(t) \in {"no", "succeeded", "refused"} /\ Asked(t)' = "no"
  <2>1. req[t].op \in Asks => ret[t] \in {"SUCCESS", "FAIL"}
      BY <1>1 DEF AllArgsOK, ArgsOK, Ended
  <2>2. req'[t].op \notin Asks
      BY <1>1 DEF NoRequest, Asks
  <2> QED BY <2>1, <2>2, AskedFacts DEF Asked
<1>4. /\ LeaseAsking[t] = Asked(t) /\ LeaseHolder' = LeaseHolder
      /\ LeaseAsking' = [LeaseAsking EXCEPT ![t] = Asked(t)']
      /\ Asked(t)' = Asked(t) => LeaseAsking' = LeaseAsking
  <2>1. /\ LeaseAsking = [u \in Task |-> Asked(u)]
        /\ LeaseAsking' = [u \in Task |-> Asked(u)']
      BY DEF LeaseAsking, Asked, AskedAs, Asks
  <2>2. \A u \in Task : u # t => Asked(u)' = Asked(u)
      BY <1>1, UnaffectedAsked
  <2> QED BY <1>1, <2>1, <2>2 DEF LeaseHolder
<1>5. fault' = "none" /\ (fault # "none") = FALSE /\ (fault # "none")' = FALSE
    BY <1>1
<1>6. CASE Asked(t) = "no"
    BY <1>2, <1>3, <1>4, <1>5, <1>6 DEF Lease!leaseVars
<1>7. CASE Asked(t) \in {"succeeded", "refused"}
  <2>1. Lease!Answered(t)
      BY <1>3, <1>4, <1>7 DEF Lease!Answered, Lease!Become
  <2> QED BY <1>2, <1>5, <2>1 DEF Lease!LeaseNext
<1> QED BY <1>2, <1>3, <1>6, <1>7

(* Steps that are no task's. *)
LEMMA OtherImplements ==
    ASSUME Inv, ClientInv, AllArgsOK,
           \/ fault = "none" /\ (ClientStart \/ (Interrupt /\ UNCHANGED session))
           \/ ClientReboot
           \/ UNCHANGED cvars
    PROVE  AllArgsOK' /\ [Lease!LeaseNext]_(Lease!leaseVars)
<1>1. CASE fault = "none" /\ Interrupt
  <2>1. UNCHANGED <<active_ctrl_channels, pc, req, ret>>
      BY <1>1 DEF Interrupt, IsrFrame, IsrCall, IsrLeave, IsrEnter
  <2>2. AllArgsOK' /\ UNCHANGED <<LeaseHolder, LeaseAsking>>
      BY <2>1 DEF LeaseHolder, LeaseAsking, AllArgsOK, ArgsOK, Ended
  <2>3. (fault # "none") = FALSE /\ (fault # "none")' \in BOOLEAN
      BY <1>1
  <2>4. CASE fault' # "none"
    <3>1. (fault # "none")' = TRUE
        BY <2>4
    <3> QED BY <2>2, <2>3, <3>1 DEF Lease!LeaseNext, Lease!Crash
  <2>5. CASE fault' = "none"
    <3>1. (fault # "none")' = FALSE
        BY <2>5
    <3> QED BY <2>2, <2>3, <3>1 DEF Lease!leaseVars
  <2> QED BY <2>2, <2>4, <2>5
<1>2. CASE ClientStart
  <2>1. UNCHANGED <<pc, req, ret, fault>> /\ active_ctrl_channels' = {} /\ ~initialised
      BY <1>2 DEF ClientStart, ADC_InitController
  <2>2. \A u \in Task : ~Reserved(u)
    <3>1. \A u \in Task : pc[u] = "idle" /\ session[u] = NoSession
        BY <2>1 DEF Inv, Safe, PhaseInvariant, ClientInv
    <3> QED BY <3>1 DEF Reserved, HasUnit, Critical, Sampling, Ended, NoSession
  <2>3. active_ctrl_channels = {}
      BY <2>2 DEF ClientInv, HolderOK
  <2> QED BY <2>1, <2>3 DEF LeaseHolder, LeaseAsking, AllArgsOK, ArgsOK, Ended, Lease!leaseVars
<1>3. CASE ClientReboot
  <2>1. /\ fault # "none" /\ fault' = "none" /\ active_ctrl_channels' = {}
        /\ pc' = [t \in Task |-> "idle"] /\ req' = [t \in Task |-> NoRequest]
      BY <1>3 DEF ClientReboot, Reboot
  <2>2. LeaseHolder' = NoTask /\ LeaseAsking' = [t \in Task |-> "no"]
      BY <2>1 DEF LeaseHolder, LeaseAsking, NoRequest
  <2>3. AllArgsOK'
      BY <2>1 DEF AllArgsOK, ArgsOK, Ended
  <2>4. (fault # "none") = TRUE /\ (fault # "none")' = FALSE
      BY <2>1
  <2> QED BY <2>2, <2>3, <2>4 DEF Lease!LeaseNext, Lease!Restart
<1>4. CASE UNCHANGED cvars
    BY <1>4 DEF cvars, vars, LeaseHolder, LeaseAsking, AllArgsOK, ArgsOK, Ended, Lease!leaseVars
<1> QED BY <1>1, <1>2, <1>3, <1>4

(* The controller implements the lease: a disciplined task is refused only *)
(* while another task has the converter or because of its own arguments,   *)
(* and nobody else ends its lease.                                         *)
THEOREM ControllerIsLease ==
    ASSUME Rules
    PROVE  ClientSpec => ImplementsLease
<1>1. ClientInit => Lease!LeaseInit /\ AllArgsOK
  <2> SUFFICES ASSUME ClientInit PROVE Lease!LeaseInit /\ AllArgsOK
      OBVIOUS
  <2>1. /\ active_ctrl_channels = {} /\ fault = "none"
        /\ pc = [t \in Task |-> "idle"] /\ req = [t \in Task |-> NoRequest]
      BY DEF ClientInit, Init
  <2>2. LeaseHolder = NoTask /\ LeaseAsking = [t \in Task |-> "no"]
      BY <2>1 DEF LeaseHolder, LeaseAsking, NoRequest
  <2>3. (fault # "none") = FALSE
      BY <2>1
  <2> QED BY <2>1, <2>2, <2>3 DEF Lease!LeaseInit, AllArgsOK, ArgsOK, Ended
<1>2. Inv /\ ClientInv /\ ClientInv' /\ AllArgsOK /\ [ClientNext]_cvars
          => AllArgsOK' /\ [Lease!LeaseNext]_(Lease!leaseVars)
  <2> SUFFICES ASSUME Inv, ClientInv, ClientInv', AllArgsOK, [ClientNext]_cvars
               PROVE  AllArgsOK' /\ [Lease!LeaseNext]_(Lease!leaseVars)
      OBVIOUS
  <2>1. ASSUME NEW t \in Task, fault = "none", TakeMutex(t) \/ Inside(t), UNCHANGED session
        PROVE  AllArgsOK' /\ [Lease!LeaseNext]_(Lease!leaseVars)
      BY <2>1, InsideImplements
  <2>2. ASSUME NEW t \in Task, fault = "none", ClientCall(t)
        PROVE  AllArgsOK' /\ [Lease!LeaseNext]_(Lease!leaseVars)
      BY <2>2, CallImplements
  <2>3. ASSUME NEW t \in Task, fault = "none", ClientReturn(t)
        PROVE  AllArgsOK' /\ [Lease!LeaseNext]_(Lease!leaseVars)
      BY <2>3, ReturnImplements
  <2>4. CASE \/ fault = "none" /\ (ClientStart \/ (Interrupt /\ UNCHANGED session))
             \/ ClientReboot
             \/ UNCHANGED cvars
      BY <2>4, OtherImplements
  <2> QED BY <2>1, <2>2, <2>3, <2>4 DEF ClientNext, Run
<1>3. ClientSpec => [](Inv /\ ClientInv)
    BY ClientInvariance
<1> QED BY <1>1, <1>2, <1>3, PTL DEF ClientSpec, ImplementsLease, Lease!LeaseSpec

=============================================================================

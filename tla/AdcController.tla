--------------------------- MODULE AdcController ---------------------------
(***************************************************************************)
(* The ADC arbiter of the laser driver, main/HWI/adcController.c, together *)
(* with the part of the ESP-IDF ADC drivers its state is tied to: the      *)
(* claim on the one-shot unit, the continuous-mode objects, the GDMA       *)
(* connection of the ADC, the adc1 hardware lock and the DMA interrupt.    *)
(*                                                                         *)
(* Tasks call the public functions with any argument of Request.  A        *)
(* function is cut into one step per access to state that is visible       *)
(* outside adc_mutex_handle: active_ctrl_channels and oneshot_handle are   *)
(* read without the mutex by ADC_StartTimeCriticalSampling, the callback   *)
(* by the interrupt, the adc1 lock by every one-shot read.                 *)
(*                                                                         *)
(* A channel mask is the set of its bits, so 1 << ch is {ch} and a mask of *)
(* 0 is {}.                                                                *)
(***************************************************************************)
EXTENDS Naturals, FiniteSets

CONSTANTS
    Task,           \* the tasks (and interrupt routines) that use the API
    NoTask,
    Channel,        \* the channels below ADC_CTRL_CHANNEL_INVALID
    INVALID,        \* ADC_CTRL_CHANNEL_INVALID, itself bit 7 of a mask
    Handle,         \* continuous-mode objects, as many as GDMA RX channels
    NoHandle,
    MaxSample,      \* bound on nb_sample
    HeapMayFail,    \* whether an allocation of the drivers may fail
    Request         \* the calls the tasks may make

Bit == Channel \cup {INVALID}

Single == {{c} : c \in Bit}

(* A call: the function, its channel or channel mask, its number of        *)
(* samples, and which of its other arguments is out of range, if any.      *)
(* slow_freq is a frequency that the controller accepts and                *)
(* adc_continuous_config refuses (1 .. 610 Hz).                            *)
RequestType ==
    [op : {"Setup"}, mask : Single, n : {0}, arg : {"ok", "bad_atten"}]
    \cup [op : {"ReleaseCritical"}, mask : Single, n : {0}, arg : {"ok"}]
    \cup [op : {"Critical"}, mask : Single, n : 0..MaxSample, arg : {"ok"}]
    \cup [op : {"OneShot"}, mask : Single, n : 0..MaxSample,
          arg : {"ok", "null_result", "bad_atten"}]
    \cup [op : {"Continuous"}, mask : SUBSET Bit, n : 0..MaxSample,
          arg : {"ok", "null_callback", "bad_freq", "slow_freq"}]
    \cup [op : {"Calibrate"}, mask : Single, n : {0}, arg : {"ok", "null_result"}]
    \cup [op : {"Release"}, mask : SUBSET Bit, n : {0}, arg : {"ok"}]
    \cup [op : {"IsAvailable", "BadMode"}, mask : {{}}, n : {0}, arg : {"ok"}]

ASSUME ConstantsAssumption ==
    /\ NoTask \notin Task
    /\ NoHandle \notin Handle /\ Handle # {}
    /\ INVALID \notin Channel
    /\ MaxSample \in Nat
    /\ HeapMayFail \in BOOLEAN
    /\ Request \subseteq RequestType

VARIABLES
    \* file-scope variables of adcController.c
    active_ctrl_channels, oneshot_handle, continuous_handle,
    active_continuous_callback, adc_mutex_handle, initialised,
    \* state of the ESP-IDF drivers
    unit_claimed, cont_fsm, gdma_conn, pool_full, adc1_lock, isr, isr_at,
    \* locals of the calls in progress
    pc, req, left, lost, ret,
    \* the fault that stops the program, if any
    fault

ctrlVars == <<active_ctrl_channels, oneshot_handle, continuous_handle,
              active_continuous_callback, adc_mutex_handle, initialised>>
contVars == <<cont_fsm, gdma_conn, pool_full>>
isrVars  == <<isr, isr_at>>
sdkVars  == <<unit_claimed, contVars, adc1_lock, isrVars>>
callVars == <<pc, req, left, lost, ret>>
vars     == <<ctrlVars, sdkVars, callVars, fault>>

-----------------------------------------------------------------------------
(* Program counters.  Locked are the points at which a call holds the      *)
(* controller's mutex, Reading those inside adc_oneshot_read with the adc1 *)
(* lock taken.                                                             *)

Locked == {"setup_check", "setup_unit", "one_check", "one_null", "one_unit",
           "one_config", "one_read", "one_reading", "one_store", "one_reset",
           "cont_check", "cont_new", "cont_config", "cont_register",
           "cont_start", "cont_lock", "calibrate", "rel_check", "rel_callback",
           "rel_stop", "rel_free", "rel_deinit", "crel_check", "crel_del",
           "crel_clear", "avail", "bad_mode", "give"}

Unlocked == {"idle", "take", "crit_check", "crit_read", "crit_reading",
             "crit_store", "return"}

Reading == {"one_reading", "crit_reading"}

Status == {"none", "SUCCESS", "FAIL", "TRUE", "FALSE"}

Fault == {"none", "use_after_free", "null_callback", "freed_dma",
          "not_lock_holder", "div_by_zero", "abort"}

NoRequest == [op |-> "none", mask |-> {}, n |-> 0, arg |-> "ok"]

TypeOK ==
    /\ active_ctrl_channels \in SUBSET Bit
    /\ oneshot_handle \in {"NULL", "unit"}
    /\ continuous_handle \in Handle \cup {NoHandle}
    /\ active_continuous_callback \in Task \cup {NoTask}
    /\ adc_mutex_handle \in Task \cup {NoTask}
    /\ initialised \in BOOLEAN
    /\ unit_claimed \in BOOLEAN
    /\ cont_fsm \in [Handle -> {"free", "init", "starting", "started", "freeing"}]
    /\ gdma_conn \in Handle \cup {NoHandle}
    /\ pool_full \in SUBSET Handle
    /\ adc1_lock \in Task \cup {NoTask}
    /\ isr \in Handle \cup {NoHandle}
    /\ isr_at \in {"idle", "frame", "call", "more"}
    /\ pc \in [Task -> Locked \cup Unlocked]
    /\ req \in [Task -> Request \cup {NoRequest}]
    /\ left \in [Task -> 0..MaxSample]
    /\ lost \in SUBSET Task
    /\ ret \in [Task -> Status]
    /\ fault \in Fault

-----------------------------------------------------------------------------
(* Helpers of the steps.  Each says what becomes of the whole group of     *)
(* variables it is about.                                                  *)

Goto(t, l) == /\ pc' = [pc EXCEPT ![t] = l]
              /\ UNCHANGED <<req, left, lost, ret>>

(* To xSemaphoreGive and return with a status. *)
Leave(t, status) == /\ pc' = [pc EXCEPT ![t] = "give"]
                    /\ ret' = [ret EXCEPT ![t] = status]
                    /\ UNCHANGED <<req, left, lost>>

SetActive(m) == /\ active_ctrl_channels' = m
                /\ UNCHANGED <<oneshot_handle, continuous_handle, initialised,
                               active_continuous_callback, adc_mutex_handle>>

SetMutex(t) == /\ adc_mutex_handle' = t
               /\ UNCHANGED <<active_ctrl_channels, oneshot_handle, initialised,
                              continuous_handle, active_continuous_callback>>

SetCallback(t) == /\ active_continuous_callback' = t
                  /\ UNCHANGED <<active_ctrl_channels, oneshot_handle, initialised,
                                 continuous_handle, adc_mutex_handle>>

(* The program stops in a panic. *)
Stop(f) == fault' = f /\ UNCHANGED <<ctrlVars, sdkVars, callVars>>

(* Mutant of MayUse: the functions do not look who has the controller. *)
MayUseUnchecked(m) == TRUE

(* The test every function makes on active_ctrl_channels: free, or held by *)
(* the same mask.                                                          *)
MayUse(m) == active_ctrl_channels = {} \/ active_ctrl_channels = m

AdcIdle == ~unit_claimed /\ \A h \in Handle : cont_fsm[h] = "free"

-----------------------------------------------------------------------------
(* Start of the program, and the reboot that follows a panic               *)
(* (CONFIG_ESP_SYSTEM_PANIC_PRINT_REBOOT).                                 *)

Init ==
    /\ active_ctrl_channels = {}
    /\ oneshot_handle = "NULL"
    /\ continuous_handle = NoHandle
    /\ active_continuous_callback = NoTask
    /\ adc_mutex_handle = NoTask
    /\ initialised = FALSE
    /\ unit_claimed = FALSE
    /\ cont_fsm = [h \in Handle |-> "free"]
    /\ gdma_conn = NoHandle
    /\ pool_full = {}
    /\ adc1_lock = NoTask
    /\ isr = NoHandle /\ isr_at = "idle"
    /\ pc = [t \in Task |-> "idle"]
    /\ req = [t \in Task |-> NoRequest]
    /\ left = [t \in Task |-> 0]
    /\ lost = {}
    /\ ret = [t \in Task |-> "none"]
    /\ fault = "none"

Reboot ==
    /\ fault # "none"
    /\ active_ctrl_channels' = {}
    /\ oneshot_handle' = "NULL"
    /\ continuous_handle' = NoHandle
    /\ active_continuous_callback' = NoTask
    /\ adc_mutex_handle' = NoTask
    /\ initialised' = FALSE
    /\ unit_claimed' = FALSE
    /\ cont_fsm' = [h \in Handle |-> "free"]
    /\ gdma_conn' = NoHandle
    /\ pool_full' = {}
    /\ adc1_lock' = NoTask
    /\ isr' = NoHandle /\ isr_at' = "idle"
    /\ pc' = [t \in Task |-> "idle"]
    /\ req' = [t \in Task |-> NoRequest]
    /\ left' = [t \in Task |-> 0]
    /\ lost' = {}
    /\ ret' = [t \in Task |-> "none"]
    /\ fault' = "none"

(* It may be called again, whatever the handles still stand for; the       *)
(* creation of the mutex may fail.  Only a call in the middle of another   *)
(* function is left out.                                                   *)
ADC_InitController ==
    /\ \A t \in Task : pc[t] = "idle"
    /\ oneshot_handle' = "NULL"
    /\ continuous_handle' = NoHandle
    /\ active_ctrl_channels' = {}
    /\ adc_mutex_handle' = NoTask
    /\ initialised' \in IF HeapMayFail THEN BOOLEAN ELSE {TRUE}
    /\ UNCHANGED <<active_continuous_callback, sdkVars, callVars, fault>>

-----------------------------------------------------------------------------
(* Entering and leaving a function. *)

(* Task t calls a function.  ADC_StartTimeCriticalSampling alone does not  *)
(* take the mutex.                                                         *)
Call(t, r) ==
    /\ initialised
    /\ pc[t] = "idle"
    /\ pc' = [pc EXCEPT ![t] = IF r.op = "Critical" THEN "crit_check" ELSE "take"]
    /\ req' = [req EXCEPT ![t] = r]
    /\ left' = [left EXCEPT ![t] = r.n]
    /\ UNCHANGED <<ctrlVars, sdkVars, lost, ret, fault>>

EntryPoint == [Setup |-> "setup_check", OneShot |-> "one_check",
               Continuous |-> "cont_check", Calibrate |-> "calibrate",
               Release |-> "rel_check", ReleaseCritical |-> "crel_check",
               IsAvailable |-> "avail", BadMode |-> "bad_mode"]

(* xSemaphoreTake(adc_mutex_handle, portMAX_DELAY). *)
TakeMutex(t) ==
    /\ pc[t] = "take"
    /\ adc_mutex_handle = NoTask
    /\ SetMutex(t)
    /\ Goto(t, EntryPoint[req[t].op])
    /\ UNCHANGED <<sdkVars, fault>>

(* xSemaphoreGive(adc_mutex_handle) before every return. *)
GiveMutex(t) ==
    /\ pc[t] = "give"
    /\ SetMutex(NoTask)
    /\ Goto(t, "return")
    /\ UNCHANGED <<sdkVars, fault>>

(* The caller gets the status and the data. *)
Return(t) ==
    /\ pc[t] = "return"
    /\ pc' = [pc EXCEPT ![t] = "idle"]
    /\ req' = [req EXCEPT ![t] = NoRequest]
    /\ left' = [left EXCEPT ![t] = 0]
    /\ lost' = lost \ {t}
    /\ ret' = [ret EXCEPT ![t] = "none"]
    /\ UNCHANGED <<ctrlVars, sdkVars, fault>>

-----------------------------------------------------------------------------
(* The one-shot driver, esp_adc/adc_oneshot.c.  Its functions return an    *)
(* error for a NULL handle and use any other one unseen.                   *)

(* oneshot_handle points to a unit that was freed. *)
Dangling == oneshot_handle # "NULL" /\ ~unit_claimed

(* adc_oneshot_new_unit allocates the unit and claims it; when it fails it *)
(* leaves the handle alone.                                                *)
NewUnitOk   == ~unit_claimed
NewUnitFail == unit_claimed \/ HeapMayFail

NewUnit == /\ unit_claimed' = TRUE
           /\ oneshot_handle' = "unit"
           /\ UNCHANGED <<active_ctrl_channels, continuous_handle, initialised,
                          active_continuous_callback, adc_mutex_handle,
                          contVars, adc1_lock, isrVars>>

(* adc_oneshot_del_unit: freeing the unit under a reader, or twice, is a   *)
(* use of freed memory.                                                    *)
UnitInUse    == \E u \in Task : pc[u] \in Reading
LiveUnit     == oneshot_handle # "NULL" /\ unit_claimed
DelUnitOk    == LiveUnit /\ ~UnitInUse
DelUnitFault == Dangling \/ (LiveUnit /\ UnitInUse)

DelUnit == unit_claimed' = FALSE /\ UNCHANGED <<contVars, adc1_lock, isrVars>>

(* adc_oneshot_read: with adc_lock_try_acquire the call is inside the      *)
(* conversion, at label reading; at its end it releases the lock.          *)
ReadFails == oneshot_handle = "NULL" \/ (~Dangling /\ adc1_lock # NoTask)

ReadBegin(t, reading) ==
    /\ LiveUnit /\ adc1_lock = NoTask
    /\ adc1_lock' = t
    /\ Goto(t, reading)
    /\ UNCHANGED <<ctrlVars, unit_claimed, contVars, isrVars, fault>>

ReadEnd(t, reading, loop) ==
    /\ pc[t] = reading
    /\ adc1_lock' = NoTask
    /\ pc' = [pc EXCEPT ![t] = loop]
    /\ left' = [left EXCEPT ![t] = left[t] - 1]
    /\ UNCHANGED <<ctrlVars, unit_claimed, contVars, isrVars, req, lost, ret, fault>>

-----------------------------------------------------------------------------
(* ADC_SetupTimeCriticalSampling(ctrl_channel, ctrl_atten) *)

SetupCheck(t) ==
    /\ pc[t] = "setup_check"
    /\ LET m == req[t].mask
           fresh == m # {INVALID} /\ active_ctrl_channels = {}
           usable == fresh \/ active_ctrl_channels = m
       IN  \/ usable /\ SetActive(m) /\ Goto(t, "setup_unit")
           \/ ~usable /\ UNCHANGED ctrlVars /\ Leave(t, "FAIL")
    /\ UNCHANGED <<sdkVars, fault>>

(* The results of adc_oneshot_new_unit and adc_oneshot_config_channel are  *)
(* not looked at; the latter dereferences whatever oneshot_handle holds.   *)
SetupUnit(t) ==
    /\ pc[t] = "setup_unit"
    /\ \/ NewUnitOk /\ NewUnit /\ Leave(t, "SUCCESS") /\ UNCHANGED fault
       \/ /\ NewUnitFail /\ ~Dangling
          /\ Leave(t, "SUCCESS")
          /\ UNCHANGED <<ctrlVars, sdkVars, fault>>
       \/ NewUnitFail /\ Dangling /\ Stop("use_after_free")

(* ADC_StartTimeCriticalSampling(ctrl_channel, nb_samples, pResult): no    *)
(* mutex; a failed read counts as a sample of 0 and the loop goes on.      *)

CriticalCheck(t) ==
    /\ pc[t] = "crit_check"
    /\ \/ /\ req[t].mask # {INVALID} /\ active_ctrl_channels = req[t].mask
          /\ Goto(t, "crit_read")
       \/ /\ req[t].mask = {INVALID} \/ active_ctrl_channels # req[t].mask
          /\ pc' = [pc EXCEPT ![t] = "return"]
          /\ ret' = [ret EXCEPT ![t] = "FAIL"]
          /\ UNCHANGED <<req, left, lost>>
    /\ UNCHANGED <<ctrlVars, sdkVars, fault>>

CriticalRead(t) ==
    /\ pc[t] = "crit_read"
    /\ \/ /\ left[t] = 0
          /\ Goto(t, "crit_store")
          /\ UNCHANGED <<ctrlVars, sdkVars, fault>>
       \/ left[t] > 0 /\ ReadBegin(t, "crit_reading")
       \/ /\ left[t] > 0 /\ ReadFails
          /\ left' = [left EXCEPT ![t] = left[t] - 1]
          /\ lost' = lost \cup {t}
          /\ UNCHANGED <<ctrlVars, sdkVars, pc, req, ret, fault>>
       \/ left[t] > 0 /\ Dangling /\ Stop("use_after_free")

CriticalReadEnd(t) == ReadEnd(t, "crit_reading", "crit_read")

(* The mean over nb_samples. *)
CriticalStore(t) ==
    /\ pc[t] = "crit_store"
    /\ \/ req[t].n = 0 /\ Stop("div_by_zero")
       \/ /\ req[t].n > 0
          /\ pc' = [pc EXCEPT ![t] = "return"]
          /\ ret' = [ret EXCEPT ![t] = "SUCCESS"]
          /\ UNCHANGED <<ctrlVars, sdkVars, req, left, lost, fault>>

-----------------------------------------------------------------------------
(* ADC_StartSampling, a mode or configuration refused before the switch *)

BadMode(t) ==
    /\ pc[t] = "bad_mode"
    /\ Leave(t, "FAIL")
    /\ UNCHANGED <<ctrlVars, sdkVars, fault>>

(* ADC_StartSampling(ADC_CTRL_MODE_ONE_SHOT, pConfig) *)

OneShotCheck(t) ==
    /\ pc[t] = "one_check"
    /\ LET m == req[t].mask
           refused == m = {INVALID} \/ ~MayUse(m)
           noResult == req[t].arg = "null_result"
       IN  \/ refused /\ UNCHANGED ctrlVars /\ Leave(t, "FAIL")
           \/ ~refused /\ noResult /\ SetActive(m) /\ Goto(t, "one_null")
           \/ ~refused /\ ~noResult /\ SetActive(m) /\ Goto(t, "one_unit")
    /\ UNCHANGED <<sdkVars, fault>>

(* The buffer for the result is looked at once the channel is reserved. *)
OneShotNoResult(t) ==
    /\ pc[t] = "one_null"
    /\ SetActive({})
    /\ Leave(t, "FAIL")
    /\ UNCHANGED <<sdkVars, fault>>

(* Mutant of OneShotUnit: the error path returns without the give. *)
OneShotUnitKeepsMutex(t) ==
    /\ pc[t] = "one_unit"
    /\ \/ NewUnitOk /\ NewUnit /\ Goto(t, "one_config")
       \/ NewUnitFail /\ SetActive({}) /\ Goto(t, "return") /\ UNCHANGED sdkVars
    /\ UNCHANGED fault

OneShotUnit(t) ==
    /\ pc[t] = "one_unit"
    /\ \/ NewUnitOk /\ NewUnit /\ Goto(t, "one_config")
       \/ NewUnitFail /\ SetActive({}) /\ Leave(t, "FAIL") /\ UNCHANGED sdkVars
    /\ UNCHANGED fault

(* Mutant of OneShotConfig: no return after the unit is deleted. *)
OneShotConfigGoesOn(t) ==
    /\ pc[t] = "one_config"
    /\ \/ /\ req[t].arg # "bad_atten"
          /\ UNCHANGED <<ctrlVars, sdkVars>>
       \/ /\ req[t].arg = "bad_atten" /\ DelUnitOk
          /\ DelUnit /\ SetActive({})
    /\ Goto(t, "one_read")
    /\ UNCHANGED fault

(* adc_oneshot_config_channel refuses the attenuation: the unit is deleted *)
(* and oneshot_handle keeps pointing to it.                                *)
OneShotConfig(t) ==
    /\ pc[t] = "one_config"
    /\ \/ /\ req[t].arg # "bad_atten"
          /\ Goto(t, "one_read")
          /\ UNCHANGED <<ctrlVars, sdkVars, fault>>
       \/ /\ req[t].arg = "bad_atten"
          /\ \/ /\ DelUnitOk /\ DelUnit
                /\ SetActive({}) /\ Leave(t, "FAIL")
                /\ UNCHANGED fault
             \/ DelUnitFault /\ Stop("use_after_free")

(* Mutant of OneShotRead: one sample more than nb_sample. *)
OneShotReadOneMore(t) ==
    /\ pc[t] = "one_read"
    /\ \/ left[t] >= 0 /\ ReadBegin(t, "one_reading")
       \/ left[t] < 0 /\ Goto(t, "one_store") /\ UNCHANGED <<ctrlVars, sdkVars, fault>>

(* The loop over nb_sample; a failed read breaks out of it.  The unit was  *)
(* created by this call, so it is live here (OneShotHasUnit).              *)
OneShotRead(t) ==
    /\ pc[t] = "one_read"
    /\ \/ /\ left[t] = 0
          /\ Goto(t, "one_store")
          /\ UNCHANGED <<ctrlVars, sdkVars, fault>>
       \/ left[t] > 0 /\ ReadBegin(t, "one_reading")
       \/ /\ left[t] > 0 /\ ReadFails
          /\ pc' = [pc EXCEPT ![t] = "one_store"]
          /\ lost' = lost \cup {t}
          /\ UNCHANGED <<ctrlVars, sdkVars, req, left, ret, fault>>

OneShotReadEnd(t) == ReadEnd(t, "one_reading", "one_read")

(* Mutant of OneShotStore: the unit is not deleted. *)
OneShotStoreKeepsUnit(t) ==
    /\ pc[t] = "one_store"
    /\ Goto(t, "one_reset")
    /\ UNCHANGED <<ctrlVars, sdkVars, fault>>

(* The mean is stored, then the unit is deleted, which cannot fail for the *)
(* same reason.                                                            *)
OneShotStore(t) ==
    /\ pc[t] = "one_store"
    /\ \/ req[t].n = 0 /\ Stop("div_by_zero")
       \/ /\ req[t].n > 0 /\ DelUnitOk
          /\ DelUnit /\ Goto(t, "one_reset") /\ UNCHANGED <<ctrlVars, fault>>
       \/ req[t].n > 0 /\ DelUnitFault /\ Stop("use_after_free")

OneShotReset(t) ==
    /\ pc[t] = "one_reset"
    /\ oneshot_handle' = "NULL"
    /\ active_ctrl_channels' = {}
    /\ Leave(t, "SUCCESS")
    /\ UNCHANGED <<continuous_handle, active_continuous_callback,
                   adc_mutex_handle, initialised, sdkVars, fault>>

-----------------------------------------------------------------------------
(* ADC_StartSampling(ADC_CTRL_MODE_CONTINUOUS, pConfig) *)

(* Mutant of ContinuousCheck: the channels are not reserved. *)
ContinuousCheckNoReserve(t) ==
    /\ pc[t] = "cont_check"
    /\ \/ ~MayUse(req[t].mask) /\ Leave(t, "FAIL")
       \/ MayUse(req[t].mask) /\ Goto(t, "cont_new")
    /\ UNCHANGED <<ctrlVars, sdkVars, fault>>

ContinuousCheck(t) ==
    /\ pc[t] = "cont_check"
    /\ LET m == req[t].mask
           refused == \/ m = {}
                      \/ req[t].n = 0
                      \/ req[t].arg \in {"null_callback", "bad_freq"}
                      \/ ~MayUse(m)
       IN  \/ refused /\ UNCHANGED ctrlVars /\ Leave(t, "FAIL")
           \/ ~refused /\ SetActive(m) /\ Goto(t, "cont_new")
    /\ UNCHANGED <<sdkVars, fault>>

(* adc_continuous_new_handle: a new object whatever objects there are.     *)
(* gdma_connect gives the ADC's DMA requests to it only if no other object *)
(* has them; its result is not looked at.  Without memory for all parts of *)
(* the object what there is of it goes to adc_continuous_deinit, which     *)
(* frees a use of the ADC's clock that it never claimed: with no other     *)
(* user of the ADC, adc_apb_periph_free aborts.                            *)
ContinuousNew(t) ==
    /\ pc[t] = "cont_new"
    /\ \/ \E h \in Handle :
             /\ cont_fsm[h] = "free"
             /\ cont_fsm' = [cont_fsm EXCEPT ![h] = "init"]
             /\ gdma_conn' = IF gdma_conn = NoHandle THEN h ELSE gdma_conn
             /\ continuous_handle' = h
             /\ Goto(t, "cont_config")
             /\ UNCHANGED <<active_ctrl_channels, oneshot_handle, pool_full,
                            active_continuous_callback, adc_mutex_handle,
                            initialised, unit_claimed, adc1_lock, isrVars, fault>>
       \/ /\ HeapMayFail \/ \A h \in Handle : cont_fsm[h] # "free"
          /\ SetActive({}) /\ Leave(t, "FAIL")
          /\ UNCHANGED <<sdkVars, fault>>
       \/ HeapMayFail /\ AdcIdle /\ Stop("abort")

(* adc_continuous_config refuses the frequency; the object stays. *)
ContinuousConfig(t) ==
    /\ pc[t] = "cont_config"
    /\ LET refused == req[t].arg = "slow_freq"
       IN  \/ refused /\ SetActive({}) /\ Leave(t, "FAIL")
           \/ ~refused /\ UNCHANGED ctrlVars /\ Goto(t, "cont_register")
    /\ UNCHANGED <<sdkVars, fault>>

(* Mutant of ContinuousRegister: the callback is not kept. *)
ContinuousRegisterNothing(t) ==
    /\ pc[t] = "cont_register"
    /\ Goto(t, "cont_start")
    /\ UNCHANGED <<ctrlVars, sdkVars, fault>>

(* The callback of the caller; the registration of an object in the init   *)
(* state succeeds.                                                         *)
ContinuousRegister(t) ==
    /\ pc[t] = "cont_register"
    /\ SetCallback(t)
    /\ Goto(t, "cont_start")
    /\ UNCHANGED <<sdkVars, fault>>

SetFsm(h, s) == /\ cont_fsm' = [cont_fsm EXCEPT ![h] = s]
                /\ UNCHANGED <<unit_claimed, gdma_conn, pool_full, isrVars>>

(* adc_continuous_start up to adc_lock_acquire, and from there on. *)
ContinuousStart(t) ==
    /\ pc[t] = "cont_start"
    /\ SetFsm(continuous_handle, "starting")
    /\ Goto(t, "cont_lock")
    /\ UNCHANGED <<ctrlVars, adc1_lock, fault>>

(* Mutant of ContinuousLock: it does not wait for the converter. *)
ContinuousLockAnyway(t) ==
    /\ pc[t] = "cont_lock"
    /\ adc1_lock' = t
    /\ SetFsm(continuous_handle, "started")
    /\ Leave(t, "SUCCESS")
    /\ UNCHANGED <<ctrlVars, fault>>

ContinuousLock(t) ==
    /\ pc[t] = "cont_lock"
    /\ adc1_lock = NoTask
    /\ adc1_lock' = t
    /\ SetFsm(continuous_handle, "started")
    /\ Leave(t, "SUCCESS")
    /\ UNCHANGED <<ctrlVars, fault>>

-----------------------------------------------------------------------------
(* The DMA interrupt of the connected, started object, adc_dma_intr.  It   *)
(* runs on one core while tasks run on the other: it takes frames off the  *)
(* descriptors until there is none left, and its first step may come as    *)
(* late as it likes.  Nobody reads the ring buffer, which holds one frame: *)
(* the first frame fills it and every later one overflows it, which is the *)
(* event continuous_conv_done_callback is registered for.  That reads      *)
(* active_continuous_callback twice: for the test, IsrFrame, and for the   *)
(* call, IsrCall.                                                          *)

IsrEnter(h) ==
    /\ isr = NoHandle
    /\ cont_fsm[h] = "started" /\ gdma_conn = h
    /\ isr' = h /\ isr_at' = "frame"
    /\ UNCHANGED <<ctrlVars, unit_claimed, contVars, adc1_lock, callVars, fault>>

(* The ring buffer and the descriptors of the object are freed. *)
BuffersFreed(h) == cont_fsm[h] \in {"freeing", "free"}

(* A frame goes into the ring buffer. *)
IsrFrame ==
    /\ isr_at \in {"frame", "more"}
    /\ \/ BuffersFreed(isr) /\ Stop("freed_dma")
       \/ /\ ~BuffersFreed(isr)
          /\ pool_full' = pool_full \cup {isr}
          /\ isr_at' = IF isr \in pool_full /\ active_continuous_callback # NoTask
                       THEN "call" ELSE "more"
          /\ UNCHANGED <<ctrlVars, unit_claimed, cont_fsm, gdma_conn, adc1_lock,
                         isr, callVars, fault>>

IsrCall ==
    /\ isr_at = "call"
    /\ \/ active_continuous_callback = NoTask /\ Stop("null_callback")
       \/ /\ active_continuous_callback # NoTask
          /\ isr_at' = "more"
          /\ UNCHANGED <<ctrlVars, unit_claimed, contVars, adc1_lock, isr,
                         callVars, fault>>

(* The descriptors have no other frame. *)
IsrLeave ==
    /\ isr_at = "more" /\ ~BuffersFreed(isr)
    /\ isr' = NoHandle /\ isr_at' = "idle"
    /\ UNCHANGED <<ctrlVars, unit_claimed, contVars, adc1_lock, callVars, fault>>

-----------------------------------------------------------------------------
(* ADC_ReleaseAdcController(channel_mask) *)

ReleaseCheck(t) ==
    /\ pc[t] = "rel_check"
    /\ LET refused == req[t].mask = {} \/ active_ctrl_channels # req[t].mask
       IN  \/ refused /\ UNCHANGED ctrlVars /\ Leave(t, "FAIL")
           \/ ~refused /\ SetActive({}) /\ Goto(t, "rel_callback")
    /\ UNCHANGED <<sdkVars, fault>>

(* Mutant of ReleaseCallback: the object is not stopped. *)
ReleaseCallbackNoStop(t) ==
    /\ pc[t] = "rel_callback"
    /\ SetCallback(NoTask)
    /\ Goto(t, "rel_free")
    /\ UNCHANGED <<sdkVars, fault>>

ReleaseCallback(t) ==
    /\ pc[t] = "rel_callback"
    /\ SetCallback(NoTask)
    /\ Goto(t, "rel_stop")
    /\ UNCHANGED <<sdkVars, fault>>

(* The object behind continuous_handle: none, or one in a state of S.  A   *)
(* starting object belongs to a call that holds the mutex.                 *)
NoObject == continuous_handle = NoHandle
ObjectIn(S) == ~NoObject /\ cont_fsm[continuous_handle] \in S

(* Mutant of ReleaseStop: the adc1 lock is kept. *)
ReleaseStopKeepsLock(t) ==
    /\ pc[t] = "rel_stop"
    /\ ObjectIn({"started"})
    /\ SetFsm(continuous_handle, "init")
    /\ Goto(t, "rel_free")
    /\ UNCHANGED <<ctrlVars, adc1_lock, fault>>

(* adc_continuous_stop, whose error is not looked at.  The adc1 lock is a  *)
(* FreeRTOS mutex: only the task that took it may give it back.            *)
ReleaseStop(t) ==
    /\ pc[t] = "rel_stop"
    /\ \/ ObjectIn({"free"}) /\ Stop("use_after_free")
       \/ ObjectIn({"started"}) /\ adc1_lock # t /\ Stop("not_lock_holder")
       \/ /\ ObjectIn({"started"}) /\ adc1_lock = t
          /\ adc1_lock' = NoTask
          /\ SetFsm(continuous_handle, "init")
          /\ Goto(t, "rel_free")
          /\ UNCHANGED <<ctrlVars, fault>>
       \/ /\ NoObject \/ ObjectIn({"init"})
          /\ Goto(t, "rel_free")
          /\ UNCHANGED <<ctrlVars, sdkVars, fault>>

(* adc_continuous_deinit: the ring buffer, the DMA buffer and the          *)
(* descriptors are freed first, without regard to the interrupt.           *)
ReleaseFree(t) ==
    /\ pc[t] = "rel_free"
    /\ \/ NoObject /\ UNCHANGED sdkVars
       \/ ~NoObject /\ SetFsm(continuous_handle, "freeing") /\ UNCHANGED adc1_lock
    /\ Goto(t, "rel_deinit")
    /\ UNCHANGED <<ctrlVars, fault>>

(* Mutant of ReleaseDeinit: the object is stopped but not given back. *)
ReleaseDeinitNothing(t) ==
    /\ pc[t] = "rel_deinit"
    /\ Leave(t, "SUCCESS")
    /\ UNCHANGED <<ctrlVars, sdkVars, fault>>

(* Mutant of ReleaseDeinit: it does not wait for the interrupt. *)
ReleaseDeinitAnyway(t) ==
    /\ pc[t] = "rel_deinit"
    /\ ~NoObject
    /\ cont_fsm' = [cont_fsm EXCEPT ![continuous_handle] = "free"]
    /\ gdma_conn' = IF gdma_conn = continuous_handle THEN NoHandle ELSE gdma_conn
    /\ pool_full' = pool_full \ {continuous_handle}
    /\ Leave(t, "SUCCESS")
    /\ UNCHANGED <<ctrlVars, unit_claimed, adc1_lock, isrVars, fault>>

(* adc_dma_deinit, where esp_intr_free waits for an interrupt routine of   *)
(* the object that runs on the other core, and the object itself.          *)
ReleaseDeinit(t) ==
    /\ pc[t] = "rel_deinit"
    /\ \/ NoObject /\ UNCHANGED contVars
       \/ /\ ~NoObject /\ isr # continuous_handle
          /\ cont_fsm' = [cont_fsm EXCEPT ![continuous_handle] = "free"]
          /\ gdma_conn' = IF gdma_conn = continuous_handle
                          THEN NoHandle ELSE gdma_conn
          /\ pool_full' = pool_full \ {continuous_handle}
    /\ Leave(t, "SUCCESS")
    /\ UNCHANGED <<ctrlVars, unit_claimed, adc1_lock, isrVars, fault>>

(* ADC_ReleaseAdcFromCriticalSampling(ctrl_channel) *)

CriticalReleaseCheck(t) ==
    /\ pc[t] = "crel_check"
    /\ LET refused == req[t].mask = {INVALID} \/ active_ctrl_channels # req[t].mask
       IN  \/ refused /\ Leave(t, "FAIL")
           \/ ~refused /\ Goto(t, "crel_del")
    /\ UNCHANGED <<ctrlVars, sdkVars, fault>>

CriticalReleaseDel(t) ==
    /\ pc[t] = "crel_del"
    /\ \/ /\ DelUnitOk /\ DelUnit
          /\ Goto(t, "crel_clear") /\ UNCHANGED <<ctrlVars, fault>>
       \/ DelUnitFault /\ Stop("use_after_free")
       \/ /\ oneshot_handle = "NULL"
          /\ Goto(t, "crel_clear") /\ UNCHANGED <<ctrlVars, sdkVars, fault>>

(* Mutant of CriticalReleaseClear: the reservation is kept. *)
CriticalReleaseKeeps(t) ==
    /\ pc[t] = "crel_clear"
    /\ Leave(t, "SUCCESS")
    /\ UNCHANGED <<ctrlVars, sdkVars, fault>>

CriticalReleaseClear(t) ==
    /\ pc[t] = "crel_clear"
    /\ SetActive({})
    /\ Leave(t, "SUCCESS")
    /\ UNCHANGED <<sdkVars, fault>>

-----------------------------------------------------------------------------
(* ADC_ApplyCalibration: it uses no state of the controller but the mutex. *)
(* Without a calibration scheme the caller's samples are overwritten by 0: *)
(* for want of memory, for an attenuation that is not looked at before, or *)
(* on a chip whose eFuses hold no calibration.                             *)
Calibrate(t) ==
    /\ pc[t] = "calibrate"
    /\ LET refused == req[t].mask = {INVALID} \/ req[t].arg = "null_result"
       IN  \/ refused /\ Leave(t, "FAIL")
           \/ ~refused /\ Leave(t, "SUCCESS")
           \/ /\ ~refused
              /\ pc' = [pc EXCEPT ![t] = "give"]
              /\ ret' = [ret EXCEPT ![t] = "SUCCESS"]
              /\ lost' = lost \cup {t}
              /\ UNCHANGED <<req, left>>
    /\ UNCHANGED <<ctrlVars, sdkVars, fault>>

ADC_IsControllerAvailable(t) ==
    /\ pc[t] = "avail"
    /\ Leave(t, IF active_ctrl_channels = {} THEN "TRUE" ELSE "FALSE")
    /\ UNCHANGED <<ctrlVars, sdkVars, fault>>

-----------------------------------------------------------------------------
(* A step inside a function, by the task that runs it. *)
Inside(t) ==
    \/ SetupCheck(t) \/ SetupUnit(t)
    \/ CriticalCheck(t) \/ CriticalRead(t) \/ CriticalReadEnd(t) \/ CriticalStore(t)
    \/ BadMode(t)
    \/ OneShotCheck(t) \/ OneShotNoResult(t) \/ OneShotUnit(t) \/ OneShotConfig(t)
    \/ OneShotRead(t) \/ OneShotReadEnd(t) \/ OneShotStore(t) \/ OneShotReset(t)
    \/ ContinuousCheck(t) \/ ContinuousNew(t) \/ ContinuousConfig(t)
    \/ ContinuousRegister(t) \/ ContinuousStart(t) \/ ContinuousLock(t)
    \/ ReleaseCheck(t) \/ ReleaseCallback(t) \/ ReleaseStop(t) \/ ReleaseFree(t)
    \/ ReleaseDeinit(t)
    \/ CriticalReleaseCheck(t) \/ CriticalReleaseDel(t) \/ CriticalReleaseClear(t)
    \/ Calibrate(t) \/ ADC_IsControllerAvailable(t)
    \/ GiveMutex(t)

Interrupt == IsrFrame \/ IsrCall \/ IsrLeave \/ \E h \in Handle : IsrEnter(h)

(* Steps of the running program, whatever the clients call. *)
Run == \/ \E t \in Task : TakeMutex(t) \/ Inside(t)
       \/ Interrupt

Next ==
    \/ /\ fault = "none"
       /\ \/ ADC_InitController
          \/ Run
          \/ \E t \in Task : Return(t)
          \/ \E t \in Task, r \in Request : Call(t, r)
    \/ Reboot

Spec == Init /\ [][Next]_vars

(* The scheduler runs a function on as long as it is not blocked, the DMA  *)
(* keeps delivering frames, and a panic ends in the reboot.                *)
Scheduling ==
    /\ \A t \in Task : WF_vars(fault = "none" /\ (Inside(t) \/ Return(t)))
    /\ WF_vars(fault = "none" /\ Interrupt)
    /\ WF_vars(Reboot)

FairSpec == Spec /\ Scheduling

-----------------------------------------------------------------------------
(* Properties that hold whatever the clients call. *)

(* Every path out of a function gives the mutex back, and no step between  *)
(* the take and the give runs without it.                                  *)
MutexDiscipline ==
    \A t \in Task : adc_mutex_handle = t <=> pc[t] \in Locked

(* A unit claimed in the one-shot driver stays in reach of a release: no   *)
(* return path and no mixture of calls forgets its handle.  The only step  *)
(* that leaves a claimed unit without one is an ADC_InitController called  *)
(* once more while the unit is in use.                                     *)
Unreachable == unit_claimed /\ oneshot_handle = "NULL"

UnitLostOnlyByInit == [][~Unreachable /\ Unreachable' => ADC_InitController]_vars

(* From its creation to its deletion, the unit of a one-shot call is live: *)
(* no concurrent time-critical sampling or release takes it away.          *)
OneShotHasUnit ==
    \A t \in Task :
        pc[t] \in {"one_config", "one_read", "one_reading", "one_store"} =>
            unit_claimed

(* The adc1 lock says who drives the converter: at most one continuous     *)
(* object runs, a one-shot read never overlaps it or another read, and the *)
(* lock is taken exactly while one of these uses the converter.            *)
StartedObjects == {h \in Handle : cont_fsm[h] = "started"}

ConverterExclusive ==
    /\ \A h, k \in StartedObjects : h = k
    /\ \A t \in Task : pc[t] \in Reading =>
            adc1_lock = t /\ StartedObjects = {}
    /\ adc1_lock # NoTask =>
            StartedObjects # {} \/ pc[adc1_lock] \in Reading
    /\ StartedObjects # {} => adc1_lock # NoTask

(* Where the calls in progress are, the drivers are in the state the code  *)
(* relies on: a continuous start works on an object it has just made, a    *)
(* release frees an object only once it has stopped, a one-shot call drops *)
(* the handle of a deleted unit, nothing runs without the initialisation,  *)
(* and the interrupt has an object while it runs.  This is what the        *)
(* properties above rest on.                                               *)
PhaseInvariant ==
    /\ ~initialised => \A t \in Task : pc[t] = "idle"
    /\ isr_at = "idle" <=> isr = NoHandle
    /\ \A t \in Task :
          /\ pc[t] = "take" => req[t].op \in DOMAIN EntryPoint
          /\ pc[t] \in Reading => left[t] > 0
          /\ pc[t] = "one_reset" => ~unit_claimed
          /\ pc[t] \in {"cont_config", "cont_register", "cont_start"} =>
                ObjectIn({"init"})
          /\ pc[t] = "cont_lock" => ObjectIn({"starting"})
          /\ pc[t] = "rel_free" => NoObject \/ ObjectIn({"init"})
          /\ pc[t] = "rel_deinit" => NoObject \/ ObjectIn({"freeing"})

(* Ownership of the controller passes through "free": no step replaces one *)
(* non-empty channel mask by another.                                      *)
Handover ==
    active_ctrl_channels' # active_ctrl_channels =>
        active_ctrl_channels = {} \/ active_ctrl_channels' = {}

HandoverThroughFree == [][Handover]_vars

(* When no function runs and the controller is reserved, a claimed unit or *)
(* a running continuous object is behind the reservation.  The one         *)
(* exception is an ADC_SetupTimeCriticalSampling whose allocation failed,  *)
(* which its caller is not told of: it leaves one channel reserved with no *)
(* unit and a NULL handle.                                                 *)
ReservationBacked ==
    adc_mutex_handle = NoTask /\ active_ctrl_channels # {} =>
        \/ unit_claimed \/ StartedObjects # {}
        \/ HeapMayFail /\ oneshot_handle = "NULL" /\ active_ctrl_channels \in Single

(* Promises of the comments and of the header that need more than the code *)
(* does: AdcClients states what clients have to keep to for the first two. *)

(* No function keeps the mutex: no path blocks for ever inside it. *)
MutexReturned ==
    \A t \in Task : adc_mutex_handle = t ~> adc_mutex_handle # t

(* ADC_IsControllerAvailable tells the truth: outside the functions,       *)
(* active_ctrl_channels is 0 exactly when no driver holds anything.        *)
AvailabilityTruthful ==
    adc_mutex_handle = NoTask => (active_ctrl_channels = {} <=> AdcIdle)

(* No call touches a one-shot unit or a continuous object that was freed:  *)
(* the functions have no precondition that would forbid it.                *)
NoUseAfterFree == fault # "use_after_free"

(* The interrupt calls the callback only if there is one. *)
NoNullCallback == fault # "null_callback"

=============================================================================

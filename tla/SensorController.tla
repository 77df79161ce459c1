-------------------------- MODULE SensorController --------------------------
(***************************************************************************)
(* The sensor task, main/Sensors/sensorController.c: a cycle of steps that *)
(* switches the sensors on, has them sampled and switches them off.  The   *)
(* task gives a binary semaphore, which it alone uses, to itself to go     *)
(* from one step to the next.  The lengths of its delays are left out, and *)
(* so is the timeout of xSemaphoreTake, after which the task only waits    *)
(* again.                                                                  *)
(***************************************************************************)
EXTENDS Naturals

VARIABLES
    sensor_step, sensor_semphr,
    sensor_en,      \* HWI_SENSOR_EN_GPIO
    pc              \* where the task is

svars == <<sensor_step, sensor_semphr, sensor_en, pc>>

SensorInit ==
    /\ sensor_step = "INVALID"
    /\ sensor_semphr = 0
    /\ sensor_en = 0
    /\ pc = "none"

(* SENSOR_InitController, again if it failed; it makes a new semaphore     *)
(* before it creates the task.                                             *)
SENSOR_InitController(created) ==
    /\ pc = "none"
    /\ sensor_step' = "IDLE"
    /\ sensor_semphr' = 0
    /\ pc' = IF created THEN "start" ELSE "none"
    /\ UNCHANGED sensor_en

-----------------------------------------------------------------------------
(* tSensorTask *)

(* xSemaphoreGive at the start, and when the delay of a step is over. *)
Give(from) == /\ pc = from
              /\ sensor_semphr' = 1
              /\ pc' = "take"
              /\ UNCHANGED <<sensor_step, sensor_en>>

TaskStart == Give("start")

DelayEnd == Give("delay")

(* xSemaphoreTake succeeds in a step, which sets the next one. *)
Take(step, next) ==
    /\ pc = "take" /\ sensor_semphr = 1 /\ sensor_step = step
    /\ sensor_semphr' = 0
    /\ sensor_step' = next

StepIdle == /\ Take("IDLE", "EN_SENSOR")
            /\ pc' = "delay" /\ UNCHANGED sensor_en

StepEnSensor == /\ Take("EN_SENSOR", "START_ADC")
                /\ pc' = "delay" /\ sensor_en' = 1

(* This step starts no sampling, and neither waits nor gives. *)
StepStartAdc == /\ Take("START_ADC", "PROCESS_PWR")
                /\ UNCHANGED <<pc, sensor_en>>

StepProcessPwr == /\ Take("PROCESS_PWR", "PROCESS_TEMP")
                  /\ pc' = "delay" /\ sensor_en' = 0

StepProcessTemp == /\ Take("PROCESS_TEMP", "IDLE")
                   /\ pc' = "delay" /\ UNCHANGED sensor_en

StepInvalid == /\ Take("INVALID", "IDLE")
               /\ pc' = "delay" /\ UNCHANGED sensor_en

SensorTask == \/ TaskStart \/ DelayEnd
              \/ StepIdle \/ StepEnSensor \/ StepStartAdc
              \/ StepProcessPwr \/ StepProcessTemp \/ StepInvalid

SensorNext == \/ \E created \in BOOLEAN : SENSOR_InitController(created)
              \/ SensorTask

(* A task that is not blocked runs. *)
FairSensorSpec == SensorInit /\ [][SensorNext]_svars /\ WF_svars(SensorTask)

-----------------------------------------------------------------------------
(* What the steps are for: sensors that were switched on are switched off  *)
(* again.                                                                  *)
SensorsOffAgain == sensor_en = 1 ~> sensor_en = 0

=============================================================================

# Specifications of the laser driver firmware

TLA+ specifications, TLC configurations and TLAPS proofs for the application
under `Source/Laser_Driver/main` (ESP32, FreeRTOS, ESP-IDF). Paths below are
relative to that directory unless they start with `SDK/`, which stands for the
vendored ESP-IDF under `Source/SDK/components`.

## 1. The system

The repository is an application of some twenty C files and a complete copy of
the ESP-IDF. Only the application has logic of its own; the ESP-IDF appears in
the specifications where the application's state is tied to it.

| Part | State | Operations | What makes it correct |
|---|---|---|---|
| ADC controller, `HWI/adcController.c` | the reserved channel mask `active_ctrl_channels`, the one-shot handle, the continuous handle, the callback, a mutex | one-shot and continuous sampling, time-critical sampling in three calls, release, calibration, availability; the DMA interrupt | one user of the converter at a time, every path gives the mutex back, no freed unit is used, a reservation and the hardware agree, the callback comes |
| LED driver, `UserInterface/led/ledDriver.c` and `Config/ledDriver_cfg.c` | the table of LEDs, a mutex; behind it PWM channels, timers and fades | add an LED, set and fade duty or colour, set a frequency | a handle names its LED, an LED shows what was asked for last, no write of one task is lost in another's once a channel has faded, calls made during a fade return |
| Trigger driver, `UserInterface/triggerDriver.c` | debounced state, two saturating counters | initialise, a sampling task | it is a debouncer: a state is reported after a run of equal samples and only then |
| User interface, `UserInterface/userInterface.c` | an event queue | initialise, post, the task that receives | events are handled once, in order, eventually; the status tells the truth |
| Sensor controller, `Sensors/sensorController.c` | the step, a binary semaphore, the enable pin | a task that cycles through five steps | the cycle goes round, sensors do not stay on |
| Temperature conversion, `Sensors/tempConversion.c` | none | ADC reading to hundredths of a degree | linear interpolation in the table, errors only out of range |
| Temperature and power monitoring, `Sensors/temperatureMonitoring.c`, `Sensors/pwrMonitoring.c` | last values, a mutex | stubs: nothing is computed yet | |
| Shell over UART, `HWI/shellComUART.c`, `Config/myShell_cfg.c` | the port; in the UART driver the FIFO, the ring buffer, a stash with its flag, the event queue | initialise, print a character, a listener task; the UART interrupt | the shell gets the bytes in order and once, loses some or gets others among them only after an overrun, and reception does not stay off |
| Main, `main.c` | none | creates one task that delays | |

How they interact: by function calls from several FreeRTOS tasks, on two cores,
by a mutex in each driver, and by callbacks: the DMA interrupt calls the
callback of the task that started continuous sampling, the trigger task calls
its user's. `main.c` does not connect the parts yet, so each is specified
against every use its interface allows, and the ADC controller also against
clients that keep to its header.

What is hard here: ADC functions that are called from tasks of different
priority and from the interrupt; a sampling function that checks the
reservation without the mutex (`adcController.c:191`); a driver lock (adc1) that
is taken inside the controller's mutex and kept after it (line 419); error
paths that undo some of the steps before them (lines 276, 289, 401); handles
that outlive what they point to; a driver that frees the buffers of an interrupt
before it waits for the interrupt's end (`SDK/esp_adc/adc_continuous.c:415`);
counters at their maximum; `int16_t` partial results; calls of several steps that
another task or an interrupt can come between; a fade record that is looked for
and made without a lock (`SDK/esp_driver_ledc/src/ledc.c:208`); a FIFO that a task
resets while the interrupt handler empties it
(`SDK/esp_driver_uart/src/uart.c:1626`); a flag of the UART driver that the interrupt handler and the listener
task read and write on two cores without a lock (line 1163), and events that are
lost when their queue is full (line 1327).

## 2. Modules

| Module | Specifies | Lines of code it stands for |
|---|---|---|
| `AdcController` | the controller, with the parts of the ESP-IDF drivers `SDK/esp_adc/adc_oneshot.c` and `adc_continuous.c` its state is tied to | all of `adcController.c` |
| `AdcClients` | `AdcController` with callers that keep to `adcController.h`; refines `AdcLease` | the header's usage rules |
| `AdcLease` | abstract: a lease of the converter | |
| `AdcControllerProofs` | theorems about `AdcController` | |
| `AdcClientsProofs` | theorems about `AdcClients`; `ClientSpec` implements `AdcLease` | |
| `Debouncer` | abstract: what a debounced input is | |
| `TriggerDriver` | the trigger driver; refines `Debouncer` | `triggerDriver.c` |
| `TriggerDriverProofs` | theorems about `TriggerDriver` | |
| `LedDriver` | table, calls and peripheral steps of the LED driver | `ledDriver.c`, `ledDriver_cfg.c`, parts of `SDK/esp_driver_ledc/src/ledc.c` |
| `LedDriverProofs` | theorems about `LedDriver` | |
| `ShellUart` | initialisation and listener task of the shell, with the receive side of the UART driver | `shellComUART.c`, parts of `SDK/esp_driver_uart/src/uart.c`, `SDK/hal/uart_hal_iram.c` and `SDK/esp_ringbuf/ringbuf.c` |
| `ShellUartProofs` | theorems about `ShellUart` | |
| `UserInterface` | the event queue | `userInterface.c` |
| `UserInterfaceProofs` | theorems about `UserInterface` | |
| `SensorController` | the sensor task | `sensorController.c` |
| `TempConversion` | the conversion, with its integer widths | `tempConversion.c` |
| `TempConversionProofs` | theorems about `TempConversion` | |
| `MC...` | constants for TLC; `MCTempConversion` has the table of `temperatureMonitoring.c` | |

Definitions named `... Mutant of X ...` in a comment are wrong variants of the
step that follows them. Nothing uses them; putting one in the place of its
original has to break the property it goes with, which shows that the property
can fail.

### AdcController

Variables keep the names of the C file. A channel mask is the set of its bits.
`unit_claimed`, `cont_fsm`, `gdma_conn`, `pool_full`, `adc1_lock`, `isr` and
`isr_at` are the drivers': the claim on the ADC unit, the state of each
continuous object (`"freeing"` between the release of its buffers and its own),
the object the ADC's DMA requests go to, the objects whose ring buffer is full,
the holder of the adc1 lock, and the object whose interrupt routine runs and
where it is. `pc`, `req`, `left`, `lost` and `ret` are the locals of a
task's call: where it is, its arguments, samples still to take, whether a
sample was lost, the result.

A function is cut at every access to state that another task or the interrupt
can see without the mutex. `Call`, `TakeMutex`, `GiveMutex` and `Return` are the
same for all functions; in between:

* `ADC_InitController`: one step, at any time no other function runs, also when
  a unit or an object is in use; the creation of the mutex may fail.
* `ADC_SetupTimeCriticalSampling`: `SetupCheck`, `SetupUnit`; the results of
  the driver are ignored, as in the code.
* `ADC_StartTimeCriticalSampling`: `CriticalCheck`, `CriticalRead`,
  `CriticalReadEnd`, `CriticalStore`, all without the mutex.
* `ADC_StartSampling`: `BadMode`; `OneShotCheck` to `OneShotReset`;
  `ContinuousCheck` to `ContinuousLock`.
* `ADC_ReleaseAdcController`: `ReleaseCheck`, `ReleaseCallback`, `ReleaseStop`,
  `ReleaseFree`, `ReleaseDeinit`: `adc_continuous_deinit` frees the buffers
  first, without regard to the interrupt, and only then waits for its end.
  `ADC_ReleaseAdcFromCriticalSampling`: `CriticalReleaseCheck`,
  `CriticalReleaseDel`, `CriticalReleaseClear`.
* `ADC_ApplyCalibration` and `ADC_IsControllerAvailable` are one step inside the
  mutex. The former loses the caller's samples whenever there is no calibration
  scheme: for want of memory, for a bad attenuation, or for eFuses without
  calibration, so it may do so at any time.
* the interrupt: `IsrEnter`, then `IsrFrame` for each frame the descriptors
  hold, `IsrCall` for the callback, `IsrLeave`. The callback variable is volatile
  and read twice. The first frame fills the ring buffer, which nobody reads; the
  later ones overflow it and lead to the callback.

Undefined behaviour (a freed unit, freed buffers, a NULL callback, a lock given
back by another task, a division by zero) and an abort set `fault` and stop the
program; `Reboot` (`CONFIG_ESP_SYSTEM_PANIC_PRINT_REBOOT`) starts it again. With
`HeapMayFail` an allocation of the drivers may fail at any time. A continuous
object that can be made only in part is given back through
`adc_continuous_deinit`, which frees a use of the ADC's clock that was not
claimed; the count of these uses is not a variable, the abort is possible when
neither a unit nor another object is there. An `ADC_InitController` in the middle
of another task's function, which would give that task a mutex it does not hold,
is left out. Sample values are left out: only
whether every sample was really converted (`lost`).

### AdcClients

No code of the repository calls the controller yet. This module states what its
header asks of callers: a channel belongs to one task, numbers of samples are
positive, a time-critical or continuous sampling is ended by its release
before the task samples anything else, and the controller is initialised once. `session` is what a task knows.

`AdcLease` is what such callers get, without channels, handles, drivers or the
mutex: the converter is leased to one task at a time; a call is refused only
while another task has the lease or because of its own arguments; a lease ends
only by a call of its holder. `LeaseHolder` reads the holder off the
controller's state (the owner of the reserved channels), `LeaseAsking` the fate
of each call. What the refinement adds to the invariants is that nothing is
left behind: a caller is never turned away for a session that has ended.

### TriggerDriver and Debouncer

One action is one turn of the task's loop. `Saturated` is `0xFFFFFFFF` in the
code; the module and the theorems hold for every value above the debounce
factor, the run uses 9. The abstraction has no counters: `last` and `streak` are
mapped to which counter is not 0 and to its value, cut at the debounce factor.
The file is not in `CMakeLists.txt`, and line 109 names a variable that does not
exist (`trigger_release`); it is read as `trigger_release_cptr`.

### LedDriver

The table is changed in one step, under the mutex (`AddLed`). A call looks its
LED up under the mutex (`Begin`) and then makes its peripheral calls one at a
time (`Step`), without it. Levels are 0..MaxDuty+1, the share of the period the
pin is high. `ledc_set_duty` and a fade wait for the end of a fade on the
channel, by a semaphore in the channel's fade record. The first fade makes that
record, without a lock: a call that has found none (`FindNoRecord`) is `open`
until it has written. If a first fade and another open call of the same channel
meet, the channel is `raced`: a write may be lost, the semaphore given while the
fade runs, the record freed in use, and `RaceOutcome` lets the pin show any level
from then on. `driver/ledc.h:281` says that `ledc_set_duty` and
`ledc_update_duty` are not for several tasks on one channel; the LED driver makes
no provision for this. 
`FadeRefused` is a fade without the service, without memory or with a
target out of range, which ends the call and leaves the earlier channels of an
RGB LED as they are; `FreqRefused` is a frequency the timer cannot produce.
`asked` is the last request that succeeded, `wanted` what
the last request that reached a channel asked of it. `user` says which tasks
drive which LED; it is chosen at the start, so one run has tasks with LEDs of
their own and tasks that share one. A call is `alone` if no other call for its
LED overlaps it. Calls that are refused on their arguments change nothing and
have no action. Left out: `LDRV_GetLedPwmFreq` (reads only), a second
`LDRV_InitDriver`, the levels a fade goes through, also when an update after its
end shows it once more because the duty register still holds where it began
(`ledc.c:1361`), failures of the timer and channel set-up (the code ignores
them).

### ShellUart

The interrupt handler and the listener task run on different cores. Each is cut
at every access to what both can see: the FIFO and the interrupt mask, the ring
buffer (its calls are critical sections), `rx_data_buf` with
`rx_buffer_full_flg`, and the event queue. The handler asks the FIFO for its
length (`IsrReadLength`), reads as many bytes one by one (`IsrReadFifo`), clears
the status (`IsrAck`), pushes the bytes to the ring buffer (`IsrPush`), or else sets the flag
(`IsrFlag`), masks the receive interrupt (`IsrMask`) and posts an event that is
lost if the queue is full (`IsrPost`). The task takes events (`NextEvent`), two
kinds of which flush the input (`FlushDisable` to `FlushReset`), reads one byte
(`ReadByte`, `ReadTimeout`), and moves stashed bytes when it finds the flag
(`SendStash`, `ClearFlag`, `uart_reenable_intr_mask`). The reset of the FIFO in a
flush takes no lock. If it falls between the length and the copy, the handler
reads an empty FIFO: `Noise` is what that returns, a byte that never came. `job` tells apart the
three callers of the shared steps: a read, a flush of the task, and the flush of
`SHCOM_InitCom`.

The driver never looks at the values of bytes, so one byte is watched and the
others are `Earlier` or `Later`: what holds of the watched byte holds of each.
`overrun` records that a buffer was full, or that the initialisation dropped
bytes, which is the only excuse for a loss.

`SHELL_RecvChar` belongs to a library that is not in the sources; it is a step
that takes the byte and returns. Left out: `SHCOM_PrintCharacter` with the
transmit side of the driver, which shares with the receive side only the
handler's loop; breaks and frame errors, which post events the task ignores;
`rx_buffered_len`, which the task asks for and does not use.

### UserInterface, SensorController, TempConversion

`UserInterface` gives every event a number, so that order and loss can be seen,
and remembers posters that wait on a queue a repeated `UI_Init` has replaced. A
`UI_Init` is repeated only after one that failed; one after a success, which
replaces the queue under the task and starts a second task, is left out.
`SensorController` has one action for each step of the task and one for the end
of its delay. `TempConversion` computes with `ToInt16` wherever the code stores
into an `int16_t`; `Garbage` stands for what a read outside the table leads to.

## 3. Runs

Runs that pass:

| Run | Configuration | What it shows |
|---|---|---|
| `adc_any` | `MCAdcAny.cfg` | Two tasks call anything, with bad arguments, failed allocations, repeated initialisations, panics and reboots. The mutex is held exactly between take and give (`MutexDiscipline`); only a repeated `ADC_InitController` makes a claimed unit unreachable (`UnitLostOnlyByInit`); nobody deletes the unit of a one-shot call under it (`OneShotHasUnit`); the converter has one user (`ConverterExclusive`); a reservation has a unit or an object behind it, but for a setup whose allocation failed (`ReservationBacked`). `PhaseInvariant` is what these rest on in the proof. |
| `adc_clients` | `MCAdcClients.cfg` | Two tasks that keep to the header: sessions are exclusive and backed by hardware, SUCCESS of a sampling function means real samples, availability is the truth, a task can always end its own session, the reservation passes only through free, the mutex comes back, the callback comes; together they implement a lease (`ImplementsLease`); a panic is only possible by the interrupt in the middle of a release, by a NULL callback or by buffers freed too early (`OnlyReleaseRace`). |
| `trigger` | `MCTriggerDriver.cfg` | The task implements `Debouncer`, also when counters saturate; the user knows the state; an input that stays is followed. |
| `ui_queue` | `MCUserInterface.cfg` | Two posters over a full queue, timeouts and a repeated initialisation: events are handled once, in order, eventually. |
| `temp` | `MCTempConversion.cfg` | All 12-bit readings with the program's table: early returns and scan fit together except for two readings, and the interpolation is exact where its sum fits 16 bits. |
| `led` | `MCLedDriver.cfg` | An active-low RGB LED, a PWM LED and a GPIO LED, two tasks, a table of two: an LED shows what was asked for last (`LastRequestWins`); when two tasks share it or a fade is refused half way, each channel shows what last reached it (`ChannelsAsAsked`), unless its first fade raced with another call; handles name their LED, frequencies stay, calls return. |
| `shell` | `MCShellUart.cfg` | The shell's input through full buffers, flushes and lost events: bytes come in order and none twice, and bytes that never came join them only after an overrun (`BytesInOrder`); none is lost without an overrun (`LossNeedsOverrun`); none stays in the driver (`NoByteStays`), also if the flag is set after the task has looked at it; and reception, which a race can switch off, comes on again as long as bytes arrive (`ReceptionResumes`). |

Runs that find a promise of the repository broken (the property says what the
comment or header says):

| Run | Property | What happens |
|---|---|---|
| `adc_restart` | `MutexReturned` | A second continuous start with the same mask waits for the adc1 lock inside the controller's mutex; the release that would end the wait needs that mutex (`adcController.c:419`). |
| `adc_freed` | `NoUseAfterFree` | A release deletes the unit (line 575) before it clears the reservation; a time-critical sampling of another task passes its unlocked check (line 191) and reads the freed unit. |
| `adc_null_callback` | `NoNullCallback` | A release sets the callback to NULL between the two reads of the interrupt (line 72), with disciplined clients too. |
| `ui_status` | `StatusTruthful` | `UI_PostEvent` compares `pdTRUE` with `ESP_OK`: the status is the wrong way round (`userInterface.c:107`). |
| `sensor_cycle` | `SensorsOffAgain` | The START_ADC step gives no semaphore; the task stops with the sensors on (`sensorController.c:116`). |

Other disagreements met while modelling, which the specifications reproduce:

* `adcController.c:276`: a one-shot call on the channel of a time-critical setup
  fails and clears the reservation, the unit stays claimed.
  `AvailabilityTruthful` fails under `Spec` instead of `ClientSpec`.
* `adcController.c:401`: a start whose frequency `adc_continuous_config` refuses
  (1 to 610 Hz) forgets an object that keeps the DMA connection. With
  `"slow_freq"` among `ClientArgs`, `CallbackComes` fails.
* `adcController.c:410`: the callback is registered for the overflow of the ring
  buffer, so the first frame is not signalled (`IsrFrame`).
* `adcController.c:99`: a second `ADC_InitController`, for which the header names
  no precondition, forgets a unit that is claimed; every later use of the unit is
  refused by the driver until a reboot.
* `SDK/esp_adc/adc_continuous.c:415`: a release frees the ring buffer and the DMA
  descriptors before it waits for the interrupt on the other core, which then
  uses freed memory. `fault # "freed_dma"` fails under `ClientSpec`.
* `adcController.c:155`: a setup returns SUCCESS after a failed allocation.
* `adcController.c:484`: a calibration without a scheme (no memory, a bad
  attenuation, no eFuse data) overwrites the samples with 0 and returns SUCCESS.
* `tempConversion.c:123`: partial results of the interpolation overflow
  `int16_t`. A reading of 200 gives +6.90 degrees instead of about -39.90; only
  readings near 0 degrees are right. `InterpolationWhereItFits` without its
  `Fits` fails.
* `tempConversion.c:65-82`: readings of 189 and 3742, exactly at the ends of the
  tolerance, are interpolated with entries outside the table.
* `tempConversion.h:10`: the error codes are also temperatures (-0.02, -0.03);
  `temperatureMonitoring.h:10` has them the other way round.
* `ledDriver_cfg.c:246`: an active-low GPIO LED shows the opposite of its state;
  with such an LED in `MCConfig`, `LastRequestWins` fails.
* `ledDriver.c:562`: two tasks that set the colour of one LED can leave a mix of
  both, because the peripheral calls are made without the mutex;
  `LastRequestWins` is about calls that do not overlap, `ChannelsAsAsked` about
  all.
* `SDK/esp_driver_ledc/src/ledc.c:208`, `:1308`: when the first fade of a channel
  overlaps another task's `ledc_set_duty` or first fade of it, a write can be lost
  or the program can abort; without its exception `ChannelsAsAsked` fails.
* `SDK/esp_driver_ledc/src/ledc.c:1059`: the semaphore at the end of a fade is
  not handed to the task that waits for it. A task that fades an LED again and
  again can keep another one waiting for ever; `CallsReturn` promises a return
  to calls that no other call overlaps, and to one of those that overlap.
* `SDK/esp_driver_uart/src/uart.c:1165`: the handler masks the receive interrupt
  after the task on the other core may already have moved the stashed bytes and
  enabled it. Reception is then off with `rx_buffer_full_flg` clear, and only the
  overflow of the FIFO brings it back: `ReceptionResumes` fails without its
  assumption that bytes keep coming.
* `SDK/esp_driver_uart/src/uart.c:1626`: a flush resets the FIFO while the handler
  on the other core empties it; the shell then gets bytes that never came.
* `SDK/esp_driver_uart/src/uart.c:1138`: a handler that finds the FIFO empty posts
  a `UART_DATA` event all the same. If the FIFO filled up between that look and
  the clearing of the status a few instructions later, and did so time and again,
  such events would keep the task from reading and crowd out the
  `UART_FIFO_OVF` event: `NoByteStays` fails without its premise on `FullAtOnce`.
  A FIFO of 128 bytes takes milliseconds to fill, the handler microseconds.
* `shellComUART.c:84`: an overrun event that is handled late flushes bytes that
  came after the overrun.
* `shellComUART.c:153`: an initialisation that fails after the driver was
  installed cannot be repeated.
* `ledDriver_cfg.c:158`: adding an LED sets the timer it shares with another LED
  back to 1 kHz; `FrequencyKept` is about LEDs with a timer of their own.

### Bounds

* `adc_any`: two tasks, one channel and the invalid one, two continuous objects,
  at most one sample. Two tasks are enough for every pair of steps to meet;
  two objects for one to be left over while another runs (the chip's third
  would behave as the second); a second valid channel adds only refusals, which
  the empty mask and the invalid channel already give; each further sample
  repeats the same steps. `Calibrate` and `IsAvailable`, which change nothing of
  the controller but its mutex, and the continuous arguments refused as an empty
  mask is are left to `adc_clients`. The theorems hold without these bounds. Tasks
  and objects are interchangeable, so they are symmetric (no liveness here).
* `adc_clients`: a channel for each of two tasks and two samples, so that a read
  can be lost between two others. Deadlock is checked.
* `trigger`: the code's debounce factor 3 and saturation at 9: runs shorter than,
  equal to and longer than both.
* `ui_queue`: a queue of two and three calls of each of two posters: the queue
  fills, blocks, times out and empties. It may stop once all calls are made.
* `temp`: complete for a 12-bit converter.
* `led`: duties up to 2 with requests of 0, within and above the range; a table
  of two for three LEDs; a modulus of 65536 in the place of 2^32, larger than
  any value that occurs except by wrapping below 0. One colour to set and two to
  fade to, of which one is refused at its second channel; the two ways to share
  the LEDs are explored in one run. Only the PWM LED is shared there: its one
  channel is enough for every race of two calls on a channel, and an RGB LED in
  two hands is beyond the time of a run. The theorems cover any sharing.
* `shell`: a FIFO of two bytes, a ring buffer of three (the driver asks for more
  than a FIFO; the shell gives it two) and an event queue of one: everything
  fills, wraps and overflows after a few bytes, and the queue loses events at
  once. The number of bytes is not bounded.

### Fairness

A task that is not blocked runs on (FreeRTOS scheduling; weak fairness of the
steps inside a function and of its return); a call itself is never required, and
a task that waits for the mutex may be overtaken. The DMA keeps delivering
frames while the converter runs, a fade ends and its interrupt comes, the UART
interrupt is served, a read times out, the shell returns from a character, a
panic ends in the reboot, `vTaskDelay` returns. No fairness is assumed of inputs,
clients or posters.

## 4. Proofs

Every invariant of the runs that pass, the action properties
`HandoverThroughFree` and `UnitLostOnlyByInit` and both refinements are theorems, for every value of the
constants that the assumptions and the hypotheses named below allow. Each module
has its own inductive invariant; few of the properties are inductive alone.

| Module | Invariant | Theorems (property) |
|---|---|---|
| `AdcControllerProofs` | `Inv`; `Backing` | `TypeCorrect` (`TypeOK`), `MutexAlwaysGivenBack` (`MutexDiscipline`), `OnlyInitLosesUnit` (`UnitLostOnlyByInit`), `OneShotUnitLive` (`OneShotHasUnit`), `ConverterHasOneUser` (`ConverterExclusive`), `PhasesHold` (`PhaseInvariant`), `ReservationAlwaysBacked` (`ReservationBacked`), `NoDirectHandover` (`HandoverThroughFree`) |
| `AdcClientsProofs` | `Inv /\ ClientInv` | `ClientsAreClients`, `OnlyReleaseRaces` (`OnlyReleaseRace`), `SessionsExclude` (`SessionExclusive`), `AvailabilityIsTruthful` (`AvailabilityTruthful`), `SuccessIsSampled` (`SuccessMeansSampled`), `OwnersCanRelease` (`OwnerCanRelease`), `ControllerIsLease` (`ImplementsLease`) |
| `TriggerDriverProofs` | `TriggerInv` | `TriggerTypeCorrect` (`TriggerTypeOK`), `CountersAlwaysAgree` (`CountersAgree`), `UserAlwaysKnows` (`UserKnowsState`), `TriggerImplementsDebouncer` (`ImplementsDebouncer`) |
| `LedDriverProofs` | `LedInv` | `LedTypeCorrect` (`LedTypeOK`), `HandlesAlwaysName` (`HandlesNameLeds`), `FrequencyAlwaysKept` (`FrequencyKept`), `ChannelsAlwaysAsAsked` (`ChannelsAsAsked`), `LastRequestAlwaysWins` (`LastRequestWins`) |
| `ShellUartProofs` | `ShellInv` | `ShellTypeCorrect` (`ShellTypeOK`), `BytesAlwaysInOrder` (`BytesInOrder`), `LossAlwaysNeedsOverrun` (`LossNeedsOverrun`) |
| `UserInterfaceProofs` | `UiInv` | `UiTypeCorrect` (`UiTypeOK`), `UiHandlesInOrder` (`HandledInOrder`) |
| `TempConversionProofs` | `ConvInv` | `ScanAlwaysBrackets` (`ScanBrackets`), `InterpolationAlwaysFits` (`InterpolationWhereItFits`) |

### The ADC controller

From `ConstantsAssumption` alone (the "no task" and "no handle" values are not
tasks or handles, the invalid channel is not a channel, requests are well
formed): any tasks, channels, continuous objects and calls, with or without
failing allocations. `OneShotHasUnit` needs that no other call can delete the
unit, which is the mutex (`MutexDiscipline`) plus the fact that an unlocked
sampling never deletes; `ConverterExclusive` needs to know that a starting
object was just made by the call that starts it and that a release deletes only
a stopped object; these are in `PhaseInvariant`. Types are proved first for
every step (`TaskStepType`), then the rest (`TaskStepSafe`), then calls and the
interrupt (`CallInv`, `InterruptInv`), and `NextInv` puts them together.
`ReservationBacked` is about the moments when the mutex is free; `Backing` says
of the points inside it what has already been undone.

### Its clients

The theorems about `ClientSpec` have the hypothesis `Rules`: allocations do not
fail and no caller asks for a sampling frequency that the driver refuses. Both
are also what `MCAdcClients.cfg` assumes. They are needed: after a failed
allocation a setup returns SUCCESS without a unit (`adcController.c:155`), and a
refused frequency leaves an object behind (line 401). `OnlyReleaseRaces` does not
say that the program never stops: the interrupt in the middle of a release can
stop it, and the theorem says that nothing else can. `SuccessIsSampled` is about
the functions that sample; the calibration keeps no such promise. `ControllerIsLease` needs
a continuous object to exist (`Handle # {}`).

`ClientsAreClients` gives the theorems of the controller. `ClientInv` ties each
task's session to the drivers' state at every point of its calls: `CallerOK`
(where the task may be, given its session), `HolderOK` (whoever holds the
reservation or the unit is one task, and the reservation is its mask) and
`ObjectOK` (the one continuous object is as far as its task). The refinement
then goes step by step: a call, the check that grants or refuses, the end of a
release and the return are steps of the lease, everything else is a stutter. The
hard case is the refusal, where it has to follow from `HolderOK` that another
task has the lease.

### The trigger driver

For every debounce factor and every saturation value above it. The point of the
argument is the saturation value, which the code's comparison excludes:
`CountersAgree` says that a counter that has got that far has been reported
already.

### The LED driver

For any LEDs, tasks, timers, sharing and values asked for, from `LedAssumption`:
LEDs have channels of their own, duties fit a word. A colour to fade to is not
clipped by the code, so it must not be the largest word itself, which an
active-low LED would turn into an accepted duty; `ledDriver.h` asks for duties up
to the maximum.

`LedInv` describes the peripheral calls a task has yet to make (`LightPlan`: a
set duty is followed by its update, what is written shows what was asked for),
each channel (`ChannelOK`: a fade goes to the duty register, the pin shows the
duty unless an update is to come, and the duty is what last reached the channel),
and each LED (`LastAsked`: its channels are wanted as last asked for, or a call
has begun that will change both). All of these are about channels that are not
`raced`; a call that is `open` keeps its channel free of a fade record, or the
channel is raced. `ChannelsAlwaysAsAsked` and
`LastRequestAlwaysWins` have the hypothesis that LEDs on a GPIO are active high
(`DrivenAsWired`): for others the code drives the pin the wrong way round
(`ledDriver_cfg.c:246`), and the properties fail.

### The shell

For any sizes with a ring buffer larger than the FIFO, which
`uart_driver_install` requires, and at least one place for events. `StashOK` says
who may touch `rx_data_buf`: the handler while the flag is down, the task once it
is up. `TwiceOK` covers the moment when stashed bytes are in both buffers.
`OrderOK` and `LossOK` speak of the whole way of a byte; every step is shown to
be one of a few moves of bytes along it (`Moves`), and the two are proved of the
moves. Bytes read from an empty FIFO are a move of their own (`IsMadeUp`), which
needs a flush after a length was read, and so an overrun (`NoiseOK`).

### The user interface and the conversion

`UiInv` adds to the order of the handled events that of the queue, the order
between the two, and that a call still waiting is newer than all of them. Any
posters, queue size and number of calls.

For the conversion the table is any increasing one with at least two entries
(`TableAssumption`), with any tolerance and range. That neighbours increase is
extended to all pairs by a least counterexample (`TableIncreases`), since
induction is not available. `PartsMayOverflow` is the reason the result can be
right although the first product was cut to 16 bits: addition modulo 2^16 does
not mind.

### Only model-checked

Liveness (`MutexReturned`, `CallbackComes`, `FollowsInput`, `EventsHandled`,
`CallsReturn`, `NoByteStays`, `ReceptionResumes`): it needs fairness and ENABLED,
which the prover does not handle. The runs that find a violation have nothing to
prove.

## 5. Not modelled

* Power monitoring and temperature monitoring: stubs that compute nothing. The
  table of the latter is used.
* The shell library, a git submodule that is not part of the sources, and the
  transmit side of the UART (`SHCOM_PrintCharacter`), one character through a
  driver path that shares no data with the receive side.
* `main.c`: creates one task that only delays.
* The ESP-IDF beyond the parts named above. It is a vendored copy and makes up
  nearly all of the repository's lines; of the application's own files every one
  with behaviour is specified.
* A second `TRIGGER_InitDriver` after a successful one, which starts a second
  task on the same counters, and a second `UI_Init` after a successful one, which
  replaces the queue under its task and starts a second task.
* An `ADC_InitController` in the middle of another function, and the count of the
  users of the ADC's clock.

## 6. Plan

Done, in this order: `AdcController` with its runs and proofs (the part with the
most concurrency), `AdcClients`, `TriggerDriver` with its abstraction and
refinement proof, `UserInterface`, `SensorController`, `TempConversion`,
`LedDriver`, `AdcLease` with its refinement, LEDs shared by tasks, `ShellUart`;
then the proofs of every invariant and of both refinements.

Next:

1. Further action properties with proofs: what a step of one task may never do
   to the session of another, to the channels of an LED it does not call for, or
   to events that are in the queue.
2. What the controller still guarantees when an allocation fails, stated and
   proved without `Rules`.
3. A second initialisation of the trigger driver and of the user interface, with
   two tasks on the counters and on the queues.

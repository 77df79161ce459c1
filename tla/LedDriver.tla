----------------------------- MODULE LedDriver -----------------------------
(***************************************************************************)
(* The LED driver, main/UserInterface/led/ledDriver.c and main/Config/     *)
(* ledDriver_cfg.c, with the part of the LEDC peripheral driver it relies  *)
(* on.  The table of LEDs is guarded by a mutex; the PWM channels are      *)
(* written after the mutex was given back, one call of the peripheral      *)
(* driver at a time.  A level 0..MaxDuty+1 is the share of the period a    *)
(* pin is high; a GPIO is at level 0 or MaxDuty+1.                         *)
(***************************************************************************)
EXTENDS Integers, Sequences, SequencesExt

CONSTANTS
    Task, Led, Timer, Channel,
    Config,         \* of an LED: type, active level, channels and timer
    Users,          \* ways to share the LEDs: the tasks that drive each of them
    MaxLed,         \* LDRV_CFG_MAX_NB_LED
    MaxDuty,        \* LDRV_CFG_MAX_PWM_DUTY
    Word,           \* 2^32, the modulus of a duty cycle (a uint32_t)
    Duty,           \* what callers ask for of a PWM LED
    Color, FadeColor,   \* of an RGB LED, to be set or faded to
    Freq,           \* of an LED: frequencies callers ask for
    DefaultFreq,    \* LDRV_DEFAULT_FREQ_HZ
    NoLed, NotFading, NoCall, Unknown

(* The brightness of each channel of an LED that callers ask for. *)
Light == {<<0>>, <<MaxDuty>>} \cup {<<d>> : d \in Duty} \cup Color \cup FadeColor

(* A call under way: what it asks for of which LED, and whether no other   *)
(* call for the LED has been under way with it.                            *)
LightCall == [led : Led, what : {"light"}, value : Light, alone : BOOLEAN]
FreqCall == [led : Led, what : {"freq"}, value : UNION {Freq[l] : l \in Led}, alone : BOOLEAN]

(* LEDs are wired to pins, and so to channels, of their own. A fade does   *)
(* not clip its colour, and the largest word, inverted for an active-low   *)
(* LED, would wrap to an accepted duty; the header asks for duties up to   *)
(* the maximum.                                                            *)
ASSUME LedAssumption ==
    /\ MaxLed \in Nat \ {0} /\ MaxDuty \in Nat \ {0}
    /\ Word \in Nat /\ MaxDuty + 1 < Word
    /\ Duty \subseteq Nat /\ \A d \in Duty : d < Word
    /\ Color \cup FadeColor \subseteq [1..3 -> Nat]
    /\ \A c \in Color, i \in 1..3 : c[i] < Word
    /\ \A c \in FadeColor, i \in 1..3 : c[i] + 1 < Word
    /\ NoLed \notin Led \cup Nat /\ NotFading \notin Nat /\ NoCall \notin LightCall \cup FreqCall
    /\ Unknown \notin Nat \cup Light
    /\ Config \in [Led -> [type : {"SINGLE", "SINGLE_PWM", "RGB"}, active : {"LOW", "HIGH"},
                           channels : Seq(Channel), timer : Timer]]
    /\ \A l \in Led : IsInjective(Config[l].channels)
    /\ \A k, l \in Led :
          k # l => ToSet(Config[k].channels) \cap ToSet(Config[l].channels) = {}
    /\ \A l \in Led : Len(Config[l].channels) = IF Config[l].type = "RGB" THEN 3 ELSE 1

VARIABLES
    user,           \* how this application shares the LEDs
    ready,          \* LDRV_InitDriver has succeeded
    led_table,
    duty, output,   \* of a channel: its duty register, and what the pin shows
    fading,         \* of a channel: the target of the fade under way
    fade_rec,       \* the channels with a fade record, made by their first fade
    open,           \* the tasks in a peripheral call that found no record to lock
    raced,          \* the channels on which a first fade has met such a call
    fade_service,
    freq,           \* of a timer
    call, todo,     \* of a task: its call, and the peripheral calls it has yet to make
    handle,         \* of an LED: what LDRV_AddLed... has returned
    asked, askedFreq,   \* of an LED: the last request that succeeded
    wanted          \* of a channel: the brightness that was last asked for

lvars == <<user, ready, led_table, duty, output, fading, fade_rec, open, raced, fade_service,
           freq, call, todo, handle, asked, askedFreq, wanted>>

Level == 0..(MaxDuty + 1)

LedTypeOK ==
    /\ ready \in BOOLEAN /\ fade_service \in BOOLEAN
    /\ led_table \in [0..(MaxLed - 1) -> Led \cup {NoLed}]
    /\ duty \in [Channel -> Level] /\ output \in [Channel -> Level]
    /\ fading \in [Channel -> Level \cup {NotFading}]
    /\ fade_rec \in SUBSET Channel /\ raced \in SUBSET Channel /\ open \in SUBSET Task
    /\ freq \in [Timer -> (UNION {Freq[l] : l \in Led}) \cup {DefaultFreq}]
    /\ handle \in [Led -> 0..(MaxLed - 1) \cup {NoLed}]

LedInit ==
    /\ user \in Users
    /\ ready = FALSE
    /\ led_table = [i \in 0..(MaxLed - 1) |-> NoLed]
    /\ duty = [c \in Channel |-> 0] /\ output = [c \in Channel |-> 0]
    /\ fading = [c \in Channel |-> NotFading]
    /\ fade_rec = {} /\ fade_service = FALSE
    /\ open = {} /\ raced = {}
    /\ freq = [t \in Timer |-> DefaultFreq]
    /\ call = [t \in Task |-> NoCall] /\ todo = [t \in Task |-> <<>>]
    /\ handle = [l \in Led |-> NoLed]
    /\ asked = [l \in Led |-> Unknown] /\ askedFreq = [l \in Led |-> Unknown]
    /\ wanted = [c \in Channel |-> Unknown]

-----------------------------------------------------------------------------
(* Duty cycles. *)

(* Mutant of Clip: the duty cycle is used as it comes. *)
ClipNot(d) == d

Clip(d) == IF d >= MaxDuty THEN MaxDuty ELSE d

(* Mutant of ActiveLow: 0 and the maximum are not told apart. *)
ActiveLowPlain(d) == (MaxDuty - d) % Word

(* The level for an active-low LED.  A duty cycle is a uint32_t. *)
ActiveLow(d) == CASE d = MaxDuty -> 0
                [] d = 0 -> MaxDuty + 1
                [] OTHER -> (MaxDuty - d) % Word

LevelFor(l, d) == IF Config[l].active = "LOW" THEN ActiveLow(d) ELSE d

(* LDRV_CFG_SetLedSingleState: the GPIO level for a state. *)
GpioLevel(l, state) ==
    LET high == Config[l].active = "HIGH"
        active == (state >= 1 /\ high) \/ (state = 0 /\ ~high)
    IN  IF active = high THEN MaxDuty + 1 ELSE 0

-----------------------------------------------------------------------------
(* Setting up. *)

LDRV_InitDriver ==
    /\ ~ready
    /\ ready' = TRUE
    /\ led_table' = [i \in 0..(MaxLed - 1) |-> NoLed]
    /\ UNCHANGED <<user, duty, output, fading, fade_rec, open, raced, fade_service, freq,
                   call, todo, handle, asked, askedFreq, wanted>>

LDRV_StartFadeService ==
    /\ ~fade_service
    /\ fade_service' = TRUE
    /\ UNCHANGED <<user, ready, led_table, duty, output, fading, fade_rec, open, raced, freq,
                   call, todo, handle, asked, askedFreq, wanted>>

isTableFull == \A i \in 0..(MaxLed - 1) : led_table[i] # NoLed

(* Mutant of getFirstAvailableIndex: every LED gets the first index. *)
getFirstIndex == 0

getFirstAvailableIndex ==
    CHOOSE i \in 0..(MaxLed - 1) :
        led_table[i] = NoLed /\ \A j \in 0..(i - 1) : led_table[j] # NoLed

(* Mutant of SetupTimer: the setup of an LED resets every timer. *)
SetupEveryTimer(l) == [t \in Timer |-> DefaultFreq]

(* A PWM LED's setup configures its timer, also if another LED uses it. *)
SetupTimer(l) == IF Config[l].type = "SINGLE" THEN freq
                 ELSE [freq EXCEPT ![Config[l].timer] = DefaultFreq]

(* A GPIO starts at its inactive level, a PWM channel at duty 0 or, if it  *)
(* is active low, at the maximum (one less than always high).              *)
SetupLevel(l) ==
    IF Config[l].active = "HIGH" THEN 0
    ELSE IF Config[l].type = "SINGLE" THEN MaxDuty + 1 ELSE MaxDuty

(* LDRV_AddLedSingle, LDRV_AddLedSinglePwm, LDRV_AddLedRgb, all of it with *)
(* the mutex taken.                                                        *)
AddLed(l) ==
    /\ ready /\ handle[l] = NoLed
    /\ ~isTableFull
    /\ LET i == getFirstAvailableIndex
           level(old) == [c \in Channel |->
               IF c \in ToSet(Config[l].channels) THEN SetupLevel(l) ELSE old[c]]
       IN  /\ led_table' = [led_table EXCEPT ![i] = l]
           /\ handle' = [handle EXCEPT ![l] = i]
           /\ duty' = level(duty) /\ output' = level(output)
    /\ freq' = SetupTimer(l)
    /\ asked' = [asked EXCEPT ![l] = IF Config[l].type = "SINGLE" THEN <<0>> ELSE Unknown]
    /\ askedFreq' = [askedFreq EXCEPT ![l] = IF Config[l].type = "SINGLE" THEN Unknown
                                                                         ELSE DefaultFreq]
    /\ UNCHANGED <<user, ready, fading, fade_rec, open, raced, fade_service, call, todo, wanted>>

-----------------------------------------------------------------------------
(* Calls.  A call first copies the LED's entry of the table, with the      *)
(* mutex taken, then makes the peripheral calls in todo.  A call with an   *)
(* invalid handle, an empty entry or an LED of another type returns an     *)
(* error and changes nothing.                                              *)

(* A call is alone if no other call for its LED runs at the same time. *)
On(u, l) == call[u] # NoCall /\ call[u].led = l

Begin(t, h, type, what, value, write) ==
    /\ ready /\ call[t] = NoCall
    /\ h \in 0..(MaxLed - 1)
    /\ led_table[h] # NoLed
    /\ LET l == led_table[h] IN
       /\ t \in user[l]
       /\ Config[l].type = type
       /\ call' = [u \in Task |->
              IF u = t THEN [led |-> l, what |-> what, value |-> value,
                             alone |-> \A v \in Task : ~On(v, l)]
              ELSE IF On(u, l) THEN [call[u] EXCEPT !.alone = FALSE] ELSE call[u]]
       /\ todo' = [todo EXCEPT ![t] = write[l]]
    /\ UNCHANGED <<user, ready, led_table, duty, output, fading, fade_rec, open, raced,
                   fade_service, freq, handle, asked, askedFreq, wanted>>

Do(op, at, val) == [op |-> op, at |-> at, val |-> val]

(* Mutant of SetEach: all duties are set, then only the first is updated. *)
SetEachUpdateFirst(channels, level) ==
    [i \in 1..Len(channels) |-> Do("set_duty", channels[i], level[i])]
    \o <<Do("update_duty", channels[1], 0)>>

(* ledc_set_duty and ledc_update_duty, or a fade, for each channel in turn. *)
SetEach(channels, level) ==
    [k \in 1..(2 * Len(channels)) |->
        LET i == (k + 1) \div 2
        IN  IF k % 2 = 1 THEN Do("set_duty", channels[i], level[i])
                         ELSE Do("update_duty", channels[i], 0)]

FadeEach(channels, level) == [i \in 1..Len(channels) |-> Do("fade", channels[i], level[i])]

LDRV_SetLedSingleState(t, h, state) ==
    LET write == [l \in Led |-> <<Do("gpio", Config[l].channels[1], GpioLevel(l, state))>>]
    IN  Begin(t, h, "SINGLE", "light", <<IF state >= 1 THEN MaxDuty ELSE 0>>, write)

LDRV_SetLedSinglePwmDuty(t, h, d) ==
    LET write == [l \in Led |-> SetEach(Config[l].channels, <<LevelFor(l, Clip(d))>>)]
    IN  Begin(t, h, "SINGLE_PWM", "light", <<d>>, write)

LDRV_FadeLedSinglePwmDuty(t, h, d) ==
    LET write == [l \in Led |-> FadeEach(Config[l].channels, <<LevelFor(l, Clip(d))>>)]
    IN  Begin(t, h, "SINGLE_PWM", "light", <<d>>, write)

LDRV_SetLedRgbColor(t, h, color) ==
    LET write == [l \in Led |-> SetEach(Config[l].channels, [i \in 1..3 |-> LevelFor(l, Clip(color[i]))])]
    IN  Begin(t, h, "RGB", "light", color, write)

(* The target of this fade is not clipped. *)
LDRV_FadeLedRgbColor(t, h, color) ==
    LET write == [l \in Led |-> FadeEach(Config[l].channels, [i \in 1..3 |-> LevelFor(l, color[i])])]
    IN  Begin(t, h, "RGB", "light", color, write)

LDRV_SetLedPwmFreq(t, h, hz) ==
    LET write == [l \in Led |-> <<Do("set_freq", Config[l].timer, hz)>>]
    IN  \/ Begin(t, h, "SINGLE_PWM", "freq", hz, write)
        \/ Begin(t, h, "RGB", "freq", hz, write)

-----------------------------------------------------------------------------
(* The peripheral calls of a task. *)

Pending(t, op) == todo[t] # <<>> /\ Head(todo[t]).op = op

(* One peripheral call has succeeded; the last one ends the driver's call. *)
Done(t) ==
    /\ todo' = [todo EXCEPT ![t] = Tail(todo[t])]
    /\ LET c == call[t] last == Len(todo[t]) = 1 IN
       /\ call' = IF last THEN [call EXCEPT ![t] = NoCall] ELSE call
       /\ asked' = IF last /\ c.what = "light"
                   THEN [asked EXCEPT ![c.led] = IF c.alone THEN c.value ELSE Unknown]
                   ELSE asked
       /\ askedFreq' = IF last /\ c.what = "freq"
                       THEN [askedFreq EXCEPT ![c.led] = c.value] ELSE askedFreq

(* What the call of task t asks for of channel c. *)
Ask(t, c) ==
    LET i == CHOOSE i \in 1..Len(call[t].value) : Config[call[t].led].channels[i] = c
    IN  wanted' = [wanted EXCEPT ![c] = call[t].value[i]]

gpio_set_level(t) ==
    /\ Pending(t, "gpio")
    /\ LET w == Head(todo[t]) IN output' = [output EXCEPT ![w.at] = w.val] /\ Ask(t, w.at)
    /\ Done(t)
    /\ UNCHANGED <<user, ready, led_table, duty, fading, fade_rec, open, raced, fade_service,
                   freq, handle>>

(* _ledc_fade_hw_acquire and ledc_fade_channel_init_check look for the     *)
(* channel's fade record without a lock.  A call that finds none is open:  *)
(* ledc_set_duty writes without the record's semaphore, a first fade makes *)
(* the record.  If a first fade and another open call meet on a channel,   *)
(* the write may be lost, the semaphore given while the fade runs, or the  *)
(* record freed or replaced while it is in use.                            *)
FindNoRecord(t) ==
    /\ Pending(t, "set_duty") \/ (Pending(t, "fade") /\ fade_service)
    /\ t \notin open
    /\ LET w == Head(todo[t]) IN
       /\ w.at \notin fade_rec
       /\ raced' = IF \E u \in open : /\ Head(todo[u]).at = w.at
                                      /\ "fade" \in {w.op, Head(todo[u]).op}
                   THEN raced \cup {w.at} ELSE raced
    /\ open' = open \cup {t}
    /\ UNCHANGED <<user, ready, led_table, duty, output, fading, fade_rec, fade_service, freq,
                   call, todo, handle, asked, askedFreq, wanted>>

(* ledc_set_duty waits for the end of a fade, if there has been one. *)
ledc_set_duty(t) ==
    /\ Pending(t, "set_duty")
    /\ LET w == Head(todo[t]) IN
       /\ t \in open \/ (w.at \in fade_rec /\ fading[w.at] = NotFading)
       /\ duty' = [duty EXCEPT ![w.at] = w.val]
       /\ Ask(t, w.at)
    /\ open' = open \ {t}
    /\ Done(t)
    /\ UNCHANGED <<user, ready, led_table, output, fading, fade_rec, raced, fade_service, freq,
                   handle>>

(* The new duty takes effect; a fade that has begun meanwhile goes on.     *)
(* After a fade that has ended, the register can still hold where it       *)
(* began, and the update shows the fade once more on its way to the end.   *)
ledc_update_duty(t) ==
    /\ Pending(t, "update_duty")
    /\ LET c == Head(todo[t]).at IN
       output' = IF fading[c] = NotFading THEN [output EXCEPT ![c] = duty[c]] ELSE output
    /\ Done(t)
    /\ UNCHANGED <<user, ready, led_table, duty, fading, fade_rec, open, raced, fade_service,
                   freq, handle, wanted>>

ledc_set_fade_time_and_start(t) ==
    /\ Pending(t, "fade")
    /\ LET w == Head(todo[t]) IN
       /\ fade_service /\ w.val <= MaxDuty + 1
       /\ t \in open \/ w.at \in fade_rec
       /\ fading[w.at] = NotFading
       /\ duty' = [duty EXCEPT ![w.at] = w.val] /\ Ask(t, w.at)
       /\ fading' = [fading EXCEPT ![w.at] = w.val]
       /\ fade_rec' = fade_rec \cup {w.at}
    /\ open' = open \ {t}
    /\ Done(t)
    /\ UNCHANGED <<user, ready, led_table, output, raced, fade_service, freq, handle>>

(* It is refused without the fade service, without memory for the          *)
(* channel's record, and for a target above the range.  The driver's call  *)
(* ends; the channels it has done keep their fades.                        *)
FadeRefused(t) ==
    /\ Pending(t, "fade")
    /\ LET w == Head(todo[t])
           l == call[t].led
       IN  /\ \/ ~fade_service /\ UNCHANGED fade_rec
              \/ t \in open /\ UNCHANGED fade_rec
              \/ /\ t \in open \/ (fade_service /\ w.at \in fade_rec)
                 /\ w.val > MaxDuty + 1
                 /\ fade_rec' = fade_rec \cup {w.at}
           /\ asked' = IF Len(todo[t]) < Len(Config[l].channels)
                       THEN [asked EXCEPT ![l] = Unknown] ELSE asked
    /\ open' = open \ {t}
    /\ call' = [call EXCEPT ![t] = NoCall] /\ todo' = [todo EXCEPT ![t] = <<>>]
    /\ UNCHANGED <<user, ready, led_table, duty, output, fading, raced, fade_service, freq,
                   handle, askedFreq, wanted>>

(* What a race has left: the pin may show anything from then on.  The      *)
(* program may also abort, in an assertion of ledc.c or of FreeRTOS or     *)
(* with a NULL pointer: the behaviour ends there.                          *)
RaceOutcome(c) ==
    /\ c \in raced
    /\ \E level \in Level : output' = [output EXCEPT ![c] = level]
    /\ UNCHANGED <<user, ready, led_table, duty, fading, fade_rec, open, raced, fade_service,
                   freq, call, todo, handle, asked, askedFreq, wanted>>

ledc_set_freq(t) ==
    /\ Pending(t, "set_freq")
    /\ LET w == Head(todo[t]) IN freq' = [freq EXCEPT ![w.at] = w.val]
    /\ Done(t)
    /\ UNCHANGED <<user, ready, led_table, duty, output, fading, fade_rec, open, raced,
                   fade_service, handle, wanted>>

(* A frequency the timer's clock cannot be divided to is refused; the      *)
(* timer goes on as it was.                                                *)
FreqRefused(t) ==
    /\ Pending(t, "set_freq")
    /\ call' = [call EXCEPT ![t] = NoCall] /\ todo' = [todo EXCEPT ![t] = <<>>]
    /\ UNCHANGED <<user, ready, led_table, duty, output, fading, fade_rec, open, raced,
                   fade_service, freq, handle, asked, askedFreq, wanted>>

(* Mutant of ledc_fade_isr: the fade's semaphore is not given back. *)
ledc_fade_isr_keeps(c) ==
    /\ fading[c] # NotFading
    /\ output' = [output EXCEPT ![c] = fading[c]]
    /\ UNCHANGED <<user, ready, led_table, duty, fading, fade_rec, open, raced, fade_service, freq,
                   call, todo, handle, asked, askedFreq, wanted>>

(* The interrupt at the end of a fade. *)
ledc_fade_isr(c) ==
    /\ fading[c] # NotFading
    /\ output' = [output EXCEPT ![c] = fading[c]]
    /\ fading' = [fading EXCEPT ![c] = NotFading]
    /\ UNCHANGED <<user, ready, led_table, duty, fade_rec, open, raced, fade_service, freq,
                   call, todo, handle, asked, askedFreq, wanted>>

-----------------------------------------------------------------------------
Step(t) ==
    \/ gpio_set_level(t)
    \/ FindNoRecord(t)
    \/ ledc_set_duty(t)
    \/ ledc_update_duty(t)
    \/ ledc_set_fade_time_and_start(t)
    \/ FadeRefused(t)
    \/ ledc_set_freq(t)
    \/ FreqRefused(t)

LedNext ==
    \/ LDRV_InitDriver
    \/ LDRV_StartFadeService
    \/ \E l \in Led : AddLed(l)
    \/ \E t \in Task, h \in 0..MaxLed :
          \/ \E s \in 0..1 : LDRV_SetLedSingleState(t, h, s)
          \/ \E d \in Duty : LDRV_SetLedSinglePwmDuty(t, h, d)
          \/ \E d \in Duty : LDRV_FadeLedSinglePwmDuty(t, h, d)
          \/ \E c \in Color : LDRV_SetLedRgbColor(t, h, c)
          \/ \E c \in FadeColor : LDRV_FadeLedRgbColor(t, h, c)
          \/ \E l \in Led : \E hz \in Freq[l] :
                h = handle[l] /\ LDRV_SetLedPwmFreq(t, h, hz)
    \/ \E t \in Task : Step(t)
    \/ \E c \in Channel : ledc_fade_isr(c) \/ RaceOutcome(c)

LedSpec == LedInit /\ [][LedNext]_lvars

(* A task that is in a call runs; a fade ends. *)
FairLedSpec ==
    /\ LedSpec
    /\ \A t \in Task : WF_lvars(Step(t))
    /\ \A c \in Channel : WF_lvars(ledc_fade_isr(c))

-----------------------------------------------------------------------------
(* What is checked. *)

(* The handle an LDRV_AddLed function has returned names the LED it was    *)
(* returned for, whichever LEDs were added before and after.               *)
HandlesNameLeds == \A l \in Led : handle[l] # NoLed => led_table[handle[l]] = l

(* The brightness of an LED's channel, 0..MaxDuty+1. *)
Brightness(l, level) == IF Config[l].active = "HIGH" THEN level ELSE MaxDuty + 1 - level

(* A channel shows what was asked for: nothing for 0, else the duty cycle  *)
(* or one step more (the inverse of d has MaxDuty-d+1 dark steps).         *)
ChannelShows(l, c, asked_for) ==
    LET b == Brightness(l, output[c])
        d == IF asked_for > MaxDuty THEN MaxDuty ELSE asked_for
    IN  IF d = 0 THEN b = 0 ELSE b \in {d, d + 1}

Settled(l) ==
    /\ \A t \in Task : ~On(t, l)
    /\ \A c \in ToSet(Config[l].channels) : fading[c] = NotFading

(* Once no call is under way for an LED and its fades have ended, the LED  *)
(* shows what the last successful LDRV_Set... or LDRV_Fade... call asked   *)
(* for, over active levels, clipping, and a call made during a fade,       *)
(* unless another task called for the same LED meanwhile or the first fade *)
(* of one of its channels has raced with another call.                     *)
LastRequestWins ==
    \A l \in Led : Settled(l) /\ asked[l] # Unknown /\ ToSet(Config[l].channels) \cap raced = {} =>
        \A i \in 1..Len(Config[l].channels) :
            ChannelShows(l, Config[l].channels[i], asked[l][i])

(* The channels of an LED are written one by one and without the mutex.    *)
(* When two tasks drive one LED, or a fade is refused half way, the LED    *)
(* may show a mix, but each channel shows what the last request that       *)
(* reached it asked for.  The one exception is a channel whose first fade  *)
(* has overlapped another task's ledc_set_duty or first fade of it: from   *)
(* the second fade on, the record's semaphore keeps the calls apart.       *)
ChannelsAsAsked ==
    \A l \in Led : Settled(l) =>
        \A c \in ToSet(Config[l].channels) \ raced :
            wanted[c] # Unknown => ChannelShows(l, c, wanted[c])

(* An LED that shares its timer with no other LED keeps the frequency of   *)
(* its last LDRV_SetLedPwmFreq, or that of its setup, whatever is done     *)
(* with the other LEDs.                                                    *)
FrequencyKept ==
    \A l \in Led :
        /\ \A k \in Led \ {l} : Config[k].timer # Config[l].timer
        /\ askedFreq[l] # Unknown
        /\ \A t \in Task : ~On(t, l)
        => freq[Config[l].timer] = askedFreq[l]

(* Every call of the driver returns, one made during a fade too.  A task   *)
(* whose call overlaps others for the same LED may see them start fade     *)
(* after fade before it: of those calls one returns.  Nothing is said once *)
(* two calls have raced for a channel's fade record.                       *)
CallsReturn ==
    \A t \in Task : []<>
        \/ call[t] = NoCall
        \/ ~call[t].alone /\ \E u \in Task \ {t} : ~On(u, call[t].led)
        \/ raced # {}

=============================================================================

\* An RGB and a PWM LED of different active levels and a GPIO LED, a table
\* of two entries, two tasks with LEDs of their own or sharing the PWM LED.
SPECIFICATION FairLedSpec
CONSTANTS
    t1 = t1
    t2 = t2
    rgb = rgb
    pwm = pwm
    single = single
    Task = {t1, t2}
    Timer = {1, 2, 3}
    MaxDuty = 2
    Word = 65536
    Duty = {1, 4}
    Freq <- MCFreq
    DefaultFreq = 1000
    NoLed = NoLed
    NotFading = NotFading
    NoCall = NoCall
    Unknown = Unknown
    Led = {rgb, pwm, single}
    Channel = {1, 2, 3, 4, 5}
    Config <- MCConfig
    Users <- MCUsers
    MaxLed = 2
    Color <- MCColor
    FadeColor <- MCFadeColor
INVARIANTS
    LedTypeOK
    LastRequestWins
    ChannelsAsAsked
    HandlesNameLeds
    FrequencyKept
PROPERTY CallsReturn

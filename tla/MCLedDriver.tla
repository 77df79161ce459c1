---------------------------- MODULE MCLedDriver ----------------------------
(* LEDs for TLC: an active-low RGB LED, an active-high PWM LED and a GPIO  *)
(* LED, with channels and timers of their own.                             *)
EXTENDS LedDriver

CONSTANTS t1, t2, rgb, pwm, single

MCConfig ==
    [l \in Led |->
        CASE l = rgb -> [type |-> "RGB", active |-> "LOW",
                         channels |-> <<1, 2, 3>>, timer |-> 1]
          [] l = pwm -> [type |-> "SINGLE_PWM", active |-> "HIGH",
                         channels |-> <<4>>, timer |-> 2]
          [] OTHER   -> [type |-> "SINGLE", active |-> "HIGH",
                         channels |-> <<5>>, timer |-> 3]]

(* Each LED has a task of its own, or both tasks drive the PWM LED, one of *)
(* them the GPIO LED as well, and nobody the RGB LED.                      *)
MCUsers == {[l \in Led |-> IF l = rgb THEN {t2} ELSE {t1}],
            [l \in Led |-> CASE l = rgb -> {} [] l = pwm -> {t1, t2} [] OTHER -> {t1}]}

MCFreq == [l \in Led |-> IF l = pwm THEN {2000} ELSE {DefaultFreq}]

(* Duties of 0 and above the maximum of 2.  A fade to the first colour     *)
(* succeeds; one to the second has begun when it is refused.               *)
MCColor == {<<4, 0, 1>>}
MCFadeColor == {<<0, 1, 1>>, <<0, 4, 1>>}

=============================================================================

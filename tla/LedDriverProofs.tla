-------------------------- MODULE LedDriverProofs --------------------------
(***************************************************************************)
(* Proofs about the LED driver, for any number of tasks and LEDs of each   *)
(* type and active level, any way to share LEDs and timers, any duty       *)
(* cycle and any size of the table.  LedInv is the inductive invariant.    *)
(***************************************************************************)
EXTENDS LedDriver, SequenceTheorems, WellFoundedInduction, TLAPS

(* ChannelShows for a level of the channel. *)
Shows(l, level, v) ==
    LET b == Brightness(l, level)
        d == IF v > MaxDuty THEN MaxDuty ELSE v
    IN  IF d = 0 THEN b = 0 ELSE b \in {d, d + 1}

(* LDRV_CFG_SetLedSingleState inverts the state of an active-low LED on a  *)
(* GPIO; every other LED is driven as it is wired.                         *)
DrivenAsWired(l) == Config[l].type = "SINGLE" => Config[l].active = "HIGH"

(* The peripheral calls that change what a channel is to show. *)
Writes == {"gpio", "set_duty", "fade"}

(* The peripheral calls td that are left of a call for LED l with value v: *)
(* those of LEDs on a GPIO are not mixed with those of PWM channels, nor   *)
(* fades with the others, a duty cycle that is set is updated next, and    *)
(* what is written shows what was asked for.                               *)
Planned(l, v, td, k) ==
    LET ch == Config[l].channels IN
    /\ td[k] \in [op : Writes \cup {"update_duty"}, at : ToSet(ch), val : Nat]
    /\ td[k].op = "gpio" <=> Config[l].type = "SINGLE"
    /\ td[k].op \in {"gpio", "set_duty"} => td[k].val \in Level
    /\ DrivenAsWired(l) /\ td[k].op \in Writes /\ td[k].val \in Level =>
          \A i \in 1..Len(ch) : ch[i] = td[k].at => Shows(l, td[k].val, v[i])
    /\ td[k].op = "set_duty" =>
          /\ k < Len(td)
          /\ td[k + 1].op = "update_duty" /\ td[k + 1].at = td[k].at
    /\ td[k].op = "fade" => \A j \in 1..Len(td) : td[j].op = "fade"
    /\ td[k].op \in {"gpio", "fade"} => Len(td) <= Len(ch)

LightPlan(l, v, td) ==
    /\ td \in Seq([op : Writes \cup {"update_duty"}, at : Channel, val : Nat])
    /\ Len(td) <= 2 * Len(Config[l].channels)
    /\ \A k \in 1..Len(td) : Planned(l, v, td, k)

FreqPlan(l, v, td) ==
    /\ td = <<Do("set_freq", Config[l].timer, v)>>
    /\ Config[l].type # "SINGLE"

CallOK(cl, td) ==
    /\ td # <<>>
    /\ IF cl.what = "freq"
       THEN cl \in FreqCall /\ FreqPlan(cl.led, cl.value, td)
       ELSE /\ cl \in LightCall /\ LightPlan(cl.led, cl.value, td)
            /\ DOMAIN cl.value = DOMAIN Config[cl.led].channels

(* The calls under way are for LEDs that were added. *)
CallsOK ==
    /\ DOMAIN call = Task /\ DOMAIN todo = Task
    /\ \A t \in Task :
          IF call[t] = NoCall THEN todo[t] = <<>>
          ELSE CallOK(call[t], todo[t]) /\ handle[call[t].led] # NoLed

(* The table and the handles agree, and there is nothing of an LED before  *)
(* it is added.                                                            *)
TableOK ==
    /\ \A i \in 0..(MaxLed - 1) : led_table[i] # NoLed => handle[led_table[i]] = i
    /\ HandlesNameLeds
    /\ ~ready => \A l \in Led : handle[l] = NoLed

(* An update of the channel is to come. *)
Updating(c) ==
    \E t \in Task : \E k \in 1..Len(todo[t]) :
        todo[t][k].op = "update_duty" /\ todo[t][k].at = c

(* Channel c of LED l: a fade goes to the duty cycle of the channel, a     *)
(* duty cycle is shown unless an update is to come, and it is what was     *)
(* last asked for, all of it if no first fade has raced on the channel.    *)
ChannelOK(l, c) ==
    /\ handle[l] = NoLed => wanted[c] = Unknown /\ fading[c] = NotFading /\ c \notin raced
    /\ IF Config[l].type = "SINGLE"
       THEN /\ fading[c] = NotFading /\ c \notin raced
            /\ DrivenAsWired(l) /\ wanted[c] # Unknown => Shows(l, output[c], wanted[c])
       ELSE c \notin raced =>
            /\ fading[c] # NotFading => fading[c] = duty[c]
            /\ wanted[c] # Unknown => Shows(l, duty[c], wanted[c])
            /\ fading[c] = NotFading /\ ~Updating(c) => output[c] = duty[c]

ChannelsOK ==
    /\ wanted \in [Channel -> Nat \cup {Unknown}]
    /\ \A l \in Led : \A c \in ToSet(Config[l].channels) : ChannelOK(l, c)

(* A call has written some, but not all, channels of its LED l. *)
Begun(l, td) ==
    LET n == Len(Config[l].channels)
    IN  CASE td[1].op = "update_duty" -> TRUE
          [] td[1].op = "set_duty" -> Len(td) < 2 * n
          [] OTHER -> Len(td) < n

(* Channel i of LED l is wanted to be as last asked for, or as set up. *)
AskedAt(l, i) ==
    LET c == Config[l].channels[i] IN
    \/ wanted[c] = asked[l][i]
    \/ /\ Config[l].type = "SINGLE" /\ wanted[c] = Unknown
       /\ asked[l][i] = 0 /\ output[c] = SetupLevel(l)

(* What is left of the channels of a call to write. *)
ToWrite(td, c) == \E k \in 1..Len(td) : td[k].op \in Writes /\ td[k].at = c

(* A call that was alone so far has nobody beside it, and the channels it  *)
(* has written are wanted to be as it asks.                                *)
AloneOK ==
    \A t \in Task : call[t] # NoCall /\ call[t].what = "light" /\ call[t].alone =>
        /\ \A u \in Task : On(u, call[t].led) => u = t
        /\ \A i \in 1..Len(Config[call[t].led].channels) :
              LET c == Config[call[t].led].channels[i] IN
              ToWrite(todo[t], c) \/ wanted[c] = call[t].value[i]

(* The LED is wanted to be as last asked for, or a call has begun that     *)
(* will change both.                                                       *)
LastAsked(l) ==
    \/ \A i \in 1..Len(Config[l].channels) : AskedAt(l, i)
    \/ \E t \in Task : On(t, l) /\ call[t].what = "light" /\ Begun(l, todo[t])

AskedOK ==
    /\ asked \in [Led -> Light \cup {Unknown}]
    /\ \A l \in Led : asked[l] # Unknown =>
          DOMAIN asked[l] = DOMAIN Config[l].channels /\ LastAsked(l)
    /\ AloneOK

(* Timers of one LED have the frequency it was given last. *)
TimersOK ==
    /\ DOMAIN askedFreq = Led
    /\ \A l \in Led :
        (\A k \in Led \ {l} : Config[k].timer # Config[l].timer) /\ askedFreq[l] # Unknown
            => freq[Config[l].timer] = askedFreq[l]

LedInv == LedTypeOK /\ CallsOK /\ TableOK /\ ChannelsOK /\ AskedOK /\ TimersOK

(* An open call, on a channel without a race, is for a channel that has no *)
(* record yet; if it is a fade it is the only open call for the channel.   *)
(* Only a channel with a record fades.                                     *)
OpenOK ==
    /\ \A t \in open : todo[t] # <<>> /\ Head(todo[t]).op \in {"set_duty", "fade"}
    /\ \A t \in open : Head(todo[t]).at \notin raced =>
          /\ Head(todo[t]).at \notin fade_rec
          /\ Head(todo[t]).op = "fade" =>
                \A u \in open : Head(todo[u]).at = Head(todo[t]).at => u = t
    /\ \A c \in Channel : fading[c] # NotFading => c \in fade_rec

-----------------------------------------------------------------------------
(* The wiring. *)
LEMMA Wiring ==
    ASSUME NEW l \in Led
    PROVE  /\ Config[l].type \in {"SINGLE", "SINGLE_PWM", "RGB"}
           /\ Config[l].active \in {"LOW", "HIGH"}
           /\ Config[l].timer \in Timer
           /\ Config[l].channels \in Seq(Channel)
           /\ Len(Config[l].channels) = IF Config[l].type = "RGB" THEN 3 ELSE 1
           /\ DOMAIN Config[l].channels = 1..Len(Config[l].channels)
           /\ Len(Config[l].channels) \in Nat \ {0}
<1>1. Config[l] \in [type : {"SINGLE", "SINGLE_PWM", "RGB"}, active : {"LOW", "HIGH"},
                     channels : Seq(Channel), timer : Timer]
    BY LedAssumption
<1>2. Config[l].channels \in Seq(Channel)
    BY <1>1
<1>3. Len(Config[l].channels) = IF Config[l].type = "RGB" THEN 3 ELSE 1
    BY LedAssumption
<1>4. DOMAIN Config[l].channels = 1..Len(Config[l].channels)
    BY <1>2
<1> QED BY <1>1, <1>2, <1>3, <1>4

(* The channels of an LED, by index and as a set. *)
LEMMA WiredTo ==
    ASSUME NEW l \in Led
    PROVE  /\ \A i \in 1..Len(Config[l].channels) :
                 Config[l].channels[i] \in ToSet(Config[l].channels)
           /\ \A c \in ToSet(Config[l].channels) :
                 \E i \in 1..Len(Config[l].channels) : c = Config[l].channels[i]
           /\ ToSet(Config[l].channels) \subseteq Channel
           /\ \A i, j \in 1..Len(Config[l].channels) :
                 Config[l].channels[i] = Config[l].channels[j] => i = j
<1>1. DOMAIN Config[l].channels = 1..Len(Config[l].channels)
    BY Wiring
<1>2. \A i \in 1..Len(Config[l].channels) : Config[l].channels[i] \in Channel
    BY Wiring, ElementOfSeq
<1> QED BY <1>1, <1>2, LedAssumption, SMTT(30) DEF ToSet, IsInjective

(* No channel belongs to two LEDs. *)
LEMMA WiredApart ==
    ASSUME NEW k \in Led, NEW l \in Led,
           NEW c \in ToSet(Config[k].channels), c \in ToSet(Config[l].channels)
    PROVE  k = l
BY LedAssumption

(* The table has a free index below MaxLed, which is what is chosen.       *)
LEMMA FirstIndexFree ==
    ASSUME LedTypeOK, ~isTableFull
    PROVE  /\ getFirstAvailableIndex \in 0..(MaxLed - 1)
           /\ led_table[getFirstAvailableIndex] = NoLed
<1> DEFINE Free == {i \in 0..(MaxLed - 1) : led_table[i] = NoLed}
<1>0. MaxLed \in Nat \ {0}
    BY LedAssumption
<1>1. Free \subseteq Nat /\ Free # {}
    BY <1>0 DEF isTableFull
<1>2. PICK i \in Free : \A j \in Free : ~(<<j, i>> \in OpToRel(<, Nat))
    BY <1>1, WFMin, NatLessThanWellFounded
<1>3. \A j \in Free : ~(j < i)
    BY <1>1, <1>2 DEF OpToRel
<1>4. \A j \in 0..(i - 1) : led_table[j] # NoLed
    BY <1>0, <1>1, <1>3
<1>5. \E k \in 0..(MaxLed - 1) :
          led_table[k] = NoLed /\ \A j \in 0..(k - 1) : led_table[j] # NoLed
    BY <1>4
<1> QED BY <1>5 DEF getFirstAvailableIndex

-----------------------------------------------------------------------------
(* Duty cycles. *)

(* The modulus of a small difference. *)
LEMMA Wrapped ==
    ASSUME NEW x \in Int, -Word < x, x < Word
    PROVE  x % Word = IF x >= 0 THEN x ELSE Word + x
BY LedAssumption

(* The inverted duty cycle, without the wrap of its subtraction. *)
LEMMA InverseOf ==
    ASSUME NEW d \in Nat, d < Word
    PROVE  ActiveLow(d) = IF d = MaxDuty THEN 0
                          ELSE IF d = 0 THEN MaxDuty + 1
                          ELSE IF d < MaxDuty THEN MaxDuty - d ELSE Word + MaxDuty - d
<1> DEFINE x == MaxDuty - d
<1>1. x \in Int /\ -Word < x /\ x < Word
    BY LedAssumption
<1>2. x % Word = IF x >= 0 THEN x ELSE Word + x
    BY <1>1, Wrapped
<1> QED BY <1>2, LedAssumption DEF ActiveLow

(* A clipped duty cycle gives a level the peripheral accepts and that      *)
(* shows what was asked for.                                               *)
LEMMA ClippedShows ==
    ASSUME NEW l \in Led, NEW d \in Nat
    PROVE  /\ LevelFor(l, Clip(d)) \in Level
           /\ Shows(l, LevelFor(l, Clip(d)), d)
<1>1. Clip(d) \in 0..MaxDuty /\ Clip(d) = IF d > MaxDuty THEN MaxDuty ELSE d
    BY LedAssumption DEF Clip
<1>2. ActiveLow(Clip(d)) = IF Clip(d) = MaxDuty THEN 0
                           ELSE IF Clip(d) = 0 THEN MaxDuty + 1 ELSE MaxDuty - Clip(d)
    BY <1>1, InverseOf, LedAssumption
<1>3. CASE Config[l].active = "LOW"
    BY <1>1, <1>2, <1>3, LedAssumption DEF LevelFor, Level, Shows, Brightness
<1>4. CASE Config[l].active = "HIGH"
    BY <1>1, <1>4, LedAssumption DEF LevelFor, Level, Shows, Brightness
<1> QED BY <1>3, <1>4, Wiring

(* One that is not clipped is out of range, or shows what was asked for. *)
LEMMA UnclippedShows ==
    ASSUME NEW l \in Led, NEW d \in Nat, d + 1 < Word
    PROVE  /\ LevelFor(l, d) \in Nat
           /\ LevelFor(l, d) \in Level => Shows(l, LevelFor(l, d), d)
<1>1. ActiveLow(d) = IF d = MaxDuty THEN 0
                     ELSE IF d = 0 THEN MaxDuty + 1
                     ELSE IF d < MaxDuty THEN MaxDuty - d ELSE Word + MaxDuty - d
    BY InverseOf, LedAssumption
<1>2. CASE Config[l].active = "LOW"
    BY <1>1, <1>2, LedAssumption DEF LevelFor, Level, Shows, Brightness
<1>3. CASE Config[l].active = "HIGH"
    BY <1>3, LedAssumption DEF LevelFor, Level, Shows, Brightness
<1> QED BY <1>2, <1>3, Wiring

(* An active-high GPIO shows the state that was written to it. *)
LEMMA GpioShows ==
    ASSUME NEW l \in Led, NEW s \in 0..1
    PROVE  /\ GpioLevel(l, s) \in Level
           /\ Config[l].active = "HIGH" =>
                 Shows(l, GpioLevel(l, s), IF s >= 1 THEN MaxDuty ELSE 0)
<1>1. GpioLevel(l, s) \in Level
    BY LedAssumption DEF GpioLevel, Level
<1>2. ASSUME Config[l].active = "HIGH"
      PROVE  Shows(l, GpioLevel(l, s), IF s >= 1 THEN MaxDuty ELSE 0)
  <2>1. GpioLevel(l, s) = IF s = 0 THEN 0 ELSE MaxDuty + 1
      BY <1>2 DEF GpioLevel
  <2> QED BY <1>2, <2>1, LedAssumption DEF Shows, Brightness
<1> QED BY <1>1, <1>2

-----------------------------------------------------------------------------
(* What the calls plan to do. *)

(* Nothing of a plan is done yet, and it reaches every channel. *)
Fresh(l, td) ==
    /\ ~Begun(l, td)
    /\ \A i \in 1..Len(Config[l].channels) : ToWrite(td, Config[l].channels[i])

(* Position k of a plan that sets and updates n channels in turn. *)
LEMMA Halves ==
    ASSUME NEW n \in Nat, NEW k \in 1..(2 * n)
    PROVE  /\ (k + 1) \div 2 \in 1..n
           /\ k % 2 = 1 => /\ k < 2 * n /\ k + 1 \in 1..(2 * n) /\ (k + 1) % 2 = 0
                           /\ ((k + 1) + 1) \div 2 = (k + 1) \div 2
OBVIOUS

(* Where such a plan sets channel i. *)
LEMMA Doubles ==
    ASSUME NEW n \in Nat, NEW i \in 1..n
    PROVE  /\ 2 * i - 1 \in 1..(2 * n) /\ (2 * i - 1) % 2 = 1
           /\ ((2 * i - 1) + 1) \div 2 = i
OBVIOUS

(* Duties set and updated channel by channel. *)
LEMMA SetPlan ==
    ASSUME NEW l \in Led, NEW v, Config[l].type # "SINGLE", NEW level,
           \A i \in 1..Len(Config[l].channels) :
              level[i] \in Level /\ Shows(l, level[i], v[i])
    PROVE  LET td == SetEach(Config[l].channels, level)
           IN  td # <<>> /\ LightPlan(l, v, td) /\ Fresh(l, td)
<1> DEFINE ch == Config[l].channels
           n == Len(ch)
           td == SetEach(ch, level)
           Op == [op : Writes \cup {"update_duty"}, at : ToSet(ch), val : Nat]
<1>0. l \in Led
    OBVIOUS
<1>1. n \in Nat \ {0} /\ \A i \in 1..n : ch[i] \in ToSet(ch)
    BY <1>0, Wiring, WiredTo
<1>2. /\ DOMAIN td = 1..(2 * n)
      /\ \A k \in 1..(2 * n) :
            td[k] = IF k % 2 = 1 THEN Do("set_duty", ch[(k + 1) \div 2], level[(k + 1) \div 2])
                                 ELSE Do("update_duty", ch[(k + 1) \div 2], 0)
    BY <1>1 DEF SetEach
<1> DEFINE Big == [op : Writes \cup {"update_duty"}, at : Channel, val : Nat]
           m == 2 * n
<1>m. m \in Nat /\ m > 0
    BY <1>1
<1>4. ASSUME NEW k \in 1..m PROVE td[k] \in Op /\ td[k] \in Big
  <2>1. (k + 1) \div 2 \in 1..n
      BY <1>1, Halves
  <2>2. ch[(k + 1) \div 2] \in ToSet(ch) /\ ch[(k + 1) \div 2] \in Channel
        /\ level[(k + 1) \div 2] \in Nat
      BY <1>0, <1>1, <2>1, WiredTo, LedAssumption DEF Level
  <2>3. \/ td[k] = Do("set_duty", ch[(k + 1) \div 2], level[(k + 1) \div 2])
        \/ td[k] = Do("update_duty", ch[(k + 1) \div 2], 0)
      BY <1>2
  <2>4. /\ Do("set_duty", ch[(k + 1) \div 2], level[(k + 1) \div 2]) \in Op \cap Big
        /\ Do("update_duty", ch[(k + 1) \div 2], 0) \in Op \cap Big
      BY <2>2 DEF Do, Writes
  <2> QED BY <2>3, <2>4
<1>5. td \in Seq(Big) /\ Len(td) = m
  <2>1. td \in [1..m -> Big]
      BY <1>2, <1>4 DEF SetEach
  <2> HIDE DEF td, m, Big
  <2> QED BY <1>m, <2>1
<1>8. ASSUME NEW k \in 1..Len(td) PROVE Planned(l, v, td, k)
  <2>0. k \in 1..m
      BY <1>5
  <2>1. CASE k % 2 = 1
    <3> DEFINE i == (k + 1) \div 2
    <3>1. td[k] = Do("set_duty", ch[i], level[i]) /\ i \in 1..n
        BY <1>1, <1>2, <2>0, <2>1, Halves
    <3>2. k < m /\ k + 1 \in 1..m /\ (k + 1) % 2 = 0 /\ ((k + 1) + 1) \div 2 = i
        BY <1>1, <2>0, <2>1, Halves
    <3>3. td[k + 1] = Do("update_duty", ch[((k + 1) + 1) \div 2], 0)
      <4> DEFINE j == k + 1
      <4>1. j \in 1..m /\ j % 2 # 1
          BY <3>2
      <4> HIDE DEF j
      <4>2. td[j] = Do("update_duty", ch[(j + 1) \div 2], 0)
          BY <1>2, <4>1
      <4> QED BY <4>2 DEF j
    <3>4. ASSUME NEW j \in 1..n, ch[j] = td[k].at PROVE Shows(l, td[k].val, v[j])
      <4>1. j = i /\ td[k].val = level[i]
          BY <1>0, <3>1, <3>4, WiredTo, SMTT(30) DEF Do
      <4> QED BY <3>1, <4>1
    <3>5. /\ td[k].op = "set_duty" /\ td[k].val \in Level
          /\ td[k + 1].op = "update_duty" /\ td[k + 1].at = td[k].at
        BY <3>1, <3>2, <3>3, SMTT(30) DEF Do
    <3> QED BY <1>4, <1>5, <2>0, <3>2, <3>4, <3>5 DEF Planned
  <2>2. CASE k % 2 # 1
    <3>1. td[k] = Do("update_duty", ch[(k + 1) \div 2], 0)
        BY <1>2, <2>0, <2>2
    <3>2. td[k].op = "update_duty"
        BY <3>1 DEF Do
    <3> QED BY <1>4, <2>0, <3>2 DEF Planned, Writes
  <2> QED BY <2>1, <2>2
<1>9. td # <<>>
    BY <1>m, <1>5
<1>10. \A i \in 1..n : ToWrite(td, ch[i])
  <2> TAKE i \in 1..n
  <2>1. 2 * i - 1 \in 1..m /\ (2 * i - 1) % 2 = 1 /\ ((2 * i - 1) + 1) \div 2 = i
      BY <1>1, Doubles
  <2>2. td[2 * i - 1] = Do("set_duty", ch[i], level[i])
      BY <1>2, <2>1
  <2>3. td[2 * i - 1].op \in Writes /\ td[2 * i - 1].at = ch[i]
      BY <2>2 DEF Do, Writes
  <2>4. 2 * i - 1 \in 1..Len(td)
      BY <1>5, <2>1
  <2> HIDE DEF td
  <2> QED BY <2>3, <2>4 DEF ToWrite
<1>11. ~Begun(l, td)
  <2>1. 1 \in 1..m /\ 1 % 2 = 1
      BY <1>1
  <2>2. td[1] = Do("set_duty", ch[(1 + 1) \div 2], level[(1 + 1) \div 2])
      BY <1>2, <2>1
  <2>3. td[1].op = "set_duty"
      BY <2>2 DEF Do
  <2> QED BY <1>1, <1>5, <2>3 DEF Begun
<1> QED BY <1>5, <1>8, <1>9, <1>10, <1>11 DEF LightPlan, Fresh

(* A fade, or the level of a GPIO, for each channel. *)
LEMMA WritePlan ==
    ASSUME NEW l \in Led, NEW v, NEW level, NEW op \in {"gpio", "fade"}, NEW td,
           td = [i \in 1..Len(Config[l].channels) |->
                    Do(op, Config[l].channels[i], level[i])],
           op = "gpio" <=> Config[l].type = "SINGLE",
           \A i \in 1..Len(Config[l].channels) :
              /\ level[i] \in Nat
              /\ op = "gpio" => level[i] \in Level
              /\ DrivenAsWired(l) /\ level[i] \in Level =>
                    Shows(l, level[i], v[i])
    PROVE  td # <<>> /\ LightPlan(l, v, td) /\ Fresh(l, td)
<1> DEFINE ch == Config[l].channels
           n == Len(ch)
           Op == [op : Writes \cup {"update_duty"}, at : ToSet(ch), val : Nat]
<1>0. l \in Led
    OBVIOUS
<1>1. n \in Nat \ {0} /\ \A i \in 1..n : ch[i] \in ToSet(ch)
    BY <1>0, Wiring, WiredTo
<1>2. \A k \in 1..n : td[k] = Do(op, ch[k], level[k])
    OBVIOUS
<1>3. \A k \in 1..n : td[k] \in Op
    BY <1>1, <1>2 DEF Do, Writes
<1>4. td \in Seq(Op) /\ Len(td) = n
  <2>1. td \in [1..n -> Op]
      BY <1>3
  <2> QED BY <1>1, <2>1
<1>5. Op \subseteq [op : Writes \cup {"update_duty"}, at : Channel, val : Nat]
    BY <1>0, WiredTo
<1>6. td \in Seq([op : Writes \cup {"update_duty"}, at : Channel, val : Nat])
    BY <1>4, <1>5
<1>7. ASSUME NEW k \in 1..Len(td) PROVE Planned(l, v, td, k)
  <2>1. td[k].op = op /\ td[k].at = ch[k] /\ td[k].val = level[k]
      BY <1>2, <1>4 DEF Do
  <2>2. ASSUME DrivenAsWired(l), td[k].val \in Level,
               NEW j \in 1..n, ch[j] = td[k].at
        PROVE  Shows(l, td[k].val, v[j])
    <3>1. j = k /\ k \in 1..n
        BY <1>0, <1>4, <2>1, <2>2, WiredTo
    <3> QED BY <2>1, <2>2, <3>1
  <2>3. \A j \in 1..Len(td) : td[j].op = op
      BY <1>2, <1>4 DEF Do
  <2>4. td[k].op = "gpio" => td[k].val \in Level
      BY <1>4, <2>1
  <2>5. Len(td) <= Len(ch) /\ td[k] \in Op
      BY <1>1, <1>3, <1>4
  <2> HIDE DEF ch
  <2> QED BY <2>1, <2>2, <2>3, <2>4, <2>5 DEF Planned, ch
<1>8. td # <<>>
    BY <1>1, <1>4
<1>9. \A i \in 1..n : ToWrite(td, ch[i])
    BY <1>2, <1>4 DEF ToWrite, Do, Writes
<1>10. ~Begun(l, td)
  <2>1. td[1].op = op
      BY <1>1, <1>2 DEF Do
  <2> QED BY <1>1, <1>4, <2>1 DEF Begun
<1> QED BY <1>6, <1>7, <1>8, <1>9, <1>10 DEF LightPlan, Fresh

-----------------------------------------------------------------------------
(* The initial state. *)
LEMMA LedInitInv == LedInit => LedInv
<1> SUFFICES ASSUME LedInit PROVE LedInv
    OBVIOUS
<1> USE LedAssumption
<1>1. LedTypeOK
  <2>1. ready \in BOOLEAN /\ fade_service \in BOOLEAN
      BY Zenon DEF LedInit
  <2>2. /\ led_table \in [0..(MaxLed - 1) -> Led \cup {NoLed}]
        /\ duty \in [Channel -> Level] /\ output \in [Channel -> Level]
      BY DEF LedInit, Level
  <2>3. /\ fading \in [Channel -> Level \cup {NotFading}]
        /\ fade_rec \in SUBSET Channel /\ raced \in SUBSET Channel /\ open \in SUBSET Task
        /\ handle \in [Led -> 0..(MaxLed - 1) \cup {NoLed}]
      BY DEF LedInit
  <2>4. freq \in [Timer -> (UNION {Freq[l] : l \in Led}) \cup {DefaultFreq}]
    <3> DEFINE F == (UNION {Freq[l] : l \in Led}) \cup {DefaultFreq}
    <3>1. DefaultFreq \in F
        OBVIOUS
    <3> HIDE DEF F
    <3>2. freq \in [Timer -> F]
        BY <3>1 DEF LedInit
    <3> QED BY <3>2 DEF F
  <2> QED BY <2>1, <2>2, <2>3, <2>4 DEF LedTypeOK
<1>2. CallsOK
    BY DEF LedInit, CallsOK
<1>3. TableOK
    BY DEF LedInit, TableOK, HandlesNameLeds
<1>4. ChannelsOK
  <2>1. wanted \in [Channel -> Nat \cup {Unknown}]
      BY DEF LedInit
  <2>2. ASSUME NEW l \in Led, NEW c \in ToSet(Config[l].channels) PROVE ChannelOK(l, c)
    <3>1. c \in Channel
        BY WiredTo
    <3> QED BY <3>1 DEF LedInit, ChannelOK
  <2> QED BY <2>1, <2>2 DEF ChannelsOK
<1>5. AskedOK
    BY DEF LedInit, AskedOK, AloneOK
<1>6. TimersOK
    BY DEF LedInit, TimersOK
<1> QED BY <1>1, <1>2, <1>3, <1>4, <1>5, <1>6 DEF LedInv

(* A step that leaves the calls, the channels and what was asked for. *)
LEMMA QuietStep ==
    ASSUME LedInv, LedTypeOK', TableOK',
           UNCHANGED <<duty, output, fading, raced, freq, call, todo, handle, asked, askedFreq, wanted>>
    PROVE  LedInv'
<1>1. CallsOK'
    BY DEF LedInv, CallsOK
<1>2. ChannelsOK'
    BY DEF LedInv, ChannelsOK, ChannelOK, Updating
<1>3. AskedOK'
    BY DEF LedInv, AskedOK, AloneOK, LastAsked, AskedAt, On
<1>4. TimersOK'
    BY DEF LedInv, TimersOK
<1> QED BY <1>1, <1>2, <1>3, <1>4 DEF LedInv

(* The initialisation and the start of the fade service keep LedInv. *)
LEMMA InitDriverInv ==
    ASSUME LedInv, LDRV_InitDriver \/ LDRV_StartFadeService
    PROVE  LedInv'
<1>1. LedTypeOK'
    BY DEF LedInv, LedTypeOK, LDRV_InitDriver, LDRV_StartFadeService
<1>2. TableOK'
    BY DEF LedInv, TableOK, HandlesNameLeds, LDRV_InitDriver, LDRV_StartFadeService
<1>3. UNCHANGED <<duty, output, fading, raced, freq, call, todo, handle, asked, askedFreq, wanted>>
    BY DEF LDRV_InitDriver, LDRV_StartFadeService
<1> QED BY <1>1, <1>2, <1>3, QuietStep

(* A new LED takes a free entry of the table; its channels and its timer   *)
(* are set up while nothing else uses them.                                *)
LEMMA AddLedInv ==
    ASSUME LedInv, NEW l \in Led, AddLed(l)
    PROVE  LedInv'
<1> USE LedAssumption
<1> DEFINE i == getFirstAvailableIndex
<1>1. i \in 0..(MaxLed - 1) /\ led_table[i] = NoLed
    BY FirstIndexFree DEF LedInv, AddLed
<1>2. /\ led_table' = [led_table EXCEPT ![i] = l]
      /\ handle' = [handle EXCEPT ![l] = i]
      /\ handle[l] = NoLed /\ ready
      /\ UNCHANGED <<ready, fading, fade_rec, open, raced, fade_service, call, todo, wanted>>
    BY DEF AddLed
<1> HIDE DEF i
<1>3. SetupLevel(l) \in Level
    BY DEF SetupLevel, Level
<1>4. /\ duty' = [c \in Channel |-> IF c \in ToSet(Config[l].channels) THEN SetupLevel(l) ELSE duty[c]]
      /\ output' = [c \in Channel |-> IF c \in ToSet(Config[l].channels) THEN SetupLevel(l) ELSE output[c]]
    BY DEF AddLed
<1>5. LedTypeOK'
  <2>1. freq' \in [Timer -> (UNION {Freq[k] : k \in Led}) \cup {DefaultFreq}]
    <3> DEFINE F == (UNION {Freq[k] : k \in Led}) \cup {DefaultFreq}
    <3>1. DefaultFreq \in F /\ freq \in [Timer -> F]
        BY DEF LedInv, LedTypeOK
    <3> HIDE DEF F
    <3>2. freq' \in [Timer -> F]
        BY <3>1 DEF AddLed, SetupTimer
    <3> QED BY <3>2 DEF F
  <2>2. duty' \in [Channel -> Level] /\ output' \in [Channel -> Level]
      BY <1>3, <1>4 DEF LedInv, LedTypeOK
  <2> QED BY <1>1, <1>2, <2>1, <2>2 DEF LedInv, LedTypeOK
<1>6. CallsOK'
  <2>1. \A k \in Led : handle[k] # NoLed => handle'[k] # NoLed
      BY <1>1, <1>2 DEF LedInv, LedTypeOK
  <2>2. \A t \in Task : call[t] # NoCall => call[t].led \in Led
      BY DEF LedInv, CallsOK, CallOK, LightCall, FreqCall
  <2> QED BY <1>2, <2>1, <2>2 DEF LedInv, CallsOK
<1>7. TableOK'
    BY <1>1, <1>2 DEF LedInv, LedTypeOK, TableOK, HandlesNameLeds
<1>8. ChannelsOK'
  <2>1. ASSUME NEW k \in Led, NEW c \in ToSet(Config[k].channels) PROVE ChannelOK(k, c)'
    <3>0. c \in Channel /\ ChannelOK(k, c)
        BY WiredTo DEF LedInv, ChannelsOK
    <3>1. CASE k = l
      <4>1. wanted'[c] = Unknown /\ fading'[c] = NotFading /\ c \notin raced'
          BY <1>2, <3>0, <3>1 DEF ChannelOK
      <4>2. duty'[c] = output'[c]
          BY <1>4, <3>0, <3>1
      <4> QED BY <4>1, <4>2 DEF ChannelOK
    <3>2. CASE k # l
      <4>1. duty'[c] = duty[c] /\ output'[c] = output[c]
          BY <1>4, <3>0, <3>2, WiredApart
      <4>2. handle'[k] = handle[k]
          BY <1>2, <3>2 DEF LedInv, LedTypeOK
      <4> QED BY <1>2, <3>0, <4>1, <4>2 DEF ChannelOK, Updating
    <3> QED BY <3>1, <3>2
  <2> QED BY <1>2, <2>1 DEF LedInv, ChannelsOK
<1>9. AskedOK'
  <2>1. asked' = [asked EXCEPT ![l] = IF Config[l].type = "SINGLE" THEN <<0>> ELSE Unknown]
      BY DEF AddLed
  <2>2. <<0>> \in Light
      BY DEF Light
  <2>3. asked' \in [Led -> Light \cup {Unknown}]
      BY <2>1, <2>2 DEF LedInv, AskedOK
  <2>4. ASSUME NEW k \in Led, asked'[k] # Unknown
        PROVE  /\ DOMAIN asked'[k] = DOMAIN Config[k].channels
               /\ LastAsked(k)'
    <3>1. CASE k = l
      <4>1. Config[l].type = "SINGLE" /\ asked'[l] = <<0>>
          BY <2>1, <2>4, <3>1 DEF LedInv, AskedOK
      <4>2. Len(Config[l].channels) = 1 /\ DOMAIN Config[l].channels = 1..1
          BY <4>1, Wiring
      <4>3. /\ wanted'[Config[l].channels[1]] = Unknown
            /\ output'[Config[l].channels[1]] = SetupLevel(l)
        <5>1. Config[l].channels[1] \in ToSet(Config[l].channels)
              /\ Config[l].channels[1] \in Channel
            BY <4>2, WiredTo
        <5> QED BY <1>2, <1>4, <5>1 DEF LedInv, ChannelsOK, ChannelOK
      <4>4. DOMAIN asked'[l] = 1..1 /\ asked'[l][1] = 0
          BY <4>1
      <4> QED BY <3>1, <4>1, <4>2, <4>3, <4>4 DEF LastAsked, AskedAt
    <3>2. CASE k # l
      <4>1. asked'[k] = asked[k]
          BY <2>1, <3>2 DEF LedInv, AskedOK
      <4>2. ASSUME NEW j \in 1..Len(Config[k].channels), AskedAt(k, j) PROVE AskedAt(k, j)'
        <5>1. Config[k].channels[j] \in ToSet(Config[k].channels)
              /\ Config[k].channels[j] \in Channel
            BY WiredTo
        <5>2. output'[Config[k].channels[j]] = output[Config[k].channels[j]]
            BY <1>4, <3>2, <5>1, WiredApart
        <5> QED BY <1>2, <4>1, <4>2, <5>2 DEF AskedAt
      <4> QED BY <1>2, <2>4, <4>1, <4>2 DEF LedInv, AskedOK, LastAsked, On
    <3> QED BY <3>1, <3>2
  <2>5. AloneOK'
      BY <1>2 DEF LedInv, AskedOK, AloneOK, On
  <2> QED BY <2>3, <2>4, <2>5 DEF AskedOK
<1>10. TimersOK'
  <2>1. askedFreq' = [askedFreq EXCEPT ![l] = IF Config[l].type = "SINGLE" THEN Unknown ELSE DefaultFreq]
        /\ freq' = IF Config[l].type = "SINGLE" THEN freq
                   ELSE [freq EXCEPT ![Config[l].timer] = DefaultFreq]
      BY DEF AddLed, SetupTimer
  <2>2. \A k \in Led : Config[k].timer \in Timer
      BY Wiring
  <2> QED BY <2>1, <2>2 DEF LedInv, LedTypeOK, TimersOK
<1> QED BY <1>5, <1>6, <1>7, <1>8, <1>9, <1>10 DEF LedInv

-----------------------------------------------------------------------------
(* What a function that begins plans for an LED. *)
NewPlan(l, what, value, td) ==
    /\ td # <<>>
    /\ IF what = "freq"
       THEN value \in UNION {Freq[k] : k \in Led} /\ FreqPlan(l, value, td)
       ELSE /\ value \in Light /\ DOMAIN value = DOMAIN Config[l].channels
            /\ LightPlan(l, value, td) /\ Fresh(l, td)

(* A call begins: it has a plan, and the calls beside it for the same LED  *)
(* are no longer alone.                                                    *)
LEMMA BeginInv ==
    ASSUME LedInv, NEW t \in Task, NEW h, NEW type, NEW what \in {"light", "freq"},
           NEW value, NEW write,
           Begin(t, h, type, what, value, write),
           \A l \in Led : Config[l].type = type => NewPlan(l, what, value, write[l])
    PROVE  LedInv'
<1> DEFINE l == led_table[h]
           cl == [led |-> l, what |-> what, value |-> value, alone |-> \A v \in Task : ~On(v, l)]
<1>1. l \in Led /\ Config[l].type = type /\ handle[l] # NoLed
  <2>1. h \in 0..(MaxLed - 1) /\ l # NoLed /\ Config[l].type = type
      BY DEF Begin
  <2>2. l \in Led
      BY <2>1 DEF LedInv, LedTypeOK
  <2> QED BY <2>1, <2>2, LedAssumption DEF LedInv, TableOK
<1>2. /\ call[t] = NoCall
      /\ call' = [u \in Task |-> IF u = t THEN cl
                                 ELSE IF On(u, l) THEN [call[u] EXCEPT !.alone = FALSE]
                                 ELSE call[u]]
      /\ todo' = [todo EXCEPT ![t] = write[l]]
      /\ UNCHANGED <<user, ready, led_table, duty, output, fading, fade_rec, open, raced,
                     fade_service, freq, handle, asked, askedFreq, wanted>>
    BY DEF Begin
<1>3. CallOK(cl, write[l]) /\ cl # NoCall /\ (what = "light" => Fresh(l, write[l]))
  <2>1. (\A v \in Task : ~On(v, l)) \in BOOLEAN
      OBVIOUS
  <2>2. CASE what = "freq"
    <3>1. cl \in FreqCall
        BY <1>1, <2>1, <2>2 DEF FreqCall, NewPlan
    <3> QED BY <1>1, <2>2, <3>1, LedAssumption DEF CallOK, NewPlan
  <2>3. CASE what = "light"
    <3>1. cl \in LightCall
        BY <1>1, <2>1, <2>3 DEF LightCall, NewPlan
    <3> QED BY <1>1, <2>3, <3>1, LedAssumption DEF CallOK, NewPlan
  <2> QED BY <2>2, <2>3
<1>4. cl.led = l /\ cl.what = what /\ cl.value = value /\ (cl.alone => \A v \in Task : ~On(v, l))
    OBVIOUS
<1> HIDE DEF cl
<1>5. call'[t] = cl /\ todo'[t] = write[l] /\ todo[t] = <<>>
    BY <1>2 DEF LedInv, CallsOK
<1>6. ASSUME NEW u \in Task, u # t
      PROVE  /\ todo'[u] = todo[u]
             /\ call[u] = NoCall => call'[u] = NoCall
             /\ call[u] # NoCall =>
                   /\ call'[u] # NoCall
                   /\ CallOK(call'[u], todo[u])
                   /\ call'[u].led = call[u].led /\ call'[u].what = call[u].what
                   /\ call'[u].value = call[u].value
                   /\ call'[u].alone => call[u].alone /\ call[u].led # l
  <2>1. todo'[u] = todo[u]
      BY <1>2, <1>6 DEF LedInv, CallsOK
  <2>2. CASE ~On(u, l)
      BY <1>2, <1>6, <2>1, <2>2 DEF LedInv, CallsOK, On
  <2>3. CASE On(u, l)
    <3> DEFINE r == [call[u] EXCEPT !.alone = FALSE]
    <3>1. call'[u] = r /\ call[u] # NoCall
        BY <1>2, <1>6, <2>3 DEF On
    <3>2. CallOK(call[u], todo[u])
        BY <3>1 DEF LedInv, CallsOK
    <3>3. CASE call[u].what = "freq"
      <4>1. call[u] \in FreqCall
          BY <3>2, <3>3 DEF CallOK
      <4>2. r \in FreqCall /\ r.led = call[u].led /\ r.what = call[u].what
            /\ r.value = call[u].value /\ r.alone = FALSE
          BY <4>1 DEF FreqCall
      <4> QED BY <2>1, <3>1, <3>2, <3>3, <4>2, LedAssumption DEF CallOK
    <3>4. CASE call[u].what # "freq"
      <4>1. call[u] \in LightCall
          BY <3>2, <3>4 DEF CallOK
      <4>2. r \in LightCall /\ r.led = call[u].led /\ r.what = call[u].what
            /\ r.value = call[u].value /\ r.alone = FALSE
          BY <4>1 DEF LightCall
      <4> QED BY <2>1, <3>1, <3>2, <3>4, <4>2, LedAssumption DEF CallOK
    <3> QED BY <3>3, <3>4
  <2> QED BY <2>2, <2>3
<1>7. LedTypeOK' /\ TableOK' /\ TimersOK'
    BY <1>2 DEF LedInv, LedTypeOK, TableOK, HandlesNameLeds, TimersOK
<1>8. CallsOK'
  <2>1. DOMAIN call' = Task /\ DOMAIN todo' = Task
      BY <1>2 DEF LedInv, CallsOK
  <2>2. ASSUME NEW u \in Task
        PROVE  IF call'[u] = NoCall THEN todo'[u] = <<>>
               ELSE CallOK(call'[u], todo'[u]) /\ handle'[call'[u].led] # NoLed
    <3>1. CASE u = t
        BY <1>1, <1>2, <1>3, <1>4, <1>5, <3>1
    <3>2. CASE u # t
        BY <1>2, <1>6, <3>2 DEF LedInv, CallsOK
    <3> QED BY <3>1, <3>2
  <2> QED BY <2>1, <2>2 DEF CallsOK
<1>9. ChannelsOK'
  <2>1. ASSUME NEW c, Updating(c) PROVE Updating(c)'
    <3>1. PICK u \in Task : \E k \in 1..Len(todo[u]) :
              todo[u][k].op = "update_duty" /\ todo[u][k].at = c
        BY <2>1 DEF Updating
    <3>2. u # t
        BY <1>5, <3>1
    <3>3. todo'[u] = todo[u]
        BY <1>6, <3>2
    <3> QED BY <3>1, <3>3 DEF Updating
  <2> QED BY <1>2, <2>1 DEF LedInv, ChannelsOK, ChannelOK
<1>10. AskedOK'
  <2>1. ASSUME NEW m \in Led, LastAsked(m) PROVE LastAsked(m)'
    <3>1. CASE \A i \in 1..Len(Config[m].channels) : AskedAt(m, i)
        BY <1>2, <3>1 DEF LastAsked, AskedAt
    <3>2. CASE \E u \in Task : On(u, m) /\ call[u].what = "light" /\ Begun(m, todo[u])
      <4>1. PICK u \in Task : On(u, m) /\ call[u].what = "light" /\ Begun(m, todo[u])
          BY <3>2
      <4>2. u # t
          BY <1>2, <4>1 DEF On
      <4> QED BY <1>6, <4>1, <4>2 DEF LastAsked, On
    <3> QED BY <2>1, <3>1, <3>2 DEF LastAsked
  <2>2. ASSUME NEW u \in Task, call'[u] # NoCall, call'[u].what = "light", call'[u].alone
        PROVE  /\ \A w \in Task : On(w, call[u].led)' => w = u
               /\ \A i \in 1..Len(Config[call'[u].led].channels) :
                     \/ ToWrite(todo'[u], Config[call'[u].led].channels[i])
                     \/ wanted'[Config[call'[u].led].channels[i]] = call'[u].value[i]
    <3>1. CASE u = t
      <4>1. \A w \in Task : On(w, call[u].led)' => w = u
          BY <1>4, <1>5, <1>6, <2>2, <3>1 DEF On
      <4> QED BY <1>3, <1>4, <1>5, <2>2, <3>1, <4>1 DEF Fresh
    <3>2. CASE u # t
      <4>1. /\ call[u] # NoCall /\ call[u].what = "light" /\ call[u].alone
            /\ call'[u].led = call[u].led /\ call'[u].value = call[u].value
            /\ todo'[u] = todo[u] /\ call[u].led # l
          BY <1>6, <2>2, <3>2
      <4>2. \A w \in Task : On(w, call[u].led)' => w = u
        <5> TAKE w \in Task
        <5>1. CASE w = t
            BY <1>4, <1>5, <4>1, <5>1 DEF On
        <5>2. CASE w # t
            BY <1>6, <4>1, <5>2 DEF LedInv, AskedOK, AloneOK, On
        <5> QED BY <5>1, <5>2
      <4> QED BY <1>2, <4>1, <4>2 DEF LedInv, AskedOK, AloneOK
    <3> QED BY <3>1, <3>2
  <2>3. AloneOK'
      BY <2>2 DEF AloneOK
  <2> QED BY <1>2, <2>1, <2>3 DEF LedInv, AskedOK
<1> QED BY <1>7, <1>8, <1>9, <1>10 DEF LedInv

(* The six functions begin with the plans above. *)
LEMMA CallsInv ==
    ASSUME LedInv, NEW t \in Task, NEW h,
           \/ \E s \in 0..1 : LDRV_SetLedSingleState(t, h, s)
           \/ \E d \in Duty : LDRV_SetLedSinglePwmDuty(t, h, d)
           \/ \E d \in Duty : LDRV_FadeLedSinglePwmDuty(t, h, d)
           \/ \E c \in Color : LDRV_SetLedRgbColor(t, h, c)
           \/ \E c \in FadeColor : LDRV_FadeLedRgbColor(t, h, c)
           \/ \E l \in Led : \E hz \in Freq[l] : LDRV_SetLedPwmFreq(t, h, hz)
    PROVE  LedInv'
<1>1. ASSUME NEW s \in 0..1, LDRV_SetLedSingleState(t, h, s) PROVE LedInv'
  <2> DEFINE value == <<IF s >= 1 THEN MaxDuty ELSE 0>>
             write == [l \in Led |-> <<Do("gpio", Config[l].channels[1], GpioLevel(l, s))>>]
  <2>1. Begin(t, h, "SINGLE", "light", value, write)
      BY <1>1 DEF LDRV_SetLedSingleState
  <2>2. ASSUME NEW l \in Led, Config[l].type = "SINGLE"
        PROVE  NewPlan(l, "light", value, write[l])
    <3> DEFINE level == <<GpioLevel(l, s)>>
    <3>1. Len(Config[l].channels) = 1 /\ DOMAIN Config[l].channels = 1..1
        BY <2>2, Wiring
    <3>2. write[l] = [i \in 1..Len(Config[l].channels) |->
                        Do("gpio", Config[l].channels[i], level[i])]
        BY <3>1
    <3>3. \A i \in 1..Len(Config[l].channels) :
             /\ level[i] \in Level /\ level[i] \in Nat
             /\ DrivenAsWired(l) => Shows(l, level[i], value[i])
        BY <2>2, <3>1, GpioShows, LedAssumption DEF DrivenAsWired, Level
    <3>4. value \in Light /\ DOMAIN value = 1..1
        BY DEF Light
    <3> HIDE DEF write, level, value
    <3> QED BY <2>2, <3>1, <3>2, <3>3, <3>4, WritePlan DEF NewPlan
  <2> HIDE DEF write, value
  <2> QED BY <2>1, <2>2, BeginInv
<1>2. ASSUME NEW d \in Duty, LDRV_SetLedSinglePwmDuty(t, h, d) PROVE LedInv'
  <2> DEFINE value == <<d>>
             write == [l \in Led |-> SetEach(Config[l].channels, <<LevelFor(l, Clip(d))>>)]
  <2>1. Begin(t, h, "SINGLE_PWM", "light", value, write)
      BY <1>2 DEF LDRV_SetLedSinglePwmDuty
  <2>2. ASSUME NEW l \in Led, Config[l].type = "SINGLE_PWM"
        PROVE  NewPlan(l, "light", value, write[l])
    <3> DEFINE level == <<LevelFor(l, Clip(d))>>
    <3>1. Len(Config[l].channels) = 1 /\ DOMAIN Config[l].channels = 1..1
        BY <2>2, Wiring
    <3>2. write[l] = SetEach(Config[l].channels, level)
        OBVIOUS
    <3>3. \A i \in 1..Len(Config[l].channels) :
             level[i] \in Level /\ Shows(l, level[i], value[i])
        BY <3>1, ClippedShows, LedAssumption
    <3>4. value \in Light /\ DOMAIN value = 1..1
        BY DEF Light
    <3> HIDE DEF write, level, value
    <3> QED BY <2>2, <3>1, <3>2, <3>3, <3>4, SetPlan DEF NewPlan
  <2> HIDE DEF write, value
  <2> QED BY <2>1, <2>2, BeginInv
<1>3. ASSUME NEW d \in Duty, LDRV_FadeLedSinglePwmDuty(t, h, d) PROVE LedInv'
  <2> DEFINE value == <<d>>
             write == [l \in Led |-> FadeEach(Config[l].channels, <<LevelFor(l, Clip(d))>>)]
  <2>1. Begin(t, h, "SINGLE_PWM", "light", value, write)
      BY <1>3 DEF LDRV_FadeLedSinglePwmDuty
  <2>2. ASSUME NEW l \in Led, Config[l].type = "SINGLE_PWM"
        PROVE  NewPlan(l, "light", value, write[l])
    <3> DEFINE level == <<LevelFor(l, Clip(d))>>
    <3>1. Len(Config[l].channels) = 1 /\ DOMAIN Config[l].channels = 1..1
        BY <2>2, Wiring
    <3>2. write[l] = [i \in 1..Len(Config[l].channels) |->
                        Do("fade", Config[l].channels[i], level[i])]
        BY DEF FadeEach
    <3>3. \A i \in 1..Len(Config[l].channels) :
             level[i] \in Level /\ level[i] \in Nat /\ Shows(l, level[i], value[i])
        BY <3>1, ClippedShows, LedAssumption DEF Level
    <3>4. value \in Light /\ DOMAIN value = 1..1
        BY DEF Light
    <3> HIDE DEF write, level, value
    <3> QED BY <2>2, <3>1, <3>2, <3>3, <3>4, WritePlan DEF NewPlan
  <2> HIDE DEF write, value
  <2> QED BY <2>1, <2>2, BeginInv
<1>4. ASSUME NEW c \in Color, LDRV_SetLedRgbColor(t, h, c) PROVE LedInv'
  <2> DEFINE write == [l \in Led |-> SetEach(Config[l].channels,
                                             [i \in 1..3 |-> LevelFor(l, Clip(c[i]))])]
  <2>1. Begin(t, h, "RGB", "light", c, write)
      BY <1>4 DEF LDRV_SetLedRgbColor
  <2>2. ASSUME NEW l \in Led, Config[l].type = "RGB"
        PROVE  NewPlan(l, "light", c, write[l])
    <3> DEFINE level == [i \in 1..3 |-> LevelFor(l, Clip(c[i]))]
    <3>1. Len(Config[l].channels) = 3 /\ DOMAIN Config[l].channels = 1..3
        BY <2>2, Wiring
    <3>2. write[l] = SetEach(Config[l].channels, level)
        OBVIOUS
    <3>3. c \in [1..3 -> Nat]
        BY LedAssumption
    <3>4. \A i \in 1..Len(Config[l].channels) :
             level[i] \in Level /\ Shows(l, level[i], c[i])
        BY <3>1, <3>3, ClippedShows
    <3>5. c \in Light /\ DOMAIN c = 1..3
        BY <3>3 DEF Light
    <3> HIDE DEF write, level
    <3>6. write[l] # <<>> /\ LightPlan(l, c, write[l]) /\ Fresh(l, write[l])
        BY <2>2, <3>2, <3>4, SetPlan
    <3> QED BY <3>1, <3>5, <3>6 DEF NewPlan
  <2> HIDE DEF write
  <2> QED BY <2>1, <2>2, BeginInv
<1>5. ASSUME NEW c \in FadeColor, LDRV_FadeLedRgbColor(t, h, c) PROVE LedInv'
  <2> DEFINE write == [l \in Led |-> FadeEach(Config[l].channels,
                                              [i \in 1..3 |-> LevelFor(l, c[i])])]
  <2>1. Begin(t, h, "RGB", "light", c, write)
      BY <1>5 DEF LDRV_FadeLedRgbColor
  <2>2. ASSUME NEW l \in Led, Config[l].type = "RGB"
        PROVE  NewPlan(l, "light", c, write[l])
    <3> DEFINE level == [i \in 1..3 |-> LevelFor(l, c[i])]
    <3>1. Len(Config[l].channels) = 3 /\ DOMAIN Config[l].channels = 1..3
        BY <2>2, Wiring
    <3>2. write[l] = [i \in 1..Len(Config[l].channels) |->
                        Do("fade", Config[l].channels[i], level[i])]
        BY DEF FadeEach
    <3>3. c \in [1..3 -> Nat] /\ \A i \in 1..3 : c[i] + 1 < Word
        BY LedAssumption
    <3>4. \A i \in 1..Len(Config[l].channels) :
             level[i] \in Nat /\ (level[i] \in Level => Shows(l, level[i], c[i]))
        BY <3>1, <3>3, UnclippedShows
    <3>5. c \in Light /\ DOMAIN c = 1..3
        BY <3>3 DEF Light
    <3> HIDE DEF write, level
    <3> QED BY <2>2, <3>1, <3>2, <3>4, <3>5, WritePlan DEF NewPlan
  <2> HIDE DEF write
  <2> QED BY <2>1, <2>2, BeginInv
<1>6. ASSUME NEW k \in Led, NEW hz \in Freq[k], LDRV_SetLedPwmFreq(t, h, hz) PROVE LedInv'
  <2> DEFINE write == [l \in Led |-> <<Do("set_freq", Config[l].timer, hz)>>]
  <2>1. \/ Begin(t, h, "SINGLE_PWM", "freq", hz, write)
        \/ Begin(t, h, "RGB", "freq", hz, write)
      BY <1>6 DEF LDRV_SetLedPwmFreq
  <2>2. ASSUME NEW l \in Led, Config[l].type # "SINGLE"
        PROVE  NewPlan(l, "freq", hz, write[l])
      BY <2>2 DEF NewPlan, FreqPlan
  <2> HIDE DEF write
  <2> QED BY <2>1, <2>2, BeginInv
<1> QED BY <1>1, <1>2, <1>3, <1>4, <1>5, <1>6

-----------------------------------------------------------------------------
(* A peripheral call. *)

(* A task with peripheral calls left is in a call for an added LED. *)
LEMMA TaskFacts ==
    ASSUME LedInv, NEW t \in Task, todo[t] # <<>>
    PROVE  /\ call[t] # NoCall /\ CallOK(call[t], todo[t])
           /\ call[t].led \in Led /\ handle[call[t].led] # NoLed
           /\ call[t].what \in {"light", "freq"}
<1>1. call[t] # NoCall /\ CallOK(call[t], todo[t]) /\ handle[call[t].led] # NoLed
    BY DEF LedInv, CallsOK
<1>2. call[t] \in FreqCall \/ call[t] \in LightCall
    BY <1>1 DEF CallOK
<1>3. ASSUME call[t] \in FreqCall PROVE call[t].led \in Led /\ call[t].what = "freq"
    BY <1>3 DEF FreqCall
<1>4. ASSUME call[t] \in LightCall PROVE call[t].led \in Led /\ call[t].what = "light"
    BY <1>4 DEF LightCall
<1> QED BY <1>1, <1>2, <1>3, <1>4

(* The call of a task that has a channel to write. *)
LEMMA LightFacts ==
    ASSUME LedInv, NEW t \in Task, todo[t] # <<>>, Head(todo[t]).op # "set_freq"
    PROVE  /\ call[t].what = "light"
           /\ LightPlan(call[t].led, call[t].value, todo[t])
           /\ DOMAIN call[t].value = DOMAIN Config[call[t].led].channels
           /\ call[t].value \in Light
           /\ Head(todo[t]) = todo[t][1] /\ 1 \in 1..Len(todo[t])
           /\ Planned(call[t].led, call[t].value, todo[t], 1)
           /\ Head(todo[t]).at \in ToSet(Config[call[t].led].channels)
           /\ Head(todo[t]).at \in Channel
<1>1. call[t].what # "freq"
  <2>1. call[t].what = "freq" =>
            todo[t] = <<Do("set_freq", Config[call[t].led].timer, call[t].value)>>
      BY TaskFacts DEF CallOK, FreqPlan
  <2>2. \A x : Head(<<x>>) = x
      OBVIOUS
  <2> QED BY <2>1, <2>2 DEF Do
<1>2. /\ LightPlan(call[t].led, call[t].value, todo[t]) /\ call[t] \in LightCall
      /\ DOMAIN call[t].value = DOMAIN Config[call[t].led].channels
    BY <1>1, TaskFacts DEF CallOK
<1>3. call[t].value \in Light /\ call[t].what = "light" /\ call[t].led \in Led
    BY <1>2 DEF LightCall
<1>4. Head(todo[t]) = todo[t][1] /\ 1 \in 1..Len(todo[t])
    BY <1>2 DEF LightPlan
<1>5. Planned(call[t].led, call[t].value, todo[t], 1)
    BY <1>2, <1>4 DEF LightPlan
<1>6. Head(todo[t]).at \in ToSet(Config[call[t].led].channels)
    BY <1>4, <1>5 DEF Planned
<1> QED BY <1>2, <1>3, <1>4, <1>5, <1>6, WiredTo

(* Only the empty sequence has no elements. *)
LEMMA EmptyByLength ==
    ASSUME NEW S, NEW s \in Seq(S)
    PROVE  Len(s) = 0 <=> s = <<>>
BY EmptySeq

(* The rest of a plan is a plan. *)
LEMMA TailPlan ==
    ASSUME NEW l \in Led, NEW v, NEW td, LightPlan(l, v, td), td # <<>>
    PROVE  /\ LightPlan(l, v, Tail(td))
           /\ Len(Tail(td)) = Len(td) - 1 /\ Len(td) \in Nat /\ Len(td) > 0
           /\ \A k \in 1..Len(Tail(td)) : Tail(td)[k] = td[k + 1] /\ k + 1 \in 1..Len(td)
<1> DEFINE Op == [op : Writes \cup {"update_duty"}, at : Channel, val : Nat]
           n == Len(Config[l].channels)
<1>1. td \in Seq(Op) /\ Len(td) <= 2 * n /\ n \in Nat
    BY Wiring DEF LightPlan
<1> HIDE DEF Op
<1>2. /\ Tail(td) \in Seq(Op) /\ Len(Tail(td)) = Len(td) - 1 /\ Len(td) \in Nat /\ Len(td) > 0
      /\ \A k \in 1..Len(Tail(td)) : Tail(td)[k] = td[k + 1] /\ k + 1 \in 1..Len(td)
    BY <1>1
<1>3. ASSUME NEW k \in 1..Len(Tail(td)) PROVE Planned(l, v, Tail(td), k)
  <2>1. Planned(l, v, td, k + 1) /\ Tail(td)[k] = td[k + 1]
      BY <1>2 DEF LightPlan
  <2>2. td[k + 1].op = "set_duty" =>
            k < Len(Tail(td)) /\ Tail(td)[k + 1] = td[(k + 1) + 1]
      BY <1>2, <2>1 DEF Planned
  <2>3. td[k + 1].op = "fade" => \A j \in 1..Len(Tail(td)) : Tail(td)[j].op = "fade"
      BY <1>2, <2>1 DEF Planned
  <2>4. td[k + 1].op \in {"gpio", "fade"} => Len(Tail(td)) <= n
      BY <1>1, <1>2, <2>1 DEF Planned
  <2> HIDE DEF n
  <2>5. Tail(td)[k].op = "set_duty" =>
            /\ k < Len(Tail(td)) /\ Tail(td)[k + 1].op = "update_duty"
            /\ Tail(td)[k + 1].at = Tail(td)[k].at
      BY <2>1, <2>2 DEF Planned
  <2> QED BY <2>1, <2>3, <2>4, <2>5 DEF Planned, n
<1>4. Len(Tail(td)) <= 2 * n
    BY <1>1, <1>2
<1> QED BY <1>2, <1>3, <1>4 DEF LightPlan, Op

(* A write of one channel leaves the calls in order. *)
LEMMA DoneCalls ==
    ASSUME LedInv, NEW t \in Task, todo[t] # <<>>, Head(todo[t]).op # "set_freq",
           Done(t), UNCHANGED handle
    PROVE  /\ CallsOK'
           /\ todo' = [todo EXCEPT ![t] = Tail(todo[t])]
           /\ todo'[t] = Tail(todo[t]) /\ \A u \in Task : u # t => todo'[u] = todo[u] /\ call'[u] = call[u]
           /\ Len(todo[t]) = 1 => call'[t] = NoCall
           /\ Len(todo[t]) # 1 => call'[t] = call[t] /\ Tail(todo[t]) # <<>>
<1>1. LightPlan(call[t].led, call[t].value, todo[t]) /\ call[t].led \in Led
    BY LightFacts, TaskFacts
<1>2. /\ LightPlan(call[t].led, call[t].value, Tail(todo[t]))
      /\ Len(Tail(todo[t])) = Len(todo[t]) - 1 /\ Len(todo[t]) \in Nat /\ Len(todo[t]) > 0
    BY <1>1, TailPlan
<1>3. /\ todo' = [todo EXCEPT ![t] = Tail(todo[t])]
      /\ call' = IF Len(todo[t]) = 1 THEN [call EXCEPT ![t] = NoCall] ELSE call
    BY DEF Done
<1>4. DOMAIN call = Task /\ DOMAIN todo = Task
    BY DEF LedInv, CallsOK
<1>5. /\ todo'[t] = Tail(todo[t]) /\ DOMAIN call' = Task /\ DOMAIN todo' = Task
      /\ \A u \in Task : u # t => todo'[u] = todo[u] /\ call'[u] = call[u]
      /\ call'[t] = IF Len(todo[t]) = 1 THEN NoCall ELSE call[t]
    BY <1>3, <1>4
<1>6. /\ Len(todo[t]) = 1 => Tail(todo[t]) = <<>>
      /\ Len(todo[t]) # 1 => Tail(todo[t]) # <<>>
  <2> DEFINE Op == [op : Writes \cup {"update_duty"}, at : Channel, val : Nat]
  <2>1. Tail(todo[t]) \in Seq(Op)
      BY <1>2 DEF LightPlan
  <2>2. Len(Tail(todo[t])) = 0 <=> Tail(todo[t]) = <<>>
      BY <2>1, EmptyByLength
  <2> QED BY <1>2, <2>2
<1>7. Len(todo[t]) # 1 => CallOK(call[t], Tail(todo[t]))
    BY <1>2, <1>6, LightFacts, TaskFacts DEF CallOK
<1>8. CallsOK'
  <2>1. ASSUME NEW u \in Task
        PROVE  IF call'[u] = NoCall THEN todo'[u] = <<>>
               ELSE CallOK(call'[u], todo'[u]) /\ handle'[call'[u].led] # NoLed
    <3>1. CASE u = t
        BY <1>5, <1>6, <1>7, <3>1, TaskFacts
    <3>2. CASE u # t
        BY <1>5, <3>2 DEF LedInv, CallsOK
    <3> QED BY <3>1, <3>2
  <2> QED BY <1>5, <2>1 DEF CallsOK
<1> QED BY <1>3, <1>5, <1>6, <1>8

(* A write of one channel, from what it does to that channel. *)
LEMMA LightStep ==
    ASSUME LedInv, NEW t \in Task, todo[t] # <<>>, Head(todo[t]).op # "set_freq", Done(t),
           UNCHANGED <<ready, led_table, freq, handle, raced>>, LedTypeOK',
           wanted' \in [Channel -> Nat \cup {Unknown}],
           \A c \in Channel : c # Head(todo[t]).at =>
              /\ duty'[c] = duty[c] /\ output'[c] = output[c]
              /\ fading'[c] = fading[c] /\ wanted'[c] = wanted[c],
           IF Head(todo[t]).op \in Writes
           THEN \A i \in 1..Len(Config[call[t].led].channels) :
                   Config[call[t].led].channels[i] = Head(todo[t]).at =>
                      wanted'[Head(todo[t]).at] = call[t].value[i]
           ELSE wanted' = wanted,
           \A l \in Led, c \in Channel :
              l = call[t].led /\ c = Head(todo[t]).at => ChannelOK(l, c)'
    PROVE  LedInv'
<1> DEFINE l == call[t].led
           ch == Config[l].channels
           td == todo[t]
           w == Head(td)
           v == call[t].value
<1>1. /\ l \in Led /\ call[t] # NoCall /\ call[t].what = "light" /\ handle[l] # NoLed
      /\ LightPlan(l, v, td) /\ DOMAIN v = DOMAIN ch /\ v \in Light
      /\ w = td[1] /\ w.at \in ToSet(ch) /\ w.at \in Channel /\ Planned(l, v, td, 1)
    BY TaskFacts, LightFacts
<1>2. /\ CallsOK' /\ todo'[t] = Tail(td)
      /\ \A u \in Task : u # t => todo'[u] = todo[u] /\ call'[u] = call[u]
      /\ Len(td) = 1 => call'[t] = NoCall
      /\ Len(td) # 1 => call'[t] = call[t] /\ Tail(td) # <<>>
    BY DoneCalls
<1>3. /\ LightPlan(l, v, Tail(td))
      /\ Len(Tail(td)) = Len(td) - 1 /\ Len(td) \in Nat /\ Len(td) > 0
      /\ \A k \in 1..Len(Tail(td)) : Tail(td)[k] = td[k + 1] /\ k + 1 \in 1..Len(td)
    BY <1>1, TailPlan
<1>4. /\ asked' = IF Len(td) = 1 THEN [asked EXCEPT ![l] = IF call[t].alone THEN v ELSE Unknown]
                                 ELSE asked
      /\ askedFreq' = askedFreq
    BY <1>1 DEF Done
<1>5. TableOK' /\ TimersOK'
    BY <1>4 DEF LedInv, TableOK, HandlesNameLeds, TimersOK
<1>6. ASSUME NEW m \in Led, m # l, NEW i \in 1..Len(Config[m].channels)
      PROVE  LET c == Config[m].channels[i]
             IN  c # w.at /\ c \in Channel /\ wanted'[c] = wanted[c] /\ output'[c] = output[c]
  <2>1. Config[m].channels[i] \in ToSet(Config[m].channels) /\ Config[m].channels[i] \in Channel
      BY WiredTo
  <2>2. Config[m].channels[i] # w.at
      BY <1>1, <1>6, <2>1, WiredApart
  <2> QED BY <2>1, <2>2
<1>7. ChannelsOK'
  <2>1. ASSUME NEW c, c # w.at, Updating(c) PROVE Updating(c)'
    <3>1. PICK u \in Task : \E k \in 1..Len(todo[u]) :
              todo[u][k].op = "update_duty" /\ todo[u][k].at = c
        BY <2>1 DEF Updating
    <3>2. PICK k \in 1..Len(todo[u]) : todo[u][k].op = "update_duty" /\ todo[u][k].at = c
        BY <3>1
    <3>3. CASE u # t
        BY <1>2, <3>2, <3>3 DEF Updating
    <3>4. CASE u = t
      <4>1. k # 1
          BY <1>1, <2>1, <3>2, <3>4
      <4>2. k - 1 \in 1..Len(Tail(td)) /\ Tail(td)[k - 1] = td[k]
          BY <1>3, <3>2, <3>4, <4>1
      <4>3. todo'[t][k - 1] = todo[t][k] /\ k - 1 \in 1..Len(todo'[t])
          BY <1>2, <4>2
      <4>4. \E j \in 1..Len(todo'[t]) : todo'[t][j].op = "update_duty" /\ todo'[t][j].at = c
          BY <3>2, <3>4, <4>3
      <4> QED BY <4>4 DEF Updating
    <3> QED BY <3>3, <3>4
  <2>2. ASSUME NEW m \in Led, NEW c \in ToSet(Config[m].channels) PROVE ChannelOK(m, c)'
    <3>1. c \in Channel /\ ChannelOK(m, c)
        BY WiredTo DEF LedInv, ChannelsOK
    <3>2. CASE c = w.at
      <4>1. m = l
          BY <1>1, <3>2, WiredApart
      <4> QED BY <3>1, <3>2, <4>1
    <3>3. CASE c # w.at
      <4>1. /\ duty'[c] = duty[c] /\ output'[c] = output[c]
            /\ fading'[c] = fading[c] /\ wanted'[c] = wanted[c] /\ handle' = handle /\ raced' = raced
          BY <3>1, <3>3
      <4>2. Updating(c) => Updating(c)'
          BY <2>1, <3>3
      <4> QED BY <3>1, <4>1, <4>2 DEF ChannelOK
    <3> QED BY <3>2, <3>3
  <2> QED BY <2>2 DEF ChannelsOK
(* The channels that are not left to write are as the call asks, if it was *)
(* alone.                                                                  *)
<1>8. ASSUME call[t].alone, NEW i \in 1..Len(ch)
      PROVE  ToWrite(Tail(td), ch[i]) \/ wanted'[ch[i]] = v[i]
  <2>1. ToWrite(td, ch[i]) \/ wanted[ch[i]] = v[i]
      BY <1>1, <1>8 DEF LedInv, AskedOK, AloneOK
  <2>2. CASE w.op \in Writes /\ ch[i] = w.at
      BY <1>8, <2>2
  <2>3. CASE ~(w.op \in Writes /\ ch[i] = w.at)
    <3>1. wanted'[ch[i]] = wanted[ch[i]]
        BY <1>1, <2>3, WiredTo
    <3>2. ASSUME NEW k \in 1..Len(td), td[k].op \in Writes, td[k].at = ch[i]
          PROVE  ToWrite(Tail(td), ch[i])
      <4>1. k # 1
          BY <1>1, <2>3, <3>2
      <4>2. k - 1 \in 1..Len(Tail(td)) /\ Tail(td)[k - 1] = td[k]
          BY <1>3, <4>1
      <4> QED BY <3>2, <4>2 DEF ToWrite
    <3> QED BY <2>1, <3>1, <3>2 DEF ToWrite
  <2> QED BY <2>2, <2>3
(* A call that goes on has begun. *)
<1>9. ASSUME Len(td) # 1 PROVE Begun(l, Tail(td))
  <2> DEFINE n == Len(ch)
  <2>1. n \in Nat \ {0} /\ (Config[l].type = "SINGLE" => n = 1)
      BY <1>1, Wiring
  <2>a. 1 \in 1..Len(Tail(td)) /\ Len(Tail(td)) < Len(td)
    <3> DEFINE a == Len(td)
               b == Len(Tail(td))
    <3>1. a \in Nat /\ a > 0 /\ a # 1 /\ b = a - 1
        BY <1>3, <1>9
    <3> HIDE DEF a, b
    <3>2. 1 \in 1..b /\ b < a
        BY <3>1
    <3> QED BY <3>2 DEF a, b
  <2>2. 1 \in 1..Len(Tail(td)) /\ Tail(td)[1] = td[1 + 1] /\ Len(Tail(td)) < Len(td)
      BY <1>3, <2>a
  <2>3. Planned(l, v, Tail(td), 1) /\ Planned(l, v, td, 1 + 1) /\ Planned(l, v, td, 1)
      BY <1>1, <1>3, <2>2 DEF LightPlan
  <2>4. Len(td) <= 2 * n
      BY <1>1 DEF LightPlan
  <2>5. Tail(td)[1].op \in {"update_duty", "gpio", "set_duty", "fade"}
      BY <2>3 DEF Planned, Writes
  <2>6. Tail(td)[1].op \in {"gpio", "fade"} => Len(td) <= n
      BY <2>2, <2>3 DEF Planned
  <2>7. CASE Tail(td)[1].op = "update_duty"
      BY <2>7 DEF Begun
  <2>8. CASE Tail(td)[1].op = "set_duty"
      BY <1>3, <2>1, <2>2, <2>4, <2>8 DEF Begun
  <2>9. CASE Tail(td)[1].op \in {"gpio", "fade"}
      BY <1>3, <2>1, <2>2, <2>6, <2>9, SMTT(30) DEF Begun
  <2> QED BY <2>5, <2>7, <2>8, <2>9
<1>10. AskedOK'
  <2>1. asked' \in [Led -> Light \cup {Unknown}]
      BY <1>1, <1>4 DEF LedInv, AskedOK
  <2>2. ASSUME NEW m \in Led, asked'[m] # Unknown
        PROVE  DOMAIN asked'[m] = DOMAIN Config[m].channels /\ LastAsked(m)'
    <3>1. CASE m # l
      <4>1. asked'[m] = asked[m]
          BY <1>4, <3>1 DEF LedInv, AskedOK
      <4>2. DOMAIN asked[m] = DOMAIN Config[m].channels /\ LastAsked(m)
          BY <2>2, <4>1 DEF LedInv, AskedOK
      <4>3. ASSUME NEW i \in 1..Len(Config[m].channels), AskedAt(m, i) PROVE AskedAt(m, i)'
          BY <1>6, <3>1, <4>1, <4>3 DEF AskedAt
      <4>4. ASSUME NEW u \in Task, On(u, m), call[u].what = "light", Begun(m, todo[u])
            PROVE  LastAsked(m)'
        <5>1. u # t
            BY <3>1, <4>4 DEF On
        <5>2. todo'[u] = todo[u] /\ call'[u] = call[u]
            BY <1>2, <5>1
        <5> QED BY <4>4, <5>2 DEF LastAsked, On
      <4> QED BY <4>1, <4>2, <4>3, <4>4 DEF LastAsked
    <3>2. CASE m = l /\ Len(td) = 1
      <4>1. call[t].alone /\ asked'[l] = v
          BY <1>1, <1>4, <2>2, <3>2 DEF LedInv, AskedOK
      <4>2. \A i \in 1..Len(ch) : ~ToWrite(Tail(td), ch[i])
          BY <1>3, <3>2 DEF ToWrite
      <4>3. \A i \in 1..Len(ch) : wanted'[ch[i]] = asked'[l][i]
          BY <1>8, <4>1, <4>2
      <4> QED BY <1>1, <3>2, <4>1, <4>3 DEF LastAsked, AskedAt
    <3>3. CASE m = l /\ Len(td) # 1
      <4>1. asked' = asked /\ call'[t] = call[t] /\ todo'[t] = Tail(td)
          BY <1>2, <1>4, <3>3
      <4>2. DOMAIN asked'[m] = DOMAIN Config[m].channels
          BY <2>2, <4>1 DEF LedInv, AskedOK
      <4>3. On(t, l)'
          BY <1>1, <4>1 DEF On
      <4> QED BY <1>1, <1>9, <3>3, <4>1, <4>2, <4>3 DEF LastAsked, On
    <3> QED BY <3>1, <3>2, <3>3
  <2>3. ASSUME NEW u \in Task, call'[u] # NoCall, call'[u].what = "light", call'[u].alone
        PROVE  /\ \A x \in Task : On(x, call[u].led)' => x = u
               /\ \A i \in 1..Len(Config[call'[u].led].channels) :
                     \/ ToWrite(todo'[u], Config[call'[u].led].channels[i])
                     \/ wanted'[Config[call'[u].led].channels[i]] = call'[u].value[i]
    <3>1. call'[u] = call[u]
        BY <1>2, <2>3
    <3>2. \A x \in Task : call'[x] # NoCall => call'[x] = call[x]
        BY <1>2
    <3>3. \A x \in Task : On(x, call[u].led)' => x = u
        BY <2>3, <3>1, <3>2 DEF LedInv, AskedOK, AloneOK, On
    <3>4. CASE u = t
      <4>1. call'[u] = call[t] /\ call[t].led = l /\ call[t].value = v /\ todo'[u] = Tail(td)
          BY <1>1, <1>2, <2>3, <3>1, <3>4
      <4>2. \A i \in 1..Len(ch) : ToWrite(Tail(td), ch[i]) \/ wanted'[ch[i]] = v[i]
          BY <1>8, <2>3, <3>1, <3>4
      <4> QED BY <3>3, <4>1, <4>2
    <3>5. CASE u # t
      <4>1. call[u].led # l /\ call[u].led \in Led /\ todo'[u] = todo[u]
        <5>1. call[u].led \in Led
            BY <2>3, <3>1 DEF LedInv, CallsOK, CallOK, LightCall, FreqCall
        <5>2. call[u].led # l
            BY <1>1, <2>3, <3>1, <3>5 DEF LedInv, AskedOK, AloneOK, On
        <5> QED BY <1>2, <3>5, <5>1, <5>2
      <4>2. \A i \in 1..Len(Config[call[u].led].channels) :
               \/ ToWrite(todo[u], Config[call[u].led].channels[i])
               \/ wanted[Config[call[u].led].channels[i]] = call[u].value[i]
          BY <2>3, <3>1 DEF LedInv, AskedOK, AloneOK
      <4> QED BY <1>6, <3>1, <3>3, <4>1, <4>2
    <3> QED BY <3>4, <3>5
  <2>4. AloneOK'
      BY <2>3 DEF AloneOK
  <2> QED BY <2>1, <2>2, <2>4 DEF AskedOK
<1> QED BY <1>2, <1>5, <1>7, <1>10 DEF LedInv

(* Every value that can be asked for is a sequence of duty cycles. *)
LEMMA LightValues ==
    ASSUME NEW v \in Light
    PROVE  v \in Seq(Nat)
<1>1. <<0>> \in Seq(Nat) /\ <<MaxDuty>> \in Seq(Nat)
    BY LedAssumption
<1>2. \A d \in Duty : <<d>> \in Seq(Nat)
    BY LedAssumption
<1>3. \A c \in Color \cup FadeColor : c \in Seq(Nat)
  <2>1. \A c \in Color \cup FadeColor : c \in [1..3 -> Nat]
      BY LedAssumption
  <2> QED BY <2>1
<1> QED BY <1>1, <1>2, <1>3 DEF Light

(* What a write makes of the channel that it is for. *)
LEMMA AskFacts ==
    ASSUME LedInv, NEW t \in Task, todo[t] # <<>>, Head(todo[t]).op # "set_freq",
           Ask(t, Head(todo[t]).at)
    PROVE  /\ wanted' \in [Channel -> Nat \cup {Unknown}]
           /\ \A c \in Channel : c # Head(todo[t]).at => wanted'[c] = wanted[c]
           /\ \A i \in 1..Len(Config[call[t].led].channels) :
                 Config[call[t].led].channels[i] = Head(todo[t]).at =>
                    wanted'[Head(todo[t]).at] = call[t].value[i]
           /\ \E i \in 1..Len(Config[call[t].led].channels) :
                 Config[call[t].led].channels[i] = Head(todo[t]).at
<1> DEFINE l == call[t].led
           ch == Config[l].channels
           n == Len(ch)
           v == call[t].value
           c == Head(todo[t]).at
<1>1. l \in Led /\ c \in ToSet(ch) /\ c \in Channel /\ v \in Light /\ DOMAIN v = DOMAIN ch
    BY TaskFacts, LightFacts
<1>2. n \in Nat /\ DOMAIN ch = 1..n
    BY <1>1, Wiring
<1>3. v \in Seq(Nat)
    BY <1>1, LightValues
<1>4. DOMAIN v = 1..n /\ \A i \in 1..n : v[i] \in Nat
    BY <1>1, <1>2, <1>3
<1>5. Len(v) = n
    BY <1>2, <1>3, <1>4
<1>6. PICK j \in 1..n : c = ch[j]
    BY <1>1, WiredTo
<1>7. \A i \in 1..n : ch[i] = c => i = j
    BY <1>1, <1>6, WiredTo
<1> DEFINE k == CHOOSE i \in 1..Len(v) : ch[i] = c
<1>8. k \in 1..n /\ ch[k] = c
    BY <1>5, <1>6
<1>9. wanted' = [wanted EXCEPT ![c] = v[k]]
    BY DEF Ask
<1> HIDE DEF k
<1>10. k = j
    BY <1>7, <1>8
<1>11. wanted \in [Channel -> Nat \cup {Unknown}]
    BY DEF LedInv, ChannelsOK
<1>12. wanted'[c] = v[j] /\ v[j] \in Nat
    BY <1>1, <1>4, <1>9, <1>10, <1>11
<1>13. \A i \in 1..n : ch[i] = c => wanted'[c] = v[i]
    BY <1>7, <1>12
<1>14. /\ wanted' \in [Channel -> Nat \cup {Unknown}]
       /\ \A d \in Channel : d # c => wanted'[d] = wanted[d]
    BY <1>1, <1>4, <1>9, <1>10, <1>11
<1>15. \E i \in 1..n : ch[i] = c
    BY <1>6
<1> QED BY <1>13, <1>14, <1>15

(* One peripheral call of each kind. *)
LEMMA gpio_set_levelInv ==
    ASSUME LedInv, NEW t \in Task, gpio_set_level(t)
    PROVE  LedInv'
<1> DEFINE l == call[t].led
           w == Head(todo[t])
<1>1. /\ todo[t] # <<>> /\ w.op = "gpio" /\ Done(t) /\ Ask(t, w.at)
      /\ output' = [output EXCEPT ![w.at] = w.val]
      /\ UNCHANGED <<ready, led_table, duty, fading, fade_rec, open, raced, fade_service, freq, handle>>
    BY DEF gpio_set_level, Pending
<1>2. /\ w = todo[t][1] /\ Planned(l, call[t].value, todo[t], 1) /\ w.at \in Channel
      /\ l \in Led /\ handle[l] # NoLed /\ w.at \in ToSet(Config[l].channels)
    BY <1>1, LightFacts, TaskFacts
<1>3. /\ wanted' \in [Channel -> Nat \cup {Unknown}]
      /\ \A c \in Channel : c # w.at => wanted'[c] = wanted[c]
      /\ \A i \in 1..Len(Config[l].channels) :
            Config[l].channels[i] = w.at => wanted'[w.at] = call[t].value[i]
      /\ \E i \in 1..Len(Config[l].channels) : Config[l].channels[i] = w.at
    BY <1>1, AskFacts
<1>4. w.val \in Level /\ Config[l].type = "SINGLE"
    BY <1>1, <1>2 DEF Planned
<1>5. LedTypeOK'
    BY <1>1, <1>2, <1>4 DEF LedInv, LedTypeOK
<1>6. /\ output'[w.at] = w.val
      /\ \A c \in Channel : c # w.at => output'[c] = output[c]
    BY <1>1, <1>2 DEF LedInv, LedTypeOK
<1>7. DrivenAsWired(l) => Shows(l, output'[w.at], wanted'[w.at])
    BY <1>1, <1>2, <1>3, <1>4, <1>6 DEF Planned, Writes
<1>8. ASSUME NEW m \in Led, NEW c \in Channel, m = l, c = w.at PROVE ChannelOK(m, c)'
  <2>1. ChannelOK(m, c)
      BY <1>2, <1>8 DEF LedInv, ChannelsOK
  <2> QED BY <1>1, <1>2, <1>4, <1>7, <1>8, <2>1 DEF ChannelOK
<1>9. w.op \in Writes /\ w.op # "set_freq"
    BY <1>1 DEF Writes
<1> QED BY <1>1, <1>3, <1>5, <1>6, <1>8, <1>9, LightStep

(* ledc_set_duty keeps LedInv. *)
LEMMA ledc_set_dutyInv ==
    ASSUME LedInv, OpenOK, NEW t \in Task, ledc_set_duty(t)
    PROVE  LedInv'
<1> DEFINE l == call[t].led
           w == Head(todo[t])
<1>1. /\ todo[t] # <<>> /\ w.op = "set_duty" /\ Done(t) /\ Ask(t, w.at)
      /\ t \in open \/ fading[w.at] = NotFading
      /\ duty' = [duty EXCEPT ![w.at] = w.val] /\ open' = open \ {t}
      /\ UNCHANGED <<ready, led_table, output, fading, fade_rec, raced, fade_service, freq, handle>>
    BY DEF ledc_set_duty, Pending
<1>2. /\ w = todo[t][1] /\ Planned(l, call[t].value, todo[t], 1) /\ w.at \in Channel
      /\ l \in Led /\ handle[l] # NoLed /\ w.at \in ToSet(Config[l].channels)
      /\ LightPlan(l, call[t].value, todo[t])
    BY <1>1, LightFacts, TaskFacts
<1>3. /\ wanted' \in [Channel -> Nat \cup {Unknown}]
      /\ \A c \in Channel : c # w.at => wanted'[c] = wanted[c]
      /\ \A i \in 1..Len(Config[l].channels) :
            Config[l].channels[i] = w.at => wanted'[w.at] = call[t].value[i]
      /\ \E i \in 1..Len(Config[l].channels) : Config[l].channels[i] = w.at
    BY <1>1, AskFacts
<1>4. /\ w.val \in Level /\ Config[l].type # "SINGLE"
      /\ 1 < Len(todo[t]) /\ todo[t][1 + 1].op = "update_duty" /\ todo[t][1 + 1].at = w.at
    BY <1>1, <1>2 DEF Planned
<1>5. LedTypeOK'
    BY <1>1, <1>2, <1>4 DEF LedInv, LedTypeOK
<1>6. /\ duty'[w.at] = w.val
      /\ \A c \in Channel : c # w.at => duty'[c] = duty[c]
    BY <1>1, <1>2 DEF LedInv, LedTypeOK
<1>7. Shows(l, duty'[w.at], wanted'[w.at])
  <2>1. w.op \in Writes /\ DrivenAsWired(l)
      BY <1>1, <1>4 DEF Writes, DrivenAsWired
  <2>2. \A i \in 1..Len(Config[l].channels) :
           Config[l].channels[i] = w.at => Shows(l, w.val, call[t].value[i])
      BY <1>2, <1>4, <2>1 DEF Planned
  <2>3. PICK i \in 1..Len(Config[l].channels) : Config[l].channels[i] = w.at
      BY <1>3
  <2> QED BY <1>3, <1>6, <2>2, <2>3
<1>8. \E k \in 1..Len(todo'[t]) : todo'[t][k].op = "update_duty" /\ todo'[t][k].at = w.at
  <2>1. todo'[t] = Tail(todo[t])
      BY <1>1, DoneCalls
  <2>2. /\ Len(Tail(todo[t])) = Len(todo[t]) - 1 /\ Len(todo[t]) \in Nat
        /\ \A k \in 1..Len(Tail(todo[t])) : Tail(todo[t])[k] = todo[t][k + 1]
      BY <1>1, <1>2, TailPlan
  <2>3. 1 \in 1..Len(Tail(todo[t]))
      BY <1>4, <2>2
  <2>4. todo'[t][1] = todo[t][1 + 1] /\ 1 \in 1..Len(todo'[t])
      BY <2>1, <2>2, <2>3
  <2> QED BY <1>4, <2>4
<1>9. ASSUME NEW m \in Led, NEW c \in Channel, m = l, c = w.at PROVE ChannelOK(m, c)'
  <2>1. Updating(c)'
      BY <1>8, <1>9 DEF Updating
  <2>2. c \notin raced => fading[c] = NotFading
      BY <1>1, <1>9 DEF OpenOK
  <2> QED BY <1>1, <1>2, <1>4, <1>7, <1>9, <2>1, <2>2 DEF ChannelOK
<1>10. w.op \in Writes /\ w.op # "set_freq"
    BY <1>1 DEF Writes
<1> QED BY <1>1, <1>3, <1>5, <1>6, <1>9, <1>10, LightStep

(* ledc_update_duty keeps LedInv. *)
LEMMA ledc_update_dutyInv ==
    ASSUME LedInv, NEW t \in Task, ledc_update_duty(t)
    PROVE  LedInv'
<1> DEFINE l == call[t].led
           w == Head(todo[t])
<1>1. /\ todo[t] # <<>> /\ w.op = "update_duty" /\ Done(t)
      /\ output' = IF fading[w.at] = NotFading THEN [output EXCEPT ![w.at] = duty[w.at]] ELSE output
      /\ UNCHANGED <<ready, led_table, duty, fading, fade_rec, open, raced, fade_service, freq,
                     handle, wanted>>
    BY DEF ledc_update_duty, Pending
<1>2. /\ w = todo[t][1] /\ Planned(l, call[t].value, todo[t], 1) /\ w.at \in Channel
      /\ l \in Led /\ handle[l] # NoLed /\ w.at \in ToSet(Config[l].channels)
    BY <1>1, LightFacts, TaskFacts
<1>3. Config[l].type # "SINGLE"
    BY <1>1, <1>2 DEF Planned
<1>4. LedTypeOK'
    BY <1>1, <1>2 DEF LedInv, LedTypeOK
<1>5. /\ fading[w.at] = NotFading => output'[w.at] = duty[w.at]
      /\ \A c \in Channel : c # w.at => output'[c] = output[c]
    BY <1>1, <1>2 DEF LedInv, LedTypeOK
<1>6. ASSUME NEW m \in Led, NEW c \in Channel, m = l, c = w.at PROVE ChannelOK(m, c)'
  <2>1. ChannelOK(m, c)
      BY <1>2, <1>6 DEF LedInv, ChannelsOK
  <2> QED BY <1>1, <1>2, <1>3, <1>5, <1>6, <2>1 DEF ChannelOK
<1>7. w.op \notin Writes /\ w.op # "set_freq"
    BY <1>1 DEF Writes
<1>8. wanted' \in [Channel -> Nat \cup {Unknown}]
    BY <1>1 DEF LedInv, ChannelsOK
<1> QED BY <1>1, <1>4, <1>5, <1>6, <1>7, <1>8, LightStep

(* The start of a fade keeps LedInv. *)
LEMMA ledc_set_fade_time_and_startInv ==
    ASSUME LedInv, NEW t \in Task, ledc_set_fade_time_and_start(t)
    PROVE  LedInv'
<1> DEFINE l == call[t].led
           w == Head(todo[t])
<1>1. /\ todo[t] # <<>> /\ w.op = "fade" /\ Done(t) /\ Ask(t, w.at)
      /\ w.val <= MaxDuty + 1
      /\ duty' = [duty EXCEPT ![w.at] = w.val] /\ fading' = [fading EXCEPT ![w.at] = w.val]
      /\ fade_rec' = fade_rec \cup {w.at} /\ open' = open \ {t}
      /\ UNCHANGED <<ready, led_table, output, raced, fade_service, freq, handle>>
    BY DEF ledc_set_fade_time_and_start, Pending
<1>2. /\ w = todo[t][1] /\ Planned(l, call[t].value, todo[t], 1) /\ w.at \in Channel
      /\ l \in Led /\ handle[l] # NoLed /\ w.at \in ToSet(Config[l].channels)
    BY <1>1, LightFacts, TaskFacts
<1>3. /\ wanted' \in [Channel -> Nat \cup {Unknown}]
      /\ \A c \in Channel : c # w.at => wanted'[c] = wanted[c]
      /\ \A i \in 1..Len(Config[l].channels) :
            Config[l].channels[i] = w.at => wanted'[w.at] = call[t].value[i]
      /\ \E i \in 1..Len(Config[l].channels) : Config[l].channels[i] = w.at
    BY <1>1, AskFacts
<1>4. w.val \in Level /\ Config[l].type # "SINGLE" /\ w.val # NotFading
  <2>1. w.val \in Nat /\ Config[l].type # "SINGLE"
      BY <1>1, <1>2 DEF Planned
  <2> QED BY <1>1, <2>1, LedAssumption DEF Level
<1>5. LedTypeOK'
    BY <1>1, <1>2, <1>4 DEF LedInv, LedTypeOK
<1>6. /\ duty'[w.at] = w.val /\ fading'[w.at] = w.val
      /\ \A c \in Channel : c # w.at => duty'[c] = duty[c] /\ fading'[c] = fading[c]
    BY <1>1, <1>2 DEF LedInv, LedTypeOK
<1>7. Shows(l, duty'[w.at], wanted'[w.at])
  <2>1. w.op \in Writes /\ DrivenAsWired(l)
      BY <1>1, <1>4 DEF Writes, DrivenAsWired
  <2>2. \A i \in 1..Len(Config[l].channels) :
           Config[l].channels[i] = w.at => Shows(l, w.val, call[t].value[i])
      BY <1>2, <1>4, <2>1 DEF Planned
  <2>3. PICK i \in 1..Len(Config[l].channels) : Config[l].channels[i] = w.at
      BY <1>3
  <2> QED BY <1>3, <1>6, <2>2, <2>3
<1>8. ASSUME NEW m \in Led, NEW c \in Channel, m = l, c = w.at PROVE ChannelOK(m, c)'
    BY <1>1, <1>2, <1>4, <1>6, <1>7, <1>8 DEF ChannelOK
<1>9. w.op \in Writes /\ w.op # "set_freq"
    BY <1>1 DEF Writes
<1> QED BY <1>1, <1>3, <1>5, <1>6, <1>8, <1>9, LightStep

(* A call that ends with nothing of a channel changed. *)
LEMMA CallEnds ==
    ASSUME LedInv, NEW t \in Task, call[t] # NoCall,
           call' = [call EXCEPT ![t] = NoCall], todo' = [todo EXCEPT ![t] = <<>>],
           UNCHANGED <<duty, output, fading, raced, handle, wanted>>,
           \A k \in 1..Len(todo[t]) : todo[t][k].op # "update_duty",
           asked' \in [Led -> Light \cup {Unknown}],
           \A m \in Led : asked'[m] \in {asked[m], Unknown},
           call[t].what = "light" /\ Begun(call[t].led, todo[t]) => asked'[call[t].led] = Unknown
    PROVE  CallsOK' /\ ChannelsOK' /\ AskedOK'
<1>1. DOMAIN call = Task /\ DOMAIN todo = Task
    BY DEF LedInv, CallsOK
<1>2. /\ call'[t] = NoCall /\ todo'[t] = <<>> /\ DOMAIN call' = Task /\ DOMAIN todo' = Task
      /\ \A u \in Task : u # t => call'[u] = call[u] /\ todo'[u] = todo[u]
    BY <1>1
<1>3. CallsOK'
  <2>1. ASSUME NEW u \in Task
        PROVE  IF call'[u] = NoCall THEN todo'[u] = <<>>
               ELSE CallOK(call'[u], todo'[u]) /\ handle'[call'[u].led] # NoLed
      BY <1>2 DEF LedInv, CallsOK
  <2> QED BY <1>2, <2>1 DEF CallsOK
<1>4. ChannelsOK'
  <2>1. ASSUME NEW c, Updating(c) PROVE Updating(c)'
    <3>1. PICK u \in Task : \E k \in 1..Len(todo[u]) :
              todo[u][k].op = "update_duty" /\ todo[u][k].at = c
        BY <2>1 DEF Updating
    <3>2. u # t
        BY <3>1
    <3> QED BY <1>2, <3>1, <3>2 DEF Updating
  <2>2. ASSUME NEW m \in Led, NEW c \in ToSet(Config[m].channels) PROVE ChannelOK(m, c)'
    <3>1. ChannelOK(m, c) /\ (Updating(c) => Updating(c)')
        BY <2>1 DEF LedInv, ChannelsOK
    <3> QED BY <3>1 DEF ChannelOK
  <2> QED BY <2>2 DEF LedInv, ChannelsOK
<1>5. ASSUME NEW m \in Led, asked'[m] # Unknown
      PROVE  DOMAIN asked'[m] = DOMAIN Config[m].channels /\ LastAsked(m)'
  <2>1. asked'[m] = asked[m]
      BY <1>5
  <2>2. DOMAIN asked[m] = DOMAIN Config[m].channels /\ LastAsked(m)
      BY <1>5, <2>1 DEF LedInv, AskedOK
  <2>3. ASSUME NEW i \in 1..Len(Config[m].channels), AskedAt(m, i) PROVE AskedAt(m, i)'
      BY <2>1, <2>3 DEF AskedAt
  <2>4. ASSUME NEW u \in Task, On(u, m), call[u].what = "light", Begun(m, todo[u])
        PROVE  LastAsked(m)'
    <3>1. u # t
        BY <1>5, <2>4 DEF On
    <3>2. todo'[u] = todo[u] /\ call'[u] = call[u]
        BY <1>2, <3>1
    <3> QED BY <2>4, <3>2 DEF LastAsked, On
  <2> QED BY <2>1, <2>2, <2>3, <2>4 DEF LastAsked
<1>6. AloneOK'
  <2>1. \A x \in Task : call'[x] # NoCall => call'[x] = call[x] /\ todo'[x] = todo[x]
      BY <1>2
  <2>2. ASSUME NEW u \in Task, call'[u] # NoCall, call'[u].what = "light", call'[u].alone
        PROVE  /\ \A x \in Task : On(x, call[u].led)' => x = u
               /\ \A i \in 1..Len(Config[call'[u].led].channels) :
                     \/ ToWrite(todo'[u], Config[call'[u].led].channels[i])
                     \/ wanted'[Config[call'[u].led].channels[i]] = call'[u].value[i]
    <3>1. call'[u] = call[u] /\ todo'[u] = todo[u]
        BY <2>1, <2>2
    <3>2. \A x \in Task : On(x, call[u].led)' => x = u
        BY <2>1, <2>2, <3>1 DEF LedInv, AskedOK, AloneOK, On
    <3>3. \A i \in 1..Len(Config[call[u].led].channels) :
             \/ ToWrite(todo[u], Config[call[u].led].channels[i])
             \/ wanted[Config[call[u].led].channels[i]] = call[u].value[i]
        BY <2>2, <3>1 DEF LedInv, AskedOK, AloneOK
    <3> QED BY <3>1, <3>2, <3>3
  <2> QED BY <2>2 DEF AloneOK
<1> QED BY <1>3, <1>4, <1>5, <1>6 DEF AskedOK

(* A fade that is refused keeps LedInv: the call ends there. *)
LEMMA FadeRefusedInv ==
    ASSUME LedInv, NEW t \in Task, FadeRefused(t)
    PROVE  LedInv'
<1> DEFINE l == call[t].led
           w == Head(todo[t])
           n == Len(Config[l].channels)
<1>1. /\ todo[t] # <<>> /\ w.op = "fade"
      /\ fade_rec' \in {fade_rec, fade_rec \cup {w.at}}
      /\ asked' = IF Len(todo[t]) < n THEN [asked EXCEPT ![l] = Unknown] ELSE asked
      /\ call' = [call EXCEPT ![t] = NoCall] /\ todo' = [todo EXCEPT ![t] = <<>>]
      /\ open' = open \ {t}
      /\ UNCHANGED <<ready, led_table, duty, output, fading, raced, fade_service, freq, handle,
                     askedFreq, wanted>>
    BY DEF FadeRefused, Pending
<1>2. /\ w = todo[t][1] /\ Planned(l, call[t].value, todo[t], 1) /\ w.at \in Channel
      /\ l \in Led /\ call[t] # NoCall
    BY <1>1, LightFacts, TaskFacts
<1>3. \A k \in 1..Len(todo[t]) : todo[t][k].op # "update_duty"
  <2>1. \A k \in 1..Len(todo[t]) : todo[t][k].op = "fade"
      BY <1>1, <1>2 DEF Planned
  <2> QED BY <2>1
<1>4. Begun(l, todo[t]) => Len(todo[t]) < n
    BY <1>1, <1>2 DEF Begun
<1>5. asked \in [Led -> Light \cup {Unknown}]
    BY DEF LedInv, AskedOK
<1>6. /\ asked' \in [Led -> Light \cup {Unknown}]
      /\ \A m \in Led : asked'[m] \in {asked[m], Unknown}
      /\ Begun(l, todo[t]) => asked'[l] = Unknown
    BY <1>1, <1>2, <1>4, <1>5
<1>7. CallsOK' /\ ChannelsOK' /\ AskedOK'
    BY <1>1, <1>2, <1>3, <1>6, CallEnds
<1>8. LedTypeOK'
    BY <1>1, <1>2 DEF LedInv, LedTypeOK
<1>9. TableOK' /\ TimersOK'
    BY <1>1 DEF LedInv, TableOK, HandlesNameLeds, TimersOK
<1> QED BY <1>7, <1>8, <1>9 DEF LedInv

(* ledc_set_freq keeps LedInv. *)
LEMMA ledc_set_freqInv ==
    ASSUME LedInv, NEW t \in Task, ledc_set_freq(t)
    PROVE  LedInv'
<1> DEFINE l == call[t].led
           w == Head(todo[t])
           v == call[t].value
           F == (UNION {Freq[m] : m \in Led}) \cup {DefaultFreq}
<1>1. /\ todo[t] # <<>> /\ w.op = "set_freq" /\ Done(t)
      /\ freq' = [freq EXCEPT ![w.at] = w.val]
      /\ UNCHANGED <<ready, led_table, duty, output, fading, fade_rec, open, raced,
                     fade_service, handle, wanted>>
    BY DEF ledc_set_freq, Pending
<1>2. call[t] # NoCall /\ l \in Led /\ CallOK(call[t], todo[t])
    BY <1>1, TaskFacts
<1>3. call[t].what = "freq"
  <2>1. ASSUME call[t].what # "freq" PROVE FALSE
    <3>1. LightPlan(l, v, todo[t])
        BY <1>2, <2>1 DEF CallOK
    <3>2. w = todo[t][1] /\ 1 \in 1..Len(todo[t])
        BY <1>1, <3>1 DEF LightPlan
    <3>3. Planned(l, v, todo[t], 1)
        BY <3>1, <3>2 DEF LightPlan
    <3> QED BY <1>1, <3>2, <3>3 DEF Planned, Writes
  <2> QED BY <2>1
<1>4. call[t] \in FreqCall /\ todo[t] = <<Do("set_freq", Config[l].timer, v)>>
    BY <1>2, <1>3 DEF CallOK, FreqPlan
<1>5. /\ w = Do("set_freq", Config[l].timer, v) /\ Len(todo[t]) = 1 /\ Tail(todo[t]) = <<>>
      /\ \A k \in 1..Len(todo[t]) : todo[t][k] = w
    BY <1>4
<1>6. w.at = Config[l].timer /\ w.val = v
    BY <1>5 DEF Do
<1>7. v \in F /\ w.at \in Timer
  <2>1. v \in UNION {Freq[m] : m \in Led}
      BY <1>4 DEF FreqCall
  <2> QED BY <1>2, <1>6, <2>1, Wiring
<1>8. /\ call' = [call EXCEPT ![t] = NoCall] /\ todo' = [todo EXCEPT ![t] = <<>>]
      /\ asked' = asked /\ askedFreq' = [askedFreq EXCEPT ![l] = v]
    BY <1>1, <1>3, <1>5 DEF Done
<1>9. CallsOK' /\ ChannelsOK' /\ AskedOK'
  <2>1. asked' \in [Led -> Light \cup {Unknown}] /\ \A m \in Led : asked'[m] \in {asked[m], Unknown}
      BY <1>8 DEF LedInv, AskedOK
  <2>2. \A k \in 1..Len(todo[t]) : todo[t][k].op # "update_duty"
      BY <1>1, <1>5
  <2> QED BY <1>1, <1>2, <1>3, <1>8, <2>1, <2>2, CallEnds
<1>10. freq \in [Timer -> F]
    BY DEF LedInv, LedTypeOK
<1> HIDE DEF F
<1>11. /\ freq' \in [Timer -> F] /\ freq'[Config[l].timer] = v
       /\ \A x \in Timer : x # Config[l].timer => freq'[x] = freq[x]
    BY <1>1, <1>6, <1>7, <1>10
<1>12. LedTypeOK'
    BY <1>1, <1>11 DEF LedInv, LedTypeOK, F
<1>13. TimersOK'
  <2>1. DOMAIN askedFreq = Led
      BY DEF LedInv, TimersOK
  <2>2. ASSUME NEW m \in Led, \A k \in Led \ {m} : Config[k].timer # Config[m].timer,
               askedFreq'[m] # Unknown
        PROVE  freq'[Config[m].timer] = askedFreq'[m]
    <3>1. CASE m = l
        BY <1>2, <1>8, <1>11, <2>1, <3>1
    <3>2. CASE m # l
      <4>1. askedFreq'[m] = askedFreq[m] /\ Config[m].timer # Config[l].timer
          BY <1>2, <1>8, <2>1, <2>2, <3>2
      <4>2. freq[Config[m].timer] = askedFreq[m]
          BY <2>2, <4>1 DEF LedInv, TimersOK
      <4> QED BY <1>11, <4>1, <4>2, Wiring
    <3> QED BY <3>1, <3>2
  <2> QED BY <1>8, <2>1, <2>2 DEF TimersOK
<1>14. TableOK'
    BY <1>1 DEF LedInv, TableOK, HandlesNameLeds
<1> QED BY <1>9, <1>12, <1>13, <1>14 DEF LedInv

(* The interrupt at the end of a fade keeps LedInv. *)
LEMMA ledc_fade_isrInv ==
    ASSUME LedInv, NEW c \in Channel, ledc_fade_isr(c)
    PROVE  LedInv'
<1>1. /\ fading[c] # NotFading
      /\ output' = [output EXCEPT ![c] = fading[c]] /\ fading' = [fading EXCEPT ![c] = NotFading]
      /\ UNCHANGED <<ready, led_table, duty, fade_rec, open, raced, fade_service, freq, call,
                     todo, handle, asked, askedFreq, wanted>>
    BY DEF ledc_fade_isr
<1>2. LedTypeOK'
    BY <1>1 DEF LedInv, LedTypeOK
<1>3. /\ output'[c] = fading[c] /\ fading'[c] = NotFading
      /\ \A d \in Channel : d # c => output'[d] = output[d] /\ fading'[d] = fading[d]
    BY <1>1 DEF LedInv, LedTypeOK
<1>4. ASSUME NEW m \in Led, NEW d \in ToSet(Config[m].channels)
      PROVE  /\ ChannelOK(m, d)'
             /\ Config[m].type = "SINGLE" => output'[d] = output[d]
  <2>1. ChannelOK(m, d) /\ d \in Channel
      BY WiredTo DEF LedInv, ChannelsOK
  <2>2. Updating(d)' <=> Updating(d)
      BY <1>1 DEF Updating
  <2>3. CASE d = c
      BY <1>1, <1>3, <2>1, <2>2, <2>3 DEF ChannelOK
  <2>4. CASE d # c
      BY <1>1, <1>3, <2>1, <2>2, <2>4 DEF ChannelOK
  <2> QED BY <2>3, <2>4
<1>5. ChannelsOK'
    BY <1>1, <1>4 DEF LedInv, ChannelsOK
<1>6. ASSUME NEW m \in Led, NEW i \in 1..Len(Config[m].channels), AskedAt(m, i)
      PROVE  AskedAt(m, i)'
  <2>1. Config[m].type = "SINGLE" =>
            output'[Config[m].channels[i]] = output[Config[m].channels[i]]
      BY <1>4, WiredTo
  <2> QED BY <1>1, <1>6, <2>1 DEF AskedAt
<1>7. AskedOK'
  <2>1. \A m \in Led : LastAsked(m) => LastAsked(m)'
      BY <1>1, <1>6 DEF LastAsked, On
  <2>2. AloneOK'
      BY <1>1 DEF LedInv, AskedOK, AloneOK, On
  <2> QED BY <1>1, <2>1, <2>2 DEF LedInv, AskedOK
<1>8. CallsOK' /\ TableOK' /\ TimersOK'
    BY <1>1 DEF LedInv, CallsOK, TableOK, HandlesNameLeds, TimersOK
<1> QED BY <1>2, <1>5, <1>7, <1>8 DEF LedInv

(* So does a frequency that is refused. *)
LEMMA FreqRefusedInv ==
    ASSUME LedInv, NEW t \in Task, FreqRefused(t)
    PROVE  LedInv'
<1> DEFINE l == call[t].led
           w == Head(todo[t])
<1>1. /\ todo[t] # <<>> /\ w.op = "set_freq"
      /\ call' = [call EXCEPT ![t] = NoCall] /\ todo' = [todo EXCEPT ![t] = <<>>]
      /\ UNCHANGED <<ready, led_table, duty, output, fading, fade_rec, open, raced,
                     fade_service, freq, handle, asked, askedFreq, wanted>>
    BY DEF FreqRefused, Pending
<1>2. call[t] # NoCall /\ CallOK(call[t], todo[t])
    BY <1>1, TaskFacts
<1>3. call[t].what = "freq"
  <2>1. ASSUME call[t].what # "freq" PROVE FALSE
    <3>1. LightPlan(l, call[t].value, todo[t])
        BY <1>2, <2>1 DEF CallOK
    <3>2. w = todo[t][1] /\ 1 \in 1..Len(todo[t])
        BY <1>1, <3>1 DEF LightPlan
    <3>3. Planned(l, call[t].value, todo[t], 1)
        BY <3>1, <3>2 DEF LightPlan
    <3> QED BY <1>1, <3>2, <3>3 DEF Planned, Writes
  <2> QED BY <2>1
<1>4. todo[t] = <<Do("set_freq", Config[l].timer, call[t].value)>>
    BY <1>2, <1>3 DEF CallOK, FreqPlan
<1>5. \A k \in 1..Len(todo[t]) : todo[t][k] = w
    BY <1>4
<1>6. /\ asked' \in [Led -> Light \cup {Unknown}]
      /\ \A m \in Led : asked'[m] \in {asked[m], Unknown}
    BY <1>1 DEF LedInv, AskedOK
<1>7. \A k \in 1..Len(todo[t]) : todo[t][k].op # "update_duty"
    BY <1>1, <1>5
<1>8. CallsOK' /\ ChannelsOK' /\ AskedOK'
    BY <1>1, <1>2, <1>3, <1>6, <1>7, CallEnds
<1>9. LedTypeOK' /\ TableOK' /\ TimersOK'
    BY <1>1 DEF LedInv, LedTypeOK, TableOK, HandlesNameLeds, TimersOK
<1> QED BY <1>8, <1>9 DEF LedInv

(* A call that finds no record keeps LedInv: at most the channel joins     *)
(* those of which nothing more is said.                                    *)
LEMMA FindNoRecordInv ==
    ASSUME LedInv, NEW t \in Task, FindNoRecord(t)
    PROVE  LedInv'
<1> DEFINE l == call[t].led
           w == Head(todo[t])
<1>1. /\ todo[t] # <<>> /\ w.op \in {"set_duty", "fade"}
      /\ raced' \in {raced, raced \cup {w.at}} /\ open' = open \cup {t}
      /\ UNCHANGED <<ready, led_table, duty, output, fading, fade_rec, fade_service, freq,
                     call, todo, handle, asked, askedFreq, wanted>>
    BY DEF FindNoRecord, Pending
<1>2. /\ w = todo[t][1] /\ Planned(l, call[t].value, todo[t], 1) /\ w.at \in Channel
      /\ l \in Led /\ handle[l] # NoLed /\ w.at \in ToSet(Config[l].channels)
    BY <1>1, LightFacts, TaskFacts
<1>3. Config[l].type # "SINGLE"
    BY <1>1, <1>2 DEF Planned
<1>4. LedTypeOK' /\ TableOK' /\ TimersOK' /\ CallsOK'
    BY <1>1, <1>2 DEF LedInv, LedTypeOK, TableOK, HandlesNameLeds, TimersOK, CallsOK
<1>5. ASSUME NEW m \in Led, NEW c \in ToSet(Config[m].channels) PROVE ChannelOK(m, c)'
  <2>1. ChannelOK(m, c) /\ (Updating(c)' <=> Updating(c))
      BY <1>1 DEF LedInv, ChannelsOK, Updating
  <2>2. c = w.at => m = l
      BY <1>2, WiredApart
  <2>3. c \in raced' => c \in raced \/ m = l
      BY <1>1, <2>2
  <2>4. c \notin raced' => c \notin raced
      BY <1>1
  <2> QED BY <1>1, <1>2, <1>3, <2>1, <2>3, <2>4 DEF ChannelOK
<1>6. ChannelsOK'
    BY <1>1, <1>5 DEF LedInv, ChannelsOK
<1>7. AskedOK'
    BY <1>1 DEF LedInv, AskedOK, AloneOK, LastAsked, AskedAt, On
<1> QED BY <1>4, <1>6, <1>7 DEF LedInv

(* What shows on a channel after a race keeps LedInv. *)
LEMMA RaceOutcomeInv ==
    ASSUME LedInv, NEW c \in Channel, RaceOutcome(c)
    PROVE  LedInv'
<1>1. PICK v \in Level : output' = [output EXCEPT ![c] = v]
    BY DEF RaceOutcome
<1>2. /\ c \in raced
      /\ UNCHANGED <<ready, led_table, duty, fading, fade_rec, open, raced, fade_service, freq,
                     call, todo, handle, asked, askedFreq, wanted>>
    BY DEF RaceOutcome
<1>3. LedTypeOK'
    BY <1>1, <1>2 DEF LedInv, LedTypeOK
<1>4. \A d \in Channel : d # c => output'[d] = output[d]
    BY <1>1 DEF LedInv, LedTypeOK
<1>5. ASSUME NEW m \in Led, NEW d \in ToSet(Config[m].channels)
      PROVE  /\ ChannelOK(m, d)'
             /\ Config[m].type = "SINGLE" => output'[d] = output[d]
  <2>1. ChannelOK(m, d) /\ d \in Channel
      BY WiredTo DEF LedInv, ChannelsOK
  <2>2. Updating(d)' <=> Updating(d)
      BY <1>2 DEF Updating
  <2>3. CASE d = c
      BY <1>2, <2>1, <2>3 DEF ChannelOK
  <2>4. CASE d # c
      BY <1>2, <1>4, <2>1, <2>2, <2>4 DEF ChannelOK
  <2> QED BY <2>3, <2>4
<1>6. ChannelsOK'
    BY <1>2, <1>5 DEF LedInv, ChannelsOK
<1>7. ASSUME NEW m \in Led, NEW i \in 1..Len(Config[m].channels), AskedAt(m, i)
      PROVE  AskedAt(m, i)'
  <2>1. Config[m].type = "SINGLE" =>
            output'[Config[m].channels[i]] = output[Config[m].channels[i]]
      BY <1>5, WiredTo
  <2> QED BY <1>2, <1>7, <2>1 DEF AskedAt
<1>8. AskedOK'
  <2>1. \A m \in Led : LastAsked(m) => LastAsked(m)'
      BY <1>2, <1>7 DEF LastAsked, On
  <2>2. AloneOK'
      BY <1>2 DEF LedInv, AskedOK, AloneOK, On
  <2> QED BY <1>2, <2>1, <2>2 DEF LedInv, AskedOK
<1>9. CallsOK' /\ TableOK' /\ TimersOK'
    BY <1>2 DEF LedInv, CallsOK, TableOK, HandlesNameLeds, TimersOK
<1> QED BY <1>3, <1>6, <1>8, <1>9 DEF LedInv

-----------------------------------------------------------------------------
(* Every step of the specification keeps LedInv. *)
LEMMA LedNextInv == LedInv /\ OpenOK /\ [LedNext]_lvars => LedInv'
<1> SUFFICES ASSUME LedInv, OpenOK, [LedNext]_lvars PROVE LedInv'
    OBVIOUS
<1>1. CASE LDRV_InitDriver \/ LDRV_StartFadeService
    BY <1>1, InitDriverInv
<1>2. ASSUME NEW l \in Led, AddLed(l) PROVE LedInv'
    BY <1>2, AddLedInv
<1>3. ASSUME NEW t \in Task, NEW h \in 0..MaxLed,
             \/ \E s \in 0..1 : LDRV_SetLedSingleState(t, h, s)
             \/ \E d \in Duty : LDRV_SetLedSinglePwmDuty(t, h, d)
             \/ \E d \in Duty : LDRV_FadeLedSinglePwmDuty(t, h, d)
             \/ \E c \in Color : LDRV_SetLedRgbColor(t, h, c)
             \/ \E c \in FadeColor : LDRV_FadeLedRgbColor(t, h, c)
             \/ \E l \in Led : \E hz \in Freq[l] :
                   h = handle[l] /\ LDRV_SetLedPwmFreq(t, h, hz)
      PROVE  LedInv'
    BY <1>3, CallsInv
<1>4. ASSUME NEW t \in Task, Step(t) PROVE LedInv'
  <2>1. CASE gpio_set_level(t)
      BY <2>1, gpio_set_levelInv
  <2>2. CASE ledc_set_duty(t)
      BY <2>2, ledc_set_dutyInv
  <2>3. CASE ledc_update_duty(t)
      BY <2>3, ledc_update_dutyInv
  <2>4. CASE ledc_set_fade_time_and_start(t)
      BY <2>4, ledc_set_fade_time_and_startInv
  <2>5. CASE FadeRefused(t)
      BY <2>5, FadeRefusedInv
  <2>6. CASE ledc_set_freq(t)
      BY <2>6, ledc_set_freqInv
  <2>7. CASE FreqRefused(t)
      BY <2>7, FreqRefusedInv
  <2>8. CASE FindNoRecord(t)
      BY <2>8, FindNoRecordInv
  <2> QED BY <1>4, <2>1, <2>2, <2>3, <2>4, <2>5, <2>6, <2>7, <2>8 DEF Step
<1>5. ASSUME NEW c \in Channel, ledc_fade_isr(c) \/ RaceOutcome(c) PROVE LedInv'
    BY <1>5, ledc_fade_isrInv, RaceOutcomeInv
<1>6. CASE UNCHANGED lvars
  <2>1. LedTypeOK' /\ TableOK'
      BY <1>6 DEF lvars, LedInv, LedTypeOK, TableOK, HandlesNameLeds
  <2> QED BY <1>6, <2>1, QuietStep DEF lvars
<1> QED BY <1>1, <1>2, <1>3, <1>4, <1>5, <1>6 DEF LedNext

(* The end of task t's peripheral call, if it is in one, keeps OpenOK when *)
(* no other open call is for a channel that gets a record.                 *)
LEMMA OpenStep ==
    ASSUME OpenOK, NEW t, NEW new, open' = open \ {t}, UNCHANGED raced,
           fade_rec' = fade_rec \cup new,
           \A u \in open \ {t} :
              /\ todo'[u] = todo[u]
              /\ Head(todo[u]).at \notin raced => Head(todo[u]).at \notin new,
           \A c \in Channel : fading'[c] # NotFading => fading[c] # NotFading \/ c \in new
    PROVE  OpenOK'
<1>1. \A u \in open' : u \in open /\ u # t /\ todo'[u] = todo[u]
    OBVIOUS
<1>2. \A u \in open' : todo'[u] # <<>> /\ Head(todo'[u]).op \in {"set_duty", "fade"}
    BY <1>1 DEF OpenOK
<1>3. ASSUME NEW u \in open', Head(todo'[u]).at \notin raced'
      PROVE  /\ Head(todo'[u]).at \notin fade_rec'
             /\ Head(todo'[u]).op = "fade" =>
                   \A x \in open' : Head(todo'[x]).at = Head(todo'[u]).at => x = u
    BY <1>1, <1>3 DEF OpenOK
<1>4. \A c \in Channel : fading'[c] # NotFading => c \in fade_rec'
    BY DEF OpenOK
<1> QED BY <1>2, <1>3, <1>4 DEF OpenOK

(* A call that begins is not open. *)
LEMMA BeginOpen ==
    ASSUME LedInv, OpenOK, NEW t \in Task, NEW h, NEW type, NEW what, NEW value, NEW write,
           Begin(t, h, type, what, value, write)
    PROVE  OpenOK'
<1>1. /\ call[t] = NoCall /\ todo' = [todo EXCEPT ![t] = write[led_table[h]]]
      /\ UNCHANGED <<open, raced, fade_rec, fading>>
    BY DEF Begin
<1>2. t \notin open /\ open \subseteq Task /\ DOMAIN todo = Task
    BY <1>1 DEF LedInv, LedTypeOK, CallsOK, OpenOK
<1>3. /\ open' = open \ {t} /\ fade_rec' = fade_rec \cup {}
      /\ \A u \in open \ {t} : todo'[u] = todo[u]
    BY <1>1, <1>2
<1> QED BY <1>1, <1>3, OpenStep

(* Every step of the specification keeps OpenOK. *)
LEMMA OpenNextInv == LedInv /\ OpenOK /\ [LedNext]_lvars => OpenOK'
<1> SUFFICES ASSUME LedInv, OpenOK, [LedNext]_lvars PROVE OpenOK'
    OBVIOUS
<1>0. open \subseteq Task /\ DOMAIN todo = Task
    BY DEF LedInv, LedTypeOK, CallsOK
<1>1. ASSUME UNCHANGED <<open, raced, fade_rec, fading, todo>> PROVE OpenOK'
    BY <1>1 DEF OpenOK
<1>2. ASSUME NEW l \in Led, AddLed(l) PROVE OpenOK'
    BY <1>1, <1>2 DEF AddLed
<1>3. ASSUME NEW t \in Task, NEW h \in 0..MaxLed,
             \/ \E s \in 0..1 : LDRV_SetLedSingleState(t, h, s)
             \/ \E d \in Duty : LDRV_SetLedSinglePwmDuty(t, h, d)
             \/ \E d \in Duty : LDRV_FadeLedSinglePwmDuty(t, h, d)
             \/ \E c \in Color : LDRV_SetLedRgbColor(t, h, c)
             \/ \E c \in FadeColor : LDRV_FadeLedRgbColor(t, h, c)
             \/ \E l \in Led : \E hz \in Freq[l] :
                   h = handle[l] /\ LDRV_SetLedPwmFreq(t, h, hz)
      PROVE  OpenOK'
    BY <1>3, BeginOpen DEF LDRV_SetLedSingleState, LDRV_SetLedSinglePwmDuty,
           LDRV_FadeLedSinglePwmDuty, LDRV_SetLedRgbColor, LDRV_FadeLedRgbColor,
           LDRV_SetLedPwmFreq
<1>4. ASSUME NEW t \in Task, Step(t) PROVE OpenOK'
  <2> DEFINE w == Head(todo[t])
  <2>1. ASSUME NEW new, open' = open \ {t}, UNCHANGED raced, fade_rec' = fade_rec \cup new,
               \A u \in open \ {t} :
                  Head(todo[u]).at \notin raced => Head(todo[u]).at \notin new,
               \E x : todo' = [todo EXCEPT ![t] = x],
               \A c \in Channel : fading'[c] # NotFading => fading[c] # NotFading \/ c \in new
        PROVE  OpenOK'
    <3>1. \A u \in open \ {t} : todo'[u] = todo[u]
        BY <1>0, <2>1
    <3> QED BY <2>1, <3>1, OpenStep
  <2>2. CASE gpio_set_level(t) \/ ledc_update_duty(t) \/ ledc_set_freq(t) \/ FreqRefused(t)
    <3>1. /\ UNCHANGED <<open, raced, fade_rec, fading>> /\ \E x : todo' = [todo EXCEPT ![t] = x]
          /\ w.op \notin {"set_duty", "fade"}
        BY <2>2 DEF gpio_set_level, ledc_update_duty, ledc_set_freq, FreqRefused, Done, Pending
    <3>2. t \notin open
        BY <3>1 DEF OpenOK
    <3>3. open' = open \ {t} /\ fade_rec' = fade_rec \cup {}
        BY <3>1, <3>2
    <3> QED BY <2>1, <3>1, <3>3
  <2>3. CASE ledc_set_duty(t)
    <3>1. /\ UNCHANGED <<raced, fade_rec, fading>> /\ open' = open \ {t}
          /\ \E x : todo' = [todo EXCEPT ![t] = x]
        BY <2>3 DEF ledc_set_duty, Done
    <3>2. fade_rec' = fade_rec \cup {}
        BY <3>1
    <3> QED BY <2>1, <3>1, <3>2
  <2>4. ASSUME w.op = "fade", t \in open \/ w.at \in fade_rec, NEW u \in open \ {t},
               Head(todo[u]).at \notin raced
        PROVE  Head(todo[u]).at # w.at
      BY <2>4 DEF OpenOK
  <2>5. CASE ledc_set_fade_time_and_start(t)
    <3>1. /\ UNCHANGED raced /\ open' = open \ {t} /\ fade_rec' = fade_rec \cup {w.at}
          /\ fading' = [fading EXCEPT ![w.at] = w.val] /\ w.op = "fade"
          /\ t \in open \/ w.at \in fade_rec
          /\ \E x : todo' = [todo EXCEPT ![t] = x]
        BY <2>5 DEF ledc_set_fade_time_and_start, Done, Pending
    <3>2. \A c \in Channel : fading'[c] # NotFading => fading[c] # NotFading \/ c \in {w.at}
        BY <3>1 DEF LedInv, LedTypeOK
    <3>3. \A u \in open \ {t} :
             Head(todo[u]).at \notin raced => Head(todo[u]).at \notin {w.at}
        BY <2>4, <3>1
    <3> QED BY <2>1, <3>1, <3>2, <3>3
  <2>6. CASE FadeRefused(t)
    <3>1. /\ UNCHANGED <<raced, fading>> /\ open' = open \ {t} /\ w.op = "fade"
          /\ todo' = [todo EXCEPT ![t] = <<>>]
          /\ \/ fade_rec' = fade_rec
             \/ fade_rec' = fade_rec \cup {w.at} /\ (t \in open \/ w.at \in fade_rec)
        BY <2>6 DEF FadeRefused, Pending
    <3>2. CASE fade_rec' = fade_rec
      <4>1. fade_rec' = fade_rec \cup {}
          BY <3>2
      <4> QED BY <2>1, <3>1, <4>1
    <3>3. CASE fade_rec' = fade_rec \cup {w.at} /\ (t \in open \/ w.at \in fade_rec)
      <4>1. \A u \in open \ {t} :
               Head(todo[u]).at \notin raced => Head(todo[u]).at \notin {w.at}
          BY <2>4, <3>1, <3>3
      <4> QED BY <2>1, <3>1, <3>3, <4>1
    <3> QED BY <3>1, <3>2, <3>3
  <2>7. CASE FindNoRecord(t)
    <3>1. /\ todo[t] # <<>> /\ w.op \in {"set_duty", "fade"}
          /\ w.at \notin fade_rec /\ open' = open \cup {t} /\ t \notin open
          /\ UNCHANGED <<fade_rec, fading, todo>>
          /\ raced' = IF \E u \in open : /\ Head(todo[u]).at = w.at
                                         /\ "fade" \in {w.op, Head(todo[u]).op}
                      THEN raced \cup {w.at} ELSE raced
        BY <2>7 DEF FindNoRecord, Pending
    <3>2. ASSUME NEW u \in open', Head(todo[u]).at \notin raced'
          PROVE  /\ Head(todo[u]).at \notin fade_rec
                 /\ Head(todo[u]).op = "fade" =>
                       \A x \in open' : Head(todo[x]).at = Head(todo[u]).at => x = u
      <4>1. Head(todo[u]).at \notin raced
          BY <3>1, <3>2
      <4>2. CASE u = t
          BY <3>1, <3>2, <4>2
      <4>3. CASE u # t
        <5>1. u \in open
            BY <3>1, <4>3
        <5>2. /\ Head(todo[u]).at \notin fade_rec
              /\ Head(todo[u]).op = "fade" =>
                    \A x \in open : Head(todo[x]).at = Head(todo[u]).at => x = u
            BY <4>1, <5>1 DEF OpenOK
        <5>3. Head(todo[u]).op = "fade" => w.at # Head(todo[u]).at
            BY <3>1, <3>2, <5>1
        <5> QED BY <3>1, <5>2, <5>3
      <4> QED BY <4>2, <4>3
    <3>3. \A u \in open' : todo[u] # <<>> /\ Head(todo[u]).op \in {"set_duty", "fade"}
        BY <3>1 DEF OpenOK
    <3>4. \A c \in Channel : fading[c] # NotFading => c \in fade_rec
        BY DEF OpenOK
    <3> QED BY <3>1, <3>2, <3>3, <3>4 DEF OpenOK
  <2> QED BY <1>4, <2>2, <2>3, <2>5, <2>6, <2>7 DEF Step
<1>5. ASSUME NEW c \in Channel, ledc_fade_isr(c) PROVE OpenOK'
  <2>1. /\ UNCHANGED <<open, raced, fade_rec, todo>>
        /\ \A d \in Channel : fading'[d] # NotFading => fading[d] # NotFading
      BY <1>5 DEF ledc_fade_isr, LedInv, LedTypeOK
  <2> QED BY <2>1 DEF OpenOK
<1>6. ASSUME NEW c \in Channel, RaceOutcome(c) PROVE OpenOK'
    BY <1>1, <1>6 DEF RaceOutcome
<1>7. CASE LDRV_InitDriver \/ LDRV_StartFadeService
    BY <1>1, <1>7 DEF LDRV_InitDriver, LDRV_StartFadeService
<1>8. CASE UNCHANGED lvars
    BY <1>1, <1>8 DEF lvars
<1> QED BY <1>2, <1>3, <1>4, <1>5, <1>6, <1>7, <1>8 DEF LedNext

(* The invariant holds of the driver as ledDriver.c and ledDriver_cfg.c    *)
(* run it, whatever the tasks ask for and however their calls overlap.     *)
THEOREM LedInvariance == LedSpec => [](LedInv /\ OpenOK)
<1>1. LedInit => OpenOK
    BY DEF LedInit, OpenOK
<1> QED BY <1>1, LedInitInv, LedNextInv, OpenNextInv, PTL DEF LedSpec

-----------------------------------------------------------------------------
(* What the invariant says of an LED at rest. *)

(* No update of its channels is to come. *)
LEMMA SettledUpdated ==
    ASSUME LedInv, NEW l \in Led, Settled(l), NEW c \in ToSet(Config[l].channels)
    PROVE  ~Updating(c)
<1> SUFFICES ASSUME NEW t \in Task, NEW k \in 1..Len(todo[t]),
                    todo[t][k].op = "update_duty", todo[t][k].at = c
             PROVE  FALSE
    BY DEF Updating
<1>1. todo[t] # <<>>
  <2>1. ASSUME todo[t] = <<>> PROVE FALSE
      BY <2>1
  <2> QED BY <2>1
<1>2. call[t] # NoCall /\ CallOK(call[t], todo[t]) /\ call[t].led \in Led
    BY <1>1, TaskFacts
<1>3. call[t].what # "freq"
  <2>1. ASSUME call[t].what = "freq" PROVE FALSE
    <3>1. todo[t] = <<Do("set_freq", Config[call[t].led].timer, call[t].value)>>
        BY <1>2, <2>1 DEF CallOK, FreqPlan
    <3>2. todo[t][k] = Do("set_freq", Config[call[t].led].timer, call[t].value)
        BY <3>1
    <3> QED BY <3>2 DEF Do
  <2> QED BY <2>1
<1>4. Planned(call[t].led, call[t].value, todo[t], k)
    BY <1>2, <1>3 DEF CallOK, LightPlan
<1>5. c \in ToSet(Config[call[t].led].channels)
    BY <1>4 DEF Planned
<1>6. call[t].led = l
    BY <1>2, <1>5, WiredApart
<1> QED BY <1>2, <1>6 DEF Settled, On

(* Its channels show what was last asked for of each of them. *)
LEMMA SettledShows ==
    ASSUME LedInv, NEW l \in Led, DrivenAsWired(l), Settled(l),
           NEW c \in ToSet(Config[l].channels) \ raced, wanted[c] # Unknown
    PROVE  ChannelShows(l, c, wanted[c])
<1>1. ~Updating(c) /\ fading[c] = NotFading
    BY SettledUpdated DEF Settled
<1>2. ChannelOK(l, c)
    BY DEF LedInv, ChannelsOK
<1>3. Shows(l, output[c], wanted[c])
    BY <1>1, <1>2 DEF ChannelOK
<1> QED BY <1>3 DEF Shows, ChannelShows

(* The type invariant: levels never leave the range of the peripheral,     *)
(* whatever duty cycles and colours the callers of LDRV_Set... ask for.    *)
THEOREM LedTypeCorrect == LedSpec => []LedTypeOK
<1>1. LedInv => LedTypeOK
    BY DEF LedInv
<1> QED BY <1>1, LedInvariance, PTL

(* The handle an LDRV_AddLed function returns names its LED for good. *)
THEOREM HandlesAlwaysName == LedSpec => []HandlesNameLeds
<1>1. LedInv => HandlesNameLeds
    BY DEF LedInv, TableOK
<1> QED BY <1>1, LedInvariance, PTL

(* An LED with a timer of its own keeps the frequency it was given, by     *)
(* LDRV_SetLedPwmFreq or by its setup, whatever is done with other LEDs.   *)
THEOREM FrequencyAlwaysKept == LedSpec => []FrequencyKept
<1>1. LedInv => FrequencyKept
    BY DEF LedInv, TimersOK, FrequencyKept
<1> QED BY <1>1, LedInvariance, PTL

(* Where LEDs on a GPIO are active high, each channel of an LED at rest    *)
(* shows what the last call that reached it asked for, however the calls   *)
(* of tasks that share the LED, refused fades and the ends of fades have   *)
(* interleaved, unless the channel's first fade has met another call for   *)
(* the channel that had found no record (ledc.c:208, 1308).                *)
THEOREM ChannelsAlwaysAsAsked ==
    ASSUME \A l \in Led : DrivenAsWired(l)
    PROVE  LedSpec => []ChannelsAsAsked
<1>1. LedInv => ChannelsAsAsked
    BY SettledShows DEF ChannelsAsAsked
<1> QED BY <1>1, LedInvariance, PTL

(* Where LEDs on a GPIO are active high, an LED at rest shows what the     *)
(* last successful LDRV_Set... or LDRV_Fade... call asked for, unless      *)
(* another task called for it meanwhile or a first fade has raced.         *)
THEOREM LastRequestAlwaysWins ==
    ASSUME \A l \in Led : DrivenAsWired(l)
    PROVE  LedSpec => []LastRequestWins
<1>1. ASSUME LedInv, NEW l \in Led, Settled(l), asked[l] # Unknown,
             ToSet(Config[l].channels) \cap raced = {}, NEW i \in 1..Len(Config[l].channels)
      PROVE  ChannelShows(l, Config[l].channels[i], asked[l][i])
  <2> DEFINE c == Config[l].channels[i]
  <2>1. c \in ToSet(Config[l].channels) \ raced
      BY <1>1, WiredTo
  <2>2. AskedAt(l, i)
      BY <1>1 DEF LedInv, AskedOK, LastAsked, Settled
  <2>3. CASE wanted[c] = asked[l][i]
    <3>1. asked[l] \in Light /\ DOMAIN asked[l] = 1..Len(Config[l].channels)
        BY <1>1, Wiring DEF LedInv, AskedOK
    <3>2. asked[l][i] \in Nat
        BY <3>1, LightValues
    <3>3. wanted[c] # Unknown
        BY <2>3, <3>2, LedAssumption
    <3> HIDE DEF c
    <3>4. ChannelShows(l, c, wanted[c])
        BY <1>1, <2>1, <3>3, SettledShows
    <3> QED BY <2>3, <3>4 DEF c
  <2>4. CASE /\ Config[l].type = "SINGLE"
             /\ asked[l][i] = 0 /\ output[c] = SetupLevel(l)
    <3>1. Config[l].active = "HIGH"
        BY <2>4 DEF DrivenAsWired
    <3> QED BY <2>4, <3>1, LedAssumption DEF SetupLevel, ChannelShows, Brightness
  <2> QED BY <2>2, <2>3, <2>4 DEF AskedAt
<1>2. LedInv => LastRequestWins
    BY <1>1 DEF LastRequestWins
<1> QED BY <1>2, LedInvariance, PTL

=============================================================================

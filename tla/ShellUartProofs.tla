-------------------------- MODULE ShellUartProofs --------------------------
(***************************************************************************)
(* Proofs about the shell's input, for any length of the FIFO, the ring    *)
(* buffer and the event queue.  ShellInv is the inductive invariant: its   *)
(* heart is the exchange of rx_data_buf between the interrupt handler and  *)
(* the task, which no lock protects, and what becomes of a byte on its way *)
(* from the FIFO to the shell.                                             *)
(***************************************************************************)
EXTENDS ShellUart, SequenceTheorems, TLAPS

(* The FIFO, the buffers and what the task holds. *)
BuffersOK ==
    /\ fifo \in Seq(Byte) /\ Len(fifo) <= FifoLen
    /\ rx_data_buf \in Seq(Byte) /\ Len(rx_data_buf) + rx_fifo_len <= FifoLen
    /\ rx_fifo_len \in Nat
    /\ rx_ring_buf \in Seq(Byte) /\ Len(rx_ring_buf) <= RingLen
    /\ hand \in Seq(Byte) /\ Len(hand) <= RingLen
    /\ event_queue \in Seq(Event) /\ Len(event_queue) <= QueueLen

FlagsOK ==
    /\ installed \in BOOLEAN /\ rx_intr \in BOOLEAN
    /\ raised \in BOOLEAN /\ ovf \in BOOLEAN
    /\ rx_buffer_full_flg \in BOOLEAN
    /\ got \in BOOLEAN /\ overrun \in BOOLEAN

PlacesOK ==
    /\ isr \in {"idle", "rx", "again", "copy", "push", "flag", "mask", "clear", "ovf", "post"}
    /\ post \in Event \cup {"none"}
    /\ pc \in ListenerAt \cup {"off", "config", "pins", "create", "disable", "receive",
                               "return", "send", "unflag", "clear", "reset", "enable"}
    /\ job \in {"init", "flush", "read"}
    /\ sent \in Byte \ {Noise} /\ last \in Byte \ {Noise}

(* Who may touch rx_data_buf: the handler while the flag is down, the task *)
(* once it is up.                                                          *)
StashOK ==
    /\ isr \in {"again", "copy", "push", "flag"} => ~rx_buffer_full_flg
    /\ ~rx_buffer_full_flg /\ isr \notin {"copy", "push", "flag"} => rx_data_buf = <<>>
    /\ isr # "copy" => rx_fifo_len = 0
    /\ pc \in {"send", "unflag"} => rx_buffer_full_flg
    /\ isr = "push" => post = "UART_DATA"
    /\ isr = "post" => post # "none"

(* What the task is doing, and what it holds meanwhile. *)
TaskOK ==
    /\ pc \in ListenerAt => job = "read"
    /\ pc \in {"receive", "clear", "reset", "disable"} => job # "read"
    /\ pc \in {"off", "config", "pins", "create"} => job = "init"
    /\ pc \in {"deliver"} \/ (pc = "return" /\ job = "read") => Len(hand) = 1
    /\ job = "read" => Len(hand) <= 1
    /\ pc \in {"events", "read"} => hand = <<>>
    /\ job # "read" /\ pc # "return" => hand = <<>>

(* Between the two steps that hand the stash over, its bytes are both in   *)
(* rx_data_buf and at the end of the ring buffer.                          *)
TwiceOK ==
    pc = "unflag" =>
        /\ Len(rx_data_buf) <= Len(rx_ring_buf)
        /\ \A i \in 1..Len(rx_data_buf) :
               rx_ring_buf[Len(rx_ring_buf) - Len(rx_data_buf) + i] = rx_data_buf[i]

(* Nothing is told to drop bytes before a buffer has been full, and the    *)
(* FIFO then still has the bytes that the handler will take from it.       *)
DropsOK ==
    ~overrun =>
        /\ ~ovf /\ ~rx_buffer_full_flg
        /\ isr \notin {"ovf", "flag"}
        /\ post \in {"none", "UART_DATA"}
        /\ job # "flush" /\ rx_fifo_len <= Len(fifo)
        /\ \A i \in 1..Len(event_queue) : event_queue[i] = "UART_DATA"

(* The control of the two sides. *)
ControlInv ==
    BuffersOK /\ FlagsOK /\ PlacesOK /\ StashOK /\ TaskOK /\ TwiceOK /\ DropsOK

(* The parts of the way to the shell. *)
Held == IF job = "read" THEN hand ELSE <<>>
Ring == IF pc = "unflag" THEN SubSeq(rx_ring_buf, 1, Len(rx_ring_buf) - Len(rx_data_buf))
        ELSE rx_ring_buf

Way(l, h, r, d, f) == <<l>> \o h \o r \o d \o f

Ordered(s) == \A i, j \in 1..Len(s) :
                 i < j /\ s[j] # Noise => s[i] <= s[j] /\ (s[i] = s[j] => s[i] # Watched)

(* The way is in order, and nothing on it is newer than the last byte that *)
(* came in.                                                                *)
Sound(way, newest) == Ordered(way) /\ \A i \in 1..Len(way) : way[i] <= newest

Has(x, s) == \E i \in 1..Len(s) : s[i] = x

OrderOK == Sound(Way(last, Held, Ring, rx_data_buf, fifo), sent)

LossOK ==
    ~overrun /\ sent # Earlier =>
        got \/ Has(Watched, Held) \/ Has(Watched, Ring) \/ Has(Watched, rx_data_buf) \/ Has(Watched, fifo)

(* Every byte on the way has come in, as long as no buffer has been full.  *)
NoiseOK ==
    ~overrun => ~(Has(Noise, Held) \/ Has(Noise, Ring) \/ Has(Noise, rx_data_buf) \/ Has(Noise, fifo))

ShellInv == ControlInv /\ OrderOK /\ LossOK /\ NoiseOK

-----------------------------------------------------------------------------
(* Sequences of bytes. *)

(* What a concatenation is made of. *)
LEMMA Joined ==
    ASSUME NEW s \in Seq(Byte), NEW t \in Seq(Byte)
    PROVE  /\ s \o t \in Seq(Byte) /\ Len(s \o t) = Len(s) + Len(t)
           /\ \A i \in 1..Len(s) : (s \o t)[i] = s[i]
           /\ \A i \in 1..Len(t) : (s \o t)[Len(s) + i] = t[i]
           /\ \A i \in 1..Len(s) + Len(t) :
                  \/ i \in 1..Len(s) /\ (s \o t)[i] = s[i]
                  \/ i - Len(s) \in 1..Len(t) /\ (s \o t)[i] = t[i - Len(s)]
OBVIOUS

(* The elements of a sequence of bytes are bytes. *)
LEMMA ByteOf ==
    ASSUME NEW s \in Seq(Byte)
    PROVE  Len(s) \in Nat /\ \A i \in 1..Len(s) : s[i] \in Byte
BY ElementOfSeq

(* A sequence of bytes of bounded length is one of the finitely many that  *)
(* ShellTypeOK lists.                                                      *)
LEMMA UpTo ==
    ASSUME NEW s \in Seq(Byte), NEW n \in Nat, Len(s) <= n
    PROVE  s \in BytesUpTo(n)
<1>1. s \in [1..Len(s) -> Byte] /\ Len(s) \in 0..n
    BY ByteOf
<1> QED BY <1>1 DEF BytesUpTo

(* Empty parts, and the first element with the rest. *)
LEMMA EndsOf ==
    ASSUME NEW s \in Seq(Byte)
    PROVE  /\ s \o <<>> = s /\ <<>> \o s = s
           /\ s # <<>> => /\ Head(s) \in Byte /\ Tail(s) \in Seq(Byte)
                          /\ Len(Tail(s)) = Len(s) - 1
                          /\ <<Head(s)>> \o Tail(s) = s
OBVIOUS

(* Three sequences, named so that the provers see at once what Assoc is    *)
(* applied to.                                                             *)
Three(s, t, u) == s \in Seq(Byte) /\ t \in Seq(Byte) /\ u \in Seq(Byte)

(* Three parts in a row. *)
LEMMA Assoc ==
    ASSUME NEW s, NEW t, NEW u, Three(s, t, u)
    PROVE  (s \o t) \o u = s \o (t \o u)
BY DEF Three

(* Two parts that make up a sequence. *)
LEMMA Glued ==
    ASSUME NEW s \in Seq(Byte), NEW a \in Seq(Byte), NEW b \in Seq(Byte), NEW n \in Nat,
           n <= Len(s), Len(a) = n, Len(b) = Len(s) - n,
           \A i \in 1..n : a[i] = s[i],
           \A i \in 1..Len(b) : b[i] = s[n + i]
    PROVE  a \o b = s
<1> DEFINE u == a \o b
<1>1. /\ u \in Seq(Byte) /\ Len(u) = Len(s)
      /\ \A i \in 1..Len(a) + Len(b) :
             \/ i \in 1..Len(a) /\ u[i] = a[i]
             \/ i - Len(a) \in 1..Len(b) /\ u[i] = b[i - Len(a)]
    BY Joined
<1> HIDE DEF u
<1>2. \A i \in 1..Len(u) : u[i] = s[i]
  <2>1. SUFFICES ASSUME NEW i \in 1..Len(u) PROVE u[i] = s[i]
      OBVIOUS
  <2>2. CASE i \in 1..Len(a) /\ u[i] = a[i]
      BY <2>2
  <2>3. CASE i - Len(a) \in 1..Len(b) /\ u[i] = b[i - Len(a)]
    <3> DEFINE k == i - n
    <3>1. k \in 1..Len(b) /\ n + k = i /\ u[i] = b[k]
        BY <2>3
    <3> HIDE DEF k
    <3> QED BY <3>1
  <2> QED BY <1>1, <2>2, <2>3
<1>3. u = s
    BY <1>1, <1>2, SeqEqual
<1> QED BY <1>3 DEF u

(* Cutting a sequence in two. *)
LEMMA CutInTwo ==
    ASSUME NEW s \in Seq(Byte), NEW n \in 0..Len(s)
    PROVE  /\ SubSeq(s, 1, n) \in Seq(Byte) /\ Len(SubSeq(s, 1, n)) = n
           /\ SubSeq(s, n + 1, Len(s)) \in Seq(Byte)
           /\ Len(SubSeq(s, n + 1, Len(s))) = Len(s) - n
           /\ SubSeq(s, 1, n) \o SubSeq(s, n + 1, Len(s)) = s
<1> DEFINE a == SubSeq(s, 1, n)
           b == SubSeq(s, n + 1, Len(s))
<1>1. Len(s) \in Nat /\ n \in Nat /\ n <= Len(s) /\ \A i \in 1..Len(s) : s[i] \in Byte
    BY ByteOf
<1>2. a \in Seq(Byte) /\ Len(a) = n /\ \A i \in 1..n : a[i] = s[i]
    BY <1>1
<1>3. b \in Seq(Byte) /\ Len(b) = Len(s) - n /\ \A i \in 1..Len(b) : b[i] = s[n + i]
  <2>1. \A i \in (n + 1)..Len(s) : s[i] \in Byte
      BY <1>1
  <2>2. /\ b \in Seq(Byte) /\ Len(b) = IF n + 1 <= Len(s) THEN Len(s) - (n + 1) + 1 ELSE 0
        /\ \A i \in 1..(Len(s) - (n + 1) + 1) : b[i] = s[(n + 1) + i - 1]
      BY <1>1, <2>1, SubSeqProperties
  <2> HIDE DEF b
  <2>3. Len(b) = Len(s) - n /\ Len(s) - (n + 1) + 1 = Len(b)
      BY <1>1, <2>2
  <2>4. \A i \in 1..Len(b) : (n + 1) + i - 1 = n + i
      BY <1>1
  <2> QED BY <2>2, <2>3, <2>4
<1> HIDE DEF a, b
<1>4. a \o b = s
    BY <1>1, <1>2, <1>3, Glued
<1> QED BY <1>2, <1>3, <1>4 DEF a, b

(* Bytes that are both at the end of the ring buffer and in rx_data_buf. *)
LEMMA FrontAndStash ==
    ASSUME NEW s \in Seq(Byte), NEW t \in Seq(Byte), Len(t) <= Len(s),
           \A i \in 1..Len(t) : s[Len(s) - Len(t) + i] = t[i]
    PROVE  /\ SubSeq(s, 1, Len(s) - Len(t)) \in Seq(Byte)
           /\ SubSeq(s, 1, Len(s) - Len(t)) \o t = s
<1> DEFINE n == Len(s) - Len(t)
           a == SubSeq(s, 1, n)
<1>1. Len(s) \in Nat /\ Len(t) \in Nat /\ n \in Nat /\ n <= Len(s)
    OBVIOUS
<1>2. a \in Seq(Byte) /\ Len(a) = n /\ \A i \in 1..n : a[i] = s[i]
    BY <1>1
<1>3. Len(t) = Len(s) - n
    BY <1>1
<1>4. \A i \in 1..Len(t) : t[i] = s[n + i]
    OBVIOUS
<1> HIDE DEF a, n
<1>5. a \o t = s
    BY <1>1, <1>2, <1>3, <1>4, Glued
<1> QED BY <1>2, <1>5 DEF a, n

(* The front of a concatenation is its first part. *)
LEMMA FrontOf ==
    ASSUME NEW s \in Seq(Byte), NEW t \in Seq(Byte)
    PROVE  SubSeq(s \o t, 1, Len(s \o t) - Len(t)) = s
<1> DEFINE u == s \o t
           v == SubSeq(u, 1, Len(s))
<1>1. u \in Seq(Byte) /\ Len(u) = Len(s) + Len(t) /\ \A i \in 1..Len(s) : u[i] = s[i]
    BY Joined
<1> HIDE DEF u
<1>2. Len(u) - Len(t) = Len(s) /\ Len(s) \in 0..Len(u)
    BY <1>1
<1>3. v \in Seq(Byte) /\ Len(v) = Len(s) /\ \A i \in 1..Len(s) : v[i] = s[i]
    BY <1>1, <1>2
<1> HIDE DEF v
<1>4. v = s
    BY <1>3, SeqEqual
<1> QED BY <1>2, <1>4 DEF u, v

(* A byte is in a concatenation if it is in one of its parts. *)
LEMMA HasJoined ==
    ASSUME NEW x, NEW s \in Seq(Byte), NEW t \in Seq(Byte)
    PROVE  Has(x, s \o t) <=> Has(x, s) \/ Has(x, t)
<1> DEFINE u == s \o t
<1>1. /\ Len(u) = Len(s) + Len(t) /\ Len(s) \in Nat /\ Len(t) \in Nat
      /\ \A i \in 1..Len(s) : u[i] = s[i]
      /\ \A i \in 1..Len(t) : u[Len(s) + i] = t[i]
      /\ \A i \in 1..Len(s) + Len(t) :
             \/ i \in 1..Len(s) /\ u[i] = s[i]
             \/ i - Len(s) \in 1..Len(t) /\ u[i] = t[i - Len(s)]
    BY Joined
<1> HIDE DEF u
<1>2. Has(x, u) => Has(x, s) \/ Has(x, t)
    BY <1>1 DEF Has
<1>3. Has(x, s) => Has(x, u)
    BY <1>1 DEF Has
<1>4. Has(x, t) => Has(x, u)
  <2>1. SUFFICES ASSUME NEW i \in 1..Len(t), t[i] = x PROVE Has(x, u)
      BY DEF Has
  <2>2. Len(s) + i \in 1..Len(u) /\ u[Len(s) + i] = x
      BY <1>1, <2>1
  <2> QED BY <2>2 DEF Has
<1> QED BY <1>2, <1>3, <1>4 DEF u

(* What becomes of a byte when the first one is taken from a sequence. *)
LEMMA HasTaken ==
    ASSUME NEW x, NEW s \in Seq(Byte), NEW t \in Seq(Byte), s # <<>>
    PROVE  /\ Has(x, s) <=> Has(x, <<Head(s)>>) \/ Has(x, Tail(s))
           /\ Has(x, t \o <<Head(s)>>) <=> Has(x, t) \/ Has(x, <<Head(s)>>)
<1> DEFINE b == <<Head(s)>>
           r == Tail(s)
<1>1. Head(s) \in Byte /\ r \in Seq(Byte) /\ b \o r = s
    BY EndsOf
<1>2. b \in Seq(Byte)
    BY <1>1
<1> HIDE DEF b, r
<1>3. Has(x, b \o r) <=> Has(x, b) \/ Has(x, r)
    BY <1>1, <1>2, HasJoined
<1>4. Has(x, t \o b) <=> Has(x, t) \/ Has(x, b)
    BY <1>2, HasJoined
<1> QED BY <1>1, <1>3, <1>4 DEF b, r

(* Order is kept when a part of the sequence is dropped, as by a flush. *)
LEMMA SoundDropped ==
    ASSUME NEW s \in Seq(Byte), NEW t \in Seq(Byte), NEW u \in Seq(Byte),
           NEW b \in Byte, Sound((s \o t) \o u, b)
    PROVE  Sound(s \o u, b)
<1> DEFINE p == (s \o t) \o u
           q == s \o u
           m == Len(s)
           n == Len(t)
           f(i) == IF i <= m THEN i ELSE n + i
<1>1. m \in Nat /\ n \in Nat /\ Len(u) \in Nat /\ Len(p) = m + n + Len(u) /\ Len(q) = m + Len(u)
    OBVIOUS
<1>2. \A i \in 1..m : p[i] = s[i] /\ q[i] = s[i]
    OBVIOUS
<1>3. \A i \in 1..Len(u) : p[m + n + i] = u[i] /\ q[m + i] = u[i]
    OBVIOUS
<1>4. Sound(p, b)
    OBVIOUS
<1> HIDE DEF p, q, m, n
<1>5. ASSUME NEW i \in 1..Len(q) PROVE f(i) \in 1..Len(p) /\ q[i] = p[f(i)]
  <2>1. CASE i <= m
      BY <1>1, <1>2, <2>1
  <2>2. CASE ~(i <= m)
    <3> DEFINE k == i - m
    <3>1. k \in 1..Len(u) /\ m + k = i /\ m + n + k = f(i) /\ f(i) \in 1..Len(p)
        BY <1>1, <2>2
    <3> HIDE DEF k, f
    <3>2. p[m + n + k] = u[k] /\ q[m + k] = u[k]
        BY <1>3, <3>1
    <3> QED BY <3>1, <3>2
  <2> QED BY <2>1, <2>2
<1>6. \A i, j \in 1..Len(q) : i < j => f(i) < f(j)
    BY <1>1
<1> HIDE DEF f
<1>7. Ordered(q)
    BY <1>4, <1>5, <1>6 DEF Sound, Ordered
<1>8. \A i \in 1..Len(q) : q[i] <= b
    BY <1>4, <1>5 DEF Sound
<1> QED BY <1>7, <1>8 DEF Sound, q

(* Order is kept when the line brings a byte. *)
LEMMA SoundAppended ==
    ASSUME NEW s \in Seq(Byte), NEW b \in Byte, Sound(s, b),
           NEW c \in IF b = Earlier THEN {Earlier, Watched} ELSE {Later}
    PROVE  c \in Byte /\ Sound(s, c) /\ Sound(s \o <<c>>, c)
<1> DEFINE q == s \o <<c>>
<1>1. c \in Byte /\ b <= c /\ (b = c => c # Watched) /\ (c = Watched => b < c)
    BY DEF Byte, Noise, Earlier, Watched, Later
<1>2. <<c>> \in Seq(Byte) /\ Len(<<c>>) = 1
    BY <1>1
<1>3. /\ Len(q) = Len(s) + 1 /\ Len(s) \in Nat /\ q[Len(s) + 1] = c
      /\ \A i \in 1..Len(s) : q[i] = s[i] /\ s[i] \in Byte /\ s[i] <= b
    BY <1>1, <1>2, ByteOf DEF Sound
<1> HIDE DEF q
<1>4. \A i \in 1..Len(s) : s[i] <= c /\ (s[i] = c => c # Watched)
    BY <1>1, <1>3 DEF Byte, Noise, Earlier, Watched, Later
<1>5. Ordered(q)
  <2>1. SUFFICES ASSUME NEW i \in 1..Len(q), NEW j \in 1..Len(q), i < j, q[j] # Noise
                 PROVE  q[i] <= q[j] /\ (q[i] = q[j] => q[i] # Watched)
      BY DEF Ordered
  <2>2. i \in 1..Len(s) /\ (j \in 1..Len(s) \/ j = Len(s) + 1)
      BY <1>3, <2>1
  <2>3. CASE j \in 1..Len(s)
      BY <1>3, <2>1, <2>2, <2>3 DEF Sound, Ordered
  <2>4. CASE j = Len(s) + 1
      BY <1>3, <1>4, <2>2, <2>4
  <2> QED BY <2>2, <2>3, <2>4
<1>6. \A i \in 1..Len(q) : q[i] <= c
  <2>1. \A i \in 1..Len(q) : i \in 1..Len(s) \/ i = Len(s) + 1
      BY <1>3
  <2> QED BY <1>1, <1>3, <1>4, <2>1 DEF Byte, Noise, Earlier, Watched, Later
<1>7. Sound(s, c)
    BY <1>4 DEF Sound
<1> QED BY <1>1, <1>5, <1>6, <1>7 DEF Sound, q

(* And when the handler makes one up. *)
LEMMA SoundMadeUp ==
    ASSUME NEW s \in Seq(Byte), NEW b \in Byte, Sound(s, b)
    PROVE  Sound(s \o <<Noise>>, b)
<1> DEFINE q == s \o <<Noise>>
<1>1. <<Noise>> \in Seq(Byte) /\ Len(<<Noise>>) = 1 /\ Noise <= b
    BY DEF Byte, Noise, Earlier, Watched, Later
<1>2. /\ Len(q) = Len(s) + 1 /\ Len(s) \in Nat /\ q[Len(s) + 1] = Noise
      /\ \A i \in 1..Len(s) : q[i] = s[i]
    BY <1>1
<1> HIDE DEF q
<1>3. \A i \in 1..Len(q) : i \in 1..Len(s) \/ i = Len(s) + 1
    BY <1>2
<1>4. Ordered(q)
  <2>1. SUFFICES ASSUME NEW i \in 1..Len(q), NEW j \in 1..Len(q), i < j, q[j] # Noise
                 PROVE  q[i] <= q[j] /\ (q[i] = q[j] => q[i] # Watched)
      BY DEF Ordered
  <2>2. i \in 1..Len(s) /\ j \in 1..Len(s)
      BY <1>2, <1>3, <2>1
  <2> QED BY <1>2, <2>1, <2>2 DEF Sound, Ordered
<1>5. \A i \in 1..Len(q) : q[i] <= b
    BY <1>1, <1>2, <1>3 DEF Sound
<1> QED BY <1>4, <1>5 DEF Sound, q

(* A sequence of one byte. *)
LEMMA SingleByte ==
    ASSUME NEW s \in Seq(Byte), Len(s) = 1
    PROVE  s[1] \in Byte /\ s = <<s[1]>>
<1>1. s[1] \in Byte
    BY ElementOfSeq
<1> QED BY <1>1

-----------------------------------------------------------------------------
(* The control of the two sides: everything in ShellInv but the bytes'     *)
(* order and their fate.                                                   *)

(* What Fits lets through stays within the ring buffer. *)
LEMMA FitsRing ==
    ASSUME BuffersOK, Fits(rx_data_buf)
    PROVE  /\ rx_ring_buf \o rx_data_buf \in Seq(Byte)
           /\ Len(rx_ring_buf \o rx_data_buf) <= RingLen
<1> DEFINE m == Len(rx_ring_buf)
           n == Len(rx_data_buf)
           k == Len(hand)
           q == IF pc = "return" THEN k ELSE 0
<1>1. /\ rx_ring_buf \o rx_data_buf \in Seq(Byte) /\ Len(rx_ring_buf \o rx_data_buf) = m + n
      /\ m \in Nat /\ n \in Nat /\ k \in Nat
    BY Joined, ByteOf DEF BuffersOK
<1>2. m + n + q <= RingLen
    BY DEF Fits
<1> HIDE DEF m, n, k
<1>3. q \in Nat
    BY <1>1
<1> HIDE DEF q
<1> QED BY <1>1, <1>2, <1>3, ShellAssumption

(* The flags stay Boolean. *)
LEMMA FlagsStep ==
    ASSUME FlagsOK, [ShellNext]_uvars
    PROVE  FlagsOK'
<1> USE DEF uart, buffer, handler, task, history
<1>1. CASE LineByte
    BY <1>1 DEF LineByte, FlagsOK
<1>2. CASE uart_param_config
    BY <1>2 DEF uart_param_config, FlagsOK
<1>3. CASE uart_reenable_intr_mask
    BY <1>3 DEF uart_reenable_intr_mask, FlagsOK
<1>4. CASE SHELL_RecvChar
    BY <1>4 DEF SHELL_RecvChar, FlagsOK
<1>5. CASE FlushReceive
    BY <1>5 DEF FlushReceive, FlagsOK
<1>6. CASE FlushReset
    BY <1>6 DEF FlushReset, FlagsOK
<1>7. CASE IsrEnter \/ IsrReadLength \/ IsrReadFifo \/ IsrAck \/ IsrPush \/ IsrFlag
    BY <1>7 DEF IsrEnter, IsrReadLength, IsrReadFifo, IsrAck, IsrPush, IsrFlag, FlagsOK
<1>8. CASE IsrMask \/ IsrClear \/ IsrOverflow \/ IsrPost
    BY <1>8 DEF IsrMask, IsrClear, IsrOverflow, IsrPost, FlagsOK
<1>9. CASE uart_driver_install \/ InitFails \/ uart_set_pin \/ CreateListener
    BY <1>9 DEF uart_driver_install, InitFails, uart_set_pin, CreateListener, FlagsOK
<1>10. CASE NextEvent \/ ReadByte \/ ReadTimeout \/ ReturnItem
    BY <1>10 DEF NextEvent, ReadByte, ReadTimeout, ReturnItem, FlagsOK
<1>11. CASE SendStash \/ ClearFlag
    BY <1>11 DEF SendStash, ClearFlag, FlagsOK
<1>12. CASE FlushDisable \/ FlushClear \/ UNCHANGED uvars
    BY <1>12 DEF FlushDisable, FlushClear, uvars, FlagsOK
<1> QED
    BY <1>1, <1>2, <1>3, <1>4, <1>5, <1>6, <1>7, <1>8, <1>9, <1>10, <1>11, <1>12 DEF ShellNext, Isr, InitCom, Task

(* The buffers keep their bounds. *)
LEMMA BuffersStep ==
    ASSUME BuffersOK, PlacesOK, StashOK, [ShellNext]_uvars
    PROVE  BuffersOK'
<1> USE ShellAssumption DEF uart, buffer, handler, task, history
<1>1. CASE LineByte
  <2>1. PICK b \in Byte : fifo' = fifo \/ (Len(fifo) < FifoLen /\ fifo' = Append(fifo, b))
      BY <1>1 DEF LineByte, Byte
  <2>2. fifo' \in Seq(Byte) /\ Len(fifo') <= FifoLen
    <3>1. fifo \in Seq(Byte) /\ Len(fifo) <= FifoLen
        BY DEF BuffersOK
    <3>2. Append(fifo, b) \in Seq(Byte) /\ Len(Append(fifo, b)) = Len(fifo) + 1 /\ Len(fifo) \in Nat
        BY <3>1
    <3> QED BY <2>1, <3>1, <3>2
  <2> QED BY <1>1, <2>2 DEF LineByte, BuffersOK
<1>2. CASE IsrReadFifo
  <2>1. PICK b \in Byte : rx_data_buf' = Append(rx_data_buf, b)
      BY <1>2, EndsOf DEF IsrReadFifo, BuffersOK, Byte
  <2>2. /\ Append(rx_data_buf, b) \in Seq(Byte) /\ Len(rx_data_buf) \in Nat
        /\ Len(Append(rx_data_buf, b)) = Len(rx_data_buf) + 1
      BY DEF BuffersOK
  <2>3. fifo' \in Seq(Byte) /\ Len(fifo') <= FifoLen
    <3>1. fifo' = fifo \/ (fifo # <<>> /\ fifo' = Tail(fifo))
        BY <1>2 DEF IsrReadFifo
    <3>2. fifo \in Seq(Byte) /\ Len(fifo) \in Nat /\ Len(fifo) <= FifoLen
        BY DEF BuffersOK
    <3> QED BY <3>1, <3>2, EndsOf
  <2>4. /\ rx_fifo_len' = rx_fifo_len - 1 /\ rx_fifo_len > 0 /\ rx_fifo_len \in Nat
        /\ Len(rx_data_buf) + rx_fifo_len <= FifoLen
      BY <1>2 DEF IsrReadFifo, BuffersOK
  <2>5. rx_fifo_len' \in Nat /\ Len(rx_data_buf') + rx_fifo_len' <= FifoLen
      BY <2>1, <2>2, <2>4
  <2> QED BY <1>2, <2>1, <2>2, <2>3, <2>5 DEF IsrReadFifo, BuffersOK
<1>17. CASE IsrReadLength
  <2>1. CASE rx_fifo_len' = rx_fifo_len
      BY <1>17, <2>1 DEF IsrReadLength, BuffersOK
  <2>2. CASE rx_fifo_len' = Len(fifo) /\ ~rx_buffer_full_flg /\ isr \in {"rx", "again"}
    <3>1. rx_data_buf = <<>>
        BY <2>2 DEF StashOK
    <3> QED BY <1>17, <2>2, <3>1 DEF IsrReadLength, BuffersOK
  <2> QED BY <1>17, <2>1, <2>2 DEF IsrReadLength, StashOK
<1>3. CASE IsrPush
  <2>1. CASE Fits(rx_data_buf) /\ rx_ring_buf' = rx_ring_buf \o rx_data_buf /\ rx_data_buf' = <<>>
    <3>1. rx_ring_buf' \in Seq(Byte) /\ Len(rx_ring_buf') <= RingLen
        BY <2>1, FitsRing DEF BuffersOK
    <3> QED BY <1>3, <2>1, <3>1 DEF IsrPush, BuffersOK
  <2>2. CASE UNCHANGED <<rx_ring_buf, rx_data_buf>>
      BY <1>3, <2>2 DEF IsrPush, BuffersOK
  <2> QED BY <1>3, <2>1, <2>2 DEF IsrPush
<1>4. CASE IsrOverflow
    BY <1>4 DEF IsrOverflow, BuffersOK
<1>5. CASE IsrPost
  <2>1. post \in Event
      BY <1>5 DEF IsrPost, StashOK, PlacesOK
  <2> QED BY <1>5, <2>1, ShellAssumption DEF IsrPost, BuffersOK
<1>6. CASE uart_param_config
    BY <1>6 DEF uart_param_config, BuffersOK
<1>7. CASE NextEvent
  <2>1. event_queue' = event_queue \/ (event_queue # <<>> /\ event_queue' = Tail(event_queue))
      BY <1>7 DEF NextEvent
  <2>2. /\ event_queue \in Seq(Event) /\ Len(event_queue) \in Nat /\ Len(event_queue) <= QueueLen
        /\ event_queue # <<>> => /\ Tail(event_queue) \in Seq(Event)
                                 /\ Len(Tail(event_queue)) = Len(event_queue) - 1
      BY HeadTailProperties DEF BuffersOK
  <2>3. event_queue' \in Seq(Event) /\ Len(event_queue') <= QueueLen
      BY <2>1, <2>2
  <2> QED BY <1>7, <2>3 DEF NextEvent, BuffersOK
<1>8. CASE ReadByte
    BY <1>8, ShellAssumption DEF ReadByte, BuffersOK
<1>9. CASE ReturnItem
    BY <1>9 DEF ReturnItem, BuffersOK
<1>10. CASE SendStash
  <2>1. CASE Fits(rx_data_buf) /\ rx_ring_buf' = rx_ring_buf \o rx_data_buf
    <3>1. rx_ring_buf' \in Seq(Byte) /\ Len(rx_ring_buf') <= RingLen
        BY <2>1, FitsRing DEF BuffersOK
    <3> QED BY <1>10, <3>1 DEF SendStash, BuffersOK
  <2>2. CASE UNCHANGED rx_ring_buf
      BY <1>10, <2>2 DEF SendStash, BuffersOK
  <2> QED BY <1>10, <2>1, <2>2 DEF SendStash
<1>11. CASE ClearFlag
    BY <1>11 DEF ClearFlag, BuffersOK
<1>12. CASE SHELL_RecvChar
    BY <1>12 DEF SHELL_RecvChar, BuffersOK
<1>13. CASE FlushReceive
  <2>1. CASE rx_ring_buf' = rx_ring_buf /\ hand' = hand
      BY <1>13, <2>1 DEF FlushReceive, BuffersOK
  <2>2. ASSUME NEW n \in 1..Len(rx_ring_buf),
               hand' = [i \in 1..n |-> Later],
               rx_ring_buf' = SubSeq(rx_ring_buf, n + 1, Len(rx_ring_buf))
        PROVE  BuffersOK'
    <3>1. n \in 0..Len(rx_ring_buf) /\ Len(rx_ring_buf) \in Nat
        BY DEF BuffersOK
    <3>0. hand' \in Seq(Byte) /\ Len(hand') = n
        BY <2>2, <3>1 DEF Byte
    <3>2. /\ hand' \in Seq(Byte) /\ Len(hand') = n
          /\ rx_ring_buf' \in Seq(Byte) /\ Len(rx_ring_buf') = Len(rx_ring_buf) - n
        BY <2>2, <3>0, <3>1, CutInTwo DEF BuffersOK
    <3>3. Len(hand') <= RingLen /\ Len(rx_ring_buf') <= RingLen
        BY <3>1, <3>2, ShellAssumption DEF BuffersOK
    <3> QED BY <1>13, <3>2, <3>3 DEF FlushReceive, BuffersOK
  <2> QED BY <1>13, <2>1, <2>2 DEF FlushReceive
<1>14. CASE FlushClear
    BY <1>14 DEF FlushClear, BuffersOK
<1>15. CASE FlushReset
    BY <1>15 DEF FlushReset, BuffersOK
<1>16. CASE \/ IsrEnter \/ IsrAck \/ IsrFlag \/ IsrMask \/ IsrClear \/ uart_driver_install
         \/ InitFails \/ uart_set_pin \/ CreateListener \/ ReadTimeout
         \/ uart_reenable_intr_mask \/ FlushDisable \/ UNCHANGED uvars
    BY <1>16
    DEF
        IsrEnter, IsrAck, IsrFlag, IsrMask, IsrClear, uart_driver_install, InitFails,
        uart_set_pin, CreateListener, ReadTimeout, uart_reenable_intr_mask, FlushDisable,
        uvars, BuffersOK
<1> QED
    BY <1>1, <1>2, <1>3, <1>4, <1>5, <1>6, <1>7, <1>8, <1>9, <1>10, <1>11, <1>12, <1>13, <1>14, <1>15, <1>16, <1>17 DEF ShellNext, Isr, InitCom, Task

(* The handler and the task stay where they may be. *)
LEMMA PlacesStep ==
    ASSUME BuffersOK, PlacesOK, TaskOK, [ShellNext]_uvars
    PROVE  PlacesOK'
<1> USE DEF uart, buffer, handler, task, history
<1>1. CASE LineByte
    BY <1>1 DEF LineByte, PlacesOK, Byte, Noise, Earlier, Watched, Later
<1>2. CASE SHELL_RecvChar
  <2>1. hand[1] \in Byte
    <3>1. Len(hand) = 1
        BY <1>2 DEF SHELL_RecvChar, TaskOK
    <3>2. 1 \in 1..Len(hand) /\ hand \in Seq(Byte)
        BY <3>1 DEF BuffersOK
    <3> QED BY <3>2, ElementOfSeq
  <2> QED BY <1>2, <2>1 DEF SHELL_RecvChar, PlacesOK, ListenerAt
<1>3. CASE NextEvent
    BY <1>3 DEF NextEvent, PlacesOK, ListenerAt, Event
<1>4. CASE SendStash
    BY <1>4 DEF SendStash, PlacesOK, ListenerAt, Event
<1>5. CASE uart_reenable_intr_mask
    BY <1>5 DEF uart_reenable_intr_mask, PlacesOK, ListenerAt, Event
<1>6. CASE FlushReceive
    BY <1>6 DEF FlushReceive, PlacesOK, ListenerAt, Event
<1>7. CASE \/ IsrEnter \/ IsrReadLength \/ IsrReadFifo \/ IsrAck \/ IsrPush \/ IsrFlag
         \/ IsrMask \/ IsrClear \/ IsrOverflow \/ IsrPost
    BY <1>7
    DEF
        IsrEnter, IsrReadLength, IsrReadFifo, IsrAck, IsrPush, IsrFlag, IsrMask, IsrClear,
        IsrOverflow, IsrPost, PlacesOK, Event
<1>8. CASE \/ uart_driver_install \/ InitFails \/ uart_param_config \/ uart_set_pin
         \/ CreateListener \/ ReadByte \/ ReadTimeout \/ ReturnItem \/ ClearFlag
         \/ FlushDisable \/ FlushClear \/ FlushReset \/ UNCHANGED uvars
    BY <1>8
    DEF
        uart_driver_install, InitFails, uart_param_config, uart_set_pin, CreateListener,
        ReadByte, ReadTimeout, ReturnItem, ClearFlag, FlushDisable, FlushClear,
        FlushReset, uvars, PlacesOK, ListenerAt, Event
<1> QED
    BY <1>1, <1>2, <1>3, <1>4, <1>5, <1>6, <1>7, <1>8 DEF ShellNext, Isr, InitCom, Task

(* Only one side at a time has rx_data_buf: the flag is not up while the   *)
(* handler uses it, and the task never tries to send it without the flag.  *)
LEMMA StashStep ==
    ASSUME BuffersOK, PlacesOK, StashOK, [ShellNext]_uvars
    PROVE  StashOK'
<1> USE DEF uart, buffer, handler, task, history
<1>1. CASE IsrEnter
    BY <1>1 DEF IsrEnter, StashOK, PlacesOK, Event, ListenerAt
<1>2. CASE IsrReadFifo
    BY <1>2 DEF IsrReadFifo, StashOK, PlacesOK, Event, ListenerAt
<1>10. CASE IsrReadLength
  <2>1. fifo = <<>> => Len(fifo) = 0
      OBVIOUS
  <2> QED BY <1>10, <2>1 DEF IsrReadLength, StashOK, PlacesOK, Event, ListenerAt
<1>11. CASE IsrAck
    BY <1>11 DEF IsrAck, StashOK, PlacesOK, Event, ListenerAt
<1>3. CASE IsrPush
    BY <1>3 DEF IsrPush, StashOK, PlacesOK, Event, ListenerAt
<1>4. CASE IsrMask
    BY <1>4 DEF IsrMask, StashOK, PlacesOK, Event, ListenerAt
<1>5. CASE SendStash
    BY <1>5 DEF SendStash, StashOK, PlacesOK, Event, ListenerAt
<1>6. CASE uart_reenable_intr_mask
    BY <1>6 DEF uart_reenable_intr_mask, StashOK, PlacesOK, Event, ListenerAt
<1>7. CASE FlushClear
    BY <1>7 DEF FlushClear, StashOK, PlacesOK, Event, ListenerAt
<1>8. CASE ClearFlag
    BY <1>8 DEF ClearFlag, StashOK, PlacesOK, Event, ListenerAt
<1>9. CASE \/ LineByte \/ IsrFlag \/ IsrClear \/ IsrOverflow \/ IsrPost
         \/ uart_driver_install \/ InitFails \/ uart_param_config \/ uart_set_pin
         \/ CreateListener \/ NextEvent \/ ReadByte \/ ReadTimeout \/ ReturnItem
         \/ SHELL_RecvChar \/ FlushDisable \/ FlushReceive \/ FlushReset \/ UNCHANGED uvars
    BY <1>9
    DEF
        LineByte, IsrFlag, IsrClear, IsrOverflow, IsrPost, uart_driver_install,
        InitFails, uart_param_config, uart_set_pin, CreateListener, NextEvent, ReadByte,
        ReadTimeout, ReturnItem, SHELL_RecvChar, FlushDisable, FlushReceive, FlushReset,
        uvars, StashOK, PlacesOK, Event, ListenerAt
<1> QED
    BY <1>1, <1>2, <1>3, <1>4, <1>5, <1>6, <1>7, <1>8, <1>9, <1>10, <1>11 DEF ShellNext, Isr, InitCom, Task

(* A number between one and one. *)
LEMMA AtMostOne ==
    ASSUME NEW n \in Nat \ {0}, n <= 1
    PROVE  n = 1
OBVIOUS

(* The task holds one byte when it has one to deliver, and none when it    *)
(* looks for more.                                                         *)
LEMMA TaskStep ==
    ASSUME BuffersOK, PlacesOK, TaskOK, [ShellNext]_uvars
    PROVE  TaskOK'
<1> USE DEF uart, buffer, handler, task, history
<1>1. CASE NextEvent
    BY <1>1 DEF NextEvent, TaskOK, BuffersOK, PlacesOK, ListenerAt
<1>2. CASE ReadByte
    BY <1>2 DEF ReadByte, TaskOK, BuffersOK, PlacesOK, ListenerAt
<1>3. CASE ReadTimeout
    BY <1>3 DEF ReadTimeout, TaskOK, BuffersOK, PlacesOK, ListenerAt
<1>4. CASE ReturnItem
    BY <1>4 DEF ReturnItem, TaskOK, BuffersOK, PlacesOK, ListenerAt
<1>5. CASE SendStash
  <2>1. job = "read" /\ hand # <<>> => Len(hand) = 1
    <3>1. SUFFICES ASSUME job = "read", hand # <<>> PROVE Len(hand) = 1
        OBVIOUS
    <3>2. Len(hand) \in Nat \ {0}
        BY <3>1, EmptySeq DEF BuffersOK
    <3>3. Len(hand) <= 1
        BY <3>1 DEF TaskOK
    <3> QED BY <3>2, <3>3, AtMostOne
  <2> QED BY <1>5, <2>1 DEF SendStash, TaskOK, PlacesOK, ListenerAt
<1>6. CASE ClearFlag
    BY <1>6 DEF ClearFlag, TaskOK, BuffersOK, PlacesOK, ListenerAt
<1>7. CASE uart_reenable_intr_mask
  <2>1. job = "read" /\ hand # <<>> => Len(hand) = 1
    <3>1. SUFFICES ASSUME job = "read", hand # <<>> PROVE Len(hand) = 1
        OBVIOUS
    <3>2. Len(hand) \in Nat \ {0}
        BY <3>1, EmptySeq DEF BuffersOK
    <3>3. Len(hand) <= 1
        BY <3>1 DEF TaskOK
    <3> QED BY <3>2, <3>3, AtMostOne
  <2>2. /\ pc = "enable" /\ UNCHANGED hand
        /\ \/ pc' = "create" /\ job = "init" /\ job' = job
           \/ pc' = "events" /\ job = "flush" /\ job' = "read"
           \/ pc' = "read" /\ job = "read" /\ hand = <<>> /\ job' = job
           \/ pc' = "deliver" /\ job = "read" /\ hand # <<>> /\ job' = job
    <3>1. pc = "enable" /\ UNCHANGED hand /\ job' = IF job = "flush" THEN "read" ELSE job
        BY <1>7 DEF uart_reenable_intr_mask
    <3>2. CASE job = "init"
        BY <1>7, <3>1, <3>2 DEF uart_reenable_intr_mask
    <3>3. CASE job = "flush"
        BY <1>7, <3>1, <3>3 DEF uart_reenable_intr_mask
    <3>4. CASE job = "read"
        BY <1>7, <3>1, <3>4 DEF uart_reenable_intr_mask
    <3> QED BY <3>2, <3>3, <3>4 DEF PlacesOK
  <2> QED BY <2>1, <2>2 DEF TaskOK, ListenerAt
<1>8. CASE SHELL_RecvChar
    BY <1>8 DEF SHELL_RecvChar, TaskOK, BuffersOK, PlacesOK, ListenerAt
<1>9. CASE FlushReceive
    BY <1>9 DEF FlushReceive, TaskOK, BuffersOK, PlacesOK, ListenerAt
<1>10. CASE \/ LineByte \/ IsrEnter \/ IsrReadLength \/ IsrReadFifo \/ IsrAck \/ IsrPush
         \/ IsrFlag \/ IsrMask \/ IsrClear \/ IsrOverflow \/ IsrPost
    BY <1>10
    DEF
        LineByte, IsrEnter, IsrReadLength, IsrReadFifo, IsrAck, IsrPush, IsrFlag, IsrMask,
        IsrClear, IsrOverflow, IsrPost, TaskOK
<1>11. CASE \/ uart_driver_install \/ InitFails \/ uart_param_config \/ uart_set_pin
         \/ CreateListener \/ FlushDisable \/ FlushClear \/ FlushReset \/ UNCHANGED uvars
    BY <1>11
    DEF
        uart_driver_install, InitFails, uart_param_config, uart_set_pin, CreateListener,
        FlushDisable, FlushClear, FlushReset, uvars, TaskOK, BuffersOK, PlacesOK, ListenerAt
<1> QED
    BY <1>1, <1>2, <1>3, <1>4, <1>5, <1>6, <1>7, <1>8, <1>9, <1>10, <1>11 DEF ShellNext, Isr, InitCom, Task

(* The bytes SendStash copies stay at the end of the ring buffer until     *)
(* ClearFlag.                                                              *)
LEMMA TwiceStep ==
    ASSUME BuffersOK, PlacesOK, StashOK, TwiceOK, [ShellNext]_uvars
    PROVE  TwiceOK'
<1> USE DEF uart, buffer, handler, task, history
<1>1. CASE IsrReadFifo
    BY <1>1 DEF IsrReadFifo, TwiceOK, StashOK
<1>2. CASE IsrPush
    BY <1>2 DEF IsrPush, TwiceOK, StashOK
<1>3. CASE uart_reenable_intr_mask
    BY <1>3 DEF uart_reenable_intr_mask, TwiceOK, PlacesOK
<1>4. CASE SendStash
  <2>1. CASE pc' = "unflag" /\ rx_ring_buf' = rx_ring_buf \o rx_data_buf
    <3> DEFINE r == rx_ring_buf
               d == rx_data_buf
    <3>1. r \in Seq(Byte) /\ d \in Seq(Byte) /\ Len(r) \in Nat /\ Len(d) \in Nat
        BY DEF BuffersOK
    <3>2. Len(r \o d) = Len(r) + Len(d) /\ \A i \in 1..Len(d) : (r \o d)[Len(r) + i] = d[i]
        BY <3>1, Joined
    <3>3. Len(r \o d) - Len(d) = Len(r) /\ Len(d) <= Len(r \o d)
        BY <3>1, <3>2
    <3>4. rx_data_buf' = d /\ rx_ring_buf' = r \o d
        BY <1>4, <2>1 DEF SendStash
    <3> HIDE DEF r, d
    <3> QED BY <3>2, <3>3, <3>4 DEF TwiceOK
  <2>2. CASE pc' # "unflag"
      BY <2>2 DEF TwiceOK
  <2> QED BY <1>4, <2>1, <2>2 DEF SendStash
<1>5. CASE \/ LineByte \/ IsrEnter \/ IsrReadLength \/ IsrAck \/ IsrFlag \/ IsrMask \/ IsrClear \/ IsrOverflow
         \/ IsrPost \/ uart_driver_install \/ InitFails \/ uart_param_config
         \/ uart_set_pin \/ CreateListener \/ NextEvent \/ ReadByte \/ ReadTimeout
         \/ ReturnItem \/ ClearFlag \/ SHELL_RecvChar \/ FlushDisable \/ FlushReceive
         \/ FlushClear \/ FlushReset \/ UNCHANGED uvars
    BY <1>5
    DEF
        LineByte, IsrEnter, IsrReadLength, IsrAck, IsrFlag, IsrMask, IsrClear, IsrOverflow,
        IsrPost, uart_driver_install, InitFails, uart_param_config, uart_set_pin, CreateListener,
        NextEvent, ReadByte, ReadTimeout, ReturnItem, ClearFlag, SHELL_RecvChar,
        FlushDisable, FlushReceive, FlushClear, FlushReset, uvars, TwiceOK
<1> QED
    BY <1>1, <1>2, <1>3, <1>4, <1>5 DEF ShellNext, Isr, InitCom, Task

(* Nothing asks for a flush before a buffer has been full. *)
LEMMA DropsStep ==
    ASSUME BuffersOK, FlagsOK, PlacesOK, StashOK, TaskOK, DropsOK, [ShellNext]_uvars
    PROVE  DropsOK'
<1> USE DEF uart, buffer, handler, task, history
<1>1. CASE LineByte
  <2>1. CASE overrun \/ overrun'
      BY <1>1, <2>1 DEF LineByte, DropsOK, FlagsOK
  <2>2. CASE ~overrun /\ ~overrun'
    <3>1. PICK b \in Byte : fifo' = Append(fifo, b) /\ ovf' = ovf
        BY <1>1, <2>2 DEF LineByte, Byte
    <3>2. Len(fifo') = Len(fifo) + 1 /\ Len(fifo) \in Nat /\ rx_fifo_len \in Nat
        BY <3>1 DEF BuffersOK
    <3>3. rx_fifo_len' = rx_fifo_len /\ rx_fifo_len <= Len(fifo)
        BY <1>1, <2>2 DEF LineByte, DropsOK
    <3>4. rx_fifo_len' <= Len(fifo')
        BY <3>2, <3>3
    <3> QED BY <1>1, <2>2, <3>1, <3>4 DEF LineByte, DropsOK
  <2> QED BY <2>1, <2>2
<1>2. CASE IsrEnter
    BY <1>2 DEF IsrEnter, DropsOK, PlacesOK
<1>3. CASE IsrReadFifo
  <2>1. CASE overrun
      BY <1>3, <2>1 DEF IsrReadFifo, DropsOK
  <2>2. CASE ~overrun
    <3>1. rx_fifo_len > 0 /\ rx_fifo_len \in Nat /\ rx_fifo_len <= Len(fifo)
        BY <1>3, <2>2 DEF IsrReadFifo, DropsOK, BuffersOK
    <3>2. fifo # <<>> /\ Len(fifo) \in Nat /\ Len(Tail(fifo)) = Len(fifo) - 1
        BY <3>1, EndsOf DEF BuffersOK
    <3>3. rx_fifo_len' = rx_fifo_len - 1 /\ fifo' = Tail(fifo)
        BY <1>3, <3>2 DEF IsrReadFifo
    <3>4. rx_fifo_len' <= Len(fifo')
        BY <3>1, <3>2, <3>3
    <3> QED BY <1>3, <2>2, <3>4 DEF IsrReadFifo, DropsOK
  <2> QED BY <2>1, <2>2
<1>7. CASE IsrReadLength
    BY <1>7 DEF IsrReadLength, DropsOK, PlacesOK, BuffersOK
<1>8. CASE uart_param_config \/ FlushReset
  <2>1. CASE overrun'
      BY <2>1 DEF DropsOK
  <2>2. CASE ~overrun'
    <3>1. ~overrun /\ (fifo = <<>> \/ job = "flush" \/ job = "read")
        BY <1>8, <2>2 DEF uart_param_config, FlushReset, PlacesOK
    <3>2. fifo = <<>>
        BY <1>8, <2>2, <3>1 DEF uart_param_config, FlushReset, DropsOK, TaskOK
    <3> QED BY <1>8, <2>2, <3>1, <3>2 DEF uart_param_config, FlushReset, DropsOK
  <2> QED BY <2>1, <2>2
<1>4. CASE IsrPost
  <2>1. CASE overrun
      BY <1>4, <2>1 DEF IsrPost, DropsOK
  <2>2. CASE ~overrun
    <3>1. post = "UART_DATA"
        BY <1>4, <2>2 DEF IsrPost, DropsOK, StashOK
    <3> QED BY <1>4, <2>2, <3>1 DEF IsrPost, DropsOK, BuffersOK
  <2> QED BY <2>1, <2>2
<1>5. CASE NextEvent
  <2>1. CASE overrun
      BY <1>5, <2>1 DEF NextEvent, DropsOK
  <2>2. CASE ~overrun
    <3>1. \A i \in 1..Len(event_queue) : event_queue[i] = "UART_DATA"
        BY <2>2 DEF DropsOK
    <3>2. event_queue # <<>> => /\ Head(event_queue) = "UART_DATA"
                               /\ \A i \in 1..Len(Tail(event_queue)) :
                                      Tail(event_queue)[i] = "UART_DATA"
        BY <3>1, HeadTailProperties DEF BuffersOK
    <3> QED BY <1>5, <2>2, <3>1, <3>2 DEF NextEvent, DropsOK
  <2> QED BY <2>1, <2>2
<1>6. CASE \/ IsrAck \/ IsrPush \/ IsrFlag \/ IsrMask \/ IsrClear \/ IsrOverflow
         \/ uart_driver_install \/ InitFails \/ uart_set_pin
         \/ CreateListener \/ ReadByte \/ ReadTimeout \/ ReturnItem \/ SendStash
         \/ ClearFlag \/ uart_reenable_intr_mask \/ SHELL_RecvChar \/ FlushDisable
         \/ FlushReceive \/ FlushClear \/ UNCHANGED uvars
    BY <1>6
    DEF
        IsrAck, IsrPush, IsrFlag, IsrMask, IsrClear, IsrOverflow, uart_driver_install, InitFails,
        uart_set_pin, CreateListener, ReadByte, ReadTimeout,
        ReturnItem, SendStash, ClearFlag, uart_reenable_intr_mask, SHELL_RecvChar,
        FlushDisable, FlushReceive, FlushClear, uvars, DropsOK, PlacesOK
<1> QED
    BY <1>1, <1>2, <1>3, <1>4, <1>5, <1>6, <1>7, <1>8 DEF ShellNext, Isr, InitCom, Task

(* Every step keeps ControlInv. *)
LEMMA ControlStep == ControlInv /\ [ShellNext]_uvars => ControlInv'
BY BuffersStep, FlagsStep, PlacesStep, StashStep, TaskStep, TwiceStep, DropsStep DEF ControlInv

-----------------------------------------------------------------------------
(* The way of the bytes.  Every step of the two sides is one of a few      *)
(* moves on the five parts of the way.                                     *)

Parts == <<last, Held, Ring, rx_data_buf, fifo>>

Waits == UNCHANGED <<Parts, sent, got>>

Arrives ==
    /\ \E b \in IF sent = Earlier THEN {Earlier, Watched} ELSE {Later} :
          sent' = b /\ (fifo' = fifo \o <<b>> \/ (overrun' /\ UNCHANGED fifo))
    /\ UNCHANGED <<last, Held, Ring, rx_data_buf, got>>

IsTaken ==
    /\ fifo # <<>> /\ rx_data_buf' = rx_data_buf \o <<Head(fifo)>> /\ fifo' = Tail(fifo)
    /\ UNCHANGED <<last, Held, Ring, sent, got>>

IsMadeUp ==
    /\ overrun /\ fifo = <<>> /\ rx_data_buf' = rx_data_buf \o <<Noise>>
    /\ UNCHANGED <<last, Held, Ring, fifo, sent, got>>

IsPushed ==
    /\ Ring' = Ring \o rx_data_buf /\ rx_data_buf' = <<>>
    /\ UNCHANGED <<last, Held, fifo, sent, got>>

IsRead ==
    /\ Held = <<>> /\ Ring # <<>> /\ Held' = <<Head(Ring)>> /\ Ring' = Tail(Ring)
    /\ UNCHANGED <<last, rx_data_buf, fifo, sent, got>>

IsGiven ==
    /\ \E b \in Byte : /\ Held = <<b>> /\ last' = (IF b = Noise THEN last ELSE b)
                      /\ got' = (got \/ b = Watched)
    /\ Held' = <<>>
    /\ UNCHANGED <<Ring, rx_data_buf, fifo, sent>>

IsDropped ==
    /\ overrun'
    /\ \/ fifo' = <<>> /\ UNCHANGED <<Ring, rx_data_buf>>
       \/ rx_data_buf' = <<>> /\ UNCHANGED <<Ring, fifo>>
       \/ /\ \E n \in 1..Len(Ring) : Ring' = SubSeq(Ring, n + 1, Len(Ring))
          /\ UNCHANGED <<rx_data_buf, fifo>>
    /\ UNCHANGED <<last, Held, sent, got>>

Moves ==
    /\ overrun => overrun'
    /\ Waits \/ Arrives \/ IsTaken \/ IsMadeUp \/ IsPushed \/ IsRead \/ IsGiven \/ IsDropped

(* While the stash is handed over, the ring buffer is Ring and the stash   *)
(* behind it.                                                              *)
LEMMA PartsOK ==
    ASSUME ControlInv
    PROVE  /\ last \in Byte /\ sent \in Byte
           /\ Held \in Seq(Byte) /\ Ring \in Seq(Byte)
           /\ rx_data_buf \in Seq(Byte) /\ fifo \in Seq(Byte)
           /\ pc = "unflag" => Ring \o rx_data_buf = rx_ring_buf
<1>1. /\ rx_data_buf \in Seq(Byte) /\ fifo \in Seq(Byte) /\ rx_ring_buf \in Seq(Byte)
      /\ hand \in Seq(Byte) /\ last \in Byte /\ sent \in Byte
    BY DEF ControlInv, BuffersOK, PlacesOK
<1>2. Held \in Seq(Byte)
    BY <1>1 DEF Held
<1>3. CASE pc = "unflag"
  <2>1. /\ Len(rx_data_buf) <= Len(rx_ring_buf)
        /\ \A i \in 1..Len(rx_data_buf) :
               rx_ring_buf[Len(rx_ring_buf) - Len(rx_data_buf) + i] = rx_data_buf[i]
      BY <1>3 DEF ControlInv, TwiceOK
  <2>2. Ring = SubSeq(rx_ring_buf, 1, Len(rx_ring_buf) - Len(rx_data_buf))
      BY <1>3 DEF Ring
  <2>3. Ring \in Seq(Byte) /\ Ring \o rx_data_buf = rx_ring_buf
      BY <1>1, <2>1, <2>2, FrontAndStash
  <2> QED BY <1>1, <1>2, <2>3
<1>4. CASE pc # "unflag"
    BY <1>1, <1>2, <1>4 DEF Ring
<1> QED BY <1>3, <1>4

(* Every step of the specification is a move.  The bytes that are handed  *)
(* over are neither lost nor doubled, because only one side at a time has  *)
(* rx_data_buf.                                                            *)
LEMMA MovesStep ==
    ASSUME ControlInv, [ShellNext]_uvars
    PROVE  Moves
<1> USE DEF uart, buffer, handler, task, history
<1>0. BuffersOK /\ PlacesOK /\ StashOK /\ TaskOK /\ TwiceOK /\ DropsOK
    BY DEF ControlInv
<1>1. CASE LineByte
  <2>1. PICK b \in IF sent = Earlier THEN {Earlier, Watched} ELSE {Later} :
            sent' = b /\ (fifo' = Append(fifo, b) \/ (overrun' /\ UNCHANGED fifo))
      BY <1>1 DEF LineByte
  <2>2. b \in Byte
      BY DEF Byte
  <2>3. Append(fifo, b) = fifo \o <<b>>
      BY <1>0, <2>2, AppendIsConcat DEF BuffersOK
  <2>4. UNCHANGED <<last, Held, Ring, rx_data_buf, got>>
      BY <1>1 DEF LineByte, Held, Ring
  <2>5. overrun => overrun'
      BY <1>1 DEF LineByte
  <2> QED BY <2>1, <2>3, <2>4, <2>5 DEF Moves, Arrives
<1>2. CASE IsrReadFifo
  <2>1. /\ UNCHANGED <<last, sent, got, overrun, hand, job, pc, rx_ring_buf>>
        /\ isr = "copy" /\ rx_fifo_len > 0
      BY <1>2 DEF IsrReadFifo
  <2>2. pc # "unflag"
      BY <1>0, <2>1 DEF StashOK
  <2>3. UNCHANGED <<Held, Ring>>
      BY <2>1, <2>2 DEF Held, Ring
  <2>4. CASE fifo # <<>>
    <3>1. Head(fifo) \in Byte
        BY <1>0, <2>4, EndsOf DEF BuffersOK
    <3>2. Append(rx_data_buf, Head(fifo)) = rx_data_buf \o <<Head(fifo)>>
        BY <1>0, <3>1, AppendIsConcat DEF BuffersOK
    <3>3. rx_data_buf' = Append(rx_data_buf, Head(fifo)) /\ fifo' = Tail(fifo)
        BY <1>2, <2>4 DEF IsrReadFifo
    <3> QED BY <2>1, <2>3, <2>4, <3>2, <3>3 DEF Moves, IsTaken
  <2>5. CASE fifo = <<>>
    <3>1. overrun
        BY <1>0, <2>1, <2>5 DEF DropsOK, BuffersOK
    <3>2. Append(rx_data_buf, Noise) = rx_data_buf \o <<Noise>>
        BY <1>0, AppendIsConcat DEF BuffersOK, Byte
    <3>3. rx_data_buf' = Append(rx_data_buf, Noise) /\ fifo' = fifo
        BY <1>2, <2>5 DEF IsrReadFifo
    <3> QED BY <2>1, <2>3, <2>5, <3>1, <3>2, <3>3 DEF Moves, IsMadeUp
  <2> QED BY <2>4, <2>5
<1>3. CASE IsrPush
  <2>1. UNCHANGED <<last, sent, got, hand, job, pc, fifo>> /\ pc # "unflag"
      BY <1>3, <1>0 DEF IsrPush, StashOK
  <2>2. CASE rx_ring_buf' = rx_ring_buf \o rx_data_buf /\ rx_data_buf' = <<>> /\ UNCHANGED overrun
    <3>1. UNCHANGED Held /\ Ring' = Ring \o rx_data_buf
        BY <2>1, <2>2 DEF Held, Ring
    <3> QED BY <2>1, <2>2, <3>1 DEF Moves, IsPushed
  <2>3. CASE overrun' /\ UNCHANGED <<rx_ring_buf, rx_data_buf>>
    <3>1. UNCHANGED <<Held, Ring>>
        BY <2>1, <2>3 DEF Held, Ring
    <3> QED BY <2>1, <2>3, <3>1 DEF Moves, Waits, Parts
  <2> QED BY <1>3, <2>2, <2>3 DEF IsrPush
<1>4. CASE IsrOverflow
  <2>1. UNCHANGED <<last, sent, got, overrun, hand, job, pc, rx_ring_buf, rx_data_buf>> /\ fifo' = <<>>
      BY <1>4 DEF IsrOverflow
  <2>2. UNCHANGED <<Held, Ring>>
      BY <2>1 DEF Held, Ring
  <2>3. overrun'
      BY <1>4, <1>0, <2>1 DEF IsrOverflow, DropsOK
  <2> QED BY <2>1, <2>2, <2>3 DEF Moves, IsDropped
<1>5. CASE uart_param_config
  <2>1. UNCHANGED <<last, sent, got, hand, job, rx_ring_buf, rx_data_buf>> /\ fifo' = <<>>
      BY <1>5 DEF uart_param_config
  <2>2. UNCHANGED <<Held, Ring>>
      BY <1>5, <2>1 DEF uart_param_config, Held, Ring
  <2>3. (overrun => overrun') /\ (overrun' \/ fifo = <<>>)
      BY <1>5 DEF uart_param_config
  <2> QED BY <2>1, <2>2, <2>3 DEF Moves, IsDropped, Waits, Parts
<1>6. CASE NextEvent
  <2>1. UNCHANGED <<history, buffer, fifo, hand>> /\ hand = <<>> /\ pc # "unflag" /\ pc' # "unflag"
      BY <1>6, <1>0 DEF NextEvent, TaskOK
  <2>2. UNCHANGED <<Held, Ring>>
      BY <2>1 DEF Held, Ring
  <2> QED BY <2>1, <2>2 DEF Moves, Waits, Parts
<1>7. CASE ReadByte
  <2>1. /\ UNCHANGED <<history, rx_data_buf, fifo, job>>
        /\ hand = <<>> /\ job = "read" /\ pc # "unflag" /\ pc' # "unflag"
        /\ rx_ring_buf # <<>> /\ hand' = <<Head(rx_ring_buf)>> /\ rx_ring_buf' = Tail(rx_ring_buf)
      BY <1>7, <1>0 DEF ReadByte, TaskOK, ListenerAt
  <2>2. Held = <<>> /\ Ring = rx_ring_buf /\ Held' = hand' /\ Ring' = rx_ring_buf'
      BY <2>1 DEF Held, Ring
  <2> QED BY <2>1, <2>2 DEF Moves, IsRead
<1>8. CASE ReturnItem
  <2>1. /\ UNCHANGED <<history, buffer, fifo, job>> /\ pc # "unflag" /\ pc' # "unflag"
        /\ job = "read" => hand' = hand
      BY <1>8 DEF ReturnItem
  <2>2. UNCHANGED <<Held, Ring>>
      BY <2>1 DEF Held, Ring
  <2> QED BY <2>1, <2>2 DEF Moves, Waits, Parts
<1>9. CASE SendStash
  <2>1. UNCHANGED <<history, rx_data_buf, fifo, job, hand>> /\ pc # "unflag"
      BY <1>9 DEF SendStash
  <2>2. UNCHANGED Held /\ Ring = rx_ring_buf
      BY <2>1 DEF Held, Ring
  <2>3. CASE pc' = "unflag" /\ rx_ring_buf' = rx_ring_buf \o rx_data_buf
    <3>1. Ring' = SubSeq(rx_ring_buf \o rx_data_buf, 1,
                         Len(rx_ring_buf \o rx_data_buf) - Len(rx_data_buf))
        BY <2>1, <2>3 DEF Ring
    <3>2. Ring' = rx_ring_buf
        BY <1>0, <3>1, FrontOf DEF BuffersOK
    <3> QED BY <2>1, <2>2, <3>2 DEF Moves, Waits, Parts
  <2>4. CASE pc' # "unflag" /\ UNCHANGED rx_ring_buf
    <3>1. Ring' = rx_ring_buf
        BY <2>4 DEF Ring
    <3> QED BY <2>1, <2>2, <3>1 DEF Moves, Waits, Parts
  <2> QED BY <1>9, <2>3, <2>4 DEF SendStash
<1>10. CASE ClearFlag
  <2>1. /\ UNCHANGED <<history, rx_ring_buf, fifo, job, hand>> /\ rx_data_buf' = <<>>
        /\ pc = "unflag" /\ pc' # "unflag"
      BY <1>10 DEF ClearFlag
  <2>2. UNCHANGED Held /\ Ring' = rx_ring_buf
      BY <2>1 DEF Held, Ring
  <2>3. Ring' = Ring \o rx_data_buf
      BY <2>1, <2>2, PartsOK
  <2> QED BY <2>1, <2>2, <2>3 DEF Moves, IsPushed
<1>11. CASE uart_reenable_intr_mask
  <2>1. /\ UNCHANGED <<history, buffer, fifo, hand>> /\ pc # "unflag"
        /\ job' = job \/ hand = <<>>
      BY <1>0, <1>11 DEF uart_reenable_intr_mask, TaskOK
  <2>2. pc' # "unflag"
      BY <1>11, <1>0 DEF uart_reenable_intr_mask, PlacesOK
  <2>3. UNCHANGED <<Held, Ring>>
      BY <2>1, <2>2 DEF Held, Ring
  <2> QED BY <2>1, <2>3 DEF Moves, Waits, Parts
<1>12. CASE SHELL_RecvChar
  <2>1. /\ UNCHANGED <<buffer, fifo, job, sent, overrun>> /\ pc # "unflag" /\ pc' # "unflag"
        /\ last' = (IF hand[1] = Noise THEN last ELSE hand[1])
        /\ got' = (got \/ hand[1] = Watched) /\ hand' = <<>>
      BY <1>12 DEF SHELL_RecvChar
  <2>2. hand \in Seq(Byte) /\ Len(hand) = 1 /\ job = "read"
      BY <1>12, <1>0 DEF SHELL_RecvChar, TaskOK, BuffersOK, ListenerAt
  <2>3. hand[1] \in Byte /\ hand = <<hand[1]>>
      BY <2>2, SingleByte
  <2>4. Held = hand /\ Held' = <<>> /\ UNCHANGED Ring
      BY <2>1, <2>2 DEF Held, Ring
  <2>5. IsGiven
      BY <2>1, <2>3, <2>4 DEF IsGiven
  <2> QED BY <2>1, <2>5 DEF Moves
<1>13. CASE FlushReceive
  <2>1. /\ UNCHANGED <<last, sent, got, rx_data_buf, fifo, job>> /\ job # "read"
        /\ pc # "unflag" /\ pc' # "unflag"
      BY <1>13, <1>0 DEF FlushReceive, TaskOK
  <2>2. Held = <<>> /\ Held' = <<>> /\ Ring = rx_ring_buf /\ Ring' = rx_ring_buf'
      BY <2>1 DEF Held, Ring
  <2>3. CASE UNCHANGED <<rx_ring_buf, overrun>>
      BY <2>1, <2>2, <2>3 DEF Moves, Waits, Parts
  <2>4. ASSUME NEW n \in 1..Len(rx_ring_buf),
               rx_ring_buf' = SubSeq(rx_ring_buf, n + 1, Len(rx_ring_buf)),
               overrun' = (overrun \/ job = "init")
        PROVE  Moves
    <3>1. overrun'
        BY <1>0, <2>1, <2>4 DEF DropsOK, PlacesOK
    <3>2. IsDropped
        BY <2>1, <2>2, <2>4, <3>1 DEF IsDropped
    <3> QED BY <3>1, <3>2 DEF Moves
  <2> QED BY <1>13, <2>3, <2>4 DEF FlushReceive
<1>14. CASE FlushClear
  <2>1. /\ UNCHANGED <<history, rx_ring_buf, fifo, job, hand>>
        /\ pc # "unflag" /\ pc' # "unflag"
        /\ rx_data_buf' = IF rx_buffer_full_flg THEN <<>> ELSE rx_data_buf
      BY <1>14 DEF FlushClear
  <2>2. UNCHANGED <<Held, Ring>>
      BY <2>1 DEF Held, Ring
  <2>3. rx_buffer_full_flg => overrun'
      BY <1>0, <2>1 DEF DropsOK
  <2>4. CASE rx_buffer_full_flg
      BY <2>1, <2>2, <2>3, <2>4 DEF Moves, IsDropped
  <2>5. CASE ~rx_buffer_full_flg
      BY <2>1, <2>2, <2>5 DEF Moves, Waits, Parts
  <2> QED BY <2>4, <2>5
<1>15. CASE FlushReset
  <2>1. /\ UNCHANGED <<last, sent, got, rx_ring_buf, rx_data_buf, job, hand>> /\ fifo' = <<>>
        /\ pc # "unflag" /\ pc' # "unflag" /\ job # "read"
        /\ overrun' = (overrun \/ (job = "init" /\ fifo # <<>>))
      BY <1>15, <1>0 DEF FlushReset, TaskOK
  <2>2. UNCHANGED <<Held, Ring>>
      BY <2>1 DEF Held, Ring
  <2>3. (overrun => overrun') /\ (overrun' \/ fifo = <<>>)
      BY <1>0, <2>1 DEF DropsOK, PlacesOK
  <2> QED BY <2>1, <2>2, <2>3 DEF Moves, IsDropped, Waits, Parts
<1>16. CASE \/ IsrEnter \/ IsrReadLength \/ IsrAck \/ IsrFlag \/ IsrMask \/ IsrClear
         \/ IsrPost \/ uart_driver_install \/ InitFails \/ uart_set_pin
         \/ ReadTimeout \/ FlushDisable \/ UNCHANGED uvars
  <2>1. /\ UNCHANGED <<history, rx_ring_buf, rx_data_buf, fifo, job, hand>>
        /\ pc = "unflag" <=> pc' = "unflag"
      BY <1>16
      DEF
          IsrEnter, IsrReadLength, IsrAck, IsrFlag, IsrMask, IsrClear, IsrPost,
          uart_driver_install, InitFails, uart_set_pin, ReadTimeout, FlushDisable, uvars
  <2>2. UNCHANGED <<Held, Ring>>
      BY <2>1 DEF Held, Ring
  <2> QED BY <2>1, <2>2 DEF Moves, Waits, Parts
<1>17. CASE CreateListener
  <2>1. /\ UNCHANGED <<history, rx_ring_buf, rx_data_buf, fifo, hand>>
        /\ pc # "unflag" /\ pc' # "unflag" /\ hand = <<>>
      BY <1>0, <1>17 DEF CreateListener, TaskOK
  <2>2. UNCHANGED <<Held, Ring>>
      BY <2>1 DEF Held, Ring
  <2> QED BY <2>1, <2>2 DEF Moves, Waits, Parts
<1> QED
    BY <1>1, <1>2, <1>3, <1>4, <1>5, <1>6, <1>7, <1>8, <1>9, <1>10, <1>11, <1>12, <1>13, <1>14, <1>15, <1>16, <1>17
    DEF ShellNext, Isr, InitCom, Task

-----------------------------------------------------------------------------
(* The moves keep the order, and lose no byte unless they drop one. *)

(* The parts of a way, named for the same reason as Three. *)
WayParts(l, h, r, d, f) ==
    /\ l \in Byte /\ h \in Seq(Byte) /\ r \in Seq(Byte)
    /\ d \in Seq(Byte) /\ f \in Seq(Byte)

(* The way and its ends are sequences. *)
LEMMA WayOK ==
    ASSUME NEW l, NEW h, NEW r, NEW d, NEW f, WayParts(l, h, r, d, f)
    PROVE  /\ <<l>> \in Seq(Byte) /\ <<l>> \o h \in Seq(Byte) /\ <<l>> \o h \o r \in Seq(Byte)
           /\ <<l>> \o h \o r \o d \in Seq(Byte) /\ Way(l, h, r, d, f) \in Seq(Byte)
           /\ r \o d \o f \in Seq(Byte) /\ h \o r \o d \o f \in Seq(Byte)
<1>0. /\ l \in Byte /\ h \in Seq(Byte) /\ r \in Seq(Byte)
      /\ d \in Seq(Byte) /\ f \in Seq(Byte)
    BY DEF WayParts
<1>1. <<l>> \in Seq(Byte)
    BY <1>0
<1>2. <<l>> \o h \in Seq(Byte) /\ h \o r \in Seq(Byte) /\ r \o d \in Seq(Byte)
    BY <1>0, <1>1, Joined
<1>3. <<l>> \o h \o r \in Seq(Byte) /\ h \o r \o d \in Seq(Byte) /\ r \o d \o f \in Seq(Byte)
    BY <1>0, <1>2, Joined
<1>4. <<l>> \o h \o r \o d \in Seq(Byte) /\ h \o r \o d \o f \in Seq(Byte)
    BY <1>0, <1>3, Joined
<1>5. Way(l, h, r, d, f) \in Seq(Byte)
    BY <1>0, <1>4, Joined DEF Way
<1> QED BY <1>1, <1>2, <1>3, <1>4, <1>5

(* The way cut behind the last byte given, and behind the task's hand. *)
AfterLast(l, h, r, d, f) == <<l>> \o (h \o r \o d \o f)
AfterHand(l, h, r, d, f) == (<<l>> \o h) \o (r \o d \o f)

(* The cuts are ways to read the way. *)
LEMMA WayCut ==
    ASSUME NEW l, NEW h, NEW r, NEW d, NEW f, WayParts(l, h, r, d, f)
    PROVE  /\ Way(l, h, r, d, f) = AfterLast(l, h, r, d, f)
           /\ Way(l, h, r, d, f) = AfterHand(l, h, r, d, f)
<1>0. /\ l \in Byte /\ h \in Seq(Byte) /\ r \in Seq(Byte)
      /\ d \in Seq(Byte) /\ f \in Seq(Byte)
    BY DEF WayParts
<1>1. <<l>> \in Seq(Byte)
    BY <1>0
<1>2. <<l>> \o h \in Seq(Byte) /\ r \o d \in Seq(Byte)
    BY <1>0, <1>1, Joined
<1>3. r \o d \o f \in Seq(Byte)
    BY <1>0, <1>2, Joined
<1>6. <<l>> \o h \o r \o d = (<<l>> \o h) \o (r \o d)
  <2>1. Three(<<l>> \o h, r, d)
      BY <1>0, <1>2 DEF Three
  <2> QED BY <2>1, Assoc
<1>7. Way(l, h, r, d, f) = (<<l>> \o h) \o (r \o d \o f)
  <2> DEFINE a == <<l>> \o h
             b == r \o d
  <2>1. a \in Seq(Byte) /\ b \in Seq(Byte) /\ Way(l, h, r, d, f) = (a \o b) \o f
      BY <1>2, <1>6 DEF Way
  <2> HIDE DEF a, b
  <2>2. Three(a, b, f)
      BY <1>0, <2>1 DEF Three
  <2>3. (a \o b) \o f = a \o (b \o f)
      BY <2>2, Assoc
  <2> QED BY <2>1, <2>3 DEF a, b
<1>8. <<l>> \o (h \o (r \o d \o f)) = (<<l>> \o h) \o (r \o d \o f)
  <2> DEFINE a == <<l>>
             b == r \o d \o f
  <2>1. Three(a, h, b)
      BY <1>0, <1>1, <1>3 DEF Three
  <2> HIDE DEF a, b
  <2>2. a \o (h \o b) = (a \o h) \o b
      BY <2>1, Assoc
  <2> QED BY <2>2 DEF a, b
<1>9. h \o (r \o d \o f) = h \o r \o d \o f
  <2>1. h \o (r \o d \o f) = h \o (r \o d) \o f
    <3>1. Three(h, r \o d, f)
        BY <1>0, <1>2 DEF Three
    <3> QED BY <3>1, Assoc
  <2>2. h \o (r \o d) = h \o r \o d
    <3>1. Three(h, r, d)
        BY <1>0 DEF Three
    <3> QED BY <3>1, Assoc
  <2> QED BY <2>1, <2>2
<1>10. <<l>> \o (h \o r \o d \o f) = (<<l>> \o h) \o (r \o d \o f)
    BY <1>8, <1>9, Zenon
<1> QED BY <1>7, <1>10, Zenon DEF AfterLast, AfterHand

(* A byte from the line goes to the end of the way. *)
LEMMA ArrivesInOrder ==
    ASSUME NEW l \in Byte, NEW h \in Seq(Byte), NEW r \in Seq(Byte),
           NEW d \in Seq(Byte), NEW f \in Seq(Byte), NEW s \in Byte,
           Sound(Way(l, h, r, d, f), s),
           NEW c \in IF s = Earlier THEN {Earlier, Watched} ELSE {Later}
    PROVE  Sound(Way(l, h, r, d, f), c) /\ Sound(Way(l, h, r, d, f \o <<c>>), c)
<1> DEFINE lhrd == <<l>> \o h \o r \o d
<1>0. WayParts(l, h, r, d, f)
    BY DEF WayParts
<1>1. c \in Byte /\ lhrd \in Seq(Byte)
    BY <1>0, WayOK DEF Byte
<1>2. <<c>> \in Seq(Byte)
    BY <1>1
<1>3. Way(l, h, r, d, f \o <<c>>) = Way(l, h, r, d, f) \o <<c>>
  <2>1. Three(lhrd, f, <<c>>)
      BY <1>1, <1>2 DEF Three
  <2> QED BY <2>1, Assoc DEF Way
<1>4. Way(l, h, r, d, f) \in Seq(Byte)
    BY <1>0, WayOK
<1> QED BY <1>3, <1>4, SoundAppended

(* The byte the task reads stays in its place on the way. *)
LEMMA ReadInOrder ==
    ASSUME NEW l \in Byte, NEW r \in Seq(Byte), NEW d \in Seq(Byte), NEW f \in Seq(Byte),
           NEW s \in Byte, Sound(Way(l, <<>>, r, d, f), s), r # <<>>
    PROVE  Sound(Way(l, <<Head(r)>>, Tail(r), d, f), s)
<1>1. Head(r) \in Byte /\ Tail(r) \in Seq(Byte) /\ <<Head(r)>> \o Tail(r) = r
    BY EndsOf
<1>2. <<Head(r)>> \in Seq(Byte) /\ <<l>> \in Seq(Byte)
    BY <1>1
<1>3. (<<l>> \o <<Head(r)>>) \o Tail(r) = <<l>> \o r
  <2>1. Three(<<l>>, <<Head(r)>>, Tail(r))
      BY <1>1, <1>2 DEF Three
  <2>2. (<<l>> \o <<Head(r)>>) \o Tail(r) = <<l>> \o (<<Head(r)>> \o Tail(r))
      BY <2>1, Assoc
  <2> QED BY <1>1, <2>2
<1>4. <<l>> \o <<>> = <<l>>
    BY <1>2, EndsOf
<1>5. Way(l, <<Head(r)>>, Tail(r), d, f) = Way(l, <<>>, r, d, f)
    BY <1>3, <1>4 DEF Way
<1> QED BY <1>5

(* The other moves keep the way in order: the handler takes a byte from    *)
(* the FIFO or makes one up, the stash is pushed, a byte is given to the   *)
(* shell, or a part is dropped.                                            *)
LEMMA KeepsOrder ==
    ASSUME NEW l \in Byte, NEW h \in Seq(Byte), NEW r \in Seq(Byte),
           NEW d \in Seq(Byte), NEW f \in Seq(Byte), NEW s \in Byte,
           Sound(Way(l, h, r, d, f), s)
    PROVE  /\ f # <<>> => Sound(Way(l, h, r, d \o <<Head(f)>>, Tail(f)), s)
           /\ f = <<>> => Sound(Way(l, h, r, d \o <<Noise>>, f), s)
           /\ Sound(Way(l, h, r \o d, <<>>, f), s)
           /\ \A b \in Byte : h = <<b>> => Sound(Way(b, <<>>, r, d, f), s)
           /\ Sound(Way(l, <<>>, r, d, f), s)
           /\ Sound(Way(l, h, r, d, <<>>), s)
           /\ Sound(Way(l, h, r, <<>>, f), s)
           /\ \A n \in 0..Len(r) : Sound(Way(l, h, SubSeq(r, n + 1, Len(r)), d, f), s)
<1> DEFINE lh == <<l>> \o h
           lhr == <<l>> \o h \o r
           lhrd == <<l>> \o h \o r \o d
           rdf == r \o d \o f
<1>0. WayParts(l, h, r, d, f)
    BY DEF WayParts
<1>1. /\ lh \in Seq(Byte) /\ lhr \in Seq(Byte) /\ lhrd \in Seq(Byte) /\ rdf \in Seq(Byte)
      /\ <<>> \in Seq(Byte) /\ <<l>> \in Seq(Byte)
    BY <1>0, WayOK
<1>2. Way(l, h, r, d, f) = lhrd \o f /\ lhrd = lhr \o d /\ lhr = lh \o r /\ lh = <<l>> \o h
    BY DEF Way
<1>3. f # <<>> => Sound(Way(l, h, r, d \o <<Head(f)>>, Tail(f)), s)
  <2> DEFINE a == <<Head(f)>>
             t == Tail(f)
  <2>1. SUFFICES ASSUME f # <<>> PROVE Way(l, h, r, d \o a, t) = Way(l, h, r, d, f)
      OBVIOUS
  <2>2. Head(f) \in Byte /\ t \in Seq(Byte) /\ a \o t = f
      BY <2>1, EndsOf
  <2>3. a \in Seq(Byte)
      BY <2>2
  <2> HIDE DEF a, t
  <2>4. lhr \o (d \o a) = (lhr \o d) \o a
    <3>1. Three(lhr, d, a)
        BY <1>1, <2>3 DEF Three
    <3> HIDE DEF lhr
    <3> QED BY <3>1, Assoc
  <2>5. (lhrd \o a) \o t = lhrd \o (a \o t)
    <3>1. Three(lhrd, a, t)
        BY <1>1, <2>2, <2>3 DEF Three
    <3> HIDE DEF lhrd
    <3> QED BY <3>1, Assoc
  <2>6. Way(l, h, r, d \o a, t) = (lhr \o (d \o a)) \o t
      BY DEF Way
  <2> HIDE DEF lhr, lhrd
  <2> QED BY <1>2, <2>2, <2>4, <2>5, <2>6
<1>10. f = <<>> => Sound(Way(l, h, r, d \o <<Noise>>, f), s)
  <2> DEFINE a == <<Noise>>
  <2>1. SUFFICES ASSUME f = <<>> PROVE Sound(Way(l, h, r, d \o a, f), s)
      OBVIOUS
  <2>2. a \in Seq(Byte)
      BY DEF Byte
  <2>3. lhr \o (d \o a) = (lhr \o d) \o a
    <3>1. Three(lhr, d, a)
        BY <1>1, <2>2 DEF Three
    <3> HIDE DEF a, lhr
    <3> QED BY <3>1, Assoc
  <2>4. Way(l, h, r, d \o a, f) = (lhr \o (d \o a)) \o f
      BY DEF Way
  <2>5. Sound(lhrd \o a, s)
    <3>1. Sound(lhrd, s)
        BY <1>1, <1>2, <2>1, EndsOf
    <3> QED BY <1>1, <3>1, SoundMadeUp
  <2> HIDE DEF a
  <2>6. lhrd \o a \in Seq(Byte)
      BY <1>1, <2>2, Joined
  <2> HIDE DEF lhr, lhrd
  <2>7. (lhrd \o a) \o f = lhrd \o a
      BY <2>1, <2>6, EndsOf
  <2> QED BY <1>2, <2>3, <2>4, <2>5, <2>7
<1>4. Sound(Way(l, h, r \o d, <<>>, f), s)
  <2>1. Way(l, h, r \o d, <<>>, f) = ((lh \o (r \o d)) \o <<>>) \o f
      BY DEF Way
  <2>2. lh \o (r \o d) = lhr \o d
    <3>1. Three(lh, r, d)
        BY <1>1 DEF Three
    <3> QED BY <3>1, Assoc
  <2> HIDE DEF lh, lhr, lhrd
  <2>3. (lh \o (r \o d)) \o <<>> = lhrd
      BY <1>1, <1>2, <2>2, EndsOf
  <2> QED BY <1>2, <2>1, <2>3
<1>5. ASSUME NEW b \in Byte, h = <<b>> PROVE Sound(Way(b, <<>>, r, d, f), s)
  <2> DEFINE w == <<b>> \o (r \o d \o f)
  <2>1. h \in Seq(Byte) /\ <<b>> \in Seq(Byte) /\ w \in Seq(Byte)
      BY <1>1, <1>5, Joined
  <2>2. (<<>> \o <<l>>) \o w = Way(l, h, r, d, f)
    <3>1. <<>> \o <<l>> = <<l>>
        BY <1>1, EndsOf
    <3>2. <<l>> \o w = (<<l>> \o <<b>>) \o rdf
      <4>1. Three(<<l>>, <<b>>, rdf)
          BY <1>1, <2>1 DEF Three
      <4> QED BY <4>1, Assoc
    <3>3. Way(l, h, r, d, f) = AfterHand(l, h, r, d, f)
        BY <1>0, WayCut
    <3> QED BY <1>5, <3>1, <3>2, <3>3, Zenon DEF AfterHand
  <2>3. Sound(<<>> \o w, s)
    <3> DEFINE e == <<>>
               k == <<l>>
    <3>1. e \in Seq(Byte) /\ k \in Seq(Byte) /\ w \in Seq(Byte) /\ Sound((e \o k) \o w, s)
        BY <1>1, <2>1, <2>2
    <3> HIDE DEF e, k, w
    <3>2. Sound(e \o w, s)
        BY <3>1, SoundDropped
    <3> QED BY <3>2 DEF e
  <2>4. Way(b, <<>>, r, d, f) = (<<b>> \o <<>>) \o (r \o d \o f)
    <3> DEFINE e == <<>>
    <3>1. WayParts(b, e, r, d, f)
        BY DEF WayParts
    <3> HIDE DEF e
    <3>2. Way(b, e, r, d, f) = AfterHand(b, e, r, d, f)
        BY <3>1, WayCut
    <3> QED BY <3>2, Zenon DEF e, AfterHand
  <2>5. <<>> \o w = w /\ <<b>> \o <<>> = <<b>>
      BY <2>1, EndsOf
  <2> QED BY <2>3, <2>4, <2>5
<1>9. Sound(Way(l, <<>>, r, d, f), s)
  <2> DEFINE e == <<>>
             k == <<l>>
  <2>1. WayParts(l, e, r, d, f)
      BY DEF WayParts
  <2>2. Way(l, h, r, d, f) = (k \o h) \o rdf
    <3>1. Way(l, h, r, d, f) = AfterHand(l, h, r, d, f)
        BY <1>0, WayCut
    <3> QED BY <3>1, Zenon DEF AfterHand
  <2>3. Sound(k \o rdf, s)
    <3>1. k \in Seq(Byte) /\ rdf \in Seq(Byte) /\ Sound((k \o h) \o rdf, s)
        BY <1>1, <2>2
    <3> HIDE DEF k, rdf
    <3> QED BY <3>1, SoundDropped
  <2>4. k \o e = k
      BY <1>1, EndsOf
  <2> HIDE DEF e
  <2>5. Way(l, e, r, d, f) = AfterHand(l, e, r, d, f)
      BY <2>1, WayCut
  <2>6. Way(l, e, r, d, f) = k \o rdf
      BY <2>4, <2>5, Zenon DEF AfterHand
  <2> QED BY <2>3, <2>6 DEF e
<1>6. Sound(Way(l, h, r, d, <<>>), s)
  <2>1. Way(l, h, r, d, <<>>) = lhrd \o <<>>
      BY DEF Way
  <2>2. (lhrd \o f) \o <<>> = Way(l, h, r, d, f)
      BY <1>1, <1>2, Joined, EndsOf
  <2> DEFINE e == <<>>
  <2>3. e \in Seq(Byte) /\ lhrd \in Seq(Byte) /\ Sound((lhrd \o f) \o e, s)
      BY <1>1, <2>2
  <2> HIDE DEF lhrd, e
  <2>4. Sound(lhrd \o e, s)
      BY <2>3, SoundDropped
  <2> QED BY <2>1, <2>4 DEF e
<1>7. Sound(Way(l, h, r, <<>>, f), s)
  <2>1. Way(l, h, r, <<>>, f) = (lhr \o <<>>) \o f
      BY DEF Way
  <2>2. lhr \o <<>> = lhr
      BY <1>1, EndsOf
  <2>3. lhr \in Seq(Byte) /\ Sound((lhr \o d) \o f, s)
      BY <1>1, <1>2
  <2> HIDE DEF lhr
  <2>4. Sound(lhr \o f, s)
      BY <2>3, SoundDropped
  <2> QED BY <2>1, <2>2, <2>4
<1>8. ASSUME NEW n \in 0..Len(r) PROVE Sound(Way(l, h, SubSeq(r, n + 1, Len(r)), d, f), s)
  <2> DEFINE a == SubSeq(r, 1, n)
             c == SubSeq(r, n + 1, Len(r))
             w == c \o d \o f
  <2>1. a \in Seq(Byte) /\ c \in Seq(Byte) /\ a \o c = r
      BY CutInTwo
  <2>0. a \in Seq(Byte) /\ c \in Seq(Byte)
      BY <2>1
  <2> HIDE DEF a, c
  <2>2. w \in Seq(Byte) /\ c \o d \in Seq(Byte)
      BY <2>1, Joined
  <2>3. r \o d \o f = a \o w
    <3>1. (a \o c) \o d = a \o (c \o d)
      <4>1. Three(a, c, d)
          BY <2>0 DEF Three
      <4> QED BY <4>1, Assoc
    <3>2. (a \o (c \o d)) \o f = a \o (c \o d \o f)
      <4> DEFINE x == c \o d
      <4>1. Three(a, x, f)
          BY <2>0, <2>2 DEF Three
      <4> HIDE DEF x
      <4>2. (a \o x) \o f = a \o (x \o f)
          BY <4>1, Assoc
      <4> QED BY <4>2 DEF x
    <3> QED BY <2>1, <3>1, <3>2, Zenon
  <2>4. (lh \o a) \o w = Way(l, h, r, d, f)
    <3>0. Way(l, h, r, d, f) = AfterHand(l, h, r, d, f)
        BY <1>0, WayCut
    <3>1. Way(l, h, r, d, f) = lh \o (r \o d \o f)
        BY <3>0, Zenon DEF AfterHand
    <3>2. Three(lh, a, w)
        BY <1>1, <2>0, <2>2 DEF Three
    <3> HIDE DEF lh, w
    <3>3. (lh \o a) \o w = lh \o (a \o w)
        BY <3>2, Assoc
    <3> QED BY <2>3, <3>1, <3>3, Zenon
  <2>5. Sound(lh \o w, s)
    <3>1. Sound((lh \o a) \o w, s)
        BY <2>4
    <3> HIDE DEF lh, w
    <3> QED BY <1>1, <2>1, <2>2, <3>1, SoundDropped
  <2>6. Way(l, h, c, d, f) = lh \o w
    <3>1. WayParts(l, h, c, d, f)
        BY <2>0 DEF WayParts
    <3>2. Way(l, h, c, d, f) = AfterHand(l, h, c, d, f)
        BY <3>1, WayCut
    <3> QED BY <3>2, Zenon DEF AfterHand
  <2> QED BY <2>5, <2>6 DEF c
<1> QED BY <1>3, <1>4, <1>5, <1>6, <1>7, <1>8, <1>9, <1>10

(* Every move keeps the order. *)
LEMMA OrderStep ==
    ASSUME ControlInv, OrderOK, Moves
    PROVE  OrderOK'
<1> DEFINE l == last
           h == Held
           r == Ring
           d == rx_data_buf
           f == fifo
           s == sent
<1>1. /\ l \in Byte /\ s \in Byte
      /\ h \in Seq(Byte) /\ r \in Seq(Byte) /\ d \in Seq(Byte) /\ f \in Seq(Byte)
    BY PartsOK
<1>2. Sound(Way(l, h, r, d, f), s)
    BY DEF OrderOK
<1>3. OrderOK' <=> Sound(Way(last', Held', Ring', rx_data_buf', fifo'), sent')
    BY DEF OrderOK
<1>4. CASE Waits
    BY <1>2, <1>3, <1>4 DEF Waits, Parts
<1>5. CASE Arrives
  <2>1. PICK c \in IF s = Earlier THEN {Earlier, Watched} ELSE {Later} :
            sent' = c /\ (fifo' = f \o <<c>> \/ fifo' = f)
      BY <1>5 DEF Arrives
  <2>2. last' = l /\ Held' = h /\ Ring' = r /\ rx_data_buf' = d
      BY <1>5 DEF Arrives
  <2> HIDE DEF l, h, r, d, f, s
  <2>3. Sound(Way(l, h, r, d, f), c) /\ Sound(Way(l, h, r, d, f \o <<c>>), c)
      BY <1>1, <1>2, ArrivesInOrder
  <2> QED BY <1>3, <2>1, <2>2, <2>3
<1>6. CASE IsTaken
  <2>1. /\ f # <<>> /\ rx_data_buf' = d \o <<Head(f)>> /\ fifo' = Tail(f)
        /\ last' = l /\ Held' = h /\ Ring' = r /\ sent' = s
      BY <1>6 DEF IsTaken
  <2> HIDE DEF l, h, r, d, f, s
  <2>2. Sound(Way(l, h, r, d \o <<Head(f)>>, Tail(f)), s)
      BY <1>1, <1>2, <2>1, KeepsOrder
  <2> QED BY <1>3, <2>1, <2>2
<1>11. CASE IsMadeUp
  <2>1. /\ f = <<>> /\ rx_data_buf' = d \o <<Noise>> /\ fifo' = f
        /\ last' = l /\ Held' = h /\ Ring' = r /\ sent' = s
      BY <1>11 DEF IsMadeUp
  <2> HIDE DEF l, h, r, d, f, s
  <2>2. Sound(Way(l, h, r, d \o <<Noise>>, f), s)
      BY <1>1, <1>2, <2>1, KeepsOrder
  <2> QED BY <1>3, <2>1, <2>2
<1>7. CASE IsPushed
  <2>1. /\ Ring' = r \o d /\ rx_data_buf' = <<>>
        /\ last' = l /\ Held' = h /\ fifo' = f /\ sent' = s
      BY <1>7 DEF IsPushed
  <2> HIDE DEF l, h, r, d, f, s
  <2>2. Sound(Way(l, h, r \o d, <<>>, f), s)
      BY <1>1, <1>2, KeepsOrder
  <2> QED BY <1>3, <2>1, <2>2
<1>8. CASE IsRead
  <2>1. /\ h = <<>> /\ r # <<>> /\ Held' = <<Head(r)>> /\ Ring' = Tail(r)
        /\ last' = l /\ rx_data_buf' = d /\ fifo' = f /\ sent' = s
      BY <1>8 DEF IsRead
  <2> HIDE DEF l, h, r, d, f, s
  <2>2. Sound(Way(l, <<>>, r, d, f), s)
      BY <1>2, <2>1
  <2>3. Sound(Way(l, <<Head(r)>>, Tail(r), d, f), s)
      BY <1>1, <2>1, <2>2, ReadInOrder
  <2> QED BY <1>3, <2>1, <2>3
<1>9. CASE IsGiven
  <2>1. PICK b \in Byte : h = <<b>> /\ last' = IF b = Noise THEN l ELSE b
      BY <1>9 DEF IsGiven
  <2>2. Held' = <<>> /\ Ring' = r /\ rx_data_buf' = d /\ fifo' = f /\ sent' = s
      BY <1>9 DEF IsGiven
  <2> HIDE DEF l, h, r, d, f, s
  <2>3. Sound(Way(b, <<>>, r, d, f), s)
      BY <1>1, <1>2, <2>1, KeepsOrder
  <2>4. Sound(Way(l, <<>>, r, d, f), s)
      BY <1>1, <1>2, KeepsOrder
  <2> QED BY <1>3, <2>1, <2>2, <2>3, <2>4
<1>10. CASE IsDropped
  <2>1. last' = l /\ Held' = h /\ sent' = s
      BY <1>10 DEF IsDropped
  <2>2. \/ fifo' = <<>> /\ Ring' = r /\ rx_data_buf' = d
        \/ rx_data_buf' = <<>> /\ Ring' = r /\ fifo' = f
        \/ /\ \E n \in 1..Len(r) : Ring' = SubSeq(r, n + 1, Len(r))
           /\ rx_data_buf' = d /\ fifo' = f
      BY <1>10 DEF IsDropped
  <2> HIDE DEF l, h, r, d, f, s
  <2>3. /\ Sound(Way(l, h, r, d, <<>>), s) /\ Sound(Way(l, h, r, <<>>, f), s)
        /\ \A n \in 0..Len(r) : Sound(Way(l, h, SubSeq(r, n + 1, Len(r)), d, f), s)
      BY <1>1, <1>2, KeepsOrder
  <2>4. \A n \in 1..Len(r) : n \in 0..Len(r)
      BY <1>1
  <2> QED BY <1>3, <2>1, <2>2, <2>3, <2>4
<1> QED BY <1>4, <1>5, <1>6, <1>7, <1>8, <1>9, <1>10, <1>11 DEF Moves

(* Every move but a drop keeps the watched byte. *)
LEMMA LossStep ==
    ASSUME ControlInv, LossOK, Moves
    PROVE  LossOK'
<1>1. SUFFICES ASSUME ~overrun', sent' # Earlier
               PROVE  got' \/ Has(Watched, Held') \/ Has(Watched, Ring') \/ Has(Watched, rx_data_buf') \/ Has(Watched, fifo')
    BY DEF LossOK, Has
<1>2. ~overrun
    BY <1>1 DEF Moves
<1>3. /\ Held \in Seq(Byte) /\ Ring \in Seq(Byte)
      /\ rx_data_buf \in Seq(Byte) /\ fifo \in Seq(Byte)
    BY PartsOK
<1>4. sent # Earlier => got \/ Has(Watched, Held) \/ Has(Watched, Ring) \/ Has(Watched, rx_data_buf) \/ Has(Watched, fifo)
    BY <1>2 DEF LossOK
<1>5. ~Has(Watched, <<>>)
    BY DEF Has
<1>6. CASE Waits
    BY <1>1, <1>4, <1>6 DEF Waits, Parts
<1>7. CASE Arrives
  <2>1. PICK c \in IF sent = Earlier THEN {Earlier, Watched} ELSE {Later} :
            sent' = c /\ fifo' = fifo \o <<c>>
      BY <1>1, <1>7 DEF Arrives
  <2>2. c \in Byte
      BY DEF Byte
  <2>3. <<c>> \in Seq(Byte)
      BY <2>2
  <2>4. Has(Watched, fifo') <=> Has(Watched, fifo) \/ Has(Watched, <<c>>)
      BY <1>3, <2>1, <2>3, HasJoined
  <2>5. c = Watched => Has(Watched, <<c>>)
      BY DEF Has
  <2>6. sent = Earlier => c = Watched
      BY <1>1, <2>1
  <2> QED BY <1>4, <1>7, <2>4, <2>5, <2>6 DEF Arrives
<1>8. CASE IsTaken
  <2>1. /\ Has(Watched, fifo) => Has(Watched, <<Head(fifo)>>) \/ Has(Watched, Tail(fifo))
        /\ Has(Watched, rx_data_buf') <=> Has(Watched, rx_data_buf) \/ Has(Watched, <<Head(fifo)>>)
      BY <1>3, <1>8, HasTaken DEF IsTaken
  <2> QED BY <1>1, <1>4, <1>8, <2>1 DEF IsTaken
<1>13. CASE IsMadeUp
    BY <1>2, <1>13 DEF IsMadeUp
<1>9. CASE IsPushed
  <2>1. Has(Watched, Ring') <=> Has(Watched, Ring) \/ Has(Watched, rx_data_buf)
      BY <1>3, <1>9, HasJoined DEF IsPushed
  <2> QED BY <1>1, <1>4, <1>9, <2>1 DEF IsPushed
<1>10. CASE IsRead
  <2>1. Has(Watched, Ring) => Has(Watched, <<Head(Ring)>>) \/ Has(Watched, Tail(Ring))
      BY <1>3, <1>10, HasTaken DEF IsRead
  <2> QED BY <1>1, <1>4, <1>5, <1>10, <2>1 DEF IsRead
<1>11. CASE IsGiven
  <2>1. PICK b \in Byte : Held = <<b>> /\ got' = (got \/ b = Watched)
      BY <1>11 DEF IsGiven
  <2>2. Has(Watched, Held) => b = Watched
      BY <2>1 DEF Has
  <2>3. (got \/ b = Watched) => got'
      BY <2>1
  <2> QED BY <1>1, <1>4, <1>11, <2>2, <2>3 DEF IsGiven
<1>12. CASE IsDropped
    BY <1>1, <1>12 DEF IsDropped
<1> QED BY <1>6, <1>7, <1>8, <1>9, <1>10, <1>11, <1>12, <1>13 DEF Moves

(* Only IsMadeUp puts a byte on the way that has not come in. *)
LEMMA NoiseStep ==
    ASSUME ControlInv, NoiseOK, Moves
    PROVE  NoiseOK'
<1>1. SUFFICES ASSUME ~overrun'
               PROVE  ~(\/ Has(Noise, Held') \/ Has(Noise, Ring')
                        \/ Has(Noise, rx_data_buf') \/ Has(Noise, fifo'))
    BY DEF NoiseOK, Has
<1>2. ~overrun
    BY <1>1 DEF Moves
<1>3. /\ Held \in Seq(Byte) /\ Ring \in Seq(Byte)
      /\ rx_data_buf \in Seq(Byte) /\ fifo \in Seq(Byte)
    BY PartsOK
<1>4. ~(\/ Has(Noise, Held) \/ Has(Noise, Ring) \/ Has(Noise, rx_data_buf) \/ Has(Noise, fifo))
    BY <1>2 DEF NoiseOK
<1>5. ~Has(Noise, <<>>)
    BY DEF Has
<1>6. CASE Waits
    BY <1>4, <1>6 DEF Waits, Parts
<1>7. CASE Arrives
  <2>1. PICK c \in IF sent = Earlier THEN {Earlier, Watched} ELSE {Later} :
            fifo' = fifo \o <<c>>
      BY <1>1, <1>7 DEF Arrives
  <2>2. c \in Byte /\ c # Noise
      BY DEF Byte, Noise, Earlier, Watched, Later
  <2>3. <<c>> \in Seq(Byte) /\ ~Has(Noise, <<c>>)
      BY <2>2 DEF Has
  <2>4. Has(Noise, fifo') <=> Has(Noise, fifo) \/ Has(Noise, <<c>>)
      BY <1>3, <2>1, <2>3, HasJoined
  <2> QED BY <1>4, <1>7, <2>3, <2>4 DEF Arrives
<1>8. CASE IsTaken
  <2>1. /\ Has(Noise, <<Head(fifo)>>) \/ Has(Noise, Tail(fifo)) => Has(Noise, fifo)
        /\ Has(Noise, rx_data_buf') <=> Has(Noise, rx_data_buf) \/ Has(Noise, <<Head(fifo)>>)
      BY <1>3, <1>8, HasTaken DEF IsTaken
  <2> QED BY <1>4, <1>8, <2>1 DEF IsTaken
<1>9. CASE IsMadeUp
    BY <1>2, <1>9 DEF IsMadeUp
<1>10. CASE IsPushed
  <2>1. Has(Noise, Ring') <=> Has(Noise, Ring) \/ Has(Noise, rx_data_buf)
      BY <1>3, <1>10, HasJoined DEF IsPushed
  <2> QED BY <1>4, <1>5, <1>10, <2>1 DEF IsPushed
<1>11. CASE IsRead
  <2>1. Has(Noise, <<Head(Ring)>>) \/ Has(Noise, Tail(Ring)) => Has(Noise, Ring)
      BY <1>3, <1>11, HasTaken DEF IsRead
  <2> QED BY <1>4, <1>11, <2>1 DEF IsRead
<1>12. CASE IsGiven
    BY <1>4, <1>5, <1>12 DEF IsGiven
<1>13. CASE IsDropped
    BY <1>1, <1>13 DEF IsDropped
<1> QED BY <1>6, <1>7, <1>8, <1>9, <1>10, <1>11, <1>12, <1>13 DEF Moves

-----------------------------------------------------------------------------
(* ShellInv is an invariant of the two sides. *)
THEOREM ShellInvariance == ShellSpec => []ShellInv
<1>1. ShellInit => ShellInv
  <2>1. SUFFICES ASSUME ShellInit PROVE ShellInv
      OBVIOUS
  <2>2. BuffersOK
      BY <2>1, ShellAssumption DEF ShellInit, BuffersOK
  <2>3. /\ FlagsOK /\ PlacesOK /\ StashOK
        /\ TaskOK /\ TwiceOK
    <3>1. FlagsOK
        BY <2>1 DEF ShellInit, FlagsOK
    <3>2. PlacesOK
        BY <2>1 DEF ShellInit, PlacesOK, ListenerAt, Event, Byte, Noise, Earlier, Watched, Later
    <3>3. StashOK /\ TwiceOK
        BY <2>1 DEF ShellInit, StashOK, TwiceOK
    <3>4. TaskOK
        BY <2>1 DEF ShellInit, TaskOK, ListenerAt
    <3> QED BY <3>1, <3>2, <3>3, <3>4
  <2>4. DropsOK
      BY <2>1 DEF ShellInit, DropsOK
  <2>5. OrderOK
    <3>1. last = 0 /\ Held = <<>> /\ Ring = <<>> /\ rx_data_buf = <<>> /\ fifo = <<>> /\ sent = 0
        BY <2>1 DEF ShellInit, Held, Ring, Earlier
    <3>2. Way(0, <<>>, <<>>, <<>>, <<>>) = <<0>>
        BY DEF Way
    <3>3. Sound(<<0>>, 0)
        BY DEF Sound, Ordered
    <3> QED BY <3>1, <3>2, <3>3 DEF OrderOK
  <2>6. LossOK
      BY <2>1 DEF ShellInit, LossOK
  <2>7. NoiseOK
    <3>1. Held = <<>> /\ Ring = <<>> /\ rx_data_buf = <<>> /\ fifo = <<>>
        BY <2>1 DEF ShellInit, Held, Ring
    <3> QED BY <3>1 DEF NoiseOK, Has
  <2> QED BY <2>2, <2>3, <2>4, <2>5, <2>6, <2>7 DEF ShellInv, ControlInv
<1>2. ShellInv /\ [ShellNext]_uvars => ShellInv'
  <2>1. SUFFICES ASSUME ShellInv, [ShellNext]_uvars PROVE ShellInv'
      OBVIOUS
  <2>2. ControlInv'
      BY <2>1, ControlStep DEF ShellInv
  <2>3. Moves
      BY <2>1, MovesStep DEF ShellInv
  <2>4. OrderOK' /\ LossOK' /\ NoiseOK'
      BY <2>1, <2>3, OrderStep, LossStep, NoiseStep DEF ShellInv
  <2> QED BY <2>2, <2>4 DEF ShellInv
<1> QED BY <1>1, <1>2, PTL DEF ShellSpec

(* The buffers, the queue and the places of the handler and the task stay  *)
(* within their types and bounds.                                          *)
THEOREM ShellTypeCorrect == ShellSpec => []ShellTypeOK
<1>1. ShellInv => ShellTypeOK
  <2>1. SUFFICES ASSUME BuffersOK, FlagsOK, PlacesOK PROVE ShellTypeOK
      BY DEF ShellInv, ControlInv
  <2>2. /\ fifo \in BytesUpTo(FifoLen) /\ rx_data_buf \in BytesUpTo(FifoLen)
        /\ rx_ring_buf \in BytesUpTo(RingLen) /\ hand \in BytesUpTo(RingLen)
      BY <2>1, UpTo, ShellAssumption DEF BuffersOK
  <2>3. ToSet(event_queue) \subseteq Event
    <3>1. \A i \in DOMAIN event_queue : event_queue[i] \in Event
        BY <2>1 DEF BuffersOK
    <3> QED BY <3>1 DEF ToSet
  <2>4. rx_fifo_len \in 0..FifoLen
    <3>1. Len(rx_data_buf) \in Nat /\ rx_fifo_len \in Nat /\ Len(rx_data_buf) + rx_fifo_len <= FifoLen
        BY <2>1 DEF BuffersOK
    <3> QED BY <3>1, ShellAssumption
  <2> QED BY <2>1, <2>2, <2>3, <2>4 DEF ShellTypeOK, BuffersOK, FlagsOK, PlacesOK
<1> QED BY <1>1, ShellInvariance, PTL

(* Where the watched byte, or one that never came in, is on the way. *)
LEMMA HasOnTheWay ==
    ASSUME ControlInv, NEW x
    PROVE  /\ OnTheWay \in Seq(Byte)
           /\ Has(x, OnTheWay) <=>
                  Has(x, Held) \/ Has(x, Ring) \/ Has(x, rx_data_buf) \/ Has(x, fifo)
<1> DEFINE h == Held
           r == Ring
           d == rx_data_buf
           f == fifo
<1>1. OnTheWay = h \o r \o d \o f
    BY DEF OnTheWay, Held, Ring
<1>2. h \in Seq(Byte) /\ r \in Seq(Byte) /\ d \in Seq(Byte) /\ f \in Seq(Byte)
    BY PartsOK
<1> HIDE DEF h, r, d, f
<1>3. h \o r \in Seq(Byte) /\ (Has(x, h \o r) <=> Has(x, h) \/ Has(x, r))
    BY <1>2, HasJoined, Joined
<1>4. h \o r \o d \in Seq(Byte) /\ (Has(x, h \o r \o d) <=> Has(x, h \o r) \/ Has(x, d))
    BY <1>2, <1>3, HasJoined, Joined
<1>5. /\ h \o r \o d \o f \in Seq(Byte)
      /\ Has(x, h \o r \o d \o f) <=> Has(x, h \o r \o d) \/ Has(x, f)
    BY <1>2, <1>4, HasJoined, Joined
<1> QED BY <1>1, <1>3, <1>4, <1>5 DEF h, r, d, f

(* The shell gets the bytes that came in in their order and none twice,    *)
(* through full buffers, flushes and the exchange of rx_data_buf between   *)
(* uart_rx_intr_handler_default and uart_read_bytes; and it gets bytes     *)
(* that never came in, which the handler reads from a FIFO that            *)
(* uart_flush_input has reset, only after a buffer has been full or the    *)
(* initialisation has dropped bytes.                                       *)
THEOREM BytesAlwaysInOrder == ShellSpec => []BytesInOrder
<1>1. ShellInv => BytesInOrder
  <2>1. SUFFICES ASSUME ShellInv PROVE BytesInOrder
      OBVIOUS
  <2>2. ControlInv /\ OrderOK
      BY <2>1 DEF ShellInv
  <2>3. <<last>> \o OnTheWay = Way(last, Held, Ring, rx_data_buf, fifo)
    <3> DEFINE l == last
               h == Held
               r == Ring
               d == rx_data_buf
               f == fifo
    <3>1. OnTheWay = h \o r \o d \o f
        BY DEF OnTheWay, Held, Ring
    <3>2. /\ l \in Byte /\ h \in Seq(Byte) /\ r \in Seq(Byte)
          /\ d \in Seq(Byte) /\ f \in Seq(Byte)
        BY <2>2, PartsOK
    <3> HIDE DEF l, h, r, d, f
    <3>3. Way(l, h, r, d, f) = AfterLast(l, h, r, d, f)
      <4>1. WayParts(l, h, r, d, f)
          BY <3>2 DEF WayParts
      <4> QED BY <4>1, WayCut
    <3> QED BY <3>1, <3>3, Zenon DEF l, h, r, d, f, AfterLast
  <2> DEFINE way == <<last>> \o OnTheWay
  <2>4. Ordered(way)
      BY <2>2, <2>3 DEF OrderOK, Sound
  <2>5. Noise \in ToSet(way) => overrun
    <3>1. SUFFICES ASSUME Noise \in ToSet(way), ~overrun PROVE FALSE
        BY <2>1 DEF ShellInv, ControlInv, FlagsOK
    <3>2. <<last>> \in Seq(Byte) /\ last # Noise
        BY <2>2 DEF ControlInv, PlacesOK
    <3>3. ~Has(Noise, <<last>>)
        BY <3>2 DEF Has
    <3>4. OnTheWay \in Seq(Byte) /\ ~Has(Noise, OnTheWay)
        BY <2>1, <2>2, <3>1, HasOnTheWay DEF ShellInv, NoiseOK
    <3>5. way \in Seq(Byte) /\ ~Has(Noise, way)
        BY <3>2, <3>3, <3>4, HasJoined, Joined
    <3> HIDE DEF way
    <3> QED BY <3>1, <3>5 DEF ToSet, Has
  <2> QED BY <2>4, <2>5 DEF BytesInOrder, Ordered
<1> QED BY <1>1, ShellInvariance, PTL

(* As long as no buffer has been full, no byte that came in is lost        *)
(* between the FIFO and SHELL_RecvChar.                                    *)
THEOREM LossAlwaysNeedsOverrun == ShellSpec => []LossNeedsOverrun
<1>1. ShellInv => LossNeedsOverrun
  <2>1. SUFFICES ASSUME ShellInv, ~overrun, sent # Earlier, ~got
                 PROVE  Watched \in ToSet(OnTheWay)
      BY DEF LossNeedsOverrun
  <2>2. ControlInv /\ LossOK
      BY <2>1 DEF ShellInv
  <2>3. OnTheWay \in Seq(Byte) /\ Has(Watched, OnTheWay)
      BY <2>1, <2>2, HasOnTheWay DEF LossOK
  <2> QED BY <2>3 DEF Has, ToSet
<1> QED BY <1>1, ShellInvariance, PTL

=============================================================================

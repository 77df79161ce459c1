----------------------------- MODULE ShellUart -----------------------------
(***************************************************************************)
(* The shell's input over a UART: main/HWI/shellComUART.c, its listener    *)
(* task and the receive side of the ESP-IDF driver esp_driver_uart/src/    *)
(* uart.c with its ring buffer.  The interrupt handler and the task run on *)
(* different cores; a step is one access to what both can see, a critical  *)
(* section or a call of the ring buffer or the event queue.                *)
(*                                                                         *)
(* The values of bytes play no part.  One of them, any one, is watched;    *)
(* those before and after it are only told apart from it.  rx_mux has one  *)
(* user at a time and is left out; so is rx_buffered_len, which the task   *)
(* asks for and does not use, and so are the events the task ignores       *)
(* (breaks, frame errors), which take a place in the queue as UART_DATA    *)
(* does.                                                                   *)
(***************************************************************************)
EXTENDS Integers, Sequences, SequencesExt

CONSTANTS
    FifoLen,    \* UART_HW_FIFO_LEN
    RingLen,    \* the rx_buffer_size given to uart_driver_install
    QueueLen    \* UART_EVENT_QUEUE_SIZE

(* uart_driver_install refuses a ring buffer that a full FIFO cannot fit. *)
ASSUME ShellAssumption ==
    /\ FifoLen \in Nat \ {0} /\ QueueLen \in Nat \ {0}
    /\ RingLen \in Nat /\ RingLen > FifoLen

VARIABLES
    installed,      \* p_uart_obj[uart_num] # NULL
    fifo,           \* the hardware's FIFO
    raised, ovf,    \* interrupt status: RXFIFO_FULL or _TOUT, and RXFIFO_OVF
    rx_intr,        \* RXFIFO_FULL and RXFIFO_TOUT are enabled
    rx_ring_buf, event_queue,
    rx_data_buf,    \* its first rx_stash_len bytes
    rx_buffer_full_flg,
    isr, post,      \* where the interrupt handler is, and the event it will post
    rx_fifo_len,    \* how many bytes it will still take from the FIFO
    pc, job, hand,  \* where the task is, for what, and what it has received
    sent, last,     \* the last byte that came in, and that was given to the shell
    got,            \* the watched byte was given to the shell
    overrun         \* a buffer was full, or the initialisation has dropped bytes

uart == <<fifo, raised, ovf, rx_intr>>
buffer == <<rx_ring_buf, rx_data_buf, rx_buffer_full_flg>>
handler == <<isr, post, rx_fifo_len>>
task == <<pc, job, hand>>
history == <<sent, last, got, overrun>>
uvars == <<installed, uart, buffer, event_queue, handler, task, history>>

Earlier == 0
Watched == 1
Later == 2
Noise == -1      \* what reading an empty FIFO returns: it never came in
Byte == {Noise, Earlier, Watched, Later}
Event == {"UART_DATA", "UART_BUFFER_FULL", "UART_FIFO_OVF"}
ListenerAt == {"events", "read", "deliver"}

BytesUpTo(n) == UNION {[1..k -> Byte] : k \in 0..n}

ShellTypeOK ==
    /\ installed \in BOOLEAN /\ rx_intr \in BOOLEAN
    /\ raised \in BOOLEAN /\ ovf \in BOOLEAN
    /\ fifo \in BytesUpTo(FifoLen) /\ rx_data_buf \in BytesUpTo(FifoLen)
    /\ rx_ring_buf \in BytesUpTo(RingLen) /\ hand \in BytesUpTo(RingLen)
    /\ rx_buffer_full_flg \in BOOLEAN
    /\ Len(event_queue) <= QueueLen /\ ToSet(event_queue) \subseteq Event
    /\ isr \in {"idle", "rx", "again", "copy", "push", "flag", "mask", "clear", "ovf", "post"}
    /\ post \in Event \cup {"none"} /\ rx_fifo_len \in 0..FifoLen
    /\ pc \in ListenerAt \cup {"off", "config", "pins", "create", "disable", "receive",
                               "return", "send", "unflag", "clear", "reset", "enable"}
    /\ job \in {"init", "flush", "read"}
    /\ sent \in Byte \ {Noise} /\ last \in Byte \ {Noise}
    /\ got \in BOOLEAN /\ overrun \in BOOLEAN

ShellInit ==
    /\ installed = FALSE
    /\ fifo = <<>> /\ raised = FALSE /\ ovf = FALSE /\ rx_intr = FALSE
    /\ rx_ring_buf = <<>> /\ rx_data_buf = <<>> /\ rx_buffer_full_flg = FALSE
    /\ event_queue = <<>>
    /\ isr = "idle" /\ post = "none" /\ rx_fifo_len = 0
    /\ pc = "off" /\ job = "init" /\ hand = <<>>
    /\ sent = Earlier /\ last = Earlier /\ got = FALSE /\ overrun = FALSE

-----------------------------------------------------------------------------
(* The line. *)

LineByte ==
    /\ installed
    /\ \E b \in IF sent = Earlier THEN {Earlier, Watched} ELSE {Later} :
       /\ sent' = b
       /\ IF Len(fifo) < FifoLen
          THEN fifo' = Append(fifo, b) /\ UNCHANGED <<ovf, overrun>>
          ELSE ovf' = TRUE /\ overrun' = TRUE /\ UNCHANGED fifo
    /\ raised' = TRUE
    /\ UNCHANGED <<installed, rx_intr, buffer, event_queue, handler, task, last, got>>

-----------------------------------------------------------------------------
(* The ring buffer.  Bytes the task has received and not returned still    *)
(* take space.                                                             *)

Fits(bytes) ==
    Len(rx_ring_buf) + Len(bytes) + (IF pc = "return" THEN Len(hand) ELSE 0) <= RingLen

-----------------------------------------------------------------------------
(* The interrupt handler, uart_rx_intr_handler_default. *)

(* The status it finds decides what one turn of its loop does. *)
IsrEnter ==
    /\ isr = "idle"
    /\ \/ raised /\ rx_intr /\ isr' = "rx"
       \/ ~(raised /\ rx_intr) /\ ovf /\ isr' = "ovf"
    /\ UNCHANGED <<installed, uart, buffer, event_queue, post, rx_fifo_len, task, history>>

(* Unless rx_data_buf holds bytes already, the FIFO is asked how many it   *)
(* has, and once more if it has none.                                      *)
IsrReadLength ==
    /\ \/ /\ isr = "rx" /\ rx_buffer_full_flg
          /\ isr' = "mask" /\ UNCHANGED rx_fifo_len
       \/ /\ isr = "rx" /\ ~rx_buffer_full_flg
          /\ isr' = IF fifo = <<>> THEN "again" ELSE "copy"
          /\ rx_fifo_len' = Len(fifo)
       \/ /\ isr = "again"
          /\ isr' = "copy" /\ rx_fifo_len' = Len(fifo)
    /\ UNCHANGED <<installed, uart, buffer, event_queue, post, task, history>>

(* That many are read to rx_data_buf one by one, also when a reset of the  *)
(* FIFO on the other core has taken them away meanwhile.                   *)
IsrReadFifo ==
    /\ isr = "copy" /\ rx_fifo_len > 0
    /\ rx_fifo_len' = rx_fifo_len - 1
    /\ \/ /\ fifo # <<>>
          /\ rx_data_buf' = Append(rx_data_buf, Head(fifo)) /\ fifo' = Tail(fifo)
       \/ /\ fifo = <<>>
          /\ rx_data_buf' = Append(rx_data_buf, Noise) /\ UNCHANGED fifo
    /\ UNCHANGED <<installed, raised, ovf, rx_intr, rx_ring_buf, rx_buffer_full_flg,
                   event_queue, isr, post, task, history>>

(* A byte that has come in since may or may not raise the status again. *)
IsrAck ==
    /\ isr = "copy" /\ rx_fifo_len = 0
    /\ raised' \in IF fifo = <<>> THEN {FALSE} ELSE BOOLEAN
    /\ isr' = "push" /\ post' = "UART_DATA"
    /\ UNCHANGED <<installed, fifo, ovf, rx_intr, buffer, event_queue, rx_fifo_len, task,
                   history>>

IsrPush ==
    /\ isr = "push"
    /\ \/ /\ Fits(rx_data_buf)
          /\ rx_ring_buf' = rx_ring_buf \o rx_data_buf /\ rx_data_buf' = <<>>
          /\ isr' = "post" /\ UNCHANGED <<post, overrun>>
       \/ /\ ~Fits(rx_data_buf)
          /\ isr' = "flag" /\ post' = "UART_BUFFER_FULL" /\ overrun' = TRUE
          /\ UNCHANGED <<rx_ring_buf, rx_data_buf>>
    /\ UNCHANGED <<installed, uart, rx_buffer_full_flg, event_queue, rx_fifo_len, task, sent, last,
                   got>>

IsrFlag ==
    /\ isr = "flag"
    /\ rx_buffer_full_flg' = TRUE
    /\ isr' = "mask"
    /\ UNCHANGED <<installed, uart, rx_ring_buf, rx_data_buf, event_queue, post, rx_fifo_len, task,
                   history>>

IsrMask ==
    /\ isr = "mask"
    /\ rx_intr' = FALSE
    /\ isr' = IF post = "none" THEN "clear" ELSE "post"
    /\ UNCHANGED <<installed, fifo, raised, ovf, buffer, event_queue, post, rx_fifo_len, task,
                   history>>

IsrClear ==
    /\ isr = "clear"
    /\ raised' = FALSE
    /\ isr' = "idle"
    /\ UNCHANGED <<installed, fifo, ovf, rx_intr, buffer, event_queue, post, rx_fifo_len, task,
                   history>>

(* Mutant of IsrOverflow: the FIFO is reset and nobody is told. *)
IsrOverflowSilent ==
    /\ isr = "ovf"
    /\ fifo' = <<>> /\ ovf' = FALSE
    /\ isr' = "idle" /\ UNCHANGED post
    /\ UNCHANGED <<installed, raised, rx_intr, buffer, event_queue, rx_fifo_len, task,
                   history>>

IsrOverflow ==
    /\ isr = "ovf"
    /\ fifo' = <<>> /\ ovf' = FALSE
    /\ isr' = "post" /\ post' = "UART_FIFO_OVF"
    /\ UNCHANGED <<installed, raised, rx_intr, buffer, event_queue, rx_fifo_len, task,
                   history>>

(* Mutant of IsrPost: the event is put in the queue without a look at it. *)
IsrPostUnbounded ==
    /\ isr = "post"
    /\ event_queue' = Append(event_queue, post)
    /\ isr' = "idle" /\ post' = "none"
    /\ UNCHANGED <<installed, uart, buffer, rx_fifo_len, task, history>>

(* An event that does not fit the queue is lost. *)
IsrPost ==
    /\ isr = "post"
    /\ event_queue' = IF Len(event_queue) < QueueLen
                      THEN Append(event_queue, post) ELSE event_queue
    /\ isr' = "idle" /\ post' = "none"
    /\ UNCHANGED <<installed, uart, buffer, rx_fifo_len, task, history>>

Isr ==
    \/ IsrEnter \/ IsrReadLength \/ IsrReadFifo \/ IsrAck \/ IsrPush \/ IsrFlag \/ IsrMask
    \/ IsrClear \/ IsrOverflow \/ IsrPost

-----------------------------------------------------------------------------
(* SHCOM_InitCom.  A step that fails returns an error and undoes nothing;  *)
(* a further call is then refused by uart_driver_install.  A call that is  *)
(* refused, or whose installation fails, changes nothing.                  *)

uart_driver_install ==
    /\ pc = "off" /\ ~installed
    /\ installed' = TRUE /\ rx_intr' = TRUE
    /\ pc' = "config"
    /\ UNCHANGED <<fifo, raised, ovf, buffer, event_queue, handler, job, hand, history>>

InitFails ==
    /\ pc \in {"config", "pins", "create"}
    /\ pc' = "off"
    /\ UNCHANGED <<installed, uart, buffer, event_queue, handler, job, hand, history>>

uart_param_config ==
    /\ pc = "config"
    /\ pc' = "pins"
    /\ fifo' = <<>>
    /\ overrun' = (overrun \/ fifo # <<>>)
    /\ UNCHANGED <<installed, raised, ovf, rx_intr, buffer, event_queue, handler,
                   job, hand, sent, last, got>>

(* The pins are set and uart_flush begins. *)
uart_set_pin ==
    /\ pc = "pins"
    /\ pc' = "disable"
    /\ UNCHANGED <<installed, uart, buffer, event_queue, handler, job, hand, history>>

CreateListener ==
    /\ pc = "create"
    /\ pc' = "events" /\ job' = "read"
    /\ UNCHANGED <<installed, uart, buffer, event_queue, handler, hand, history>>

-----------------------------------------------------------------------------
(* The listener task. *)

(* Mutant of NextEvent: every event empties the input. *)
NextEventFlushes ==
    /\ pc = "events"
    /\ IF event_queue = <<>>
       THEN pc' = "read" /\ UNCHANGED <<job, event_queue>>
       ELSE pc' = "disable" /\ job' = "flush" /\ event_queue' = Tail(event_queue)
    /\ UNCHANGED <<installed, uart, buffer, handler, hand, history>>

(* xQueueReceive without waiting; two kinds of event empty the input. *)
NextEvent ==
    /\ pc = "events"
    /\ IF event_queue = <<>>
       THEN pc' = "read" /\ UNCHANGED <<job, event_queue>>
       ELSE /\ event_queue' = Tail(event_queue)
            /\ IF Head(event_queue) \in {"UART_BUFFER_FULL", "UART_FIFO_OVF"}
               THEN pc' = "disable" /\ job' = "flush"
               ELSE UNCHANGED <<pc, job>>
    /\ UNCHANGED <<installed, uart, buffer, handler, hand, history>>

(* uart_read_bytes of one byte.  On an empty ring buffer it waits for a    *)
(* while and then looks at rx_buffer_full_flg.                             *)
ReadByte ==
    /\ pc = "read" /\ rx_ring_buf # <<>>
    /\ hand' = <<Head(rx_ring_buf)>> /\ rx_ring_buf' = Tail(rx_ring_buf)
    /\ pc' = "return"
    /\ UNCHANGED <<installed, uart, rx_data_buf, rx_buffer_full_flg, event_queue, handler,
                   job, history>>

(* Mutant of ReadTimeout: the flag is only looked at after a byte was read. *)
ReadTimeoutUnchecked ==
    /\ pc = "read" /\ rx_ring_buf = <<>>
    /\ pc' = "events"
    /\ UNCHANGED <<installed, uart, buffer, event_queue, handler, job, hand, history>>

ReadTimeout ==
    /\ pc = "read" /\ rx_ring_buf = <<>>
    /\ pc' = IF rx_buffer_full_flg THEN "send" ELSE "events"
    /\ UNCHANGED <<installed, uart, buffer, event_queue, handler, job, hand, history>>

(* The received bytes are returned, which frees their space, and           *)
(* rx_buffer_full_flg is read.                                             *)
ReturnItem ==
    /\ pc = "return"
    /\ pc' = IF rx_buffer_full_flg THEN "send"
             ELSE IF job = "read" THEN "deliver" ELSE "receive"
    /\ hand' = IF job = "read" THEN hand ELSE <<>>
    /\ UNCHANGED <<installed, uart, buffer, event_queue, handler, job, history>>

(* uart_check_buf_full, and the same inside uart_flush_input: the bytes    *)
(* in rx_data_buf are tried again.                                         *)
SendStash ==
    /\ pc = "send"
    /\ \/ /\ Fits(rx_data_buf)
          /\ rx_ring_buf' = rx_ring_buf \o rx_data_buf
          /\ pc' = "unflag"
       \/ /\ ~Fits(rx_data_buf)
          /\ pc' = IF job # "read" THEN "receive" ELSE IF hand = <<>> THEN "events" ELSE "deliver"
          /\ UNCHANGED rx_ring_buf
    /\ UNCHANGED <<installed, uart, rx_data_buf, rx_buffer_full_flg, event_queue, handler,
                   job, hand, history>>

(* Mutant of ClearFlag: the flag stays and the bytes are sent once more. *)
ClearFlagNot ==
    /\ pc = "unflag"
    /\ pc' = IF job = "read" THEN "enable" ELSE "receive"
    /\ UNCHANGED <<installed, uart, buffer, event_queue, handler, job, hand, history>>

ClearFlag ==
    /\ pc = "unflag"
    /\ rx_buffer_full_flg' = FALSE /\ rx_data_buf' = <<>>
    /\ pc' = IF job = "read" THEN "enable" ELSE "receive"
    /\ UNCHANGED <<installed, uart, rx_ring_buf, event_queue, handler, job, hand, history>>

(* Old status is cleared.  Bytes that are already in the FIFO may or may   *)
(* not raise it again.                                                     *)
uart_reenable_intr_mask ==
    /\ pc = "enable"
    /\ rx_intr' = TRUE
    /\ raised' \in IF fifo = <<>> THEN {FALSE} ELSE BOOLEAN
    /\ pc' = CASE job = "init" -> "create" [] job = "flush" -> "events"
               [] job = "read" -> IF hand = <<>> THEN "read" ELSE "deliver"
    /\ job' = IF job = "flush" THEN "read" ELSE job
    /\ UNCHANGED <<installed, fifo, ovf, buffer, event_queue, handler, hand, history>>

(* The byte is given to the shell, which may take its time. *)
SHELL_RecvChar ==
    /\ pc = "deliver"
    /\ last' = (IF hand[1] = Noise THEN last ELSE hand[1])
    /\ got' = (got \/ hand[1] = Watched) /\ hand' = <<>>
    /\ pc' = "events"
    /\ UNCHANGED <<installed, uart, buffer, event_queue, handler, job, sent, overrun>>

-----------------------------------------------------------------------------
(* uart_flush_input: for the task, and at the end of SHCOM_InitCom. *)

FlushDisable ==
    /\ pc = "disable"
    /\ rx_intr' = FALSE
    /\ pc' = "receive"
    /\ UNCHANGED <<installed, fifo, raised, ovf, buffer, event_queue, handler, job, hand,
                   history>>

(* It receives what lies in the buffer without a wrap.  These bytes are    *)
(* dropped: only the space they take still matters.                        *)
FlushReceive ==
    /\ pc = "receive"
    /\ \/ /\ rx_ring_buf = <<>>
          /\ pc' = "clear" /\ UNCHANGED <<rx_ring_buf, hand, overrun>>
       \/ \E n \in 1..Len(rx_ring_buf) :
             /\ hand' = [i \in 1..n |-> Later]
             /\ rx_ring_buf' = SubSeq(rx_ring_buf, n + 1, Len(rx_ring_buf))
             /\ overrun' = (overrun \/ job = "init")
             /\ pc' = "return"
    /\ UNCHANGED <<installed, uart, rx_data_buf, rx_buffer_full_flg, event_queue, handler,
                   job, sent, last, got>>

(* Bytes in rx_data_buf are dropped if the flag is set.                    *)
FlushClear ==
    /\ pc = "clear"
    /\ rx_buffer_full_flg' = FALSE
    /\ rx_data_buf' = IF rx_buffer_full_flg THEN <<>> ELSE rx_data_buf
    /\ pc' = "reset"
    /\ UNCHANGED <<installed, uart, rx_ring_buf, event_queue, handler, job, hand, history>>

FlushReset ==
    /\ pc = "reset"
    /\ fifo' = <<>>
    /\ overrun' = (overrun \/ (job = "init" /\ fifo # <<>>))
    /\ pc' = "enable"
    /\ UNCHANGED <<installed, raised, ovf, rx_intr, buffer, event_queue, handler, job, hand,
                   sent, last, got>>

-----------------------------------------------------------------------------
InitCom == uart_driver_install \/ InitFails \/ uart_param_config \/ uart_set_pin \/ CreateListener

Task ==
    \/ NextEvent \/ ReadByte \/ ReadTimeout \/ ReturnItem \/ SendStash \/ ClearFlag
    \/ uart_reenable_intr_mask \/ SHELL_RecvChar
    \/ FlushDisable \/ FlushReceive \/ FlushClear \/ FlushReset

ShellNext == LineByte \/ Isr \/ InitCom \/ Task

ShellSpec == ShellInit /\ [][ShellNext]_uvars

(* The interrupt is served and the task runs; nothing is assumed of the line. *)
FairShellSpec == ShellSpec /\ WF_uvars(Isr) /\ WF_uvars(Task)

-----------------------------------------------------------------------------
(* What is checked. *)

(* The bytes on their way to the shell, the oldest first. *)
OnTheWay ==
    (IF job = "read" THEN hand ELSE <<>>)
    \o (IF pc = "unflag" THEN SubSeq(rx_ring_buf, 1, Len(rx_ring_buf) - Len(rx_data_buf))
        ELSE rx_ring_buf)
    \o rx_data_buf \o fifo

(* The shell gets the bytes that came in in their order and none twice,    *)
(* through full buffers, flushes and the exchange of rx_data_buf between   *)
(* the two cores.  Other bytes, which the handler reads from a FIFO that a *)
(* flush has just reset, come among them only once a buffer has been full  *)
(* or the initialisation has dropped bytes.                                *)
BytesInOrder ==
    LET way == <<last>> \o OnTheWay IN
    /\ \A i, j \in 1..Len(way) :
           i < j /\ way[j] # Noise => way[i] <= way[j] /\ (way[i] = way[j] => way[i] # Watched)
    /\ Noise \in ToSet(way) => overrun

(* As long as no buffer has been full, every byte that came in was given   *)
(* to the shell or is on its way.                                          *)
LossNeedsOverrun == ~overrun /\ sent # Earlier => got \/ Watched \in ToSet(OnTheWay)

(* SHCOM_InitCom has not got as far as its flush, or has failed. *)
Starting == pc \in {"off", "config", "pins", "create"}

InDriver == Watched \in ToSet(rx_ring_buf) \cup ToSet(rx_data_buf)

(* A FIFO that the handler has just found empty overruns before it has     *)
(* cleared the status, a few instructions later.                           *)
FullAtOnce ==
    /\ LineByte /\ Len(fifo) = FifoLen
    /\ isr = "copy" /\ rx_fifo_len = 0 /\ rx_data_buf = <<>>

(* A byte that the driver has taken from the FIFO does not stay there: it  *)
(* is given to the shell or dropped by a flush, also when the flag is set  *)
(* after the task has looked at it and the event for it was lost.  The     *)
(* line must not outrun the handler's few instructions time and again.     *)
(* There is one watched byte, so it has left if it is time and again away. *)
NoByteStays == <>[][~FullAtOnce]_uvars => []<>(~InDriver \/ Starting)

(* The interrupt handler can switch reception off after the task has       *)
(* switched it on, and the event that would repair this can be lost.  As   *)
(* long as bytes keep coming, it comes on again.                           *)
ReceptionResumes == []<><<LineByte>>_uvars => []<>(rx_intr \/ Starting)

=============================================================================

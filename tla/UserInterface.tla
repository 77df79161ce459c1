--------------------------- MODULE UserInterface ---------------------------
(***************************************************************************)
(* The event queue of the user interface, main/UserInterface/              *)
(* userInterface.c: tasks post events to a bounded queue, one task takes   *)
(* them out.  An event is identified by who posted it and by its number    *)
(* among the poster's calls.                                               *)
(***************************************************************************)
EXTENDS Naturals, Sequences, SequencesExt

CONSTANTS
    Poster,
    QueueSize,  \* UI_EVENT_QUEUE_SIZE
    MaxPosts    \* bound on the calls of a poster

ASSUME UiAssumption == QueueSize \in Nat \ {0} /\ MaxPosts \in Nat

VARIABLES
    ui_event_queue_handle,  \* whether there is a queue
    queue,                  \* its events
    ui_task,                \* whether the task was created
    handled,                \* the events the task has received
    pc, posts, result,      \* the call of a poster, its number, what it did
    stale                   \* posters that wait on a queue that was replaced

uvars == <<ui_event_queue_handle, queue, ui_task, handled, pc, posts, result, stale>>

Posted == [by : Poster, nr : 1..MaxPosts]

NoResult == [status |-> "none", queued |-> FALSE]

UiTypeOK ==
    /\ ui_event_queue_handle \in BOOLEAN
    /\ queue \in Seq(Posted) /\ Len(queue) <= QueueSize
    /\ ui_task \in BOOLEAN
    /\ handled \in Seq(Posted)
    /\ pc \in [Poster -> {"idle", "sending"}]
    /\ posts \in [Poster -> 0..MaxPosts]
    /\ result \in [Poster -> [status : {"none", "OK", "ERROR"}, queued : BOOLEAN]]
    /\ stale \in SUBSET Poster

UiInit ==
    /\ ui_event_queue_handle = FALSE
    /\ queue = <<>>
    /\ ui_task = FALSE
    /\ handled = <<>>
    /\ pc = [p \in Poster |-> "idle"]
    /\ posts = [p \in Poster |-> 0]
    /\ result = [p \in Poster |-> NoResult]
    /\ stale = {}

(* UI_Init, again if it failed.  A new queue replaces the one of a call    *)
(* that could not create the task; its events and its waiting senders stay *)
(* with the old queue.  A call after a successful one, which would start a *)
(* second task beside the first, is left out.                              *)
UI_Init(queueMade, taskMade) ==
    /\ ~ui_task
    /\ ui_event_queue_handle' = queueMade
    /\ queue' = <<>>
    /\ ui_task' = (queueMade /\ taskMade)
    /\ stale' = {p \in Poster : pc[p] = "sending"}
    /\ UNCHANGED <<handled, pc, posts, result>>

Returns(p, status, queued) ==
    /\ pc' = [pc EXCEPT ![p] = "idle"]
    /\ result' = [result EXCEPT ![p] = [status |-> status, queued |-> queued]]

(* UI_PostEvent refuses an invalid event, and any event without a queue. *)
PostRefused(p) ==
    /\ pc[p] = "idle" /\ posts[p] < MaxPosts
    /\ posts' = [posts EXCEPT ![p] = posts[p] + 1]
    /\ Returns(p, "ERROR", FALSE)
    /\ UNCHANGED <<ui_event_queue_handle, queue, ui_task, handled, stale>>

PostEvent(p) ==
    /\ pc[p] = "idle" /\ posts[p] < MaxPosts
    /\ ui_event_queue_handle
    /\ posts' = [posts EXCEPT ![p] = posts[p] + 1]
    /\ pc' = [pc EXCEPT ![p] = "sending"]
    /\ UNCHANGED <<ui_event_queue_handle, queue, ui_task, handled, result, stale>>

(* Mutant of Send: the queue takes one event more than it has room for. *)
SendOneMore(p) ==
    /\ pc[p] = "sending" /\ p \notin stale
    /\ Len(queue) <= QueueSize
    /\ queue' = Append(queue, [by |-> p, nr |-> posts[p]])
    /\ Returns(p, "ERROR", TRUE)
    /\ UNCHANGED <<ui_event_queue_handle, ui_task, handled, posts, stale>>

(* Mutant of Send: the event replaces the ones that wait. *)
SendOverwrites(p) ==
    /\ pc[p] = "sending" /\ p \notin stale
    /\ queue' = <<[by |-> p, nr |-> posts[p]]>>
    /\ Returns(p, "ERROR", TRUE)
    /\ UNCHANGED <<ui_event_queue_handle, ui_task, handled, posts, stale>>

(* xQueueSend.  It returns pdTRUE, which is 1, once the event is in the    *)
(* queue and errQUEUE_FULL, which is 0, after the timeout; UI_PostEvent    *)
(* compares this with ESP_OK, which is 0.                                  *)
Send(p) ==
    /\ pc[p] = "sending" /\ p \notin stale
    /\ Len(queue) < QueueSize
    /\ queue' = Append(queue, [by |-> p, nr |-> posts[p]])
    /\ Returns(p, "ERROR", TRUE)
    /\ UNCHANGED <<ui_event_queue_handle, ui_task, handled, posts, stale>>

SendTimeout(p) ==
    /\ pc[p] = "sending"
    /\ p \in stale \/ Len(queue) = QueueSize
    /\ Returns(p, "OK", FALSE)
    /\ stale' = stale \ {p}
    /\ UNCHANGED <<ui_event_queue_handle, queue, ui_task, handled, posts>>

(* The same call on a queue that was replaced, if there is room. *)
SendLost(p) ==
    /\ pc[p] = "sending" /\ p \in stale
    /\ Returns(p, "ERROR", FALSE)
    /\ stale' = stale \ {p}
    /\ UNCHANGED <<ui_event_queue_handle, queue, ui_task, handled, posts>>

(* Mutant of UiTask: the event is read but stays in the queue. *)
UiTaskPeeks ==
    /\ ui_task /\ queue # <<>>
    /\ Len(handled) < QueueSize
    /\ handled' = Append(handled, Head(queue))
    /\ UNCHANGED <<ui_event_queue_handle, queue, ui_task, pc, posts, result, stale>>

(* tUiTask: xQueueReceive takes an event; after its timeout the loop only  *)
(* starts again.                                                           *)
UiTask ==
    /\ ui_task /\ queue # <<>>
    /\ handled' = Append(handled, Head(queue))
    /\ queue' = Tail(queue)
    /\ UNCHANGED <<ui_event_queue_handle, ui_task, pc, posts, result, stale>>

UiNext ==
    \/ \E q, t \in BOOLEAN : UI_Init(q, t)
    \/ \E p \in Poster : PostRefused(p) \/ PostEvent(p) \/ Send(p)
                        \/ SendTimeout(p) \/ SendLost(p)
    \/ UiTask

UiSpec == UiInit /\ [][UiNext]_uvars

(* The task runs whenever there is an event. *)
FairUiSpec == UiSpec /\ WF_uvars(UiTask)

-----------------------------------------------------------------------------
(* No event is handled twice or while it is still queued, and the events   *)
(* of one poster are handled in the order of its calls.                    *)
HandledInOrder ==
    LET all == handled \o queue
    IN  \A i, j \in DOMAIN all :
            i < j /\ all[i].by = all[j].by => all[i].nr < all[j].nr

(* Once the task runs, an event in the queue gets handled. *)
EventsHandled ==
    \A e \in Posted :
        ui_task /\ Contains(queue, e) ~> Contains(handled, e)

(* The status of UI_PostEvent tells whether the event was posted. *)
StatusTruthful ==
    \A p \in Poster :
        result[p].status # "none" => (result[p].status = "OK" <=> result[p].queued)

=============================================================================

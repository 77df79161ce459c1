------------------------ MODULE UserInterfaceProofs ------------------------
(***************************************************************************)
(* Proofs about the event queue, for any set of posters, any queue size    *)
(* and any number of calls.                                                *)
(***************************************************************************)
EXTENDS UserInterface, SequenceTheorems, TLAPS

(* The number of the last event that a poster may have in the queue, from  *)
(* the state of its call and the number of its calls.                      *)
LastPosted(c, n) == IF c = "sending" THEN n - 1 ELSE n

NotNewer(e, c, n) == e.nr <= LastPosted(c[e.by], n[e.by])

(* One event comes before another, of whichever poster. *)
Before(d, e) == d.by = e.by => d.nr < e.nr

InOrder(s) == \A i, j \in 1..Len(s) : i < j => Before(s[i], s[j])

(* What HandledInOrder needs to be inductive: the same for the two         *)
(* sequences and between them, and that a call that is still waiting is    *)
(* newer than every event of its poster.                                   *)
Order ==
    /\ InOrder(handled) /\ InOrder(queue)
    /\ \A i \in 1..Len(handled), j \in 1..Len(queue) : Before(handled[i], queue[j])
    /\ \A i \in 1..Len(handled) : NotNewer(handled[i], pc, posts)
    /\ \A i \in 1..Len(queue) : NotNewer(queue[i], pc, posts)
    /\ \A p \in Poster : pc[p] = "sending" => posts[p] > 0

UiInv == UiTypeOK /\ Order

-----------------------------------------------------------------------------
(* The initial state. *)
LEMMA UiInitInv == UiInit => UiInv
<1> SUFFICES ASSUME UiInit PROVE UiInv
    OBVIOUS
<1>1. UiTypeOK
  <2>1. /\ ui_event_queue_handle \in BOOLEAN
        /\ ui_task \in BOOLEAN
      BY Zenon DEF UiInit
  <2>2. result \in [Poster -> [status : {"none", "OK", "ERROR"}, queued : BOOLEAN]]
      BY DEF UiInit, NoResult
  <2> QED BY <2>1, <2>2, UiAssumption DEF UiInit, UiTypeOK
<1>2. Order
    BY DEF UiInit, Order, InOrder
<1> QED BY <1>1, <1>2 DEF UiInv

(* The types. *)
LEMMA UiNextType ==
    ASSUME UiInv, [UiNext]_uvars
    PROVE  UiTypeOK'
<1> USE UiAssumption DEF UiInv, UiTypeOK
<1>1. ASSUME NEW q \in BOOLEAN, NEW t \in BOOLEAN, UI_Init(q, t) PROVE UiTypeOK'
    BY <1>1 DEF UI_Init
<1>2. ASSUME NEW p \in Poster, PostRefused(p) PROVE UiTypeOK'
    BY <1>2 DEF PostRefused, Returns
<1>3. ASSUME NEW p \in Poster, PostEvent(p) PROVE UiTypeOK'
    BY <1>3 DEF PostEvent
<1>4. ASSUME NEW p \in Poster, Send(p) PROVE UiTypeOK'
    BY <1>4 DEF Send, Returns, Posted, Order
<1>5. ASSUME NEW p \in Poster, SendTimeout(p) PROVE UiTypeOK'
    BY <1>5 DEF SendTimeout, Returns
<1>6. ASSUME NEW p \in Poster, SendLost(p) PROVE UiTypeOK'
    BY <1>6 DEF SendLost, Returns
<1>7. CASE UiTask
    BY <1>7 DEF UiTask
<1>8. CASE UNCHANGED uvars
    BY <1>8 DEF uvars
<1> QED BY <1>1, <1>2, <1>3, <1>4, <1>5, <1>6, <1>7, <1>8 DEF UiNext

(* What the elements of the two sequences are. *)
LEMMA ElementsPosted ==
    ASSUME UiTypeOK
    PROVE  /\ Len(queue) \in Nat /\ Len(handled) \in Nat
           /\ \A i \in 1..Len(handled) : handled[i] \in Posted
           /\ \A i \in 1..Len(queue) : queue[i] \in Posted
           /\ \A e \in Posted : e.by \in Poster /\ e.nr \in Nat
<1>1. \A i \in 1..Len(handled) : handled[i] \in Posted
    BY ElementOfSeq DEF UiTypeOK
<1>2. \A i \in 1..Len(queue) : queue[i] \in Posted
    BY ElementOfSeq DEF UiTypeOK
<1>3. \A e \in Posted : e.by \in Poster /\ e.nr \in Nat
    BY UiAssumption DEF Posted
<1> QED BY <1>1, <1>2, <1>3 DEF UiTypeOK

(* An event stays as old as it was while the calls go on. *)
LEMMA NotNewerKept ==
    ASSUME UiTypeOK, UiTypeOK', NEW e \in Posted, NotNewer(e, pc, posts),
           \A p \in Poster : LastPosted(pc[p], posts[p]) <= LastPosted(pc'[p], posts'[p])
    PROVE  NotNewer(e, pc', posts')
<1>1. e.by \in Poster /\ e.nr \in Nat
    BY ElementsPosted
<1>2. /\ LastPosted(pc[e.by], posts[e.by]) \in Int
      /\ LastPosted(pc'[e.by], posts'[e.by]) \in Int
    BY <1>1, UiAssumption DEF UiTypeOK, LastPosted
<1> QED BY <1>1, <1>2 DEF NotNewer

(* Events that stay where they are stay in order while the calls go on. *)
LEMMA OrderKept ==
    ASSUME UiInv, UiTypeOK', UNCHANGED <<handled, queue>>,
           \A p \in Poster : /\ LastPosted(pc[p], posts[p]) <= LastPosted(pc'[p], posts'[p])
                             /\ pc'[p] = "sending" => posts'[p] > 0
    PROVE  Order'
<1>1. \A i \in 1..Len(handled) : NotNewer(handled[i], pc', posts')
    BY ElementsPosted, NotNewerKept DEF UiInv, Order
<1>2. \A i \in 1..Len(queue) : NotNewer(queue[i], pc', posts')
    BY ElementsPosted, NotNewerKept DEF UiInv, Order
<1> QED BY <1>1, <1>2 DEF UiInv, Order

(* The order. *)
LEMMA UiNextOrder ==
    ASSUME UiInv, [UiNext]_uvars
    PROVE  Order'
<1> USE UiAssumption
<1>0. UiTypeOK /\ UiTypeOK'
    BY UiNextType DEF UiInv
<1>a. /\ Len(queue) \in Nat /\ Len(handled) \in Nat
      /\ \A i \in 1..Len(handled) : handled[i] \in Posted
      /\ \A i \in 1..Len(queue) : queue[i] \in Posted
      /\ \A e \in Posted : e.by \in Poster /\ e.nr \in Nat
    BY <1>0, ElementsPosted
<1>1. ASSUME NEW q \in BOOLEAN, NEW t \in BOOLEAN, UI_Init(q, t) PROVE Order'
    BY <1>1 DEF UI_Init, InOrder, UiInv, UiTypeOK, Order
<1>2. ASSUME NEW p \in Poster,
             PostRefused(p) \/ PostEvent(p) \/ SendTimeout(p) \/ SendLost(p)
      PROVE  Order'
  <2>1. UNCHANGED <<handled, queue>>
      BY <1>2 DEF PostRefused, PostEvent, SendTimeout, SendLost
  <2>2. ASSUME NEW o \in Poster
        PROVE  /\ LastPosted(pc[o], posts[o]) <= LastPosted(pc'[o], posts'[o])
               /\ pc'[o] = "sending" => posts'[o] > 0
    <3> USE DEF LastPosted, UiInv, UiTypeOK, Order
    <3>1. CASE PostRefused(p)
        BY <3>1 DEF PostRefused, Returns
    <3>2. CASE PostEvent(p)
        BY <3>2 DEF PostEvent
    <3>3. CASE SendTimeout(p) \/ SendLost(p)
      <4>1. posts' = posts /\ pc' = [pc EXCEPT ![p] = "idle"]
          BY <3>3 DEF SendTimeout, SendLost, Returns
      <4> QED BY <4>1
    <3> QED BY <1>2, <3>1, <3>2, <3>3
  <2> QED BY <1>0, <2>1, <2>2, OrderKept
<1>3. ASSUME NEW p \in Poster, Send(p) PROVE Order'
  <2> DEFINE e == [by |-> p, nr |-> posts[p]]
  <2>1. e \in Posted /\ posts[p] \in Nat /\ posts[p] > 0
      BY <1>3 DEF Send, UiInv, UiTypeOK, Order, Posted
  <2>2. /\ queue' = Append(queue, e) /\ handled' = handled
        /\ Len(queue') = Len(queue) + 1
        /\ \A i \in 1..Len(queue) : queue'[i] = queue[i]
        /\ queue'[Len(queue) + 1] = e
      BY <1>3, <2>1, AppendProperties DEF Send, UiInv, UiTypeOK
  <2>3. /\ posts' = posts /\ pc' = [pc EXCEPT ![p] = "idle"] /\ pc[p] = "sending"
        /\ pc \in [Poster -> {"idle", "sending"}] /\ posts \in [Poster -> Nat]
      BY <1>3 DEF Send, Returns, UiInv, UiTypeOK
  <2>4. \A o \in Poster : LastPosted(pc[o], posts[o]) <= LastPosted(pc'[o], posts'[o])
      BY <2>3 DEF LastPosted
  <2>5. ASSUME NEW d \in Posted, NotNewer(d, pc, posts) PROVE Before(d, e)
      BY <1>a, <2>1, <2>3, <2>5 DEF NotNewer, LastPosted, Before
  <2>6. NotNewer(e, pc', posts')
      BY <2>1, <2>3 DEF NotNewer, LastPosted
  <2>7. \A i \in 1..Len(queue) : Before(queue[i], e) /\ NotNewer(queue[i], pc', posts')
      BY <1>0, <1>a, <2>4, <2>5, NotNewerKept DEF UiInv, Order
  <2>8. \A i \in 1..Len(handled) : Before(handled[i], e) /\ NotNewer(handled[i], pc', posts')
      BY <1>0, <1>a, <2>4, <2>5, NotNewerKept DEF UiInv, Order
  <2>9. InOrder(queue')
      BY <1>a, <2>2, <2>7 DEF UiInv, Order, InOrder
  <2>10. \A i \in 1..Len(handled'), j \in 1..Len(queue') : Before(handled'[i], queue'[j])
      BY <1>a, <2>2, <2>8 DEF UiInv, Order
  <2>11. \A i \in 1..Len(queue') : NotNewer(queue'[i], pc', posts')
      BY <1>a, <2>2, <2>6, <2>7
  <2>12. \A o \in Poster : pc'[o] = "sending" => posts'[o] > 0
      BY <2>3 DEF UiInv, Order
  <2> QED BY <2>2, <2>8, <2>9, <2>10, <2>11, <2>12 DEF UiInv, Order
<1>4. CASE UiTask
  <2>1. /\ queue' = Tail(queue) /\ handled' = Append(handled, queue[1])
        /\ Len(queue) > 0
        /\ Len(queue') = Len(queue) - 1
        /\ \A i \in 1..Len(queue') : queue'[i] = queue[i + 1]
        /\ Len(handled') = Len(handled) + 1
        /\ \A i \in 1..Len(handled) : handled'[i] = handled[i]
        /\ handled'[Len(handled) + 1] = queue[1]
      BY <1>4 DEF UiTask, UiInv, UiTypeOK
  <2>2. pc' = pc /\ posts' = posts
      BY <1>4 DEF UiTask
  <2>3. InOrder(handled')
      BY <1>a, <2>1, SMTT(30) DEF UiInv, Order, InOrder
  <2>4. InOrder(queue')
      BY <1>a, <2>1 DEF UiInv, Order, InOrder
  <2>5. \A i \in 1..Len(handled'), j \in 1..Len(queue') : Before(handled'[i], queue'[j])
      BY <1>a, <2>1 DEF UiInv, Order, InOrder
  <2>6. \A i \in 1..Len(handled') : NotNewer(handled'[i], pc', posts')
      BY <1>a, <2>1, <2>2 DEF UiInv, Order
  <2>7. \A i \in 1..Len(queue') : NotNewer(queue'[i], pc', posts')
      BY <1>a, <2>1, <2>2 DEF UiInv, Order
  <2> QED BY <2>2, <2>3, <2>4, <2>5, <2>6, <2>7 DEF UiInv, Order
<1>5. CASE UNCHANGED uvars
    BY <1>5 DEF uvars, UiInv, Order
<1> QED BY <1>1, <1>2, <1>3, <1>4, <1>5 DEF UiNext

(* The inductive invariant holds in every reachable state. *)
THEOREM UiInvariance == UiSpec => []UiInv
<1>1. UiInv /\ [UiNext]_uvars => UiInv'
    BY UiNextType, UiNextOrder DEF UiInv
<1> QED BY <1>1, UiInitInv, PTL DEF UiSpec

(* The queue never holds more than UI_EVENT_QUEUE_SIZE events, and only    *)
(* events somebody has posted.                                             *)
THEOREM UiTypeCorrect == UiSpec => []UiTypeOK
<1>1. UiInv => UiTypeOK
    BY DEF UiInv
<1> QED BY <1>1, UiInvariance, PTL

(* Events of one poster are handled in the order of its calls and none     *)
(* twice, over timeouts, a full queue and a repeated UI_Init.              *)
THEOREM UiHandlesInOrder == UiSpec => []HandledInOrder
<1>1. UiInv => HandledInOrder
  <2> SUFFICES ASSUME UiInv PROVE HandledInOrder
      OBVIOUS
  <2> DEFINE all == handled \o queue
  <2>1. /\ Len(all) = Len(handled) + Len(queue)
        /\ DOMAIN all = 1..Len(all)
        /\ \A i \in 1..Len(all) :
              all[i] = IF i <= Len(handled) THEN handled[i] ELSE queue[i - Len(handled)]
      BY ConcatProperties, LenProperties DEF UiInv, UiTypeOK
  <2>2. ASSUME NEW i \in 1..Len(all), NEW j \in 1..Len(all), i < j
        PROVE  Before(all[i], all[j])
    <3>1. Len(handled) \in Nat /\ Len(queue) \in Nat
        BY DEF UiInv, UiTypeOK
    <3>2. CASE j <= Len(handled)
        BY <2>1, <2>2, <3>1, <3>2 DEF UiInv, Order, InOrder
    <3>3. CASE i <= Len(handled) /\ j > Len(handled)
        BY <2>1, <2>2, <3>1, <3>3 DEF UiInv, Order
    <3>4. CASE i > Len(handled)
        BY <2>1, <2>2, <3>1, <3>4 DEF UiInv, Order, InOrder
    <3> QED BY <3>1, <3>2, <3>3, <3>4
  <2> QED BY <2>1, <2>2 DEF HandledInOrder, Before
<1> QED BY <1>1, UiInvariance, PTL

=============================================================================

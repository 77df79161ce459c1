------------------------------ MODULE AdcLease ------------------------------
(***************************************************************************)
(* What the ADC controller promises to disciplined clients: a lease of the *)
(* converter that one task has at a time.  A task asks for it and gets it  *)
(* or is refused; it is refused only while another task has it or because  *)
(* its own arguments are bad.  Only the holder's own calls end a lease.    *)
(***************************************************************************)
CONSTANTS Task, NoTask

VARIABLES
    holder,     \* the task that has the converter
    asking,     \* of a task: what became of its call
    crashed

leaseVars == <<holder, asking, crashed>>

LeaseInit == holder = NoTask /\ asking = [t \in Task |-> "no"] /\ crashed = FALSE

Become(t, a) == asking' = [asking EXCEPT ![t] = a]

(* A call with good or bad arguments. *)
Ask(t) ==
    /\ asking[t] = "no"
    /\ \E a \in {"well", "badly"} : Become(t, a)
    /\ UNCHANGED holder

Take(t) ==
    /\ asking[t] \in {"well", "badly"} /\ holder = NoTask
    /\ holder' = t
    /\ UNCHANGED asking

(* A successful call keeps the lease, or gives it back if the call was all *)
(* it was for.                                                             *)
Succeed(t) ==
    /\ asking[t] = "well" /\ holder = t
    /\ Become(t, "succeeded")
    /\ holder' \in {t, NoTask}

RefuseOther(t) ==
    /\ asking[t] \in {"well", "badly"} /\ holder \notin {t, NoTask}
    /\ Become(t, "refused")
    /\ UNCHANGED holder

RefuseBad(t) ==
    /\ asking[t] = "badly"
    /\ Become(t, "refused")
    /\ holder' = IF holder = t THEN NoTask ELSE holder

Answered(t) ==
    /\ asking[t] \in {"succeeded", "refused"}
    /\ Become(t, "no")
    /\ UNCHANGED holder

GiveBack(t) ==
    /\ asking[t] = "no" /\ holder = t
    /\ holder' = NoTask
    /\ UNCHANGED asking

Crash == crashed' = TRUE /\ UNCHANGED <<holder, asking>>

Restart == crashed /\ holder' = NoTask /\ asking' = [t \in Task |-> "no"] /\ crashed' = FALSE

LeaseNext ==
    \/ /\ ~crashed
       /\ \/ Crash
          \/ /\ crashed' = FALSE
             /\ \E t \in Task : \/ Ask(t) \/ Take(t) \/ Succeed(t) \/ RefuseOther(t)
                                \/ RefuseBad(t) \/ Answered(t) \/ GiveBack(t)
    \/ Restart

LeaseSpec == LeaseInit /\ [][LeaseNext]_leaseVars

=============================================================================

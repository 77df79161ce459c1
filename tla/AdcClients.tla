----------------------------- MODULE AdcClients -----------------------------
(***************************************************************************)
(* AdcController used the way its header asks for: every channel belongs   *)
(* to one task, numbers of samples are positive, and a task that has set   *)
(* up time-critical sampling or started continuous sampling ends it with   *)
(* the matching release function before it samples anything else.  session *)
(* is what a task knows of its own use of the controller.                  *)
(***************************************************************************)
EXTENDS AdcController

CONSTANTS
    Owner,      \* Owner[c] is the task that uses channel c
    ClientArgs  \* the kinds of argument clients pass, "ok" and bad ones

ASSUME ClientAssumption == Owner \in [Channel -> Task]

VARIABLE session

cvars == <<vars, session>>

NoSession == [kind |-> "none", mask |-> {}]

Session == [kind : {"none", "critical", "continuous"}, mask : SUBSET Channel]

Owned(t) == (SUBSET {c \in Channel : Owner[c] = t}) \ {{}}

(* The calls a task makes, from what it knows. *)
Allowed(t, r) ==
    \/ r.op = "IsAvailable"
    \/ r.op = "Calibrate" /\ r.arg \in ClientArgs /\ r.mask \in Owned(t)
    \/ /\ session[t].kind = "none"
       /\ r.op \in {"Setup", "OneShot", "Continuous"}
       /\ r.mask \in Owned(t)
       /\ r.arg \in ClientArgs
       /\ r.op # "Setup" => r.n > 0
    \/ /\ session[t].kind = "critical"
       /\ \/ r.op = "ReleaseCritical"
          \/ r.op = "Critical" /\ r.n > 0
       /\ r.mask = session[t].mask
    \/ /\ session[t].kind = "continuous"
       /\ r.op = "Release"
       /\ r.mask = session[t].mask

(* What a task knows once a call has returned. *)
NextSession(t) ==
    IF ret[t] # "SUCCESS" THEN session[t]
    ELSE CASE req[t].op = "Setup" -> [kind |-> "critical", mask |-> req[t].mask]
           [] req[t].op = "Continuous" -> [kind |-> "continuous", mask |-> req[t].mask]
           [] req[t].op \in {"Release", "ReleaseCritical"} -> NoSession
           [] OTHER -> session[t]

ClientCall(t) ==
    /\ \E r \in Request : Allowed(t, r) /\ Call(t, r)
    /\ UNCHANGED session

ClientReturn(t) ==
    /\ Return(t)
    /\ session' = [session EXCEPT ![t] = NextSession(t)]

ClientInit == Init /\ session = [t \in Task |-> NoSession]

(* The program initialises the controller once, before anything uses it. *)
ClientStart == ~initialised /\ ADC_InitController /\ UNCHANGED session

ClientReboot == Reboot /\ session' = [t \in Task |-> NoSession]

ClientNext ==
    \/ /\ fault = "none"
       /\ \/ ClientStart
          \/ Run /\ UNCHANGED session
          \/ \E t \in Task : ClientCall(t) \/ ClientReturn(t)
    \/ ClientReboot

(* As in AdcController.  Nobody has to call anything, and a task that      *)
(* waits for the mutex may be overtaken.                                   *)
ClientScheduling ==
    /\ \A t \in Task : WF_cvars(fault = "none" /\ Inside(t) /\ UNCHANGED session)
    /\ \A t \in Task : WF_cvars(fault = "none" /\ ClientReturn(t))
    /\ WF_cvars(fault = "none" /\ Interrupt /\ UNCHANGED session)
    /\ WF_cvars(ClientReboot)

ClientSpec == ClientInit /\ [][ClientNext]_cvars

FairClientSpec == ClientSpec /\ ClientScheduling

-----------------------------------------------------------------------------

(* Task t has a session that it is not ending. *)
InSession(t) == session[t].kind # "none"
                /\ req[t].op \notin {"Release", "ReleaseCritical"}

(* The program is stopped only by the interrupt in the middle of an        *)
(* ADC_ReleaseAdcController: by the call of a callback that is gone or by  *)
(* the use of buffers that are freed before the interrupt has ended.  With *)
(* disciplined clients no call uses a freed unit or object or releases the *)
(* adc1 lock for another task, none divides by zero, and outside of a      *)
(* release the interrupt is safe.                                          *)
OnlyReleaseRace ==
    fault # "none" =>
        /\ fault \in {"null_callback", "freed_dma"}
        /\ \E t \in Task : pc[t] \in {"rel_stop", "rel_free", "rel_deinit"}

(* At most one task has a session; the controller is reserved for its      *)
(* channels and the hardware of its session exists.                        *)
SessionExclusive ==
    /\ \A t, u \in Task : InSession(t) /\ InSession(u) => t = u
    /\ \A t \in Task : InSession(t) =>
          /\ active_ctrl_channels = session[t].mask
          /\ session[t].kind = "critical" => unit_claimed
          /\ session[t].kind = "continuous" =>
                /\ ~NoObject /\ cont_fsm[continuous_handle] = "started"
                /\ gdma_conn = continuous_handle
                /\ active_continuous_callback = t

(* SUCCESS of a function that samples means that every sample asked for    *)
(* was really converted.  (ADC_ApplyCalibration promises less: it returns  *)
(* SUCCESS when it has overwritten the samples for want of a scheme.)      *)
SuccessMeansSampled ==
    \A t \in Task :
        pc[t] = "return" /\ ret[t] = "SUCCESS" /\ req[t].op \in {"OneShot", "Critical"} =>
            t \notin lost

(* A task can always end its own session. *)
OwnerCanRelease ==
    \A t \in Task :
        pc[t] = "return" /\ req[t].op \in {"Release", "ReleaseCritical"} =>
            ret[t] = "SUCCESS"

(* A continuous session gets its callback called, unless it is ended. *)
CallbackComes ==
    \A t \in Task :
        session[t].kind = "continuous" ~>
            \/ isr_at = "call" /\ active_continuous_callback = t
            \/ session[t].kind # "continuous"

(* What AdcLease's state is here: the reservation belongs to the owner of  *)
(* its channels, and a call has asked for the converter until its result   *)
(* is set.                                                                 *)
LeaseHolder ==
    IF active_ctrl_channels = {} THEN NoTask
    ELSE Owner[CHOOSE c \in Channel : c \in active_ctrl_channels]

(* ADC_SetupTimeCriticalSampling takes any attenuation. *)
Refusable(r) == r.op # "Setup" /\ r.arg # "ok"

LeaseAsking ==
    [t \in Task |->
        IF req[t].op \notin {"Setup", "OneShot", "Continuous"} THEN "no"
        ELSE CASE ret[t] = "SUCCESS" -> "succeeded" [] ret[t] = "FAIL" -> "refused"
               [] OTHER -> IF Refusable(req[t]) THEN "badly" ELSE "well"]

Lease == INSTANCE AdcLease WITH
            holder <- LeaseHolder, asking <- LeaseAsking, crashed <- (fault # "none")

(* The controller is a lease: a disciplined task is refused only while     *)
(* another task has the converter or if its own arguments are bad, never   *)
(* because of what an earlier call or error path has left behind, and no   *)
(* step of another task ends its lease.                                    *)
ImplementsLease == Lease!LeaseSpec

=============================================================================

----------------------------- MODULE Debouncer -----------------------------
(***************************************************************************)
(* What the trigger driver promises: the reported state of an input is the *)
(* last value the input had in Debounce consecutive samples.  There are no *)
(* counters here, only the last sample and the length of the run it ends.  *)
(***************************************************************************)
EXTENDS Naturals

CONSTANT Debounce

VARIABLES
    state,      \* the debounced state, "INVALID" before the start
    last,       \* the last sample
    streak      \* how many samples in a row had this value, up to Debounce

dvars == <<state, last, streak>>

Value == {"RELEASE", "PRESS"}

DInit == /\ state = "INVALID"
         /\ last = "RELEASE"
         /\ streak = 0

(* The start, again if it failed: the input counts as released. *)
Start == /\ streak = 0
         /\ state' = "RELEASE"
         /\ UNCHANGED <<last, streak>>

Sample(v) ==
    /\ state # "INVALID"
    /\ last' = v
    /\ streak' = IF v # last THEN 1
                 ELSE IF streak < Debounce THEN streak + 1 ELSE streak
    /\ state' = IF streak' = Debounce THEN v ELSE state

DNext == Start \/ \E v \in Value : Sample(v)

DSpec == DInit /\ [][DNext]_dvars

=============================================================================

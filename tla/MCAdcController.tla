-------------------------- MODULE MCAdcController --------------------------
(* AdcController with every call the header allows on a small instance. *)
EXTENDS AdcController, TLC

(* Every function that changes the state of the controller or the drivers, *)
(* with every kind of argument, one bad argument at a time, on the mask of *)
(* all channels; ADC_SetupTimeCriticalSampling, whose test of the channel  *)
(* depends on the reservation, with the invalid channel too but not with a *)
(* bad attenuation, which it does not tell from a good one.  The arguments *)
(* of a continuous start that are refused as an empty mask is are left to  *)
(* MCAdcClients.                                                           *)
BadArgument(r) == r.arg # "ok" \/ r.mask = {INVALID} \/ r.mask = {}

MCRequest ==
    {r \in RequestType :
        /\ r.op \notin {"Calibrate", "IsAvailable"}
        /\ r.mask \in {{}, Channel} \/ (r.op = "Setup" /\ r.mask = {INVALID})
        /\ r.op = "Setup" => r.arg = "ok"
        /\ r.op = "Continuous" => r.arg \in {"ok", "slow_freq"}
        /\ r.op \in {"OneShot", "Continuous", "Critical"} =>
              /\ BadArgument(r) => r.n = MaxSample
              /\ r.arg # "ok" => r.mask = Channel}

(* Valid calls only: what the counterexamples need no bad argument for. *)
MCValidRequest ==
    {r \in MCRequest : ~BadArgument(r) /\ (r.n > 0 \/ r.op \in {"Setup", "Release", "ReleaseCritical"})}

(* Time-critical sampling only. *)
MCCriticalRequest ==
    {r \in MCValidRequest : r.op \in {"Setup", "Critical", "ReleaseCritical"}}

MCSymmetry == Permutations(Task) \cup Permutations(Handle)

=============================================================================

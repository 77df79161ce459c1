---------------------------- MODULE MCAdcClients ----------------------------
(* Disciplined clients: t1 owns one channel, t2 the other ones. *)
EXTENDS AdcClients

CONSTANTS t1, t2, c1

MCOwner == [c \in Channel |-> IF c = c1 THEN t1 ELSE t2]

(* The requests Allowed can pick from: masks of channels of one task, and  *)
(* the largest number of samples.                                          *)
MCRequest ==
    {r \in RequestType :
        /\ r.mask \in UNION {Owned(t) : t \in Task} \/ r.op = "IsAvailable"
        /\ r.op \in {"OneShot", "Continuous", "Critical"} => r.n = MaxSample}

=============================================================================

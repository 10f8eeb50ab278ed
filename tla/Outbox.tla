-------------------------------- MODULE Outbox --------------------------------
(***************************************************************************)
(* What the Firestore client promises about the writes of one device: they *)
(* are kept in the order in which they were made until the server has      *)
(* taken or refused each of them.  A write may be taken several times, but *)
(* for the first time only after every write before it.                    *)
(***************************************************************************)
EXTENDS Naturals, Sequences

CONSTANT NumWrites      \* bound: writes of the device, numbered as they are made

VARIABLES
    queue,      \* writes the client still keeps
    stored,     \* writes it has ever kept
    applied,    \* writes the server has taken at least once
    refused     \* writes the server has refused at least once

vars == <<queue, stored, applied, refused>>

Writes == 1 .. NumWrites

\* Every write before w has been decided by the server.
IsNext(w) == \A v \in stored : v < w => v \in applied \cup refused

Init == queue = << >> /\ stored = {} /\ applied = {} /\ refused = {}

Keep(w) ==
    /\ \A v \in stored : v < w
    /\ stored' = stored \cup {w}
    /\ queue' = Append(queue, w)
    /\ UNCHANGED <<applied, refused>>

Apply(w) ==
    /\ w \in stored /\ IsNext(w)
    /\ applied' = applied \cup {w}
    /\ UNCHANGED <<queue, stored, refused>>

Refuse(w) ==
    /\ w \in stored /\ IsNext(w)
    /\ refused' = refused \cup {w}
    /\ UNCHANGED <<queue, stored, applied>>

Forget ==
    /\ queue # << >> /\ Head(queue) \in applied \cup refused
    /\ queue' = Tail(queue)
    /\ UNCHANGED <<stored, applied, refused>>

Next == Forget \/ \E w \in Writes : Keep(w) \/ Apply(w) \/ Refuse(w)

Spec == Init /\ [][Next]_vars
=============================================================================

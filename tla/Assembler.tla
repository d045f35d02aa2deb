------------------------------ MODULE Assembler ------------------------------
(***************************************************************************)
(* What reassembly promises a feed that sends one message at a time: the   *)
(* parts of a message are collected in any order, a part that is already   *)
(* there changes nothing, and the message comes out once, when its last    *)
(* missing part arrives.                                                   *)
(***************************************************************************)
EXTENDS Naturals

CONSTANTS Messages,  \* what may be sent
          PartsOf,   \* the number of parts of each message
          None

VARIABLES current,  \* the message being sent
          got,      \* its parts that have arrived
          out       \* the message the last arrival brought out, or None
avars == <<current, got, out>>

Missing == (1..PartsOf[current]) \ got

Init == current \in Messages /\ got = {} /\ out = None

Collect(i) == /\ i \in Missing
              /\ Missing # {i}
              /\ got' = got \cup {i}
              /\ out' = None
              /\ UNCHANGED current

Finish(i) == /\ Missing = {i}
             /\ got' = {}
             /\ out' = current
             /\ current' \in Messages

Repeat(i) == /\ i \in got
             /\ out' = None
             /\ UNCHANGED <<current, got>>

\* A missing part arrives.
Add(i) == Collect(i) \/ Finish(i)

Indices == UNION {1..PartsOf[m] : m \in Messages}

Next == \E i \in Indices : Add(i) \/ Repeat(i)

\* Every part that stays missing is eventually sent.
Fairness == \A i \in Indices : WF_avars(Add(i))

Spec == Init /\ [][Next]_avars /\ Fairness
=============================================================================

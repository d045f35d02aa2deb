------------------------------ MODULE Delivery ------------------------------
(***************************************************************************)
(* What a client that stores decoded messages wants of the extension: each *)
(* message is stored in its turn, as it was sent, whatever happens on the  *)
(* way.                                                                    *)
(***************************************************************************)
CONSTANTS Messages,  \* what may be sent
          None

VARIABLES current,  \* the message to be stored
          stored    \* the message stored last, or None
dvars == <<current, stored>>

Init == current \in Messages /\ stored = None

Store == stored' = current /\ current' \in Messages

Liveness == \A m \in Messages : current = m ~> stored = m

Spec == Init /\ [][Store]_dvars /\ Liveness
=============================================================================

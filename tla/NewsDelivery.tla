---------------------------- MODULE NewsDelivery ----------------------------
(***************************************************************************)
(* What the messaging side of backend-rest promises about the news of the  *)
(* events (README, "Mensajeria asincrona"): a piece of news that was       *)
(* accepted, because the transaction that carries it committed, reaches    *)
(* the topic at least once; nothing else ever does.  How often it is       *)
(* delivered, and in which order, is left open.                            *)
(***************************************************************************)
CONSTANT Messages          \* the values of messageId

VARIABLES accepted,        \* the messages whose transaction committed
          delivered        \* the messages with at least one copy in the topic

nvars == <<accepted, delivered>>

NewsTypeOK == accepted \subseteq Messages /\ delivered \subseteq Messages

NewsInit == accepted = {} /\ delivered = {}

Accept(m) == /\ m \in Messages \ accepted
             /\ accepted' = accepted \cup {m}
             /\ UNCHANGED delivered

Deliver(m) == /\ m \in accepted \ delivered
              /\ delivered' = delivered \cup {m}
              /\ UNCHANGED accepted

NewsNext == \E m \in Messages : Accept(m) \/ Deliver(m)

NewsSafety == NewsInit /\ [][NewsNext]_nvars

NewsSpec == NewsSafety /\ \A m \in Messages : WF_nvars(Deliver(m))
=============================================================================

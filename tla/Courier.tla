------------------------------- MODULE Courier -------------------------------
(***************************************************************************)
(* What a sender may rely on when it posts a message to the bridge and     *)
(* gives up waiting after some time: the message acts once at most, and    *)
(* never after it was answered.  Unanswered, it may act at any later time. *)
(***************************************************************************)
CONSTANT Messages

VARIABLES
  sent,      \* posted, perhaps still on the way
  acted,     \* those whose effect is in the tables
  answered   \* those whose sender got the answer of the bridge

Init == sent = {} /\ acted = {} /\ answered = {}

Send(m) ==
  /\ m \notin sent
  /\ sent' = sent \cup {m}
  /\ UNCHANGED <<acted, answered>>

Act(m) ==
  /\ m \in sent \ (acted \cup answered)
  /\ acted' = acted \cup {m}
  /\ UNCHANGED <<sent, answered>>

Answer(m) ==
  /\ m \in sent \ answered
  /\ answered' = answered \cup {m}
  /\ UNCHANGED <<sent, acted>>

Next == \E m \in Messages : Send(m) \/ Act(m) \/ Answer(m)

Spec == Init /\ [][Next]_<<sent, acted, answered>>
=============================================================================

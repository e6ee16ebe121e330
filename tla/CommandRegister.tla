-------------------------- MODULE CommandRegister --------------------------
(***************************************************************************)
(* What the bridge promises about a command, whatever happens inside: its  *)
(* content is taken at most once and stays taken; the effect is applied by *)
(* one caller at most, and only once the content is taken.  It may be      *)
(* taken and never applied.                                                *)
(***************************************************************************)
CONSTANTS Contents, Callers

VARIABLES
  taken,  \* contents recorded as consumed
  done    \* pairs <<caller, content>>: the effects committed

Init == taken = {} /\ done = {}

Take(c) ==
  /\ c \notin taken
  /\ taken' = taken \cup {c}
  /\ UNCHANGED done

Apply(q, c) ==
  /\ c \in taken
  /\ \A pair \in done : pair[2] # c
  /\ done' = done \cup {<<q, c>>}
  /\ UNCHANGED taken

Next == \E c \in Contents : Take(c) \/ \E q \in Callers : Apply(q, c)

Spec == Init /\ [][Next]_<<taken, done>>
=============================================================================

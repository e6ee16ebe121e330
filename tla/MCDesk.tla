-------------------------------- MODULE MCDesk --------------------------------
(***************************************************************************)
(* Small instances of Desk for TLC, with the claims and the commands of    *)
(* MCPipeline.                                                             *)
(***************************************************************************)
EXTENDS Desk, MCBridge

\* Two tasks recommend the small claim at two times, or escalate it or the
\* large one, all under one correlation id.
DeskLetters ==
  {Commands(Settle("small", 4, n), "agent", "none", "c1") : n \in {"n1", "n2"}}
  \cup {Ask(Settle("large", 8, "n1"), "agent", "c1"), Ask(Settle("small", 2, "n1"), "agent", "c1")}

\* A task recommends or escalates; the CEO decides or turns the switch off.
EndsLetters ==
  {Commands(Settle("small", 4, "n1"), "agent", "none", "c1"),
   Ask(Settle("large", 8, "n1"), "agent", "c1")}
EndsBodies == EndsLetters \cup {Decide("ceo", "c1", TRUE), Switch("ceo", FALSE)}

DeskContents == BodyContents(DeskLetters)
DeskEnvelopes == BodyEnvelopes(DeskLetters)
EndsContents == BodyContents(EndsBodies)
EndsEnvelopes == BodyEnvelopes(EndsBodies)
=============================================================================

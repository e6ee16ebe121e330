------------------------------ MODULE MCCockpit ------------------------------
(***************************************************************************)
(* Small instances of Cockpit for TLC, with the claims and the commands of *)
(* MCPipeline.                                                             *)
(***************************************************************************)
EXTENDS Cockpit, MCBridge

\* The buttons of the page, while an agent escalates the small claim, under the
\* same correlation id or another one.
CockpitForms == {Decide("ceo", "c1", approve) : approve \in BOOLEAN}
CockpitBodies == CockpitForms \cup {Ask(Settle("small", 4, "n1"), "agent", c) : c \in {"c1", "c2"}}

CockpitContents == BodyContents(CockpitBodies) \cup {Settle("large", 8, "n3")}
CockpitEnvelopes == BodyEnvelopes(CockpitBodies)
=============================================================================

------------------------------ MODULE MCBridge ------------------------------
(***************************************************************************)
(* Small instances of Bridge for TLC: the portfolio and the commands of    *)
(* MCPipeline, and one set of HTTP requests for each question asked.       *)
(***************************************************************************)
EXTENDS Bridge, MCPipeline

Post(route, content, author, event, correlation, flag) ==
  [route |-> route, content |-> content, author |-> author, event |-> event,
   correlation |-> correlation, flag |-> flag]

\* "n3" is the nonce of the settlements the bridge builds.
MCDecisionNonces == {"n3"}
BuiltToo(contents) ==
  contents \cup {[c EXCEPT !.nonce = "n3"] :
                   c \in {d \in contents : d.type = "claim.settlement.approve"}}

Commands(content, author, event, correlation) ==
  Post("commands", content, author, event, correlation, FALSE)
Ask(content, author, correlation) ==
  Post("approvals", content, author, "none", correlation, FALSE)
\* The content of a decision is a placeholder until one is executed.
Decide(author, correlation, approve) ==
  Post("decide", FreeText, author, "none", correlation, approve)
Switch(author, active) ==
  Post("killswitch", IF active THEN Activate("n1") ELSE Deactivate("n1"), author, "none",
       "c3", active)

\* The escalation of the large claim waits for the CEO since an earlier process.
WaitingApproval ==
  {[correlation_id |-> "c1", type |-> "claim.settlement.approve", claim_id |-> "large",
    montant_eur |-> 8, statut |-> "en_attente", decided |-> FALSE]}

\* One correlation id: an agent asks or settles, the CEO approves and refuses.
ApprovalBodies ==
  {Ask(Settle("large", 8, "n1"), "agent", "c1"),
   Commands(Settle("small", 4, "n1"), "agent", "none", "c1"),
   Decide("ceo", "c1", TRUE), Decide("ceo", "c1", FALSE)}

\* Every route from every kind of author; settlements of every kind of claim,
\* one above the maximum amount.
\* Requests under "c1" meet the waiting approval.
RouteBodies ==
  ApprovalBodies \cup {Ask(Settle("large", 8, "n1"), a, "c2") : a \in MCPubkeys}
  \cup {Decide(a, "c1", TRUE) : a \in MCPubkeys}
  \cup {Switch(a, on) : a \in {"ceo", "agent"}, on \in BOOLEAN}
  \cup {Commands(Settle(k, 4, "n1"), "agent", "none", "c2") : k \in MCClaimIds}
  \cup {Commands(Settle(k, 8, "n1"), "ceo", "valid", "c2") : k \in {"large", "blocked"}}
  \cup {Commands(Settle("small", 2, "n1"), "agent", "none", "c2"),
        Commands(Settle("small", 4, "n1"), "ceo", "none", "c2"),
        Commands(Settle("small", 4, "n1"), "stranger", "none", "c2"),
        Commands(Report, "ceo", "valid", "c2"), Commands(FreeText, "ceo", "valid", "c2"),
        Commands(Activate("n2"), "ceo", "invalid", "c2")}
  \cup {Commands(c, a, "valid", "c2") :
          c \in {Reject("large"), Pricing, Activate("n2")}, a \in {"ceo", "agent"}}
  \cup {Commands(Reject("large"), "ceo", "none", "c2"), Ask(Settle("large", 9, "n1"), "agent", "c2"),
        Commands(Settle("large", 9, "n1"), "ceo", "valid", "c2")}

BodyContents(bodies) == BuiltToo({b.content : b \in bodies})
BodyEnvelopes(bodies) ==
  {Sent(b.content, b.author, b.event = "valid", b.correlation) : b \in bodies}

ApprovalContents == BodyContents(ApprovalBodies)
ApprovalEnvelopes == BodyEnvelopes(ApprovalBodies)
RouteContents == BodyContents(RouteBodies)
RouteEnvelopes == BodyEnvelopes(RouteBodies)
=============================================================================

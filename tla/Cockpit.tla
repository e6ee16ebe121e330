------------------------------- MODULE Cockpit -------------------------------
(***************************************************************************)
(* The CEO cockpit (dashboard/dashboard.ts, GET /dashboard): a page read   *)
(* from the tables, whose buttons post to the handlers of module Bridge.   *)
(*                                                                         *)
(* The sections are read by parallel queries outside a transaction, so     *)
(* that effects commit between them; one failing query makes the whole     *)
(* page unavailable (Promise.all).  A page that was served reloads itself  *)
(* every 30 s, the error page of a browser does not, nor one that a button *)
(* was pressed on.  A button is pressed on the page as it was read.        *)
(*                                                                         *)
(* Kept are the sections a settlement changes: ledger entries, settled     *)
(* claims and pending approvals, so many at most.  Weekly results, ratios, *)
(* clients, macro indicators, the switch and the timeline are read the     *)
(* same way; the button of the switch is one of the requests that arrive   *)
(* whatever the page shows.                                                *)
(***************************************************************************)
EXTENDS Bridge, FiniteSets

CONSTANTS
  Forms,      \* the decisions the buttons of a page post; others come directly
  PageLimit   \* the most pending approvals a page lists: 100

ASSUME PageLimitAssumption == PageLimit \in Nat \ {0}
ASSUME FormsAssumption ==
  /\ Forms \subseteq Bodies
  /\ \A b \in Forms : b.route = "decide" /\ b.author \in CeoPubkeys /\ b.event = "none"

VARIABLES
  awaited,   \* sections of the page being loaded that were not read yet
  load,      \* what its sections read so far
  torn,      \* history: an effect committed since the load began
  page,      \* the page in the CEO's browser
  pressed    \* history: the approval on whose row a request was pressed, if any

cockpit == <<awaited, load, torn, page, pressed>>
cockpitVars == <<bridgeVars, cockpit>>

Section == {"pnl", "sinistres", "approbations"}

\* What one page says.  regle: the claims of status 'regle'.
Figures ==
  [nb_ecritures : Nat, regle : SUBSET Claims,
   en_attente : SUBSET {a \in ApprobationRow : a.statut = "en_attente"}]

Blank == [nb_ecritures |-> 0, regle |-> {}, en_attente |-> {}]

\* sections: those shown, the others say they are unavailable.
\* reloads: the page is one with a meta refresh, and is not being left.
Page == [sections : SUBSET Section, torn : BOOLEAN, figures : Figures, reloads : BOOLEAN]

Unavailable == [sections |-> {}, torn |-> FALSE, figures |-> Blank, reloads |-> TRUE]

\* No tab, or the browser's own error page.
NoPage == [Unavailable EXCEPT !.reloads = FALSE]

CockpitInit ==
  /\ BridgeInit
  /\ awaited = {} /\ load = Blank /\ torn = FALSE
  /\ page = NoPage
  /\ pressed = [r \in Requests |-> {}]

----------------------------------------------------------------------------
(* dashboardSnapshot *)

\* Mutant: a page that was served does not reload itself.
GetDashboardOnce ==
  /\ awaited = {} /\ ~page.reloads
  /\ awaited' = Section
  /\ UNCHANGED <<bridgeVars, load, torn, page, pressed>>

\* All queries are sent at once: a reload, the redirect after a button, or the
\* CEO opening the page.
GetDashboard ==
  /\ awaited = {}
  /\ awaited' = Section
  /\ UNCHANGED <<bridgeVars, load, torn, page, pressed>>

Regle == {k \in Claims : sinistres[k].statut = "regle"}

Pending == {a \in approbations : a.statut = "en_attente"}

\* Mutant: the status is not looked at.
ListApprovalsOfAnyStatus == {approbations}

\* The lists SELECT ... LIMIT may answer.  created_at is not kept: any rows may
\* be the oldest.
ListApprovals ==
  {rows \in SUBSET Pending : Cardinality(rows) = Lesser(PageLimit, Cardinality(Pending))}

\* What the load may hold once it has read section s.
Readings(s) ==
  CASE s = "pnl" -> {[load EXCEPT !.nb_ecritures = Len(ledger)]}
    [] s = "sinistres" -> {[load EXCEPT !.regle = Regle]}
    [] s = "approbations" -> {[load EXCEPT !.en_attente = rows] : rows \in ListApprovals}

EndLoad == awaited' = {} /\ load' = Blank /\ torn' = FALSE

\* A query answers, others are still awaited.
ReadSection(s) ==
  /\ s \in awaited /\ awaited # {s}
  /\ awaited' = awaited \ {s} /\ load' \in Readings(s)
  /\ UNCHANGED <<bridgeVars, torn, page, pressed>>

\* The last query answers and the page is rendered.
RenderDashboard(s) ==
  /\ awaited = {s}
  /\ \E figures \in Readings(s) :
       page' = [sections |-> Section, torn |-> torn, figures |-> figures, reloads |-> TRUE]
  /\ EndLoad
  /\ UNCHANGED <<bridgeVars, pressed>>

\* A query fails: the snapshot is null and no section is shown.
ReadFails(s) ==
  /\ s \in awaited
  /\ page' = Unavailable
  /\ EndLoad
  /\ UNCHANGED <<bridgeVars, pressed>>

\* The browser gets no page, of a load or of a button, or the tab is closed.
NavigationFails ==
  /\ page # NoPage \/ awaited # {}
  /\ page' = NoPage
  /\ EndLoad
  /\ UNCHANGED <<bridgeVars, pressed>>

----------------------------------------------------------------------------
(* The buttons, and the rest of the bridge *)

\* Approve or Reject on the row of a pending approval.  The form leaves the page.
PressDecision(r, a, b) ==
  /\ "approbations" \in page.sections /\ a \in page.figures.en_attente
  /\ b \in Forms /\ b.route = "decide" /\ b.correlation = a.correlation_id
  /\ PostDecision(r, b)
  /\ pressed' = [pressed EXCEPT ![r] = {a}]
  /\ page' = [page EXCEPT !.reloads = FALSE]
  /\ UNCHANGED <<awaited, load, torn>>

ArriveDirectly(r, b) == b \notin Forms /\ Arrive(r, b) /\ UNCHANGED cockpit

\* A handler works; an effect that commits tears the page being loaded.
BridgeWorks(r) ==
  /\ Handle(r)
  /\ torn' = (torn \/ (awaited # {} /\ applied' # applied))
  /\ UNCHANGED <<awaited, load, page, pressed>>

\* The queries of a load die with the process, and its connection.
CockpitCrash ==
  /\ BridgeCrash
  /\ page' = IF awaited = {} THEN page ELSE NoPage
  /\ EndLoad
  /\ UNCHANGED pressed

LoadStep == \E s \in Section : ReadSection(s) \/ RenderDashboard(s) \/ ReadFails(s)

CockpitNext ==
  \/ GetDashboard \/ LoadStep \/ NavigationFails
  \/ \E r \in Requests :
       \/ \E b \in Forms, a \in page.figures.en_attente : PressDecision(r, a, b)
       \/ \E b \in Bodies : ArriveDirectly(r, b)
       \/ BridgeWorks(r)
  \/ CockpitCrash

CockpitSpec == CockpitInit /\ [][CockpitNext]_cockpitVars

\* The browser reloads, every 30 s, a page with a meta refresh; a query answers
\* or fails.  Nothing opens the page but the CEO.
CockpitFairSpec ==
  /\ CockpitSpec
  /\ WF_cockpitVars(page.reloads /\ GetDashboard)
  /\ WF_cockpitVars(LoadStep)

----------------------------------------------------------------------------
(* Properties *)

\* Types of the page and of its load, on top of the bridge's.
CockpitTypeOK ==
  /\ BridgeTypeOK
  /\ awaited \subseteq Section /\ load \in Figures /\ torn \in BOOLEAN
  /\ page \in Page
  /\ pressed \in [Requests -> SUBSET ApprobationRow]

\* The CEO decides on what the page showed: however old the page, and whatever
\* arrived under the same correlation id since, the settlement executed is that
\* of the claim and the amount on the row of the button.  What the ledger pays is
\* that amount only up to the threshold: of a larger one, the threshold
\* (settleClaimEffect).
DecidedAsShown ==
  \A r \in applied : \A a \in pressed[r] :
    /\ cmd(r).claim_id = a.claim_id /\ cmd(r).amount = a.montant_eur
    /\ \E i \in DOMAIN ledger :
         ledger[i] = [correlation_id |-> a.correlation_id, claim_id |-> a.claim_id,
                      montant |-> -Lesser(a.montant_eur, ThresholdEur)]

\* The message after a button is true: "already processed or not found" means
\* processed, for a row that was shown; "denied" means refused for good, and
\* "approved" that the row was decided and is pending no more.
NoticeTrue ==
  \A r \in Requests : \A a \in pressed[r] :
    status[r] \in {200, 409} =>
      \E d \in approbations :
        /\ d.correlation_id = a.correlation_id /\ d.statut # "en_attente"
        /\ status[r] = 200 => d.decided /\ (request[r].flag \/ d.statut = "refuse")

\* The figures of one page belong together unless an effect committed while it
\* was loading: every claim that was settled has its entry in the ledger, and an
\* entry without a settled claim is explained by a refusal that overtook it.
FiguresAgree ==
  {"pnl", "sinistres"} \subseteq page.sections /\ ~page.torn =>
    LET settled == {k \in page.figures.regle : Portfolio[k].statut # "regle"} IN
    /\ Cardinality(settled) <= page.figures.nb_ecritures
    /\ page.figures.nb_ecritures > 0 /\ settled = {} =>
         \E r \in applied : cmd(r).type = "claim.settlement.reject"

\* A pending approval is shown to the CEO sooner or later, or decided before, if
\* from some time on the queries do not fail, the CEO has a page that was served
\* and no button was pressed on, and no more approvals are pending than a page
\* lists.  Behind PageLimit older ones an approval is never shown.
EveryApprovalSeen ==
  /\ <>[][\A s \in Section : ~ReadFails(s)]_cockpitVars
  /\ <>[](page.reloads /\ Cardinality(Pending) <= PageLimit)
  => \A c \in Correlations :
       (\E a \in Pending : a.correlation_id = c) ~>
         \/ \E a \in page.figures.en_attente : a.correlation_id = c
         \/ \E a \in approbations : a.correlation_id = c /\ a.statut # "en_attente"
=============================================================================

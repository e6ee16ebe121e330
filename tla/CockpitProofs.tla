---------------------------- MODULE CockpitProofs ----------------------------
(***************************************************************************)
(* Theorems about Cockpit, for every set of requests, bodies, forms,       *)
(* claims and correlation ids: what the CEO may conclude from a page and   *)
(* from the message after a button, however old the page is.               *)
(*                                                                         *)
(* The cockpit reads the tables of the bridge and posts to its handlers:   *)
(* what is proved of BridgeSpec (module BridgeProofs) holds here.          *)
(***************************************************************************)
EXTENDS Cockpit, BridgeProofs, FiniteSetTheorems

----------------------------------------------------------------------------
(* The rows of the buttons *)

\* The approval a was read from the table and is still there, decided or not.
Stands(a) ==
  \E b \in approbations :
    /\ b.correlation_id = a.correlation_id
    /\ b.claim_id = a.claim_id /\ b.montant_eur = a.montant_eur

----------------------------------------------------------------------------
(* The tables a page is read from *)

\* Without a commit the ledger and the claims stay what they are.
LEMMA QuietBooks ==
  ASSUME TypeOK, OnceInv, [SharedNext]_vars, applied' = applied
  PROVE  sinistres' = sinistres /\ ledger' = ledger
<1>1. ASSUME NEW r \in Requests, Step(r)
      PROVE  sinistres' = sinistres /\ ledger' = ledger
  <2>1. pc[r] = "effect" => r \notin applied
    BY DEF OnceInv, FallibleStages
  <2>2. CommitEffect(r) => r \in applied'
    BY DEF CommitEffect
  <2> QED
    BY <1>1, <2>1, <2>2, StepCommits
<1> QED
  BY <1>1 DEF SharedNext, Receive, LoseMemory, Elsewhere, vars, db

\* The claims that became 'regle' are among those of the ledger, and when there
\* is none a refusal has overtaken the settlements of the ledger.
LEMMA SettledEntries ==
  ASSUME TypeOK, BooksInv, SettlementCovers, RefusedInv, NEW settled,
         settled = {k \in Regle : Portfolio[k].statut # "regle"}
  PROVE  /\ Cardinality(settled) <= Len(ledger)
         /\ Len(ledger) > 0 /\ settled = {} =>
              \E q \in applied : cmd(q).type = "claim.settlement.reject"
<1> DEFINE n == Len(ledger)
           f == [i \in 1..n |-> ledger[i].claim_id]
           named == {f[i] : i \in 1..n}
<1>1. n \in Nat /\ DOMAIN ledger = 1..n
  BY DEF TypeOK
<1>2. settled \subseteq named
  <2> SUFFICES ASSUME NEW k \in settled PROVE k \in named
    OBVIOUS
  <2>1. PICK i \in DOMAIN ledger : ledger[i].claim_id = k
    BY DEF BooksInv, BooksAgree, Regle
  <2> QED
    BY <1>1, <2>1
<1>3. Cardinality(settled) <= n
  <2> HIDE DEF f
  <2>0. f \in [1..n -> named]
    BY DEF f
  <2> HIDE DEF n
  <2>1. f \in Surjection(1..n, named)
    BY <2>0 DEF Surjection
  <2>2. ExistsSurjection(1..n, named)
    BY <2>1 DEF ExistsSurjection
  <2>3. Cardinality(named) <= n
    <3> HIDE DEF named
    <3> QED
      BY <1>1, <2>2, FS_SurjCardinalityBound
  <2>4. IsFiniteSet(named)
    <3> HIDE DEF named
    <3> QED
      BY <1>1, <2>2, FS_NatSurjection
  <2>5. Cardinality(settled) <= Cardinality(named)
    <3> HIDE DEF named
    <3> QED
      BY <1>2, <2>4, FS_Subset
  <2>6. Cardinality(settled) \in Nat /\ Cardinality(named) \in Nat
    <3> HIDE DEF named
    <3> QED
      BY <1>2, <2>4, FS_Subset, FS_CardinalityType
  <2> QED
    BY <1>1, <2>3, <2>5, <2>6
<1>4. ASSUME n > 0, settled = {}
      PROVE  \E q \in applied : cmd(q).type = "claim.settlement.reject"
  <2> DEFINE k == ledger[1].claim_id
  <2>1. 1 \in DOMAIN ledger
    BY <1>1, <1>4
  <2>2. /\ k \in Claims /\ sinistres[k].statut \in {"regle", "refuse"}
        /\ Portfolio[k].statut \in {"ouvert", "en_traitement"}
    BY <2>1 DEF BooksInv, BooksAgree, SettlementCovers
  <2>3. sinistres[k].statut = "refuse"
    BY <1>4, <2>2 DEF Regle
  <2> QED
    BY <2>2, <2>3 DEF RefusedInv
<1> QED
  BY <1>3, <1>4

\* A section shows what is in its table; the others stay as they were read.
LEMMA ReadingFacts ==
  ASSUME TypeOK, load \in Figures, NEW s \in Section, NEW f \in Readings(s)
  PROVE  /\ f \in Figures
         /\ f.nb_ecritures = IF s = "pnl" THEN Len(ledger) ELSE load.nb_ecritures
         /\ f.regle = IF s = "sinistres" THEN Regle ELSE load.regle
         /\ \A a \in f.en_attente : a \in load.en_attente \cup approbations
<1>1. Len(ledger) \in Nat /\ Regle \subseteq Claims
  BY DEF TypeOK, Regle
<1>2. CASE s = "pnl"
  <2>1. f = [load EXCEPT !.nb_ecritures = Len(ledger)]
    BY <1>2 DEF Readings
  <2> QED
    BY <1>1, <1>2, <2>1 DEF Figures
<1>3. CASE s = "sinistres"
  <2>1. f = [load EXCEPT !.regle = Regle]
    BY <1>3 DEF Readings
  <2> QED
    BY <1>1, <1>3, <2>1 DEF Figures
<1>4. CASE s = "approbations"
  <2>1. PICK rows \in ListApprovals : f = [load EXCEPT !.en_attente = rows]
    BY <1>4 DEF Readings
  <2>2. /\ rows \subseteq approbations
        /\ rows \subseteq {a \in ApprobationRow : a.statut = "en_attente"}
    BY DEF TypeOK, ListApprovals, Pending
  <2> QED
    BY <1>4, <2>1, <2>2 DEF Figures
<1> QED
  BY <1>2, <1>3, <1>4 DEF Section

----------------------------------------------------------------------------
(* The page and its buttons *)

\* The row of a button still stands, its request decides it, and a 409 found it
\* decided.
Followed(r) ==
  \A a \in pressed[r] :
    /\ Stands(a) /\ at[r] # "idle"
    /\ request[r].route = "decide" /\ request[r].correlation = a.correlation_id
    /\ status[r] = 409 =>
         \E d \in approbations : d.correlation_id = a.correlation_id /\ d.statut # "en_attente"

\* What a load has read is still so while no effect has committed.
LoadAgrees ==
  awaited # {} /\ ~torn =>
    /\ "pnl" \notin awaited => load.nb_ecritures = Len(ledger)
    /\ "sinistres" \notin awaited => load.regle = Regle

CockpitInv ==
  /\ CockpitTypeOK /\ LoadAgrees /\ FiguresAgree
  /\ \A a \in load.en_attente : Stands(a)
  /\ \A a \in page.figures.en_attente : Stands(a)
  /\ \A r \in Requests : Followed(r)

\* What the bridge's side is known to keep.
TablesSide == BridgeInv /\ OnceInv /\ BooksInv /\ SettlementCovers /\ RefusedInv

\* The cockpit adds a reader and a sender to the bridge and changes nothing of it.
LEMMA CockpitStepsBridge ==
  ASSUME [CockpitNext]_cockpitVars
  PROVE  [BridgeNext]_bridgeVars
<1>1. GetDashboard \/ LoadStep \/ NavigationFails => UNCHANGED bridgeVars
  BY DEF GetDashboard, LoadStep, ReadSection, RenderDashboard, ReadFails, NavigationFails
<1>2. ASSUME NEW r \in Requests, NEW b \in Forms, NEW a, PressDecision(r, a, b)
      PROVE  BridgeNext
  BY <1>2, FormsAssumption DEF PressDecision, BridgeNext, Arrive
<1>3. ASSUME NEW r \in Requests, NEW b \in Bodies, ArriveDirectly(r, b)
      PROVE  BridgeNext
  BY <1>3 DEF ArriveDirectly, BridgeNext
<1>4. ASSUME NEW r \in Requests, BridgeWorks(r)
      PROVE  BridgeNext
  BY <1>4 DEF BridgeWorks, BridgeNext
<1>5. CockpitCrash => BridgeNext
  BY DEF CockpitCrash, BridgeNext
<1>6. UNCHANGED cockpitVars => UNCHANGED bridgeVars
  BY DEF cockpitVars
<1> QED
  BY <1>1, <1>2, <1>3, <1>4, <1>5, <1>6 DEF CockpitNext

\* A row that was read goes on standing.
LEMMA StandsOn ==
  ASSUME TypeOK, RowsMoveOn, NEW a, Stands(a)
  PROVE  Stands(a)'
BY SubjectStays DEF Stands

\* A 409 comes from a decision that found nothing pending.
LEMMA ConflictNow ==
  ASSUME BridgeInv, [BridgeNext]_bridgeVars, NEW r \in Requests,
         status'[r] = 409, status[r] # 409
  PROVE  Undecided(request[r].correlation) = {}
<1>0. status \in [Requests -> {-1, 0, 200, 400, 401, 403, 409, 500}]
  BY DEF BridgeInv, BridgeTypeOK
<1>1. ASSUME NEW q \in Requests, Acts(q)
      PROVE  q = r
  BY <1>1, OthersStay
<1>2. ASSUME NEW b \in Bodies, Arrive(r, b)
      PROVE  FALSE
  <2>1. CASE EnterPipeline(r, b, b.event = "valid")
    <3>1. status' = status
      BY <2>1, Zenon DEF EnterPipeline, Await
    <3> QED
      BY <3>1
  <2>2. CASE ~EnterPipeline(r, b, b.event = "valid")
    <3>1. status' = status \/ \E s \in {400, 401, 403} : status' = [status EXCEPT ![r] = s]
      BY <1>2, <2>2, ArriveLinked
    <3> QED
      BY <1>0, <3>1
  <2> QED
    BY <2>1, <2>2
<1>3. CASE Handle(r)
  <2>1. CASE DecideRow(r)
    BY <1>0, <2>1, DecideRowState
  <2>2. CASE ExecuteDecision(r) \/ RecordSwitch(r) \/ SetKillSwitch(r) \/ PipelineStep(r)
    BY <2>2 DEF ExecuteDecision, RecordSwitch, SetKillSwitch, PipelineStep, EnterPipeline, Await, http
  <2>3. CASE CreateApprobation(r) \/ HandlerFails(r) \/ AnswerResult(r)
    BY <1>0, <2>3 DEF CreateApprobation, HandlerFails, AnswerResult, Reply
  <2> QED
    BY <1>3, <2>1, <2>2, <2>3 DEF Handle
<1>4. ~(BridgeCrash \/ UNCHANGED bridgeVars)
  BY <1>0 DEF BridgeCrash, bridgeVars, http
<1> QED
  BY <1>1, <1>2, <1>3, <1>4 DEF BridgeNext, Acts

\* The request of a button goes on deciding its row.
LEMMA FollowedStays ==
  ASSUME BridgeInv, [BridgeNext]_bridgeVars, NEW r \in Requests, Followed(r),
         pressed'[r] = pressed[r]
  PROVE  Followed(r)'
<1> SUFFICES ASSUME NEW a \in pressed[r]
             PROVE  /\ Stands(a)' /\ at'[r] # "idle"
                    /\ request'[r].route = "decide" /\ request'[r].correlation = a.correlation_id
                    /\ status'[r] = 409 =>
                         \E d \in approbations' :
                           d.correlation_id = a.correlation_id /\ d.statut # "en_attente"
  BY DEF Followed
<1>0. TypeOK /\ RowsMoveOn
  BY HandlersShare, SharedRows DEF BridgeInv, BridgeTypeOK
<1>1. /\ Stands(a) /\ at[r] # "idle"
      /\ request[r].route = "decide" /\ request[r].correlation = a.correlation_id
  BY DEF Followed
<1>2. Stands(a)'
  BY <1>0, <1>1, StandsOn
<1>3. at'[r] # "idle" /\ request'[r].route = "decide"
      /\ request'[r].correlation = a.correlation_id
  BY <1>1, RequestStays
<1>4. ASSUME status'[r] = 409
      PROVE  \E d \in approbations : d.correlation_id = a.correlation_id /\ d.statut # "en_attente"
  <2>1. CASE status[r] = 409
    BY <2>1 DEF Followed
  <2>2. CASE status[r] # 409
    BY <1>1, <1>4, <2>2, ConflictNow DEF Undecided, Stands
  <2> QED
    BY <2>1, <2>2
<1>5. status'[r] = 409 => \E d \in approbations' :
                            d.correlation_id = a.correlation_id /\ d.statut # "en_attente"
  BY <1>0, <1>4, RowsStay
<1> QED
  BY <1>2, <1>3, <1>5

\* The page shows what it showed, or nothing.
SamePage ==
  \/ page'.sections = page.sections /\ page'.torn = page.torn /\ page'.figures = page.figures
  \/ page'.sections = {} /\ page'.figures.en_attente = {}

\* What a step of the bridge leaves true while the page and the buttons pressed
\* stay the same.
LEMMA PageStays ==
  ASSUME TablesSide, CockpitInv, [BridgeNext]_bridgeVars, SamePage,
         NEW r \in Requests, \A q \in Requests \ {r} : pressed'[q] = pressed[q],
         pressed'[r] = pressed[r] \/ Followed(r)'
  PROVE  /\ FiguresAgree' /\ BridgeTypeOK'
         /\ \A a \in load.en_attente : Stands(a)'
         /\ \A a \in page'.figures.en_attente : Stands(a)'
         /\ \A q \in Requests : Followed(q)'
<1>0. TypeOK /\ RowsMoveOn /\ [SharedNext]_vars
  BY HandlersShare, SharedRows DEF TablesSide, BridgeInv, BridgeTypeOK
<1>1. BridgeTypeOK'
  BY BridgeInvNext DEF TablesSide, BridgeInv
<1>2. applied \subseteq applied' /\ \A q \in applied : cmd(q)' = cmd(q)
  BY <1>0, AppliedStays DEF TablesSide
<1>3. FiguresAgree'
  <2>1. FiguresAgree
    BY DEF CockpitInv
  <2>2. ASSUME NEW q \in applied, cmd(q).type = "claim.settlement.reject"
        PROVE  q \in applied' /\ cmd(q).type' = "claim.settlement.reject"
    BY <1>2, <2>2
  <2>3. CASE page'.sections = {}
    BY <2>3 DEF FiguresAgree
  <2>4. CASE /\ page'.sections = page.sections /\ page'.torn = page.torn
             /\ page'.figures = page.figures
    BY <2>1, <2>2, <2>4 DEF FiguresAgree
  <2> QED
    BY <2>3, <2>4 DEF SamePage
<1>4. /\ \A a \in load.en_attente : Stands(a)'
      /\ \A a \in page'.figures.en_attente : Stands(a)'
  BY <1>0, StandsOn DEF CockpitInv, SamePage
<1>5. \A q \in Requests : Followed(q)'
  BY FollowedStays DEF TablesSide, CockpitInv
<1> QED
  BY <1>1, <1>3, <1>4, <1>5

\* Every step keeps the page, its load and the buttons in line with the tables.
LEMMA CockpitInvNext == TablesSide /\ CockpitInv /\ [CockpitNext]_cockpitVars => CockpitInv'
<1> SUFFICES ASSUME TablesSide, CockpitInv, [CockpitNext]_cockpitVars PROVE CockpitInv'
  OBVIOUS
<1>0. /\ awaited \subseteq Section /\ load \in Figures /\ torn \in BOOLEAN /\ page \in Page
      /\ pressed \in [Requests -> SUBSET ApprobationRow] /\ BridgeTypeOK /\ TypeOK
      /\ \A q \in Requests : Followed(q)
      /\ \A a \in load.en_attente \cup page.figures.en_attente : Stands(a)
      /\ LoadAgrees /\ FiguresAgree
  BY DEF CockpitInv, CockpitTypeOK, BridgeTypeOK
<1>1. [BridgeNext]_bridgeVars
  BY CockpitStepsBridge
<1>2. [SharedNext]_vars
  BY <1>1, HandlersShare DEF TablesSide
<1>3. ASSUME UNCHANGED bridgeVars
      PROVE  /\ BridgeTypeOK' /\ UNCHANGED <<ledger, sinistres, approbations, applied, env>>
             /\ UNCHANGED <<request, at, status>> /\ Regle' = Regle
  <2>1. BridgeTypeOK'
    BY <1>3, BridgeInvNext DEF TablesSide, BridgeInv
  <2>2. UNCHANGED <<ledger, sinistres, approbations, applied, env, request, at, status>>
    BY <1>3 DEF bridgeVars, http, vars, db, process, history
  <2> QED
    BY <2>1, <2>2 DEF Regle
<1>4. ASSUME UNCHANGED bridgeVars, UNCHANGED pressed
      PROVE  /\ \A q \in Requests : Followed(q)'
             /\ \A a : Stands(a)' <=> Stands(a)
  <2>1. \A a : Stands(a)' <=> Stands(a)
    BY <1>3, <1>4 DEF Stands
  <2> QED
    BY <1>0, <1>3, <1>4, <2>1 DEF Followed
<1>5. ASSUME UNCHANGED bridgeVars, UNCHANGED page
      PROVE  FiguresAgree'
  <2>1. applied' = applied /\ \A q : cmd(q)' = cmd(q)
    BY <1>3, <1>5 DEF cmd
  <2> QED
    BY <1>0, <1>5, <2>1 DEF FiguresAgree
<1>6. CASE GetDashboard
  <2>1. awaited' = Section /\ UNCHANGED <<bridgeVars, load, torn, page, pressed>>
    BY <1>6 DEF GetDashboard
  <2>2. LoadAgrees'
    BY <2>1 DEF LoadAgrees, Section
  <2>3. CockpitTypeOK'
    BY <1>0, <1>3, <2>1 DEF CockpitTypeOK
  <2> QED
    BY <1>0, <1>4, <1>5, <2>1, <2>2, <2>3 DEF CockpitInv
<1>7. ASSUME NEW s \in Section, NEW f \in Readings(s)
      PROVE  \A a \in f.en_attente : Stands(a)
  BY <1>0, ReadingFacts DEF Stands
<1>8. ASSUME NEW s \in Section, ReadSection(s)
      PROVE  CockpitInv'
  <2>1. /\ s \in awaited /\ awaited # {s} /\ awaited' = awaited \ {s} /\ load' \in Readings(s)
        /\ UNCHANGED <<bridgeVars, torn, page, pressed>>
    BY <1>8 DEF ReadSection
  <2>2. CockpitTypeOK'
    BY <1>0, <1>3, <2>1, ReadingFacts DEF CockpitTypeOK
  <2>3. LoadAgrees'
    <3>1. load'.nb_ecritures = (IF s = "pnl" THEN Len(ledger) ELSE load.nb_ecritures)
          /\ load'.regle = (IF s = "sinistres" THEN Regle ELSE load.regle)
      BY <1>0, <2>1, ReadingFacts
    <3>2. awaited # {} /\ torn' = torn /\ Len(ledger)' = Len(ledger) /\ Regle' = Regle
      BY <1>3, <2>1
    <3> QED
      BY <1>0, <2>1, <3>1, <3>2 DEF LoadAgrees
  <2>4. \A a \in load'.en_attente : Stands(a)'
    BY <1>4, <1>7, <2>1
  <2> QED
    BY <1>0, <1>4, <1>5, <2>1, <2>2, <2>3, <2>4 DEF CockpitInv
<1>9. ASSUME NEW s \in Section, RenderDashboard(s)
      PROVE  CockpitInv'
  <2>1. /\ awaited = {s} /\ awaited' = {} /\ load' = Blank /\ torn' = FALSE
        /\ UNCHANGED <<bridgeVars, pressed>>
    BY <1>9 DEF RenderDashboard, EndLoad
  <2>6. PICK f \in Readings(s) :
          page' = [sections |-> Section, torn |-> torn, figures |-> f, reloads |-> TRUE]
    BY <1>9 DEF RenderDashboard
  <2>2. CockpitTypeOK'
    <3>1. f \in Figures /\ Blank \in Figures
      BY <1>0, ReadingFacts DEF Blank, Figures
    <3>2. page' \in Page
      BY <1>0, <2>6, <3>1 DEF Page
    <3> QED
      BY <1>0, <1>3, <2>1, <3>1, <3>2 DEF CockpitTypeOK
  <2>3. FiguresAgree'
    <3> DEFINE settled == {k \in f.regle : Portfolio[k].statut # "regle"}
    <3>1. ASSUME ~torn
          PROVE  /\ Cardinality(settled) <= f.nb_ecritures
                 /\ f.nb_ecritures > 0 /\ settled = {} =>
                      \E q \in applied : cmd(q).type = "claim.settlement.reject"
      <4>1. f.nb_ecritures = Len(ledger) /\ f.regle = Regle
        BY <1>0, <2>1, <3>1, ReadingFacts DEF LoadAgrees
      <4>2. settled = {k \in Regle : Portfolio[k].statut # "regle"}
        BY <4>1
      <4> HIDE DEF settled
      <4> QED
        BY <1>0, <4>1, <4>2, SettledEntries DEF TablesSide
    <3>2. applied' = applied /\ \A q : cmd(q)' = cmd(q)
      BY <1>3, <2>1 DEF cmd
    <3>3. page'.torn = torn /\ page'.figures = f
      BY <2>6
    <3>4. settled = {k \in page'.figures.regle : Portfolio[k].statut # "regle"}
      BY <3>3
    <3> HIDE DEF settled
    <3> QED
      BY <3>1, <3>2, <3>3, <3>4 DEF FiguresAgree
  <2>4. LoadAgrees'
    BY <2>1 DEF LoadAgrees
  <2>5. (\A a \in load'.en_attente : Stands(a)') /\ (\A a \in page'.figures.en_attente : Stands(a)')
    BY <1>4, <1>7, <2>1, <2>6 DEF Blank
  <2> QED
    BY <1>4, <2>1, <2>2, <2>3, <2>4, <2>5 DEF CockpitInv
<1>10. ASSUME page' \in {Unavailable, NoPage}, EndLoad, UNCHANGED <<bridgeVars, pressed>>
       PROVE  CockpitInv'
  <2>1. awaited' = {} /\ load' = Blank /\ torn' = FALSE
    BY <1>10 DEF EndLoad
  <2>2. page'.sections = {} /\ page'.figures = Blank
    BY <1>10 DEF Unavailable, NoPage
  <2>3. CockpitTypeOK'
    <3>1. Blank \in Figures
      BY DEF Blank, Figures
    <3>2. Unavailable \in Page
      BY <3>1 DEF Page, Unavailable
    <3>3. NoPage \in Page
      BY <3>2 DEF Page, NoPage
    <3>4. page' \in Page
      BY <1>10, <3>2, <3>3
    <3> QED
      BY <1>0, <1>3, <1>10, <2>1, <3>1, <3>4 DEF CockpitTypeOK
  <2>4. FiguresAgree'
    BY <2>2 DEF FiguresAgree
  <2>5. LoadAgrees'
    BY <2>1 DEF LoadAgrees
  <2> QED
    BY <1>4, <1>10, <2>1, <2>2, <2>3, <2>4, <2>5 DEF CockpitInv, Blank
<1>11. ASSUME NEW r \in Requests, NEW b \in Forms, NEW a \in page.figures.en_attente,
              PressDecision(r, a, b)
       PROVE  CockpitInv'
  <2>1. /\ b.route = "decide" /\ b.correlation = a.correlation_id /\ PostDecision(r, b)
        /\ pressed' = [pressed EXCEPT ![r] = {a}] /\ UNCHANGED <<awaited, load, torn>>
        /\ page' = [page EXCEPT !.reloads = FALSE]
    BY <1>11 DEF PressDecision
  <2>0. page' \in Page /\ page'.figures = page.figures /\ SamePage
    BY <1>0, <2>1 DEF Page, SamePage
  <2>2. b \in Bodies /\ Arrive(r, b)
    BY <2>1, FormsAssumption DEF Arrive
  <2>3. /\ at[r] = "idle" /\ request' = [request EXCEPT ![r] = b] /\ UNCHANGED vars
        /\ at'[r] # "idle" /\ status'[r] # 409
    <3>1. /\ at \in [Requests -> HandlerStage]
          /\ status \in [Requests -> {-1, 0, 200, 400, 401, 403, 409, 500}]
      BY <1>0 DEF BridgeTypeOK
    <3>2. at[r] = "idle" /\ status[r] = 0
      BY <2>1 DEF PostDecision, TablesSide, BridgeInv, Linked
    <3> QED
      BY <2>1, <3>1, <3>2 DEF PostDecision, Reply, Await
  <2>4. a \in ApprobationRow
    BY <1>0 DEF Page, Figures
  <2>5. Stands(a)'
    <3>1. approbations' = approbations
      BY <2>3 DEF vars, db
    <3> QED
      BY <1>0, <3>1 DEF Stands
  <2>6. Followed(r)'
    <3>1. pressed'[r] = {a} /\ request'[r] = b
      BY <1>0, <2>1, <2>3 DEF BridgeTypeOK
    <3> QED
      BY <2>1, <2>3, <2>5, <3>1 DEF Followed
  <2>7. \A q \in Requests \ {r} : pressed'[q] = pressed[q]
    BY <1>0, <2>1
  <2>8. LoadAgrees'
    <3>1. Len(ledger)' = Len(ledger) /\ Regle' = Regle
      BY <2>3 DEF vars, db, Regle
    <3> QED
      BY <1>0, <2>1, <3>1 DEF LoadAgrees
  <2>9. pressed' \in [Requests -> SUBSET ApprobationRow]
    BY <1>0, <2>1, <2>4
  <2>10. /\ FiguresAgree' /\ BridgeTypeOK'
         /\ \A x \in load.en_attente : Stands(x)'
         /\ \A x \in page'.figures.en_attente : Stands(x)'
         /\ \A q \in Requests : Followed(q)'
    BY <1>1, <2>0, <2>6, <2>7, PageStays
  <2> QED
    BY <1>0, <2>0, <2>1, <2>8, <2>9, <2>10 DEF CockpitInv, CockpitTypeOK
<1>12. ASSUME NEW r \in Requests, page' = page, pressed' = pressed, load' = load,
              awaited' = awaited, torn' \in BOOLEAN,
              awaited # {} /\ ~torn' => ~torn /\ applied' = applied
       PROVE  CockpitInv'
  <2>1. LoadAgrees'
    <3>1. applied' = applied => ledger' = ledger /\ Regle' = Regle
      BY <1>0, <1>2, QuietBooks DEF TablesSide, Regle
    <3> QED
      BY <1>0, <1>12, <3>1 DEF LoadAgrees
  <2>2. /\ FiguresAgree' /\ BridgeTypeOK'
        /\ \A x \in load.en_attente : Stands(x)'
        /\ \A x \in page'.figures.en_attente : Stands(x)'
        /\ \A q \in Requests : Followed(q)'
    BY <1>1, <1>12, PageStays DEF SamePage
  <2> QED
    BY <1>0, <1>12, <2>1, <2>2 DEF CockpitInv, CockpitTypeOK
<1>13. ASSUME NEW r \in Requests, NEW b \in Bodies, ArriveDirectly(r, b)
       PROVE  CockpitInv'
  <2>1. UNCHANGED cockpit /\ Arrive(r, b)
    BY <1>13 DEF ArriveDirectly
  <2>2. applied' = applied
    BY <2>1, ArriveLinked DEF EnterPipeline, Receive, vars, history, TablesSide
  <2> QED
    BY <1>0, <1>12, <2>1, <2>2 DEF cockpit
<1>14. ASSUME NEW r \in Requests, BridgeWorks(r)
       PROVE  CockpitInv'
  <2>1. /\ torn' = (torn \/ (awaited # {} /\ applied' # applied))
        /\ UNCHANGED <<awaited, load, page, pressed>>
    BY <1>14 DEF BridgeWorks
  <2>2. torn' \in BOOLEAN
    BY <1>0, <2>1
  <2> QED
    BY <1>12, <2>1, <2>2
<1>15. CASE CockpitCrash
  <2>1. awaited' = {} /\ load' = Blank /\ torn' = FALSE /\ UNCHANGED pressed
    BY <1>15 DEF CockpitCrash, EndLoad
  <2>0. page' \in Page /\ SamePage
    <3>1. page' = page \/ page' = NoPage
      BY <1>15 DEF CockpitCrash
    <3>2. NoPage \in Page /\ NoPage.sections = {} /\ NoPage.figures.en_attente = {}
      BY DEF NoPage, Unavailable, Page, Blank, Figures
    <3> QED
      BY <1>0, <3>1, <3>2 DEF SamePage
  <2>2. LoadAgrees' /\ Blank \in Figures
    BY <2>1 DEF LoadAgrees, Blank, Figures
  <2>3. \A r \in Requests : /\ FiguresAgree' /\ BridgeTypeOK'
                            /\ \A x \in page'.figures.en_attente : Stands(x)'
                            /\ \A q \in Requests : Followed(q)'
    BY <1>1, <2>0, <2>1, PageStays
  <2>4. \E r : r \in Requests
    BY <1>0, <1>15 DEF CockpitCrash, BridgeCrash, TypeOK
  <2> QED
    BY <1>0, <2>0, <2>1, <2>2, <2>3, <2>4 DEF CockpitInv, CockpitTypeOK, Blank
<1>16. CASE UNCHANGED cockpitVars
  <2>1. UNCHANGED bridgeVars /\ UNCHANGED <<awaited, load, torn, page, pressed>>
    BY <1>16 DEF cockpitVars, cockpit
  <2>2. CockpitTypeOK' /\ LoadAgrees'
    BY <1>0, <1>3, <2>1 DEF CockpitTypeOK, LoadAgrees
  <2> QED
    BY <1>0, <1>4, <1>5, <2>1, <2>2 DEF CockpitInv
<1>17. CASE LoadStep \/ NavigationFails
  BY <1>8, <1>9, <1>10, <1>17 DEF LoadStep, ReadFails, NavigationFails
<1> QED
  BY <1>6, <1>11, <1>13, <1>14, <1>15, <1>16, <1>17 DEF CockpitNext

\* Every behaviour of the cockpit is one of the bridge.
LEMMA CockpitIsBridge == CockpitSpec => BridgeSpec
<1>1. CockpitInit => BridgeInit
  BY DEF CockpitInit
<1> QED
  BY <1>1, CockpitStepsBridge, PTL DEF CockpitSpec, BridgeSpec

\* What is known of the tables and of the page holds in every reachable state.
LEMMA CockpitInvariant == CockpitSpec => [](TablesSide /\ CockpitInv)
<1>1. CockpitInit => CockpitInv
  <2> SUFFICES ASSUME CockpitInit PROVE CockpitInv
    OBVIOUS
  <2>1. BridgeTypeOK
    BY BridgeInvInit DEF CockpitInit, BridgeInv
  <2>2. /\ awaited = {} /\ load = Blank /\ torn = FALSE /\ page = NoPage
        /\ pressed = [r \in Requests |-> {}]
    BY DEF CockpitInit
  <2>3. Blank \in Figures /\ page \in Page
    BY <2>2 DEF Blank, Figures, Page, Unavailable, NoPage
  <2>4. CockpitTypeOK
    BY <2>1, <2>2, <2>3 DEF CockpitTypeOK
  <2>5. page.sections = {} /\ page.figures.en_attente = {} /\ load.en_attente = {}
    BY <2>2 DEF Unavailable, NoPage, Blank
  <2> QED
    BY <2>2, <2>4, <2>5 DEF CockpitInv, LoadAgrees, FiguresAgree, Followed
<1>2. AppliedAtMostOnce /\ AuditedBeforeApplied /\ LockedOut
      /\ TruthfulOutcome /\ EffectAuthorised /\ SettlementCovers
      /\ BooksAgree /\ NoSilentLoss /\ SerialDecisions => SettlementCovers
  OBVIOUS
<1>3. TypeOK /\ ControlOK /\ OnceInv => OnceInv
  OBVIOUS
<1>4. BridgeInv /\ OnceInv /\ BooksInv /\ SettlementCovers /\ RefusedInv => TablesSide
  BY DEF TablesSide
<1> QED
  BY <1>1, <1>2, <1>3, <1>4, CockpitInvNext, CockpitIsBridge, BridgeInvariant, BridgeIsShared,
     BridgeKeepsPipeline, OnceInvariant, BooksInvariant, RefusedInvariant, PTL DEF CockpitSpec

----------------------------------------------------------------------------
(* What the CEO may conclude *)

\* Pages, loads and pressed buttons are well typed in every reachable state.
THEOREM CockpitTypeCorrect == CockpitSpec => []CockpitTypeOK
<1>1. CockpitInv => CockpitTypeOK
  BY DEF CockpitInv
<1> QED
  BY <1>1, CockpitInvariant, PTL

\* The figures of a page that no commit tore belong together (dashboardSnapshot
\* reads its sections by parallel queries).
THEOREM FiguresAgreeHolds == CockpitSpec => []FiguresAgree
<1>1. CockpitInv => FiguresAgree
  BY DEF CockpitInv
<1> QED
  BY <1>1, CockpitInvariant, PTL

\* The CEO settles the claim and the amount of the row whose button was pressed,
\* however old the page, and the ledger pays that amount up to the threshold.
THEOREM DecidedAsShownHolds == CockpitSpec => []DecidedAsShown
<1>1. TablesSide /\ CockpitInv /\ ExecInv /\ EntryInv => DecidedAsShown
  <2> SUFFICES ASSUME TablesSide, CockpitInv, ExecInv, EntryInv,
                      NEW r \in applied, NEW a \in pressed[r]
               PROVE  /\ cmd(r).claim_id = a.claim_id /\ cmd(r).amount = a.montant_eur
                      /\ \E i \in DOMAIN ledger :
                           ledger[i] = [correlation_id |-> a.correlation_id,
                                        claim_id |-> a.claim_id,
                                        montant |-> -Lesser(a.montant_eur, ThresholdEur)]
    BY DEF DecidedAsShown
  <2>1. r \in Requests /\ RowsKeyed /\ Linked(r)
    BY DEF TablesSide, BridgeInv, BridgeTypeOK, TypeOK
  <2>2. pc[r] # "idle"
    BY <2>1 DEF TablesSide, OnceInv
  <2>3. Stands(a) /\ request[r].route = "decide" /\ request[r].correlation = a.correlation_id
    BY <2>1 DEF CockpitInv, Followed
  <2>4. PICK b \in approbations :
          /\ b.correlation_id = request[r].correlation
          /\ b.claim_id = request[r].content.claim_id
          /\ b.montant_eur = request[r].content.amount
    BY <2>1, <2>2, <2>3 DEF ExecInv, Executes
  <2>5. PICK d \in approbations :
          /\ d.correlation_id = a.correlation_id
          /\ d.claim_id = a.claim_id /\ d.montant_eur = a.montant_eur
    BY <2>3 DEF Stands
  <2>6. b = d
    BY <2>1, <2>3, <2>4, <2>5 DEF RowsKeyed
  <2>7. cmd(r) = request[r].content /\ corr(r) = a.correlation_id
    BY <2>1, <2>2, <2>3 DEF Linked, Carries
  <2>8. cmd(r).claim_id = a.claim_id /\ cmd(r).amount = a.montant_eur
    BY <2>4, <2>5, <2>6, <2>7
  <2>9. cmd(r).type = "claim.settlement.approve"
    BY <2>1, <2>2, <2>3, <2>7 DEF ExecInv, Executes
  <2>10. PICK i \in DOMAIN ledger : ledger[i] = Entry(r)
    BY <2>9 DEF EntryInv
  <2>11. Entry(r) = [correlation_id |-> a.correlation_id, claim_id |-> a.claim_id,
                     montant |-> -Lesser(a.montant_eur, ThresholdEur)]
    BY <2>7, <2>8 DEF Entry, SettlementAmount
  <2> QED
    BY <2>8, <2>10, <2>11
<1> QED
  BY <1>1, CockpitInvariant, CockpitIsBridge, BridgeIsShared, ExecInvariant, EntryInvariant, PTL

\* The message after a button is true: what it says was decided is decided.
THEOREM NoticeTrueHolds == CockpitSpec => []NoticeTrue
<1>1. CockpitInv /\ DecisionInv => NoticeTrue
  <2> SUFFICES ASSUME CockpitInv, DecisionInv, NEW r \in Requests, NEW a \in pressed[r],
                      status[r] \in {200, 409}
               PROVE  \E d \in approbations :
                        /\ d.correlation_id = a.correlation_id /\ d.statut # "en_attente"
                        /\ status[r] = 200 => d.decided /\ (request[r].flag \/ d.statut = "refuse")
    BY DEF NoticeTrue
  <2>1. /\ request[r].route = "decide" /\ request[r].correlation = a.correlation_id
        /\ status[r] = 409 =>
             \E d \in approbations : d.correlation_id = a.correlation_id /\ d.statut # "en_attente"
    BY DEF CockpitInv, Followed
  <2>2. CASE status[r] = 200
    <3>1. ShowsDecision(approbations, a.correlation_id, request[r].flag)
      BY <2>1, <2>2 DEF DecisionInv, Decides
    <3> QED
      BY <3>1 DEF ShowsDecision
  <2>3. CASE status[r] = 409
    BY <2>1, <2>3
  <2> QED
    BY <2>2, <2>3
<1> QED
  BY <1>1, CockpitInvariant, CockpitIsBridge, DecisionInvariant, PTL

----------------------------------------------------------------------------
(* What the bridge promises, under its callers *)

\* The properties of the pipeline and of the handlers hold under decisions
\* pressed on old pages (dashboard.ts).
THEOREM CockpitKeepsBridge ==
  CockpitSpec =>
    /\ [](/\ AppliedAtMostOnce /\ AuditedBeforeApplied /\ LockedOut
          /\ TruthfulOutcome /\ EffectAuthorised /\ SettlementCovers
          /\ BooksAgree /\ NoSilentLoss /\ SerialDecisions)
    /\ [](OneDecision /\ LargeClaimNeedsCeo)
    /\ ApprovalsOnlyMoveOn /\ SwitchMovedOnce /\ ImplementsRegister
BY CockpitIsBridge, BridgeKeepsPipeline, OneDecisionHolds, LargeClaimHolds, ApprovalsMoveOnHolds,
   SwitchMovedOnceHolds, BridgeRefinesRegister, PTL

=============================================================================

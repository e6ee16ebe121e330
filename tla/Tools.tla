-------------------------------- MODULE Tools --------------------------------
(***************************************************************************)
(* One tool call of a Hermes agent, from the answer of the language model  *)
(* (llm/ollama.ts) to the execution (tools/tools.ts): the retry of the     *)
(* model, the parsing of the call, the reading of its arguments, pricing   *)
(* and scoring, and the settlement recommendation with the command built   *)
(* from it (bridge/client.ts).  The allowlist and the scrubbing of the     *)
(* arguments, between the two, are in module AgentTask.                    *)
(*                                                                         *)
(* Arguments are JSON of any shape.  Numbers are in thousandths.  Floats   *)
(* round an amount of exactly half a cent either way, and such an amount   *)
(* has both roundings; a premium is rounded exactly.  What the reading     *)
(* tools find is left out: they answer or fail.                            *)
(***************************************************************************)
EXTENDS Integers

CONSTANTS
  Wires,                \* calls the model may write
  EscalationThreshold   \* cfg.escalationThresholdEur, in thousandths

\* text: words, in `word`.  numeral: text that is a number.  blank: text of
\* spaces.  boolean: n is 1000 or 0.  numberList and blankList: lists whose
\* text is a number, like [5], or is blank, like [] and [null].
Kind ==
  {"absent", "number", "numeral", "text", "blank", "null", "boolean", "numberList", "blankList",
   "list", "object"}
Value == {v \in [kind : Kind, n : Int, word : STRING] : v.kind = "boolean" => v.n \in {0, 1000}}
Absent == [kind |-> "absent", n |-> 0, word |-> ""]

Key ==
  {"claim_id", "montant", "raison", "reference", "donnees_risque", "age", "bonus_malus",
   "type_vehicule", "zone", "formule", "age_vehicule", "source", "periode", "kind",
   "requete", "limite"}

Readers == {"lire_sinistre", "lire_client", "lire_contrat"}
Registry ==
  Readers \cup {"calculer_prime", "evaluer_risque", "qualifier_lead", "recommander_reglement",
                "requeter_pnl", "consulter_memoire"}

\* form: the arguments are an object, the JSON text of one, or neither.
Wire == [name : STRING, form : {"object", "json", "unreadable"}, arguments : [Key -> Value]]

ASSUME WiresAssumption == Wires \subseteq Wire
\* The threshold is in whole cents.
ASSUME ThresholdInCents == EscalationThreshold \in Nat /\ EscalationThreshold % 10 = 0

VARIABLES
  attempts,   \* failed attempts to reach the model
  wire,       \* the call the model wrote
  execution   \* what became of it

toolVars == <<attempts, wire, execution>>

Outcome == {"none", "unreached", "dropped", "ok", "unknown tool", "argument error", "internal error"}

\* candidate: max_amount_eur in cents of the command for the bridge.
\* pending: montant_eur of the escalation.  figure: the premium in cents, the
\* score, or the number of memories asked for.
Execution == [outcome : Outcome, candidate : SUBSET Int, pending : SUBSET Int, figure : Int]
Only(outcome) == [outcome |-> outcome, candidate |-> {}, pending |-> {}, figure |-> 0]
Figure(n) == [outcome |-> "ok", candidate |-> {}, pending |-> {}, figure |-> n]
Recommendation(candidate, pending) ==
  [outcome |-> "ok", candidate |-> candidate, pending |-> pending, figure |-> 0]

----------------------------------------------------------------------------
(* Arguments *)

\* Number(v): true is 1, a list is read as its text, null and blank text are
\* 0; absent, words, other lists and objects are NaN.
ZeroKinds == {"null", "blank", "blankList"}
IsNumber(v) == v.kind \in {"number", "numeral", "boolean", "numberList"} \cup ZeroKinds

\* optNumber, then ?? default
OptNumber(v, default) ==
  IF v.kind \in ZeroKinds THEN 0 ELSE IF IsNumber(v) THEN v.n ELSE default

IsString(v) == v.kind \in {"text", "numeral", "blank"}
ReqString(v) == v.kind \in {"text", "numeral"}
Word(v, default) == IF IsString(v) THEN v.word ELSE default

Between(n, low, high) == IF n < low THEN low ELSE IF n > high THEN high ELSE n

\* The risk data of a call; the age of the vehicle has two defaults.
Risk(args) ==
  [age |-> OptNumber(args["age"], 40000), bonus_malus |-> OptNumber(args["bonus_malus"], 1000),
   type_vehicule |-> Word(args["type_vehicule"], "citadine"), zone |-> Word(args["zone"], "autre"),
   formule |-> Word(args["formule"], "tiers"), source |-> Word(args["source"], "autre"),
   age_vehicule |-> OptNumber(args["age_vehicule"], 0)]

----------------------------------------------------------------------------
(* Pricing and scoring *)

AgeFactor(dr) == IF dr.age < 25000 THEN 30 ELSE IF dr.age <= 55000 THEN 20 ELSE 23
VehicleFactor(dr) ==
  IF dr.type_vehicule = "sportive" THEN 32 ELSE IF dr.type_vehicule = "suv" THEN 25 ELSE 20
VehicleAgeFactor(dr) == IF dr.age_vehicule > 10000 THEN 11 ELSE 10
ZoneFactor(dr) == IF dr.zone = "paris" THEN 23 ELSE IF dr.zone = "banlieue" THEN 21 ELSE 20
FormuleFactor(dr) == IF dr.formule = "tous_risques" THEN 9 ELSE 5

\* Mutant: the bonus is not kept within the grid.
BonusFactorUnclamped(dr) == dr.bonus_malus
BonusFactor(dr) == Between(dr.bonus_malus, 500, 3500)

\* 400 EUR times the factors, rounded to the cent: 40000 * product / (20 * 20 *
\* 10 * 20 * 5 * 1000), in cents.  The last digit of the bonus is multiplied
\* apart, which keeps TLC within 32 bits.
Rest(dr) ==
  AgeFactor(dr) * VehicleFactor(dr) * VehicleAgeFactor(dr) * ZoneFactor(dr) * FormuleFactor(dr)
GrillePrime(dr) ==
  LET bonus == BonusFactor(dr) IN
  (Rest(dr) * (bonus \div 10) + (Rest(dr) * (bonus % 10) + 5000) \div 10) \div 1000

ScoreDeRisque(dr) ==
  Between(30
    + (IF dr.age < 25000 THEN 25 ELSE IF dr.age > 65000 THEN 10 ELSE 0)
    + (IF dr.bonus_malus > 2500 THEN 30 ELSE IF dr.bonus_malus > 1250 THEN 15
       ELSE IF dr.bonus_malus < 900 THEN -10 ELSE 0)
    + (CASE dr.type_vehicule = "sportive" -> 20 [] dr.type_vehicule = "suv" -> 8 [] OTHER -> 0)
    + (IF dr.age_vehicule > 10000 THEN 7 ELSE 0)
    + (IF dr.zone = "paris" THEN 10 ELSE 0), 0, 100)

\* In hundredths; more than 60 is 'qualifie'.
QualificationLead(dr) ==
    (IF dr.age >= 25000 /\ dr.age <= 55000 THEN 25 ELSE IF dr.age < 25000 THEN 8 ELSE 15)
  + (IF dr.bonus_malus < 1000 THEN 20 ELSE IF dr.bonus_malus <= 1250 THEN 12 ELSE 4)
  + (CASE dr.type_vehicule = "citadine" -> 20 [] dr.type_vehicule = "suv" -> 12 [] OTHER -> 6)
  + (CASE dr.zone = "banlieue" -> 15 [] dr.zone = "paris" -> 10 [] OTHER -> 13)
  + (CASE dr.source = "parrainage" -> 20 [] dr.source = "seo" -> 14 [] dr.source = "pub" -> 8
       [] OTHER -> 10)

----------------------------------------------------------------------------
(* The tools *)

\* clampAmount: n * 100 in floats may be just below the half cent it stands for.
Cents(n) == IF n % 10 = 5 THEN {n \div 10, n \div 10 + 1} ELSE {(n + 5) \div 10}

\* Mutant: the threshold is compared with the amount's whole euros.
RecommanderReglementRounded(args) ==
  LET montant == OptNumber(args["montant"], 0) IN
  IF ~ReqString(args["claim_id"]) \/ ~ReqString(args["raison"]) \/ montant <= 0
  THEN {Only("argument error")}
  ELSE IF montant \div 1000 > EscalationThreshold \div 1000
  THEN {Recommendation({}, {montant})}
  ELSE {Recommendation({cents}, {}) : cents \in Cents(montant)}

\* A command of so many cents, or none above ten millions.
BuildSettlementCommand(cents) ==
  IF cents > 1000000000 THEN Only("argument error") ELSE Recommendation({cents}, {})

\* Above the threshold an escalation, below a command for the bridge.
RecommanderReglement(args) ==
  LET montant == OptNumber(args["montant"], 0) IN
  IF ~ReqString(args["claim_id"]) \/ ~ReqString(args["raison"]) \/ montant <= 0
  THEN {Only("argument error")}
  ELSE IF montant > EscalationThreshold THEN {Recommendation({}, {montant})}
  ELSE {BuildSettlementCommand(cents) : cents \in Cents(montant)}

\* Math.round, then 1 .. 20; 5 when nothing usable is given.
Limite(v) == Between((OptNumber(v, 5000) + 500) \div 1000, 1, 20)

\* periode 'YYYY-MM' is the word "month" here.
PeriodeOK(args) ==
  ReqString(args["periode"])
  /\ (Word(args["periode"], "") \in {"semaine", "month"} \/ Word(args["kind"], "") = "hebdo")

Read(accepted, figure) ==
  IF accepted THEN {Figure(figure), Only("internal error")} ELSE {Only("argument error")}

\* registry.execute: the executions a call may have.
Executions(name, args) ==
  CASE name \in Readers -> Read(ReqString(args["reference"]), 0)
    [] name = "requeter_pnl" -> Read(PeriodeOK(args), 0)
    [] name = "consulter_memoire" -> Read(ReqString(args["requete"]), Limite(args["limite"]))
    [] name = "calculer_prime" ->
         {IF args["donnees_risque"].kind = "object" THEN Figure(GrillePrime(Risk(args)))
          ELSE Only("argument error")}
    [] name = "evaluer_risque" -> {Figure(ScoreDeRisque(Risk(args)))}
    [] name = "qualifier_lead" -> {Figure(QualificationLead(Risk(args)))}
    [] name = "recommander_reglement" -> RecommanderReglement(args)
    [] OTHER -> {Only("unknown tool")}

\* Arguments that are no object count as none.
Arguments(w) == IF w.form = "unreadable" THEN [k \in Key |-> Absent] ELSE w.arguments

----------------------------------------------------------------------------
ToolsInit == attempts = 0 /\ wire \in Wires /\ execution = Only("none")

\* withRetry: a second attempt after half a second, then the error.
ChatFails ==
  /\ execution.outcome = "none" /\ attempts < 2
  /\ attempts' = attempts + 1
  /\ execution' = IF attempts' = 2 THEN Only("unreached") ELSE execution
  /\ UNCHANGED wire

\* A call without a name is dropped.
Chat ==
  /\ execution.outcome = "none" /\ attempts < 2
  /\ execution' \in IF wire.name = "" THEN {Only("dropped")}
                    ELSE Executions(wire.name, Arguments(wire))
  /\ UNCHANGED <<attempts, wire>>

ToolsNext == ChatFails \/ Chat

ToolsSpec == ToolsInit /\ [][ToolsNext]_toolVars

----------------------------------------------------------------------------
(* Properties *)

\* A recommendation has one way on, and is of the number JavaScript reads in
\* the argument (true is 1 euro, [5] is 5), never of one that is not positive.
\* The command for the bridge has that amount to the cent and is not above the
\* threshold once rounded either; an amount above the threshold goes to the CEO
\* as it is.  Only half a cent or less makes a command of nothing, which the
\* schema of the bridge refuses.
RecommendationKept ==
  LET asked == OptNumber(Arguments(wire)["montant"], 0) IN
  /\ execution.candidate # {} \/ execution.pending # {} =>
       wire.name = "recommander_reglement" /\ execution.outcome = "ok"
  /\ execution.outcome = "ok" /\ wire.name = "recommander_reglement" =>
       (execution.candidate = {} <=> execution.pending # {}) /\ asked > 0
  /\ \A cents \in execution.candidate :
       /\ 10 * cents <= EscalationThreshold
       /\ 10 * cents - asked \in -5 .. 5
       /\ asked > 5 => cents > 0
  /\ \A montant \in execution.pending : montant = asked /\ montant > EscalationThreshold

Priced == wire.name = "calculer_prime" /\ execution.outcome = "ok"
PremiumIf(factor, value) == GrillePrime([Risk(Arguments(wire)) EXCEPT ![factor] = value])

\* pct percent of another premium, up to the rounding of both.
IsTimes(premium, pct, base) ==
  -150 <= 100 * premium - pct * base /\ 100 * premium - pct * base <= 150

\* The premium is the one of grille-tarification.md: a bonus below 1 reduces
\* it and one above loads it, and a higher one never costs less; an old vehicle
\* adds 10 %, Paris 15 %, and comprehensive cover costs 1.8 times third-party.
\* It stays within 200.00 and 7650.72 EUR.
GridKept ==
  Priced =>
    LET premium == execution.figure
        dr == Risk(Arguments(wire))
    IN
    /\ 20000 <= premium /\ premium <= 765072
    /\ dr.bonus_malus < 1000 => premium < PremiumIf("bonus_malus", 1000)
    /\ dr.bonus_malus > 1000 => premium > PremiumIf("bonus_malus", 1000)
    /\ \A n \in {0, 500, 850, 1000, 1250, 3500, 5000} :
         n >= dr.bonus_malus => PremiumIf("bonus_malus", n) >= premium
    /\ dr.age_vehicule > 10000 => IsTimes(premium, 110, PremiumIf("age_vehicule", 0))
    /\ dr.zone = "paris" => IsTimes(premium, 115, PremiumIf("zone", "autre"))
    /\ dr.formule = "tous_risques" => IsTimes(premium, 180, PremiumIf("formule", "tiers"))
=============================================================================

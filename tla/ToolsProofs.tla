---------------------------- MODULE ToolsProofs ----------------------------
(***************************************************************************)
(* Proofs about module Tools, for every threshold in whole cents and every *)
(* set of calls.                                                           *)
(***************************************************************************)
EXTENDS Tools, TLAPS

\* The amount Number() reads in a call is a number, whatever its arguments.
LEMMA AmountType ==
  ASSUME NEW w \in Wires
  PROVE  OptNumber(Arguments(w)["montant"], 0) \in Int
<1>1. w.arguments["montant"].n \in Int
  <2>1. w \in Wire /\ "montant" \in Key
    BY WiresAssumption DEF Key
  <2> QED
    BY <2>1 DEF Wire, Value
<1>2. [k \in Key |-> Absent]["montant"].n = 0
  BY DEF Key, Absent
<1>3. Arguments(w)["montant"].n \in Int
  BY <1>1, <1>2 DEF Arguments
<1> QED
  BY <1>3 DEF OptNumber

\* clampAmount: a nearest cent, and at least one above half a cent.
LEMMA CentsBounds ==
  ASSUME NEW n \in Int, n > 0, NEW cents \in Cents(n)
  PROVE  /\ cents \in Int
         /\ 10 * cents - n \in -5 .. 5
         /\ n > 5 => cents > 0
<1>1. \/ n % 10 = 5 /\ cents = n \div 10
      \/ n % 10 = 5 /\ cents = n \div 10 + 1
      \/ cents = (n + 5) \div 10
  BY DEF Cents
<1> QED
  BY <1>1, SMT

\* Rounding an amount within a threshold of whole cents stays within it.
LEMMA CentsWithinThreshold ==
  ASSUME NEW n \in Int, n > 0, n <= EscalationThreshold, NEW cents \in Cents(n)
  PROVE  10 * cents <= EscalationThreshold
<1>1. \/ n % 10 = 5 /\ cents = n \div 10
      \/ n % 10 = 5 /\ cents = n \div 10 + 1
      \/ cents = (n + 5) \div 10
  BY DEF Cents
<1> QED
  BY <1>1, ThresholdInCents, SMT

\* The three ends of recommander_reglement.
LEMMA ReglementCases ==
  ASSUME NEW args, NEW montant \in Int, montant = OptNumber(args["montant"], 0),
         NEW e \in RecommanderReglement(args)
  PROVE  \/ e = Only("argument error")
         \/ /\ e = Recommendation({}, {montant})
            /\ montant > 0 /\ montant > EscalationThreshold
         \/ /\ \E cents \in Cents(montant) : e = Recommendation({cents}, {})
            /\ montant > 0 /\ montant <= EscalationThreshold
<1> DEFINE refused == \/ ~ReqString(args["claim_id"]) \/ ~ReqString(args["raison"])
                      \/ montant <= 0
           built == {BuildSettlementCommand(cents) : cents \in Cents(montant)}
<1>1. e \in IF refused THEN {Only("argument error")}
            ELSE IF montant > EscalationThreshold THEN {Recommendation({}, {montant})}
            ELSE built
  BY Zenon DEF RecommanderReglement
<1>2. ~refused => montant > 0
  OBVIOUS
<1>3. e \in built =>
        \/ e = Only("argument error")
        \/ \E cents \in Cents(montant) : e = Recommendation({cents}, {})
  <2>1. \A cents : BuildSettlementCommand(cents)
                     \in {Only("argument error"), Recommendation({cents}, {})}
    BY SMT DEF BuildSettlementCommand
  <2> QED
    BY <2>1
<1>4. EscalationThreshold \in Int
  BY ThresholdInCents
<1> HIDE DEF refused, built
<1>5. CASE refused
  BY <1>1, <1>5
<1>6. CASE ~refused /\ montant > EscalationThreshold
  BY <1>1, <1>2, <1>6
<1>7. CASE ~refused /\ ~(montant > EscalationThreshold)
  <2>1. e \in built
    BY <1>1, <1>7
  <2>2. montant > 0 /\ montant <= EscalationThreshold
    BY <1>2, <1>4, <1>7
  <2> QED
    BY <1>3, <2>1, <2>2
<1> QED
  BY <1>5, <1>6, <1>7

\* What recommander_reglement returns: one way on, the amount asked for.
LEMMA ReglementKept ==
  ASSUME NEW args, NEW asked \in Int, asked = OptNumber(args["montant"], 0),
         NEW e \in RecommanderReglement(args)
  PROVE  /\ e.outcome = "ok" => (e.candidate = {} <=> e.pending # {}) /\ asked > 0
         /\ e.outcome # "ok" => e.candidate = {} /\ e.pending = {}
         /\ \A cents \in e.candidate :
              /\ 10 * cents <= EscalationThreshold
              /\ 10 * cents - asked \in -5 .. 5
              /\ asked > 5 => cents > 0
         /\ \A montant \in e.pending : montant = asked /\ montant > EscalationThreshold
<1>1. CASE e = Only("argument error")
  <2>1. LET x == Only("argument error")
        IN  x.outcome = "argument error" /\ x.candidate = {} /\ x.pending = {}
    BY DEF Only
  <2>2. e.outcome # "ok" /\ e.candidate = {} /\ e.pending = {}
    BY <1>1, <2>1
  <2> QED
    BY <2>2
<1>2. CASE e = Recommendation({}, {asked}) /\ asked > 0 /\ asked > EscalationThreshold
  BY <1>2 DEF Recommendation
<1>3. ASSUME NEW cents \in Cents(asked), e = Recommendation({cents}, {}),
             asked > 0, asked <= EscalationThreshold
      PROVE  /\ e.outcome = "ok" /\ e.candidate = {cents} /\ e.pending = {}
             /\ 10 * cents <= EscalationThreshold
             /\ 10 * cents - asked \in -5 .. 5
             /\ asked > 5 => cents > 0
  <2>1. e.outcome = "ok" /\ e.candidate = {cents} /\ e.pending = {}
    BY <1>3 DEF Recommendation
  <2>2. 10 * cents <= EscalationThreshold
    BY <1>3, CentsWithinThreshold
  <2>3. 10 * cents - asked \in -5 .. 5 /\ (asked > 5 => cents > 0)
    BY <1>3, CentsBounds
  <2> QED
    BY <2>1, <2>2, <2>3
<1>4. \/ e = Only("argument error")
      \/ e = Recommendation({}, {asked}) /\ asked > 0 /\ asked > EscalationThreshold
      \/ /\ \E cents \in Cents(asked) : e = Recommendation({cents}, {})
         /\ asked > 0 /\ asked <= EscalationThreshold
  <2> DEFINE montant == asked
  <2>1. montant \in Int /\ montant = OptNumber(args["montant"], 0)
    OBVIOUS
  <2> QED
    BY <2>1, ReglementCases, Zenon
<1>5. CASE /\ \E cents \in Cents(asked) : e = Recommendation({cents}, {})
           /\ asked > 0 /\ asked <= EscalationThreshold
  <2>1. PICK cents \in Cents(asked) : e = Recommendation({cents}, {})
    BY <1>5
  <2> QED
    BY <1>3, <1>5, <2>1
<1> QED
  BY <1>1, <1>2, <1>4, <1>5

\* No other tool, and no call that fails, produces a recommendation.
LEMMA OthersRecommendNothing ==
  ASSUME NEW name, NEW args, name # "recommander_reglement",
         NEW e \in Executions(name, args)
  PROVE  e.candidate = {} /\ e.pending = {}
<1>1. \A o : Only(o).candidate = {} /\ Only(o).pending = {}
  BY DEF Only
<1>2. \A n : Figure(n).candidate = {} /\ Figure(n).pending = {}
  BY DEF Figure, Only
<1>3. \A accepted, n : \A r \in Read(accepted, n) : r.candidate = {} /\ r.pending = {}
  BY <1>1, <1>2 DEF Read
<1>4. CASE name \in Readers
  BY <1>3, <1>4 DEF Executions, Readers
<1>5. CASE name = "requeter_pnl"
  BY <1>3, <1>5 DEF Executions, Readers
<1>6. CASE name = "consulter_memoire"
  BY <1>3, <1>6 DEF Executions, Readers
<1>7. CASE name = "calculer_prime"
  BY <1>1, <1>2, <1>7 DEF Executions, Readers
<1>8. CASE name \in {"evaluer_risque", "qualifier_lead"}
  BY <1>2, <1>8 DEF Executions, Readers
<1>9. CASE name \notin Registry
  BY <1>1, <1>9 DEF Executions, Registry, Readers
<1> QED
  BY <1>4, <1>5, <1>6, <1>7, <1>8, <1>9 DEF Registry

\* The executions of recommander_reglement are the ones of its lemma.
LEMMA ReglementExecuted ==
  ASSUME NEW args
  PROVE  Executions("recommander_reglement", args) = RecommanderReglement(args)
  BY DEF Executions, Readers

RecommendationInv == wire \in Wires /\ RecommendationKept

\* Of every call, in every form Number() reads (tools.ts optNumber) and with
\* half a cent rounded either way (client.ts clampAmount): one way on, the
\* amount read, nothing above the threshold without the CEO.
THEOREM RecommendationHolds == ToolsSpec => []RecommendationKept
<1>1. ToolsInit => RecommendationInv
  BY DEF ToolsInit, RecommendationInv, RecommendationKept, Only
<1>2. RecommendationInv /\ [ToolsNext]_toolVars => RecommendationInv'
  <2> SUFFICES ASSUME RecommendationInv, [ToolsNext]_toolVars
               PROVE  RecommendationInv'
    OBVIOUS
  <2>1. CASE UNCHANGED toolVars
    BY <2>1 DEF RecommendationInv, RecommendationKept, toolVars
  <2>2. CASE ChatFails
    <3>1. wire' = wire /\ execution' \in {execution, Only("unreached")}
      BY <2>2 DEF ChatFails
    <3> QED
      BY <3>1 DEF RecommendationInv, RecommendationKept, Only
  <2>3. CASE Chat /\ wire.name = ""
    <3>1. wire' = wire /\ execution' = Only("dropped")
      BY <2>3 DEF Chat
    <3>2. execution'.outcome = "dropped" /\ execution'.candidate = {} /\ execution'.pending = {}
      BY <3>1 DEF Only
    <3> QED
      BY <3>1, <3>2 DEF RecommendationInv, RecommendationKept
  <2>4. CASE Chat /\ wire.name = "recommander_reglement"
    <3>1. wire' = wire /\ execution' \in RecommanderReglement(Arguments(wire))
      BY <2>4, ReglementExecuted DEF Chat
    <3>2. OptNumber(Arguments(wire)["montant"], 0) \in Int
      BY AmountType DEF RecommendationInv
    <3> QED
      BY <2>4, <3>1, <3>2, ReglementKept DEF RecommendationInv, RecommendationKept
  <2>5. CASE Chat /\ wire.name \notin {"", "recommander_reglement"}
    <3>1. wire' = wire /\ execution' \in Executions(wire.name, Arguments(wire))
      BY <2>5 DEF Chat
    <3>2. execution'.candidate = {} /\ execution'.pending = {}
      BY <2>5, <3>1, OthersRecommendNothing
    <3> QED
      BY <2>5, <3>1, <3>2 DEF RecommendationInv, RecommendationKept
  <2> QED
    BY <2>1, <2>2, <2>3, <2>4, <2>5 DEF ToolsNext
<1>3. RecommendationInv => RecommendationKept
  BY DEF RecommendationInv
<1> QED
  BY <1>1, <1>2, <1>3, PTL DEF ToolsSpec

----------------------------------------------------------------------------
(* The premium *)

\* A larger factor gives a larger product.
LEMMA ProductBounds ==
  ASSUME NEW a \in Nat, NEW b \in Nat, NEW low \in Nat, NEW high \in Nat, low <= a, a <= high
  PROVE  low * b <= a * b /\ a * b <= high * b
  OBVIOUS

\* Rounding keeps the order, and tells apart what differs by a cent.
LEMMA RoundedOrder ==
  ASSUME NEW x \in Nat, NEW y \in Nat
  PROVE  /\ x <= y => (x + 5000) \div 10000 <= (y + 5000) \div 10000
         /\ x + 10000 <= y => (x + 5000) \div 10000 < (y + 5000) \div 10000
  OBVIOUS

\* Two factors of one product, rounded: their ratio within 1.50.
LEMMA RoundedRatio ==
  ASSUME NEW x \in Nat
  PROVE  /\ IsTimes((11 * x + 5000) \div 10000, 110, (10 * x + 5000) \div 10000)
         /\ IsTimes((23 * x + 5000) \div 10000, 115, (20 * x + 5000) \div 10000)
         /\ IsTimes((9 * x + 5000) \div 10000, 180, (5 * x + 5000) \div 10000)
  BY DEF IsTimes

\* Factors commute.
LEMMA Reordered ==
  ASSUME NEW b \in Nat, NEW a \in Nat, NEW c \in Nat, NEW d \in Nat, NEW e \in Nat, NEW f \in Nat
  PROVE  /\ b * (a * c * d * e * f) = d * (b * a * c * e * f)
         /\ b * (a * c * d * e * f) = e * (b * a * c * d * f)
         /\ b * (a * c * d * e * f) = f * (b * a * c * d * e)
  OBVIOUS

\* The five factors that are steps of the grid.
LEMMA StepFactors ==
  ASSUME NEW dr
  PROVE  /\ AgeFactor(dr) \in {20, 23, 30} /\ VehicleFactor(dr) \in {20, 25, 32}
         /\ VehicleAgeFactor(dr) \in {10, 11} /\ ZoneFactor(dr) \in {20, 21, 23}
         /\ FormuleFactor(dr) \in {5, 9}
  BY DEF AgeFactor, VehicleFactor, VehicleAgeFactor, ZoneFactor, FormuleFactor

\* The bonus is kept within the grid, and a higher one never counts less.
LEMMA BonusSteps ==
  ASSUME NEW m \in Int, NEW n \in Int,
         NEW low, low = Between(m, 500, 3500), NEW high, high = Between(n, 500, 3500)
  PROVE  /\ low \in Int /\ 500 <= low /\ low <= 3500
         /\ m <= n => low <= high
         /\ m < 1000 => low < 1000
         /\ m > 1000 => low > 1000
  BY SMT DEF Between

\* The last digit of the bonus counts like the others.
LEMMA DigitsApart ==
  ASSUME NEW k \in Nat, NEW b \in Nat
  PROVE  (k * (b \div 10) + (k * (b % 10) + 5000) \div 10) \div 1000 = (b * k + 5000) \div 10000
<1> DEFINE q == b \div 10
           d == b % 10
           x == k * q
           y == k * d
<1>1. q \in Nat /\ d \in Nat /\ b = 10 * q + d  BY SMT
<1> HIDE DEF q, d
<1>2. x \in Nat /\ y \in Nat /\ b * k = 10 * x + y  BY <1>1, SMT
<1> HIDE DEF x, y
<1>3. (x + (y + 5000) \div 10) \div 1000 = (10 * x + y + 5000) \div 10000  BY <1>2, SMT
<1> QED  BY <1>2, <1>3 DEF x, y, q, d

\* The factors but the bonus: the cheapest and the dearest profile.
LEMMA RestBounds ==
  ASSUME NEW dr
  PROVE  Rest(dr) \in Nat /\ 400000 <= Rest(dr) /\ Rest(dr) <= 2185920
<1> DEFINE a == AgeFactor(dr)
           v == VehicleFactor(dr)
           o == VehicleAgeFactor(dr)
           z == ZoneFactor(dr)
           f == FormuleFactor(dr)
<1>1. /\ a \in {20, 23, 30} /\ v \in {20, 25, 32} /\ o \in {10, 11}
      /\ z \in {20, 21, 23} /\ f \in {5, 9}
  BY StepFactors
<1>2. Rest(dr) = a * v * o * z * f  BY DEF Rest
<1> HIDE DEF a, v, o, z, f
<1>3. a * v \in Nat /\ 400 <= a * v /\ a * v <= 960  BY <1>1
<1>4. a * v * o \in Nat /\ 4000 <= a * v * o /\ a * v * o <= 10560  BY <1>1, <1>3
<1>5. a * v * o * z \in Nat /\ 80000 <= a * v * o * z /\ a * v * o * z <= 242880
  BY <1>1, <1>4
<1> QED  BY <1>1, <1>2, <1>5

\* The premium is the bonus times the rest, to the cent.
LEMMA PremiumOf ==
  ASSUME NEW dr, dr.bonus_malus \in Int
  PROVE  GrillePrime(dr) = (BonusFactor(dr) * Rest(dr) + 5000) \div 10000
<1>1. BonusFactor(dr) \in Nat  BY BonusSteps, SMT DEF BonusFactor
<1>2. Rest(dr) \in Nat  BY RestBounds
<1> QED  BY <1>1, <1>2, DigitsApart DEF GrillePrime

\* It is a number of cents.
LEMMA PremiumType ==
  ASSUME NEW dr, dr.bonus_malus \in Int
  PROVE  GrillePrime(dr) \in Int
<1>1. BonusFactor(dr) \in Int  BY BonusSteps DEF BonusFactor
<1>2. Rest(dr) \in Int  BY RestBounds
<1>3. BonusFactor(dr) * Rest(dr) \in Int  BY <1>1, <1>2
<1> QED  BY <1>3, PremiumOf

\* The premium of every profile is between 200.00 and 7650.72 EUR.
LEMMA PremiumBounds ==
  ASSUME NEW dr, dr.bonus_malus \in Int
  PROVE  20000 <= GrillePrime(dr) /\ GrillePrime(dr) <= 765072
<1> DEFINE b == BonusFactor(dr)
           k == Rest(dr)
<1>1. b \in Nat /\ 500 <= b /\ b <= 3500  BY BonusSteps, SMT DEF BonusFactor
<1>2. k \in Nat /\ 400000 <= k /\ k <= 2185920  BY RestBounds
<1>3. GrillePrime(dr) = (b * k + 5000) \div 10000  BY PremiumOf
<1> HIDE DEF b, k
<1>4. 500 * k <= b * k /\ b * k <= 3500 * k /\ b * k \in Nat
  BY <1>1, <1>2, ProductBounds, SMT
<1> QED  BY <1>2, <1>3, <1>4, SMT

\* A higher bonus never costs less, and on either side of 1 it costs less or more.
LEMMA PremiumByBonus ==
  ASSUME NEW dr, NEW er, dr.bonus_malus \in Int, er.bonus_malus \in Int, Rest(dr) = Rest(er)
  PROVE  /\ dr.bonus_malus <= er.bonus_malus => GrillePrime(dr) <= GrillePrime(er)
         /\ dr.bonus_malus < 1000 /\ er.bonus_malus = 1000 => GrillePrime(dr) < GrillePrime(er)
         /\ dr.bonus_malus > 1000 /\ er.bonus_malus = 1000 => GrillePrime(dr) > GrillePrime(er)
<1> DEFINE b == BonusFactor(dr)
           c == BonusFactor(er)
           k == Rest(dr)
<1>1. /\ b \in Nat /\ c \in Nat
      /\ dr.bonus_malus <= er.bonus_malus => b <= c
      /\ dr.bonus_malus < 1000 => b < 1000
      /\ dr.bonus_malus > 1000 => b > 1000
  BY BonusSteps, SMT DEF BonusFactor
<1>2. er.bonus_malus = 1000 => c = 1000  BY SMT DEF BonusFactor, Between
<1>3. k \in Nat /\ 400000 <= k  BY RestBounds
<1>4. GrillePrime(dr) = (b * k + 5000) \div 10000 /\ GrillePrime(er) = (c * k + 5000) \div 10000
  BY PremiumOf
<1> HIDE DEF b, c, k
<1>5. b * k \in Nat /\ c * k \in Nat  BY <1>1, <1>3
<1>6. b <= c => b * k <= c * k  BY <1>1, <1>3
<1>7. b < c => b * k + 10000 <= c * k
  <2> SUFFICES ASSUME b < c PROVE b * k + 10000 <= c * k  OBVIOUS
  <2>1. (b + 1) * k <= c * k  BY <1>1, <1>3, ProductBounds
  <2>2. (b + 1) * k = b * k + k  BY <1>1, <1>3
  <2> QED  BY <1>3, <1>5, <2>1, <2>2
<1>8. c < b => c * k + 10000 <= b * k
  <2> SUFFICES ASSUME c < b PROVE c * k + 10000 <= b * k  OBVIOUS
  <2>1. (c + 1) * k <= b * k  BY <1>1, <1>3, ProductBounds
  <2>2. (c + 1) * k = c * k + k  BY <1>1, <1>3
  <2> QED  BY <1>3, <1>5, <2>1, <2>2
<1>9. /\ b <= c => GrillePrime(dr) <= GrillePrime(er)
      /\ b < c => GrillePrime(dr) < GrillePrime(er)
      /\ c < b => GrillePrime(dr) > GrillePrime(er)
  BY <1>4, <1>5, <1>6, <1>7, <1>8, RoundedOrder
<1> QED  BY <1>1, <1>2, <1>9

\* The ages and the bonus of a call are numbers.
LEMMA RiskTypes ==
  ASSUME NEW w \in Wires, NEW dr, dr = Risk(Arguments(w))
  PROVE  dr.age \in Int /\ dr.age_vehicule \in Int /\ dr.bonus_malus \in Int
<1> DEFINE args == Arguments(w)
<1>1. w \in Wire /\ {"age", "bonus_malus", "age_vehicule"} \subseteq Key
  BY WiresAssumption DEF Key
<1>2. \A k \in {"age", "bonus_malus", "age_vehicule"} : w.arguments[k].n \in Int
  BY <1>1 DEF Wire, Value
<1>4. \A k \in {"age", "bonus_malus", "age_vehicule"} : args[k].n \in Int
  <2>1. CASE w.form = "unreadable"
    <3>1. args = [k \in Key |-> Absent]  BY <2>1 DEF Arguments
    <3>2. \A k \in {"age", "bonus_malus", "age_vehicule"} : args[k].n = 0
      <4>1. Absent.n = 0  BY DEF Absent
      <4>2. \A k \in {"age", "bonus_malus", "age_vehicule"} : args[k] = Absent
        BY <1>1, <3>1
      <4> HIDE DEF args
      <4> QED  BY <4>1, <4>2
    <3> QED  BY <3>2
  <2>2. CASE w.form # "unreadable"
    <3>1. args = w.arguments  BY <2>2 DEF Arguments
    <3> QED  BY <1>2, <3>1
  <2> QED  BY <2>1, <2>2
<1> HIDE DEF args
<1>5. \A k, default : OptNumber(args[k], default) \in {0, args[k].n, default}
  BY DEF OptNumber
<1>6. /\ dr.age = OptNumber(args["age"], 40000)
      /\ dr.bonus_malus = OptNumber(args["bonus_malus"], 1000)
      /\ dr.age_vehicule = OptNumber(args["age_vehicule"], 0)
  BY DEF Risk, args
<1> QED  BY <1>4, <1>5, <1>6

\* A factor of the grid reads one datum of the profile.
LEMMA FactorsRead ==
  ASSUME NEW dr, NEW er
  PROVE  /\ er.age = dr.age => AgeFactor(er) = AgeFactor(dr)
         /\ er.type_vehicule = dr.type_vehicule => VehicleFactor(er) = VehicleFactor(dr)
         /\ er.age_vehicule = dr.age_vehicule => VehicleAgeFactor(er) = VehicleAgeFactor(dr)
         /\ er.zone = dr.zone => ZoneFactor(er) = ZoneFactor(dr)
         /\ er.formule = dr.formule => FormuleFactor(er) = FormuleFactor(dr)
  BY DEF AgeFactor, VehicleFactor, VehicleAgeFactor, ZoneFactor, FormuleFactor

\* One step of the grid against its neutral value: 10 %, 15 % and 80 % more.
LEMMA PremiumBySteps ==
  ASSUME NEW dr, NEW er, dr.bonus_malus \in Int, er.bonus_malus = dr.bonus_malus,
         AgeFactor(er) = AgeFactor(dr), VehicleFactor(er) = VehicleFactor(dr),
         NEW p, p = GrillePrime(dr), NEW q, q = GrillePrime(er)
  PROVE  /\ /\ ZoneFactor(er) = ZoneFactor(dr) /\ FormuleFactor(er) = FormuleFactor(dr)
            /\ VehicleAgeFactor(dr) = 11 /\ VehicleAgeFactor(er) = 10
            => IsTimes(p, 110, q)
         /\ /\ VehicleAgeFactor(er) = VehicleAgeFactor(dr) /\ FormuleFactor(er) = FormuleFactor(dr)
            /\ ZoneFactor(dr) = 23 /\ ZoneFactor(er) = 20
            => IsTimes(p, 115, q)
         /\ /\ VehicleAgeFactor(er) = VehicleAgeFactor(dr) /\ ZoneFactor(er) = ZoneFactor(dr)
            /\ FormuleFactor(dr) = 9 /\ FormuleFactor(er) = 5
            => IsTimes(p, 180, q)
<1> DEFINE a == AgeFactor(dr)
           b == BonusFactor(dr)
           v == VehicleFactor(dr)
           o == VehicleAgeFactor(dr)
           z == ZoneFactor(dr)
           f == FormuleFactor(dr)
           oo == VehicleAgeFactor(er)
           zz == ZoneFactor(er)
           ff == FormuleFactor(er)
<1>1. b \in Nat  BY BonusSteps, SMT DEF BonusFactor
<1>2. /\ a \in Nat /\ b \in Nat /\ v \in Nat /\ o \in Nat /\ z \in Nat /\ f \in Nat
      /\ oo \in Nat /\ zz \in Nat /\ ff \in Nat
  BY <1>1, StepFactors
<1>3. BonusFactor(er) = b  BY DEF BonusFactor
<1>4. p = (b * (a * v * o * z * f) + 5000) \div 10000  BY PremiumOf DEF Rest
<1>5. q = (b * (a * v * oo * zz * ff) + 5000) \div 10000  BY <1>3, PremiumOf DEF Rest
<1> HIDE DEF a, b, v, o, z, f, oo, zz, ff
<1>6. ASSUME zz = z, ff = f, o = 11, oo = 10 PROVE IsTimes(p, 110, q)
  <2> DEFINE x == b * a * v * z * f
  <2>1. x \in Nat  BY <1>2
  <2>2. b * (a * v * o * z * f) = 11 * x /\ b * (a * v * oo * zz * ff) = 10 * x
    BY <1>2, <1>6, Reordered
  <2> HIDE DEF x
  <2> QED  BY <1>4, <1>5, <2>1, <2>2, RoundedRatio
<1>7. ASSUME oo = o, ff = f, z = 23, zz = 20 PROVE IsTimes(p, 115, q)
  <2> DEFINE x == b * a * v * o * f
  <2>1. x \in Nat  BY <1>2
  <2>2. b * (a * v * o * z * f) = 23 * x /\ b * (a * v * oo * zz * ff) = 20 * x
    BY <1>2, <1>7, Reordered
  <2> HIDE DEF x
  <2> QED  BY <1>4, <1>5, <2>1, <2>2, RoundedRatio
<1>8. ASSUME oo = o, zz = z, f = 9, ff = 5 PROVE IsTimes(p, 180, q)
  <2> DEFINE x == b * a * v * o * z
  <2>1. x \in Nat  BY <1>2
  <2>2. b * (a * v * o * z * f) = 9 * x /\ b * (a * v * oo * zz * ff) = 5 * x
    BY <1>2, <1>8, Reordered
  <2> HIDE DEF x
  <2> QED  BY <1>4, <1>5, <2>1, <2>2, RoundedRatio
<1> QED  BY <1>6, <1>7, <1>8 DEF o, z, f, oo, zz, ff

\* The premium of a profile with one datum replaced.
PremiumWith(dr, factor, value) == GrillePrime([dr EXCEPT ![factor] = value])

\* The grid of one call: what GridKept says of the premium of a profile.
LEMMA GridOfProfile ==
  ASSUME NEW w \in Wires, NEW dr, dr = Risk(Arguments(w)), NEW p, p = GrillePrime(dr)
  PROVE  /\ 20000 <= p /\ p <= 765072
         /\ dr.bonus_malus < 1000 => p < PremiumWith(dr, "bonus_malus", 1000)
         /\ dr.bonus_malus > 1000 => p > PremiumWith(dr, "bonus_malus", 1000)
         /\ \A n \in Int :
              n >= dr.bonus_malus => PremiumWith(dr, "bonus_malus", n) >= p
         /\ dr.age_vehicule > 10000 =>
              IsTimes(p, 110, PremiumWith(dr, "age_vehicule", 0))
         /\ dr.zone = "paris" =>
              IsTimes(p, 115, PremiumWith(dr, "zone", "autre"))
         /\ dr.formule = "tous_risques" =>
              IsTimes(p, 180, PremiumWith(dr, "formule", "tiers"))
<1> DEFINE args == Arguments(w)
<1>0. dr = Risk(args)  OBVIOUS
<1>1. dr.age_vehicule \in Int /\ dr.bonus_malus \in Int
  BY RiskTypes
<1> HIDE DEF args
<1>2. 20000 <= p /\ p <= 765072  BY <1>1, PremiumBounds, SMT
<1>3. ASSUME NEW n \in Int
      PROVE  /\ n >= dr.bonus_malus => GrillePrime([dr EXCEPT !["bonus_malus"] = n]) >= p
             /\ dr.bonus_malus < 1000 /\ n = 1000 =>
                  p < GrillePrime([dr EXCEPT !["bonus_malus"] = n])
             /\ dr.bonus_malus > 1000 /\ n = 1000 =>
                  p > GrillePrime([dr EXCEPT !["bonus_malus"] = n])
  <2> DEFINE er == [dr EXCEPT !["bonus_malus"] = n]
  <2>0. /\ er.bonus_malus = n
        /\ er.age = dr.age /\ er.type_vehicule = dr.type_vehicule /\ er.zone = dr.zone
        /\ er.formule = dr.formule /\ er.age_vehicule = dr.age_vehicule
    BY <1>0 DEF Risk
  <2> HIDE DEF er
  <2>1. er.bonus_malus = n /\ Rest(er) = Rest(dr)  BY <2>0, FactorsRead DEF Rest
  <2>2. /\ n >= dr.bonus_malus => GrillePrime(dr) <= GrillePrime(er)
        /\ dr.bonus_malus < 1000 /\ n = 1000 => GrillePrime(dr) < GrillePrime(er)
        /\ dr.bonus_malus > 1000 /\ n = 1000 => GrillePrime(dr) > GrillePrime(er)
    BY <1>1, <2>1, PremiumByBonus
  <2>3. GrillePrime(er) \in Int /\ GrillePrime(dr) \in Int  BY <1>1, <2>1, PremiumType
  <2>4. /\ n >= dr.bonus_malus => GrillePrime(er) >= p
        /\ dr.bonus_malus < 1000 /\ n = 1000 => p < GrillePrime(er)
        /\ dr.bonus_malus > 1000 /\ n = 1000 => p > GrillePrime(er)
    BY <2>2, <2>3
  <2> QED  BY <2>4 DEF er
<1>4. dr.age_vehicule > 10000 =>
        IsTimes(p, 110, GrillePrime([dr EXCEPT !["age_vehicule"] = 0]))
  <2> DEFINE er == [dr EXCEPT !["age_vehicule"] = 0]
  <2>0. /\ er.age_vehicule = 0
        /\ er.age = dr.age /\ er.bonus_malus = dr.bonus_malus /\ er.type_vehicule = dr.type_vehicule
        /\ er.zone = dr.zone /\ er.formule = dr.formule
    BY <1>0 DEF Risk
  <2> HIDE DEF er
  <2>1. /\ er.age_vehicule = 0 /\ er.bonus_malus = dr.bonus_malus
        /\ AgeFactor(er) = AgeFactor(dr) /\ VehicleFactor(er) = VehicleFactor(dr)
        /\ ZoneFactor(er) = ZoneFactor(dr) /\ FormuleFactor(er) = FormuleFactor(dr)
    BY <2>0, FactorsRead
  <2>2. /\ VehicleAgeFactor(er) = 10
        /\ dr.age_vehicule > 10000 => VehicleAgeFactor(dr) = 11
    BY <2>1 DEF VehicleAgeFactor
  <2>3. dr.age_vehicule > 10000 => IsTimes(p, 110, GrillePrime(er))
    BY <1>1, <2>1, <2>2, PremiumBySteps
  <2> QED  BY <2>3 DEF er
<1>5. dr.zone = "paris" =>
        IsTimes(p, 115, GrillePrime([dr EXCEPT !["zone"] = "autre"]))
  <2> DEFINE er == [dr EXCEPT !["zone"] = "autre"]
  <2>0. /\ er.zone = "autre"
        /\ er.age = dr.age /\ er.bonus_malus = dr.bonus_malus /\ er.type_vehicule = dr.type_vehicule
        /\ er.formule = dr.formule /\ er.age_vehicule = dr.age_vehicule
    BY <1>0 DEF Risk
  <2> HIDE DEF er
  <2>1. /\ er.zone = "autre" /\ er.bonus_malus = dr.bonus_malus
        /\ AgeFactor(er) = AgeFactor(dr) /\ VehicleFactor(er) = VehicleFactor(dr)
        /\ VehicleAgeFactor(er) = VehicleAgeFactor(dr) /\ FormuleFactor(er) = FormuleFactor(dr)
    BY <2>0, FactorsRead
  <2>2. ZoneFactor(er) = 20 /\ (dr.zone = "paris" => ZoneFactor(dr) = 23)
    BY <2>1 DEF ZoneFactor
  <2>3. dr.zone = "paris" => IsTimes(p, 115, GrillePrime(er))
    BY <1>1, <2>1, <2>2, PremiumBySteps
  <2> QED  BY <2>3 DEF er
<1>6. dr.formule = "tous_risques" =>
        IsTimes(p, 180, GrillePrime([dr EXCEPT !["formule"] = "tiers"]))
  <2> DEFINE er == [dr EXCEPT !["formule"] = "tiers"]
  <2>0. /\ er.formule = "tiers"
        /\ er.age = dr.age /\ er.bonus_malus = dr.bonus_malus /\ er.type_vehicule = dr.type_vehicule
        /\ er.zone = dr.zone /\ er.age_vehicule = dr.age_vehicule
    BY <1>0 DEF Risk
  <2> HIDE DEF er
  <2>1. /\ er.formule = "tiers" /\ er.bonus_malus = dr.bonus_malus
        /\ AgeFactor(er) = AgeFactor(dr) /\ VehicleFactor(er) = VehicleFactor(dr)
        /\ VehicleAgeFactor(er) = VehicleAgeFactor(dr) /\ ZoneFactor(er) = ZoneFactor(dr)
    BY <2>0, FactorsRead
  <2>2. FormuleFactor(er) = 5 /\ (dr.formule = "tous_risques" => FormuleFactor(dr) = 9)
    BY <2>1 DEF FormuleFactor
  <2>3. dr.formule = "tous_risques" => IsTimes(p, 180, GrillePrime(er))
    BY <1>1, <2>1, <2>2, PremiumBySteps
  <2> QED  BY <2>3 DEF er
<1>7. /\ dr.bonus_malus < 1000 => p < GrillePrime([dr EXCEPT !["bonus_malus"] = 1000])
      /\ dr.bonus_malus > 1000 => p > GrillePrime([dr EXCEPT !["bonus_malus"] = 1000])
  BY <1>3
<1> DEFINE low == 20000
           high == 765072
<1>8. low <= p /\ p <= high  BY <1>2
<1> HIDE DEF low, high
<1>9. /\ low <= p /\ p <= high
      /\ dr.bonus_malus < 1000 => p < GrillePrime([dr EXCEPT !["bonus_malus"] = 1000])
      /\ dr.bonus_malus > 1000 => p > GrillePrime([dr EXCEPT !["bonus_malus"] = 1000])
      /\ \A n \in Int :
           n >= dr.bonus_malus => GrillePrime([dr EXCEPT !["bonus_malus"] = n]) >= p
  BY <1>3, <1>7, <1>8
<1> QED  BY <1>4, <1>5, <1>6, <1>9 DEF low, high, PremiumWith

\* What a call became is what its tool makes of its arguments, or no answer of
\* a tool.
ExecutedInv ==
  /\ wire \in Wires
  /\ execution.outcome \in {"ok", "argument error"} =>
       execution \in Executions(wire.name, Arguments(wire))

\* It holds of every run.
LEMMA ExecutedInvariant == ToolsSpec => []ExecutedInv
<1>1. \A o : Only(o).outcome = o  BY DEF Only
<1>2. ToolsInit => ExecutedInv
  <2>1. Only("none").outcome = "none"  BY <1>1
  <2> QED  BY <2>1 DEF ToolsInit, ExecutedInv
<1>3. ExecutedInv /\ [ToolsNext]_toolVars => ExecutedInv'
  <2> SUFFICES ASSUME ExecutedInv, [ToolsNext]_toolVars PROVE ExecutedInv'  OBVIOUS
  <2>1. CASE UNCHANGED toolVars  BY <2>1 DEF ExecutedInv, toolVars
  <2>2. CASE ChatFails
    <3>1. wire' = wire /\ execution' \in {execution, Only("unreached")}  BY <2>2 DEF ChatFails
    <3>2. Only("unreached").outcome = "unreached"  BY <1>1
    <3> QED  BY <3>1, <3>2 DEF ExecutedInv
  <2>3. CASE Chat
    <3>1. wire' = wire
          /\ (execution' = Only("dropped") \/ execution' \in Executions(wire.name, Arguments(wire)))
      BY <2>3 DEF Chat
    <3>2. Only("dropped").outcome = "dropped"  BY <1>1
    <3> QED  BY <3>1, <3>2 DEF ExecutedInv
  <2> QED  BY <2>1, <2>2, <2>3 DEF ToolsNext
<1> QED  BY <1>2, <1>3, PTL DEF ToolsSpec

\* A priced call has the premium of its profile.
LEMMA PricedByGrid == ExecutedInv /\ Priced => execution.figure = GrillePrime(Risk(Arguments(wire)))
<1> SUFFICES ASSUME ExecutedInv, Priced
             PROVE  execution.figure = GrillePrime(Risk(Arguments(wire)))
  OBVIOUS
<1>1. wire.name = "calculer_prime" /\ execution.outcome = "ok"
      /\ execution \in Executions("calculer_prime", Arguments(wire))
  BY DEF ExecutedInv, Priced
<1>2. execution \in {Figure(GrillePrime(Risk(Arguments(wire)))), Only("argument error")}
  BY <1>1 DEF Executions, Readers
<1>3. Only("argument error").outcome = "argument error" /\ \A n : Figure(n).figure = n
  BY DEF Only, Figure
<1> QED  BY <1>1, <1>2, <1>3

\* grille-tarification.md holds of the premium of every call, for any profile.
THEOREM GridHolds == ToolsSpec => []GridKept
<1>1. ASSUME ExecutedInv PROVE GridKept
  <2> DEFINE dr == Risk(Arguments(wire))
             p == GrillePrime(dr)
  <2>1. Priced => execution.figure = p  BY <1>1, PricedByGrid
  <2>2. wire \in Wires  BY <1>1 DEF ExecutedInv
  <2>3. /\ 20000 <= p /\ p <= 765072
        /\ dr.bonus_malus < 1000 => p < PremiumIf("bonus_malus", 1000)
        /\ dr.bonus_malus > 1000 => p > PremiumIf("bonus_malus", 1000)
        /\ \A n \in Int : n >= dr.bonus_malus => PremiumIf("bonus_malus", n) >= p
        /\ dr.age_vehicule > 10000 => IsTimes(p, 110, PremiumIf("age_vehicule", 0))
        /\ dr.zone = "paris" => IsTimes(p, 115, PremiumIf("zone", "autre"))
        /\ dr.formule = "tous_risques" => IsTimes(p, 180, PremiumIf("formule", "tiers"))
    <3>1. \A factor, value : PremiumIf(factor, value) = PremiumWith(dr, factor, value)
      BY DEF PremiumIf, PremiumWith
    <3> HIDE DEF dr
    <3>2. dr = Risk(Arguments(wire))  BY DEF dr
    <3> QED  BY <2>2, <3>1, <3>2, GridOfProfile, SMT
  <2> HIDE DEF p
  <2>4. {0, 500, 850, 1000, 1250, 3500, 5000} \subseteq Int  OBVIOUS
  <2> QED  BY <2>1, <2>3, <2>4, SMT DEF GridKept
<1> QED  BY <1>1, ExecutedInvariant, PTL

=============================================================================

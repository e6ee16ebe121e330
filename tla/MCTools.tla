------------------------------ MODULE MCTools ------------------------------
(***************************************************************************)
(* Calls a model may write, for TLC: every tool, every kind of argument.   *)
(***************************************************************************)
EXTENDS Tools, TLC

Number(n) == [kind |-> "number", n |-> n, word |-> ""]
Numeral(n) == [kind |-> "numeral", n |-> n, word |-> "5000"]
Text(word) == [kind |-> "text", n |-> 0, word |-> word]
Of(kind) == [Absent EXCEPT !.kind = kind]

None == [k \in Key |-> Absent]
Call(name, form, arguments) == [name |-> name, form |-> form, arguments |-> arguments @@ None]

Boolean(n) == [kind |-> "boolean", n |-> n, word |-> ""]
ListOf(n) == [kind |-> "numberList", n |-> n, word |-> ""]

\* Half a cent, the threshold of 5000 EUR and the half cents next to it; true,
\* false and one-element lists.
Amounts ==
  {Number(n) :
     n \in {-1000, 0, 4, 5, 6, 1005, 4999995, 5000000, 5000001, 5000004, 5000010, 2000000000}}
    \cup {Numeral(5000000), Numeral(5000001), Text("beaucoup"), Absent}
    \cup {Boolean(0), Boolean(1000), ListOf(3000000), ListOf(5000001)}
    \cup {Of(kind) : kind \in {"null", "blank", "blankList", "list", "object"}}

SettlementWires ==
  {Call("recommander_reglement", form,
        "claim_id" :> id @@ "montant" :> montant @@ "raison" :> raison) :
     form \in {"object", "json", "unreadable"}, id \in {Text("A"), Of("blank"), Number(7)},
     montant \in Amounts, raison \in {Text("devis"), Absent}}

RiskWires ==
  {Call(name, "object",
        "donnees_risque" :> risk @@ "age" :> age @@ "bonus_malus" :> bonus @@ "zone" :> zone
          @@ "type_vehicule" :> type @@ "formule" :> formule @@ "age_vehicule" :> old
          @@ "source" :> Text("seo")) :
     name \in {"calculer_prime", "evaluer_risque", "qualifier_lead"},
     risk \in {Of("object"), Of("list"), Absent},
     age \in {Absent, Of("null"), Number(66000), Numeral(24000)},
     bonus \in {Absent, Boolean(0), Number(1000), Number(1001), Number(4000), Number(850),
                ListOf(1300)},
     zone \in {Absent, Text("paris"), Text("banlieue")},
     type \in {Text("citadine"), Text("suv"), Text("sportive")},
     formule \in {Absent, Text("tous_risques")},
     old \in {Absent, Number(11000)}}

OtherWires ==
  {Call("", "object", None), Call("virement", "object", None)}
    \cup {Call(name, "json", "reference" :> Text("7")) : name \in Readers}
    \cup {Call("requeter_pnl", "json", "periode" :> p @@ "kind" :> kind) :
            p \in {Text("semaine"), Text("month"), Text("2026"), Of("blank")},
            kind \in {Text("hebdo"), Absent}}
    \cup {Call("consulter_memoire", "object", "requete" :> q @@ "limite" :> v) :
            q \in {Text("bris de glace"), Absent},
            v \in {Absent, Of("null"), Number(2500), Numeral(99000), Text("tout")}}

MCWires == SettlementWires \cup RiskWires \cup OtherWires
=============================================================================

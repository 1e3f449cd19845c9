----------------------------- MODULE MCFormulas -----------------------------
(***************************************************************************)
(* The rule file of 2026 (data/tax_rules/federal/2026.json) and wages a    *)
(* dollar around those of its boundaries that lie below 560000 dollars     *)
(* (370000 for joint filers); the profile of the sales tax                 *)
(* (data/statistical/sales_tax_9a.json) with yearly totals in thousands;   *)
(* all ledgers of up to three rows over a few codes.                       *)
(***************************************************************************)
EXTENDS Formulas

Brackets(uppers) ==
    [k \in 1..7 |-> [upper |-> (uppers \o <<NoLimit>>)[k],
                     rate  |-> <<1000, 1200, 2200, 2400, 3200, 3500, 3700>>[k]]]

ByStatus(s, j, p, h) == [single |-> s, joint |-> j, separate |-> p, head |-> h]

MCRules ==
    [standard_deduction  |-> ByStatus(16100, 32200, 16100, 24150),
     brackets            |-> ByStatus(
        Brackets(<<12400, 50400, 105700, 201775, 256225, 640600>>),
        Brackets(<<24800, 100800, 211400, 403550, 512450, 768700>>),
        Brackets(<<12400, 50400, 105700, 201775, 256225, 384350>>),
        Brackets(<<17700, 67450, 105700, 201750, 256200, 640600>>)),
     ss_rate             |-> 620,
     wage_base           |-> 184500,
     medicare_rate       |-> 145,
     surtax_rate         |-> 90,
     surtax_threshold    |-> ByStatus(200000, 250000, 125000, 200000),
     child_credit        |-> 2200,
     actc_per_child      |-> 1700,
     actc_floor          |-> 2500,
     actc_rate           |-> 1500,
     other_credit        |-> 500,
     phaseout_threshold  |-> ByStatus(200000, 400000, 200000, 200000),
     phaseout_increment  |-> 1000,
     phaseout_reduction  |-> 50]

\* Dollars around which something begins or ends for a household of the status.
Boundaries(status) ==
    {0, 2500, 29932, 57452, 94511, 155925, FederalRules.standard_deduction[status], FederalRules.wage_base,
     FederalRules.surtax_threshold[status], FederalRules.phaseout_threshold[status],
     FederalRules.phaseout_threshold[status] + 3000, 211000}
    \cup {FederalRules.standard_deduction[status] + FederalRules.brackets[status][k].upper : k \in 1..5}

\* The largest wages of the instance: exact amounts stay below 2^31 units.
Wages(status) ==
    {w \in UNION {{b - 1, b, b + 1, b + 7} : b \in Boundaries(status)} : w >= 0 /\ w < 560000}

MCHouseholds ==
    {[status |-> s, wage |-> w, spouse |-> 0, children |-> c, others |-> o] :
        s \in {"single"}, w \in Wages("single"), c \in {0, 1, 4}, o \in {0, 1}}
    \cup UNION {{[status |-> s, wage |-> w, spouse |-> 0, children |-> c, others |-> 0] :
        w \in Wages(s), c \in {0, 2}} : s \in {"separate", "head"}}
    \cup {[status |-> "joint", wage |-> w, spouse |-> p, children |-> c, others |-> 0] :
        w \in {w \in Wages("joint") : w < 370000}, p \in {0, 30003, 184501}, c \in {0, 2}}

Spent(lower, upper, total) == [lower |-> lower, upper |-> upper, total |-> total]
Taxable(baseline, percent) == [baseline |-> baseline, taxability |-> percent, capped |-> FALSE]

MCProfile ==
    [quintiles  |-> <<Spent(0, 29932, 35), Spent(29932, 57452, 50), Spent(57452, 94511, 67),
                      Spent(94511, 155925, 90), Spent(155925, Unbounded, 150)>>,
     all_units  |-> 79,
     categories |-> <<Taxable(6224, 0), Taxable(3945, 100), Taxable(643, 100), Taxable(2001, 85),
                      [Taxable(5337, 100) EXCEPT !.capped = TRUE], Taxable(4206, 35),
                      Taxable(6197, 5), Taxable(3609, 60), Taxable(978, 60), Taxable(125, 100),
                      Taxable(1569, 10), Taxable(352, 100), Taxable(1218, 50), Taxable(877, 100),
                      Taxable(2414, 100)>>,
     state_rate |-> 60,
     local_rate |-> 15,
     cap        |-> 5000]

MCSpending == <<310, 7, 122, -3, 58>>

Row(prefix, function, spelling, amount) ==
    [spelled |-> <<<<prefix, function>>, spelling>>, amount |-> amount]

MCRows ==
    {Row("E", "24", "E24", 5), Row("E", "24", " e24 ", -5), Row("F", "12", "F12", 7),
     Row("J", "19", "J19", 2), Row("I", "89", "I89", 3), Row("E", "16", "E16", -2),
     Row("L", "24", "L24", 4), Row("E", "91", "E91", 6), Row("E", "03", "E03", 1)}

MCLedgers == UNION {[1..n -> MCRows] : n \in 0..3}
=============================================================================

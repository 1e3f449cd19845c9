----------------------------- MODULE TaxEngine -----------------------------
(***************************************************************************)
(* tax/engine.py: a household's federal taxes under one year's rules.      *)
(*                                                                         *)
(* Wages, thresholds and credits are whole dollars; a rate is a number of  *)
(* ten-thousandths, so that a tax is exact in ten-thousandths of a dollar, *)
(* the unit of every amount below.                                         *)
(***************************************************************************)
EXTENDS Integers, Sequences

CONSTANTS FederalRules,  \* one field per entry of the rule file
          NoLimit        \* the upper bound of the last bracket

Dollar == 10000
Cent == 100

Statuses == DOMAIN FederalRules.brackets

\* The bounds of a schedule ascend; the last band has none.
IsSchedule(brackets) ==
    /\ brackets \in Seq([upper : Nat \cup {NoLimit}, rate : Nat]) /\ brackets # <<>>
    /\ \A k \in DOMAIN brackets : brackets[k].upper = NoLimit <=> k = Len(brackets)
    /\ \A k \in 1..(Len(brackets) - 1) :
          (IF k = 1 THEN 0 ELSE brackets[k - 1].upper) < brackets[k].upper

ASSUME RulesAssumption ==
    /\ NoLimit \notin Int
    /\ \A s \in Statuses : /\ IsSchedule(FederalRules.brackets[s])
                            /\ FederalRules.standard_deduction[s] \in Nat
                            /\ FederalRules.surtax_threshold[s] \in Nat
                            /\ FederalRules.phaseout_threshold[s] \in Nat
    /\ {FederalRules.ss_rate, FederalRules.wage_base, FederalRules.medicare_rate,
        FederalRules.surtax_rate, FederalRules.child_credit, FederalRules.other_credit,
        FederalRules.phaseout_reduction} \subseteq Nat
    /\ FederalRules.phaseout_increment \in Nat \ {0}

\* Income is taxed in whole percents: a dollar's tax is a number of cents.
ASSUME WholePercentAssumption ==
    \A s \in Statuses : \A k \in DOMAIN FederalRules.brackets[s] :
        FederalRules.brackets[s][k].rate % Cent = 0

Least(x, y) == IF x < y THEN x ELSE y
AtLeastZero(x) == IF x < 0 THEN 0 ELSE x

\* ROUND_HALF_UP, to the cent, of an amount that is not negative.
Money(x) == ((x + Cent \div 2) \div Cent) * Cent

---------------------------------------------------------------------------
\* Faulty variant of OrdinaryIncomeTax: a band is as wide as its upper bound.
OrdinaryIncomeTaxFromZero(taxable, brackets) ==
    LET after[k \in 0..Len(brackets)] ==
          IF k = 0 THEN [remaining |-> taxable, total |-> 0]
          ELSE LET upper == brackets[k].upper
                   left  == after[k - 1].remaining
                   width == IF upper = NoLimit THEN left ELSE Least(left, upper)
               IN  [remaining |-> left - width,
                    total |-> after[k - 1].total + width * brackets[k].rate]
    IN  Money(after[Len(brackets)].total)

\* A band takes its width off what the bands below it have left.
Band(below, bracket) ==
    LET width == IF bracket.upper = NoLimit THEN below.remaining
                 ELSE AtLeastZero(Least(below.remaining, bracket.upper - below.lower))
    IN  IF below.remaining <= 0 THEN below
        ELSE [lower     |-> IF bracket.upper = NoLimit THEN below.lower ELSE bracket.upper,
              remaining |-> below.remaining - width,
              total     |-> below.total + width * bracket.rate]

\* The bands one after the other.
Bands(taxable, brackets) ==
    LET after[k \in 0..Len(brackets)] ==
          IF k = 0 THEN [lower |-> 0, remaining |-> taxable, total |-> 0]
          ELSE Band(after[k - 1], brackets[k])
    IN  after

OrdinaryIncomeTax(taxable, brackets) == Money(Bands(taxable, brackets)[Len(brackets)].total)

\* A credit falls by a step for every increment that wages have begun above
\* the threshold: the ceiling of excess / increment.
PhasedCredit(credit, wages, threshold) ==
    LET excess     == AtLeastZero(wages - threshold)
        increments == (excess + FederalRules.phaseout_increment - 1)
                         \div FederalRules.phaseout_increment
    IN  AtLeastZero(credit - increments * FederalRules.phaseout_reduction * Dollar)

\* The refundable part: what is unused, the earned-income formula or the cap
\* per child, whichever is least.
RefundableCredit(unused, wages, children) ==
    IF children = 0 \/ unused <= 0 THEN 0
    ELSE Money(Least(unused, Least(AtLeastZero(wages - FederalRules.actc_floor) * FederalRules.actc_rate,
                                   FederalRules.actc_per_child * children * Dollar)))

\* Faulty variant of SocialSecurity: above the base nothing is owed.
SocialSecurityCliff(inp) ==
    LET owed(wage) == IF wage > FederalRules.wage_base THEN 0 ELSE wage * FederalRules.ss_rate
    IN  owed(inp.wage) + owed(inp.spouse)

\* The wage base limits each spouse's own wages.
SocialSecurity(inp) ==
    (Least(inp.wage, FederalRules.wage_base) + Least(inp.spouse, FederalRules.wage_base))
        * FederalRules.ss_rate

Surtax(inp) ==
    AtLeastZero(inp.wage + inp.spouse - FederalRules.surtax_threshold[inp.status])
        * FederalRules.surtax_rate

\* calculate: every amount of the result is rounded on its own, the total from the
\* exact payroll taxes.
FederalTaxes(inp) ==
    LET wages     == inp.wage + inp.spouse
        before    == OrdinaryIncomeTax(AtLeastZero(wages - FederalRules.standard_deduction[inp.status]),
                                       FederalRules.brackets[inp.status])
        potential == (FederalRules.child_credit * inp.children
                         + FederalRules.other_credit * inp.others) * Dollar
        phased    == PhasedCredit(potential, wages, FederalRules.phaseout_threshold[inp.status])
        used      == Least(before, phased)
        medicare  == wages * FederalRules.medicare_rate
    IN  [before_credits  |-> before,
         potential       |-> potential,
         nonrefundable   |-> Money(used),
         refundable      |-> RefundableCredit(AtLeastZero(phased - used), wages, inp.children),
         income          |-> Money(AtLeastZero(before - used)),
         social_security |-> Money(SocialSecurity(inp)),
         medicare        |-> Money(medicare),
         surtax          |-> Money(Surtax(inp)),
         total           |-> Money(AtLeastZero(before - used) + SocialSecurity(inp)
                                     + medicare + Surtax(inp))]

\* Faulty variant of AllocableTaxes: the Additional Medicare Tax is left out.
AllocableTaxesNoSurtax(inp) ==
    LET t == FederalTaxes(inp) IN t.income + t.social_security + t.medicare

\* What the allocation engine splits: the four rounded taxes.
AllocableTaxes(inp) ==
    LET t == FederalTaxes(inp) IN t.income + t.social_security + t.medicare + t.surtax
=============================================================================

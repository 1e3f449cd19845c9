------------------------- MODULE MCFederalReceipt -------------------------
EXTENDS FederalReceipt

\* The four funding pools of the seed (general, OASI, DI, Medicare HI), and
\* one that has lost its rule.
MCMappings ==
    <<[revenue |-> "income", pool |-> 1, share |-> 6], [revenue |-> "oasdi", pool |-> 2, share |-> 5],
      [revenue |-> "oasdi", pool |-> 3, share |-> 1], [revenue |-> "medicare", pool |-> 4, share |-> 5],
      [revenue |-> "medicare", pool |-> 5, share |-> 1]>>

SocialSecurity == {"650", "651"}
MCRules ==
    <<[include |-> {}, exclude |-> SocialSecurity], [include |-> SocialSecurity, exclude |-> {}],
      [include |-> SocialSecurity, exclude |-> {}], [include |-> {"570", "571"}, exclude |-> {}], NoRule>>

MCTaxes ==
    {[income |-> 7, oasdi |-> 5, medicare |-> 3, surtax |-> 0],
     [income |-> 0, oasdi |-> 3, medicare |-> 1, surtax |-> 0],
     [income |-> 11, oasdi |-> 8, medicare |-> 4, surtax |-> 0],
     [income |-> 2, oasdi |-> 0, medicare |-> 0, surtax |-> 1]}

Row(sub, fun, account, amount) == [sub |-> sub, fun |-> fun, account |-> account, amount |-> amount]

\* A year's workbook, a revision of it with negative and cancelling net
\* outlays, and one without actual outlays for the year yet.
MCWorkbooks ==
    {<<Row("651", "650", "A", 3), Row("571", "570", "B", 2), Row("051", "050", "A", 4),
       Row("", "", "none", 1)>>,
     <<Row("651", "650", "A", 4), Row("651", "650", "C", -1), Row("571", "570", "B", 2),
       Row("571", "570", "C", -2), Row("051", "050", "C", 5)>>,
     <<>>}

Outlays(a, b, c) == [A |-> a, B |-> b, C |-> c]
MCFileBs == {Outlays(<<>>, <<>>, <<>>), Outlays(<<2, 3>>, <<1, -1>>, <<-4>>)}
MCFileCs == {Outlays(<<>>, <<>>, <<>>), Outlays(<<3, -1>>, <<1>>, <<2>>), Outlays(<<1, 1, 2>>, <<>>, <<1, -1>>),
             Outlays(<<9>>, <<>>, <<>>)}
=============================================================================

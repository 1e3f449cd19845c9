-------------------------- MODULE MCCensusIngest --------------------------
EXTENDS CensusIngest

\* Government 4 is not in the registry file, which lists 1 twice: two batches.
MCUnits == <<1, 1, 2, 3>>

\* Two archives of one year.  The revision files the rows of government 1 under
\* another code and has records of 3, a state, and of 4; a third
\* archive repeats a government and item code in its second batch.
MCNRecords == [d \in Dataset |-> [e1 |-> 3, e2 |-> 3, e3 |-> 3]]

Row(g, c) == [gov |-> g, code |-> c]
MCKey == [d \in Dataset |-> [e1 |-> <<Row(1, "E01"), Row(1, "F01"), Row(2, "E01")>>,
                             e2 |-> <<Row(1, "E02"), Row(3, "E01"), Row(4, "E01")>>,
                             e3 |-> <<Row(2, "E01"), Row(4, "E01"), Row(2, "E01")>>]]
=============================================================================

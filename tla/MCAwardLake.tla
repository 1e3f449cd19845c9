----------------------------- MODULE MCAwardLake ----------------------------
(***************************************************************************)
(* Requests for the year, for its prime awards, for one agency and for a   *)
(* part of the year; archives that differ in their members; and a user who *)
(* may ingest each of two archives under a request it does not answer.     *)
(***************************************************************************)
EXTENDS AwardLake, TLC

CONSTANTS a1, a2, a3, a4, a5, dod

Payload(dates, agency, sub) ==
    [dates |-> dates, agency |-> agency, prime |-> TRUE, sub |-> sub]

Annual == Payload("YEAR", All, TRUE)
PrimeOnly == Payload("YEAR", All, FALSE)
Scoped == Payload("YEAR", dod, FALSE)
Quarter == Payload("SLICE", All, FALSE)

MCRequest == {Annual, PrimeOnly, Scoped, Quarter}

D1 == {"contract_award_unique_key", "award_id_piid"}
D2 == {"assistance_award_unique_key"}
F == {"subaward_number", "prime_award_piid", "prime_award_unique_key"}

MCGeneratedFor == (a1 :> Annual) @@ (a2 :> PrimeOnly) @@ (a3 :> Scoped) @@ (a4 :> PrimeOnly)
                  @@ (a5 :> Quarter)

MCGiven == {<<a1, Annual>>, <<a3, Annual>>, <<a5, Scoped>>}

\* a1 has contracts and grants; a2 only contracts, and their key column is missing;
\* a4 has a member that is no award data.
MCMembers == (a1 :> <<D1, F, D2>>) @@ (a2 :> <<{"award_id_piid"}>>)
             @@ (a3 :> <<D1>>) @@ (a4 :> <<D1, {"agency_name"}>>)
             @@ (a5 :> <<D1>>)
=============================================================================

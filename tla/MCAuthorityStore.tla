--------------------------- MODULE MCAuthorityStore ---------------------------
(* Small registries for TLC. *)
EXTENDS AuthorityStore, TLC

CONSTANTS k1, cardFile, planFile, webPage, o1, o2, l1

OnePlot == {k1}
Files == {cardFile, planFile}
AllDocuments == Files \cup {webPage}
TwoOperators == {o1, o2}
OneLookup == {l1}
Nobody == {}
Interchangeable == Permutations(TwoOperators)

Item(area, rings, issued, uri, version, supersedes) ==
    [plot |-> k1, type |-> "city_survey_measurement", area |-> area, rings |-> rings,
     issued |-> issued, uri |-> uri, sha |-> 1, issuer |-> TRUE,
     version |-> version, supersedes |-> supersedes]

\* A survey, a reprint of it that differs in its document only and asks for
\* the version number the survey would get, and a replacement of record 1.
Survey == Item(100, 0, 1, cardFile, 0, 0)
Reprint == Item(100, 96, 1, planFile, 1, 0)
NewSurvey == Item(104, 0, 2, planFile, 0, 1)

RaceBatches == {<<Survey>>, <<Reprint, NewSurvey>>}
RaceItems == UNION {{b[i] : i \in DOMAIN b} : b \in RaceBatches}
TwoDigests == {1, 2}

\* Neither an activation nor a lookup opens a document: a change of one is
\* combined with registrations, verifications and withdrawals.
EditsApart == edits = 0 \/ (selections = <<>> /\ \A l \in Lookups : lookup[l] = IdleLookup)
===============================================================================

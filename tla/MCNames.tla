------------------------------ MODULE MCNames ------------------------------
(* Instances of Names for TLC.                                             *)
EXTENDS Names, TLC

CONSTANTS c1, c2, v1, p1, p2

\* One operator's name in two cases, a variant that is folded into it, one that is
\* in the grey zone but close to that variant, and a stranger.
FiveNames == {"MSC", "msc", "MSC Co", "MSC Line", "MOL"}

Folded == [n \in FiveNames |-> IF n = "MSC" THEN "msc" ELSE n]

Alikeness ==
  [n \in FiveNames |-> [m \in FiveNames |->
    IF Folded[n] = Folded[m] THEN 100
    ELSE IF "MOL" \in {n, m} THEN 0
    ELSE IF "MSC Line" \in {n, m} THEN (IF "MSC Co" \in {n, m} THEN 55 ELSE 35)
    ELSE 50]]

\* "SGSIN" is a locode; "SNGP" abbreviates; "SANGA" is near both names
\* and the second exactly; "SEA" is spelt by a name but is no abbreviation.
ThreeReports == {v1} \X {"SGSIN SANGA", "SNGP SEA", "AT SEA"}

WordsOf == [d \in {"SGSIN SANGA", "SNGP SEA", "AT SEA"} |->
  IF d = "SGSIN SANGA" THEN <<"SGSIN", "SANGA">>
  ELSE IF d = "SNGP SEA" THEN <<"SNGP", "SEA">> ELSE <<"SEA">>]

\* What a row of ports says, as far as the lookups read it.
Singapore == [un_locode |-> "SGSIN", length |-> 9, spells |-> {"SNGP", "SEA"},
              similarity |-> [w \in {"SGSIN", "SNGP", "SEA"} |-> 0] @@ ("SANGA" :> 45)]
Sanga == [un_locode |-> "XXSNG", length |-> 5, spells |-> {"SEA"},
          similarity |-> [w \in {"SGSIN", "SNGP"} |-> 35] @@ ("SANGA" :> 100) @@ ("SEA" :> 42)]

TwoPorts == {Singapore, Sanga}

Cast(mobile, resolves, failures, changes, seedings) ==
  [parts |-> mobile, calls |-> resolves, faults |-> failures, moves |-> changes,
   seeds |-> seedings]

\* Resolutions that fail; operators that change hands; destinations.
ThreeCasts ==
  {Cast({}, 3, 1, 0, 0), Cast({}, 3, 0, 3, 0), Cast({"destinations"}, 0, 1, 0, 3)}
=============================================================================

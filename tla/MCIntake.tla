------------------------------ MODULE MCIntake ------------------------------
(* Small instances of the intake for TLC. *)
EXTENDS IntakeService

CONSTANTS r1, r2, c1, c2

TwoReports == {r1, r2}
TwoClients == {c1, c2}

\* A readable and an unreadable photograph in both orders, one photograph too
\* many, a voice note of each kind beside a good photograph, and words alone.
SomeUploads ==
    [photos : {<<"good">>}, voice : {"none", "good", "bad"}]
        \cup [photos : {<<>>, <<"good", "bad">>, <<"bad", "good">>, <<"good", "good", "good">>},
              voice : {"good"}]
=============================================================================

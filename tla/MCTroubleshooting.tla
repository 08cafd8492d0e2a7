------------------------- MODULE MCTroubleshooting ---------------------------
(* Troubleshooting for TLC: two incidents of one agent, with or without the    *)
(* permissions for R2 and for reading.                                         *)
EXTENDS Troubleshooting

Granted == {"diagnose:read", "recovery:refresh", "recovery:reallocate"}

MCPermissionSets == {Granted, {"recovery:refresh"}}

\* The cache has nothing to reuse, or a result for the environment: bare, with
\* evidence, or with evidence that is lost.
Remembered == {[Blank EXCEPT !["check_environment_state"] = origin] : origin \in Origins}

MCSymptoms == {<<"ENVIRONMENT", <<"H_ENV", "H_ENV">>, memory>> : memory \in Remembered}
              \cup {<<"SOFTWARE", <<>>, Blank>>}

=============================================================================

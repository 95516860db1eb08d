------------------------------ MODULE MCRepos ------------------------------
EXTENDS AppRepos

CONSTANTS good, bad, user, word, teamPull, globalPull

MCPulls(n) == IF n = Team THEN {teamPull} ELSE {globalPull}

(* A password with a colon in it, a token, and another header. *)
MCTyped(scheme) == IF scheme = "Basic" THEN {<<user, word, word>>} ELSE {<<word>>}

(* The team's repository has a simple password, the global one's has a     *)
(* colon in it.                                                            *)
MCFirstSpec(n) ==
    {[url |-> good, filter |-> TRUE, ref |-> Own, pull |-> None,
      header |-> Header("Basic", IF n = Team THEN <<user, word>> ELSE <<user, word, word>>)]}

=============================================================================

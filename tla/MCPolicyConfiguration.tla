----------------------- MODULE MCPolicyConfiguration -----------------------
(* Small instances of PolicyConfiguration for TLC. *)
EXTENDS PolicyConfiguration

CONSTANTS a1, a2, g1, g2

\* Two readers meet one administrator, and two administrators one reader.
Together == \/ editor[a2] = [at |-> "away", base |-> 0]
            \/ reader[g2].at = "idle" /\ answer[g2] = Nothing
============================================================================

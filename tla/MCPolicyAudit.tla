---------------------------- MODULE MCPolicyAudit ----------------------------
(* PolicyAudit for TLC: a search crawler and a training crawler. *)
EXTENDS PolicyAudit, TLC

MCPatterns == {"", "/", "/*", "/x"}
MCPatternLength == "" :> 0 @@ "/" :> 1 @@ "/*" :> 2 @@ "/x" :> 2
MCMatching == {"", "/", "/*"}
MCRegistry == <<[token |-> "searchbot", purpose |-> "search"],
                [token |-> "trainbot", purpose |-> "training"]>>
=============================================================================

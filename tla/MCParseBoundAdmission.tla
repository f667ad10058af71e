------------------------ MODULE MCParseBoundAdmission ------------------------
(* ParseBoundAdmission for TLC: each token was issued for its own rule.    *)
EXTENDS ParseBoundAdmission, TLC

CONSTANTS t1, t2, h1, h2

MCTokenHash == (t1 :> h1) @@ (t2 :> h2)

(* Well-formed requests, and requests whose digest is not the token's.     *)
MCBodies ==
  {b \in [proc : Procs, key : Keys, token : Tokens, hash : Hashes] :
     b.token = t1 \/ b.hash = h2}

AdmissionSymmetry ==
  Permutations(Procs) \cup Permutations(Requests) \cup Permutations(Keys)

=============================================================================

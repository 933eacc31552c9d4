------------------------------ MODULE MCServer ------------------------------
(***************************************************************************)
(* The instance of Server for TLC: the artifact that clients ask for goes  *)
(* through every kind of damage, one file at a time; the other one is      *)
(* absent or cannot be decoded.                                            *)
(***************************************************************************)
EXTENDS Server, TLC

CONSTANTS c1, c2, h1, h2

MCWithin ==
  (h1 :> { f \in Condition :
             f.kew \in {"absent", "good"} \/ f.log \in {"empty", "good"} })
  @@ (h2 :> { f \in Condition : f.kew \in {"absent", "torn"} /\ f.log = "empty" })

=============================================================================

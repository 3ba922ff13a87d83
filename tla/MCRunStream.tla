----------------------------- MODULE MCRunStream -----------------------------
(* Instances of RunStream for TLC: two organizations, a page of one record. *)
EXTENDS RunStream

\* The runs alternate between the organizations.
Alternating == [r \in Runs |-> 1 + (r % 2)]
===============================================================================

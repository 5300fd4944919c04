----------------------------- MODULE MCProvider -----------------------------
(***************************************************************************)
(* Provider on two replicas.  v1 and v2 carry the same Helm values, so that *)
(* a move between them changes the chart alone; v3 has values of its own    *)
(* and a chart nobody can fetch.                                            *)
(***************************************************************************)
EXTENDS Provider

MCValuesOf == [v \in Version |-> IF v = "v3" THEN "other" ELSE "plain"]
=============================================================================

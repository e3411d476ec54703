------------------------------ MODULE MCCluster ------------------------------
(***************************************************************************)
(* Values for the constants of module Cluster.                             *)
(***************************************************************************)
EXTENDS Cluster

\* Two long names, and the name their first 29 characters are.
MCStored == [k \in Keys |-> IF k \in {"long", "tail"} THEN "a" ELSE k]
=============================================================================

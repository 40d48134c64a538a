----------------------------- MODULE MCAdministration -----------------------------
(***************************************************************************)
(* Constants for model checking Administration: two tabs and three sites,  *)
(* one without a route enhancer and one the backend's URL does not lead to. *)
(***************************************************************************)
EXTENDS Administration

CONSTANTS s1, s2, s3

MCSites    == {s1, s2, s3}
MCEnhanced == {s1, s2}
MCMatching == {s1, s3}
================================================================================

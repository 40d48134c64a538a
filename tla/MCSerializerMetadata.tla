-------------------------- MODULE MCSerializerMetadata --------------------------
(***************************************************************************)
(* Constants for model checking SerializerMetadata: two entities with a    *)
(* common ancestor.                                                        *)
(***************************************************************************)
EXTENDS SerializerMetadata, TLC

CONSTANTS p1, p2                \* PHP processes
CONSTANTS base, news, tag       \* AbstractEntity and two of its subclasses

MCAncestry == (base :> <<base>>) @@ (news :> <<news, base>>) @@ (tag :> <<tag, base>>)

Symmetric == Permutations(Processes) \cup Permutations(Types)
================================================================================

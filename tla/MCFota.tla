------------------------------- MODULE MCFota -------------------------------
(* Small instances of Fota: a header of three units, one of them not hashed. *)
EXTENDS Fota

V1toV2 == [magic |-> TRUE, genuine |-> TRUE, old |-> "v1", new |-> "v2", base |-> 2, len |-> 5]
Other == [magic |-> FALSE, genuine |-> FALSE, old |-> "v2", new |-> "v1", base |-> 0, len |-> 4]

SomePackages == {V1toV2, Other}
=============================================================================

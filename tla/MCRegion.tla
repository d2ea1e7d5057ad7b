------------------------------ MODULE MCRegion ------------------------------
(* Region on a small heap, in words: two nested regions of three modes.    *)
EXTENDS Region

MCModes == {[kind |-> "nofree", elastic |-> FALSE, fixed |-> FALSE],
            [kind |-> "pool", elastic |-> TRUE, fixed |-> FALSE],
            [kind |-> "nofree", elastic |-> FALSE, fixed |-> TRUE]}
=============================================================================

------------------------------- MODULE MCAmtl -------------------------------
(***************************************************************************)
(* A small instance of Amtl: outputs with each mode of mts, two of them    *)
(* with the same xsio, and an expert configuration.                        *)
(***************************************************************************)
EXTENDS Amtl

MCCatalog ==
  [i \in 0 .. 2 |-> CASE i = 0 -> [xsio |-> "1", mts |-> "persistent"]
                      [] i = 1 -> [xsio |-> "1", mts |-> ""]
                      [] i = 2 -> [xsio |-> "2", mts |-> "oneshot"]]

MCFound == [xsio |-> "2", trace |-> "1"]

MCExperts == {[index |-> -1, xsio |-> "2", trace |-> "1", mts |-> "persistent"]}
=============================================================================

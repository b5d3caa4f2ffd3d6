------------------------------ MODULE MCCoping ------------------------------
(* Two mechanisms, one with every hook and one with only two of them.      *)
EXTENDS Coping

MCMechs == {"existential", "quiet"}
MCHooks == [m \in MCMechs |->
              IF m = "existential" THEN {"load", "pre", "transform", "post"}
                                   ELSE {"pre", "post"}]
=============================================================================

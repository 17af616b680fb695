---------------------------- MODULE MCGatewayctl ----------------------------
(* Gatewayctl with its three files; the operators are interchangeable. *)
EXTENDS Gatewayctl, TLC

MCFiles == <<Cds, Lds, Runtime>>
Interchangeable == Permutations(Operator)
=============================================================================

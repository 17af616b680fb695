----------------------------- MODULE MCGateway -----------------------------
(* Gateway with configurations of one backend or none.                     *)
EXTENDS Gateway

CONSTANT a

MCFiles == <<CDS, LDS>>
MCSeed == {}
MCContent == {{}, {a}}
=============================================================================

----------------------------- MODULE MCFetcher -----------------------------
(* Fetcher polling two files: what happens to one while the other fails.   *)
EXTENDS Fetcher

CONSTANTS cds, lds

MCFiles == <<cds, lds>>
=============================================================================

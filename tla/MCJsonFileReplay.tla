-------------------------- MODULE MCJsonFileReplay --------------------------
(* One contract ID and times 0..2 let a lease expire, be purged and be     *)
(* granted again; one failed write and any number of crashes.              *)
EXTENDS JsonFileReplay

CONSTANTS a, s1, s2, c1, x1, k1
=============================================================================

-------------------------- MODULE MCDirectorySwap ---------------------------
(* Six attempts: more than the four it takes to publish, to be cut short,  *)
(* to clean up after that and fail, and to meet what is left.              *)
EXTENDS DirectorySwap

AllFaults == {"raised", "interrupted", "killed"}
AllVariants == {"registration", "bundle", "report"}
=============================================================================

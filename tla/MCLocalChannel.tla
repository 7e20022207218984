--------------------------- MODULE MCLocalChannel ---------------------------
(* One probe; the module has no other parameter than its timeouts.         *)
EXTENDS LocalChannel

AllTimeouts == {"poll", "accept", "recv", "get", "join"}
=============================================================================

------------------------------ MODULE NativeTls ------------------------------
(***************************************************************************)
(* One handshake of the native TLS program, and the checks on its output   *)
(* that NativeRunner and tls_groups.py make.  A name is what OpenSSL calls *)
(* a group at one end of the handshake: the group, and whether it is       *)
(* spelt as registered, in lower case, or in some other case.  The program *)
(* ignores case, and the Python side knows two spellings of each group.    *)
(***************************************************************************)
CONSTANTS
    Groups, Unregistered,
    Handshakes   \* what OpenSSL may do when asked for a handshake

Names == [group : Groups \cup {Unregistered}, spelt : {"canonical", "lower", "other"}]
Registered(g) == [group |-> g, spelt |-> "canonical"]

(* Finished at both ends or not, the group at each end, and whether        *)
(* version, cipher suite, certificate, freshness and byte counts are as    *)
(* they should be.                                                         *)
ASSUME HandshakeAssumption ==
    Handshakes \subseteq [finished : BOOLEAN, client : Names, server : Names, sound : BOOLEAN]

CaseEqual(a, b) == a.group = b.group

(* validate_tls_result                                                     *)
ValidResult(requested, h) ==
    /\ h.finished
    /\ CaseEqual(h.client, requested)
    /\ CaseEqual(h.client, h.server)
    /\ h.sound

(* run_handshake and write_record.  The requested group is written as it   *)
(* was given on the command line.                                          *)
Record(requested, h) ==
    [requested |-> requested, negotiated |-> h.client, server |-> h.server,
     sound |-> h.sound, success |-> ValidResult(requested, h)]

(* canonical_tls_group raises on every other spelling.                     *)
Known(name) == name.group \in Groups /\ name.spelt \in {"canonical", "lower"}

(* require_matching_tls_groups                                             *)
MatchingGroups(requested, negotiated, server) ==
    /\ Known(requested) /\ Known(negotiated) /\ Known(server)
    /\ requested.group = negotiated.group
    /\ negotiated.group = server.group

(* validate_tls_records, for the one record there is.                      *)
ValidTlsRecord(rec) ==
    /\ MatchingGroups(rec.requested, rec.negotiated, rec.server)
    /\ rec.sound /\ rec.success

(* NativeRunner.run: in time, with exit code 0 and a valid record.         *)
NativeRunReturns(requested, h, inTime) ==
    LET rec == Record(requested, h) IN
    inTime /\ rec.success /\ ValidTlsRecord(rec)
=============================================================================

--------------------------- MODULE ReplayRegistry ---------------------------
(***************************************************************************)
(* The replay registry of protocol/replay.py as operators on its state.    *)
(*                                                                         *)
(* A registry state is a record with the four attributes of                *)
(* InMemoryReplayRegistry:                                                  *)
(*   sessions     the set of session IDs ever registered                   *)
(*   commitments  commitment hash -> the session that owns it              *)
(*   transcripts  the set of transcript hashes ever registered             *)
(*   contracts    contract ID -> the lease it was registered with          *)
(* dicts are functions whose domain is the set of keys present.            *)
(*                                                                         *)
(* Every operation returns [reg, ok]: the state it leaves and whether it   *)
(* returned (TRUE) or raised (FALSE).  An operation that raises because of *)
(* a replay has already purged expired contracts, so "reg" may differ from *)
(* the argument even then.                                                 *)
(***************************************************************************)
EXTENDS Naturals, Functions

EmptyRegistry ==
    [sessions    |-> {},
     commitments |-> [c \in {} |-> c],
     transcripts |-> {},
     contracts   |-> [c \in {} |-> c]]

Returns(r) == [reg |-> r, ok |-> TRUE]
Raises(r)  == [reg |-> r, ok |-> FALSE]

(* The dicts with keys in K and values in V. *)
Dicts(K, V) == UNION {[D -> V] : D \in SUBSET K}

(* dict[k] = v *)
Put(f, k, v) == [x \in DOMAIN f \cup {k} |-> IF x = k THEN v ELSE f[x]]

(* issued_at <= t < expires_at, the activity rule of protocol/time.py.  An *)
(* empty interval (expires_at <= issued_at) contains no t, so the separate *)
(* INVALID_TIME_INTERVAL error needs no case of its own.                   *)
ActiveAt(lease, t) == lease.issued <= t /\ t < lease.expires

(* Mutant: the purge drops a lease one tick early (>= for > on t + 1).     *)
CleanupTooEarly(r, t) ==
    [r EXCEPT !.contracts =
        Restrict(@, {c \in DOMAIN @ : @[c].expires > t + 1})]

(* _cleanup_expired_contracts: keep the entries with expires_at > t.       *)
Cleanup(r, t) ==
    [r EXCEPT !.contracts =
        Restrict(@, {c \in DOMAIN @ : @[c].expires > t})]

RegisterSession(r, s, t) ==
    LET p == Cleanup(r, t) IN
    IF s \in p.sessions
    THEN Raises(p)
    ELSE Returns([p EXCEPT !.sessions = @ \cup {s}])

(* Mutant: only the owner's own repetition is rejected.                    *)
RegisterCommitmentOwnerOnly(r, s, c, t) ==
    LET p == Cleanup(r, t) IN
    IF c \in DOMAIN p.commitments /\ p.commitments[c] = s
    THEN Raises(p)
    ELSE Returns([p EXCEPT !.commitments = Put(@, c, s)])

(* A commitment already owned raises, whether the owner is another session *)
(* ("replayed commitment") or the same one ("duplicate commitment").       *)
RegisterCommitment(r, s, c, t) ==
    LET p == Cleanup(r, t) IN
    IF c \in DOMAIN p.commitments
    THEN Raises(p)
    ELSE Returns([p EXCEPT !.commitments = Put(@, c, s)])

(* Mutant: the hash is filed with the session IDs.                         *)
RegisterTranscriptAsSession(r, h, t) ==
    LET p == Cleanup(r, t) IN
    IF h \in p.transcripts
    THEN Raises(p)
    ELSE Returns([p EXCEPT !.sessions = @ \cup {h}])

RegisterTranscript(r, h, t) ==
    LET p == Cleanup(r, t) IN
    IF h \in p.transcripts
    THEN Raises(p)
    ELSE Returns([p EXCEPT !.transcripts = @ \cup {h}])

(* Mutant: no look-up of the contract already registered.                  *)
RegisterContractUnchecked(r, id, lease, t) ==
    IF ~ActiveAt(lease, t)
    THEN Raises(r)
    ELSE Returns([Cleanup(r, t) EXCEPT !.contracts = Put(@, id, lease)])

(* register_contract: the activity check raises before the purge, so it    *)
(* leaves the state alone; the purge uses the activation time.             *)
RegisterContract(r, id, lease, t) ==
    LET p == Cleanup(r, t) IN
    IF ~ActiveAt(lease, t)
    THEN Raises(r)
    ELSE IF id \in DOMAIN p.contracts /\ p.contracts[id].expires > t
         THEN Raises(p)
         ELSE Returns([p EXCEPT !.contracts = Put(@, id, lease)])
=============================================================================

------------------------ MODULE InMemoryReplayProofs ------------------------
(***************************************************************************)
(* What InMemoryReplay guarantees for every set of keys, every bound and   *)
(* every order of the times its callers supply.                            *)
(*                                                                         *)
(* NoEarlyReplay is not inductive: that the second registration of an ID   *)
(* comes after the first lease depends on the table still holding that     *)
(* lease (LiveLeaseOnRecord), and that in turn on no operation having      *)
(* worked with a time beyond highRef (HighIsHistory).                      *)
(***************************************************************************)
EXTENDS InMemoryReplay, SequenceTheorems, TLAPS

(* Every registration happened no later than the latest time seen then,    *)
(* which is no later than the latest time seen now.                        *)
HighIsHistory ==
    \A i \in 1..Len(grants) :
        grants[i].at <= grants[i].high /\ grants[i].high <= highRef

IndInv == TypeOK /\ HighIsHistory /\ LiveLeaseOnRecord /\ NoEarlyReplay

-----------------------------------------------------------------------------

(* The purge keeps the type of the registry and touches the contract table *)
(* only: what is left is a part of what was there, every entry with        *)
(* expires > t is still there, and no other is.                            *)
LEMMA CleanupFacts ==
    ASSUME NEW r \in RegistryType, NEW t \in Times
    PROVE  LET p == Cleanup(r, t) IN
           /\ p \in RegistryType
           /\ p.sessions = r.sessions
           /\ p.commitments = r.commitments
           /\ p.transcripts = r.transcripts
           /\ DOMAIN p.contracts \subseteq DOMAIN r.contracts
           /\ \A k \in DOMAIN r.contracts :
                k \in DOMAIN p.contracts <=> r.contracts[k].expires > t
           /\ \A k \in DOMAIN p.contracts : p.contracts[k] = r.contracts[k]
  <1> DEFINE f == r.contracts
             D == {c \in DOMAIN f : f[c].expires > t}
             g == Restrict(f, D)
  <1>1. PICK E \in SUBSET ContractIds : f \in [E -> Leases]
    BY DEF RegistryType, Dicts
  <1>2. D \in SUBSET ContractIds /\ g \in [D -> Leases]
    BY <1>1 DEF Restrict
  <1>3. g \in Dicts(ContractIds, Leases)
    BY <1>2 DEF Dicts
  <1>4. Cleanup(r, t) = [r EXCEPT !.contracts = g]
    BY DEF Cleanup
  <1>5. \A k \in D : g[k] = f[k]
    BY DEF Restrict
  <1> QED
    BY <1>1, <1>2, <1>3, <1>4, <1>5 DEF RegistryType

(* register_session changes the set of session IDs only, besides the purge *)
(* ("p" is the registry after it), and never takes one out.                *)
LEMMA SessionFacts ==
    ASSUME NEW r \in RegistryType, NEW t \in Times, NEW s \in SessionIds
    PROVE  LET q == RegisterSession(r, s, t).reg
               p == Cleanup(r, t) IN
           /\ q \in RegistryType
           /\ r.sessions \subseteq q.sessions
           /\ q.commitments = r.commitments
           /\ q.transcripts = r.transcripts
           /\ q.contracts = p.contracts
  BY CleanupFacts DEF RegisterSession, Returns, Raises, RegistryType

(* register_commitment changes the table of commitments only, and no entry *)
(* that is there already.                                                  *)
LEMMA CommitmentFacts ==
    ASSUME NEW r \in RegistryType, NEW t \in Times,
           NEW s \in SessionIds, NEW c \in Commitments
    PROVE  LET q == RegisterCommitment(r, s, c, t).reg
               p == Cleanup(r, t) IN
           /\ q \in RegistryType
           /\ q.sessions = r.sessions
           /\ q.transcripts = r.transcripts
           /\ \A x \in DOMAIN r.commitments :
                  /\ x \in DOMAIN q.commitments
                  /\ q.commitments[x] = r.commitments[x]
           /\ q.contracts = p.contracts
  <1> DEFINE p == Cleanup(r, t)
  <1>1. p \in RegistryType /\ p.sessions = r.sessions
        /\ p.commitments = r.commitments /\ p.transcripts = r.transcripts
    BY CleanupFacts
  <1>2. CASE c \in DOMAIN p.commitments
    BY <1>1, <1>2 DEF RegisterCommitment, Raises
  <1>3. CASE c \notin DOMAIN p.commitments
    <2> DEFINE f == p.commitments
               m == Put(f, c, s)
    <2>1. p.commitments \in Dicts(Commitments, SessionIds)
      BY <1>1 DEF RegistryType
    <2>2. /\ m \in Dicts(Commitments, SessionIds)
          /\ DOMAIN m = DOMAIN p.commitments \cup {c}
          /\ \A x \in DOMAIN p.commitments : x # c => m[x] = p.commitments[x]
      <3>1. PICK D \in SUBSET Commitments : f \in [D -> SessionIds]
        BY <2>1 DEF Dicts
      <3> HIDE DEF f
      <3>2. m = [x \in D \cup {c} |-> IF x = c THEN s ELSE f[x]]
        BY <3>1 DEF Put
      <3> QED BY <3>1, <3>2 DEF f, Dicts
    <2>3. RegisterCommitment(r, s, c, t).reg = [p EXCEPT !.commitments = m]
      BY <1>3 DEF RegisterCommitment, Returns
    <2> HIDE DEF m, p
    <2>4. [p EXCEPT !.commitments = m] \in RegistryType
      BY <1>1, <2>2 DEF RegistryType
    <2> QED
      BY <1>1, <1>3, <2>2, <2>3, <2>4 DEF RegistryType, p
  <1> QED
    BY <1>2, <1>3

(* register_contract returns only inside the lease and when the ID has no  *)
(* lease on record that is live at t, and then records the new one; when   *)
(* it raises it has purged at most.                                        *)
LEMMA ContractFacts ==
    ASSUME NEW r \in RegistryType, NEW t \in Times,
           NEW id \in ContractIds, NEW lease \in Leases
    PROVE  LET res == RegisterContract(r, id, lease, t)
               q   == res.reg
               p   == Cleanup(r, t) IN
           /\ q \in RegistryType
           /\ q.sessions = r.sessions
           /\ q.transcripts = r.transcripts
           /\ q.commitments = r.commitments
           /\ res.ok \in BOOLEAN
           /\ ~ActiveAt(lease, t) => ~res.ok /\ q = r
           /\ ActiveAt(lease, t) /\ ~res.ok => q = p
           /\ res.ok => /\ ActiveAt(lease, t)
                        /\ id \notin DOMAIN p.contracts
                        /\ DOMAIN q.contracts = DOMAIN p.contracts \cup {id}
                        /\ q.contracts[id] = lease
                        /\ \A k \in DOMAIN p.contracts :
                               q.contracts[k] = p.contracts[k]
  <1> DEFINE p == Cleanup(r, t)
             f == p.contracts
             m == Put(f, id, lease)
  <1>1. /\ p \in RegistryType
        /\ p.sessions = r.sessions
        /\ p.commitments = r.commitments
        /\ p.transcripts = r.transcripts
        /\ \A k \in DOMAIN p.contracts : p.contracts[k].expires > t
    BY CleanupFacts
  <1>2. CASE ~ActiveAt(lease, t)
    BY <1>1, <1>2 DEF RegisterContract, Raises
  <1>3. CASE ActiveAt(lease, t) /\ id \in DOMAIN p.contracts
    BY <1>1, <1>3 DEF RegisterContract, Raises
  <1>4. CASE ActiveAt(lease, t) /\ id \notin DOMAIN p.contracts
    <2>1. p.contracts \in Dicts(ContractIds, Leases)
      BY <1>1 DEF RegistryType
    <2>2. /\ m \in Dicts(ContractIds, Leases)
          /\ DOMAIN m = DOMAIN p.contracts \cup {id}
          /\ m[id] = lease
          /\ \A x \in DOMAIN p.contracts : x # id => m[x] = p.contracts[x]
      <3>1. PICK D \in SUBSET ContractIds : f \in [D -> Leases]
        BY <2>1 DEF Dicts
      <3> HIDE DEF f
      <3>2. m = [x \in D \cup {id} |-> IF x = id THEN lease ELSE f[x]]
        BY <3>1 DEF Put
      <3> QED BY <3>1, <3>2 DEF f, Dicts
    <2>3. RegisterContract(r, id, lease, t)
              = [reg |-> [p EXCEPT !.contracts = m], ok |-> TRUE]
      BY <1>4 DEF RegisterContract, Returns
    <2> HIDE DEF m, p
    <2>4. [p EXCEPT !.contracts = m] \in RegistryType
      BY <1>1, <2>2 DEF RegistryType
    <2> QED
      BY <1>1, <1>4, <2>2, <2>3, <2>4 DEF RegistryType, p
  <1> QED
    BY <1>2, <1>3, <1>4

(* register_transcript changes the set of transcript hashes only, and      *)
(* never takes one out.                                                    *)
LEMMA TranscriptFacts ==
    ASSUME NEW r \in RegistryType, NEW t \in Times, NEW h \in TranscriptHashes
    PROVE  LET q == RegisterTranscript(r, h, t).reg
               p == Cleanup(r, t) IN
           /\ q \in RegistryType
           /\ q.sessions = r.sessions
           /\ r.transcripts \subseteq q.transcripts
           /\ q.commitments = r.commitments
           /\ q.contracts = p.contracts
  BY CleanupFacts DEF RegisterTranscript, Returns, Raises, RegistryType

-----------------------------------------------------------------------------

(* A new registry satisfies the invariant. *)
LEMMA InitInd == Init => IndInv
  <1> SUFFICES ASSUME Init PROVE IndInv
    OBVIOUS
  <1>1. reg \in RegistryType
    <2>1. [c \in {} |-> c] \in Dicts(Commitments, SessionIds)
      BY DEF Dicts
    <2>2. [c \in {} |-> c] \in Dicts(ContractIds, Leases)
      BY DEF Dicts
    <2> QED
      BY <2>1, <2>2 DEF Init, EmptyRegistry, RegistryType
  <1>2. highRef \in Times
    BY BoundsAssumption DEF Init, Times
  <1>3. grants = <<>> /\ grants \in Seq(Grants) /\ Len(grants) = 0
    BY DEF Init
  <1> QED
    BY <1>1, <1>2, <1>3
       DEF IndInv, TypeOK, HighIsHistory, LiveLeaseOnRecord, NoEarlyReplay

(* An operation that only purges at t keeps the invariant: what it drops   *)
(* has expired at t, and t is counted in the new highRef.                  *)
LEMMA PurgeKeepsInd ==
    ASSUME IndInv, NEW t \in Times,
           reg' \in RegistryType,
           reg'.contracts = Cleanup(reg, t).contracts,
           highRef' = Later(t), UNCHANGED grants
    PROVE  IndInv'
  <1>1. highRef' \in Times /\ highRef <= highRef' /\ t <= highRef'
    BY BoundsAssumption DEF IndInv, TypeOK, Later, Times
  <1>2. TypeOK'
    BY <1>1 DEF IndInv, TypeOK
  <1>3. \A i \in 1..Len(grants) : grants[i] \in Grants
    BY DEF IndInv, TypeOK
  <1>4. HighIsHistory'
    BY <1>1, <1>3, BoundsAssumption
       DEF IndInv, TypeOK, HighIsHistory, Times, Grants
  <1>5. LiveLeaseOnRecord'
    <2> SUFFICES ASSUME NEW i \in 1..Len(grants)
                 PROVE  /\ ActiveAt(grants[i].lease, grants[i].at)
                        /\ grants[i].lease.expires > highRef'
                            => /\ grants[i].id \in DOMAIN reg'.contracts
                               /\ reg'.contracts[grants[i].id]
                                     = grants[i].lease
      BY DEF LiveLeaseOnRecord, ActiveAt
    <2>1. grants[i] \in Grants
      BY <1>3
    <2>2. grants[i].lease.expires \in Int /\ t \in Int
          /\ highRef \in Int /\ highRef' \in Int
      BY <1>1, <2>1, SMTT(30) DEF IndInv, TypeOK, Grants, Leases, Times
    <2>3. CASE grants[i].lease.expires > highRef'
      <3>1. grants[i].lease.expires > highRef /\ grants[i].lease.expires > t
        BY <1>1, <2>2, <2>3
      <3>2. /\ grants[i].id \in DOMAIN reg.contracts
            /\ reg.contracts[grants[i].id] = grants[i].lease
        BY <3>1 DEF IndInv, LiveLeaseOnRecord
      <3>3. /\ grants[i].id \in DOMAIN Cleanup(reg, t).contracts
            /\ Cleanup(reg, t).contracts[grants[i].id] = grants[i].lease
        BY <3>1, <3>2, CleanupFacts DEF IndInv, TypeOK
      <3> QED
        BY <3>3 DEF IndInv, LiveLeaseOnRecord
    <2> QED
      BY <2>3 DEF IndInv, LiveLeaseOnRecord
  <1>6. NoEarlyReplay'
    BY DEF IndInv, NoEarlyReplay
  <1> QED
    BY <1>2, <1>4, <1>5, <1>6 DEF IndInv

(* A registration that goes through at t appends a grant inside its own    *)
(* lease.  An earlier grant of the same ID has expired by Later(t), or its *)
(* lease would still be on record and the registration would have raised.  *)
LEMMA GrantKeepsInd ==
    ASSUME IndInv, NEW id \in ContractIds, NEW lease \in Leases,
           NEW t \in Times, CallContract(id, lease, t),
           RegisterContract(reg, id, lease, t).ok
    PROVE  IndInv'
  <1> DEFINE p == Cleanup(reg, t)
             g == [id |-> id, lease |-> lease, at |-> t, high |-> Later(t)]
             n == Len(grants)
  <1>1. /\ reg' \in RegistryType
        /\ ActiveAt(lease, t)
        /\ id \notin DOMAIN p.contracts
        /\ DOMAIN reg'.contracts = DOMAIN p.contracts \cup {id}
        /\ reg'.contracts[id] = lease
        /\ \A k \in DOMAIN p.contracts : reg'.contracts[k] = p.contracts[k]
    BY ContractFacts DEF CallContract, IndInv, TypeOK
  <1>2. highRef' = Later(t) /\ grants' = Append(grants, g)
    BY <1>1 DEF CallContract
  <1>3. /\ highRef' \in Times /\ highRef <= highRef' /\ t <= highRef'
        /\ highRef \in Int /\ t \in Int /\ highRef' \in Int
    BY <1>2, BoundsAssumption DEF IndInv, TypeOK, Later, Times
  <1>4. g \in Grants
    BY <1>2, <1>3 DEF Grants
  <1>5. /\ n \in Nat
        /\ grants' \in Seq(Grants)
        /\ Len(grants') = n + 1
        /\ grants'[n + 1] = g
        /\ \A i \in 1..n : grants'[i] = grants[i] /\ grants[i] \in Grants
    BY <1>2, <1>4 DEF IndInv, TypeOK
  <1> HIDE DEF g
  <1>6. TypeOK'
    BY <1>1, <1>3, <1>5 DEF TypeOK
  <1>7. \A i \in 1..n : /\ grants[i].lease.expires \in Int
                        /\ grants[i].at \in Int /\ grants[i].high \in Int
    <2>1. \A x \in Times : x \in Int
      BY BoundsAssumption DEF Times
    <2>2. \A x \in Grants : /\ x.lease.expires \in Times
                            /\ x.at \in Times /\ x.high \in Times
      BY DEF Grants, Leases
    <2> QED
      BY <1>5, <2>1, <2>2
  <1>8. HighIsHistory'
    <2>1. g.at <= g.high /\ g.high <= highRef'
      BY <1>2, <1>3 DEF g
    <2>2. \A i \in 1..n : grants[i].at <= grants[i].high
                          /\ grants[i].high <= highRef'
      BY <1>3, <1>7 DEF IndInv, HighIsHistory
    <2> QED
      BY <1>5, <2>1, <2>2 DEF HighIsHistory
  (* A lease of an earlier grant that outlives highRef' is in p. *)
  <1>9. ASSUME NEW i \in 1..n, grants[i].lease.expires > highRef'
        PROVE  /\ grants[i].id \in DOMAIN p.contracts
               /\ p.contracts[grants[i].id] = grants[i].lease
    <2>1. grants[i].lease.expires > highRef /\ grants[i].lease.expires > t
      BY <1>3, <1>7, <1>9
    <2>2. /\ grants[i].id \in DOMAIN reg.contracts
          /\ reg.contracts[grants[i].id] = grants[i].lease
      BY <2>1 DEF IndInv, LiveLeaseOnRecord
    <2> QED
      BY <2>1, <2>2, CleanupFacts DEF IndInv, TypeOK
  <1>10. LiveLeaseOnRecord'
    <2>1. \A i \in 1..n : ActiveAt(grants[i].lease, grants[i].at)
      BY DEF IndInv, LiveLeaseOnRecord
    <2>2. ActiveAt(g.lease, g.at) /\ g.id \in DOMAIN reg'.contracts
          /\ reg'.contracts[g.id] = g.lease
      BY <1>1 DEF g
    <2>3. \A i \in 1..n :
             grants[i].lease.expires > highRef'
               => /\ grants[i].id \in DOMAIN reg'.contracts
                  /\ reg'.contracts[grants[i].id] = grants[i].lease
      BY <1>1, <1>9
    <2> SUFFICES ASSUME NEW i \in 1..n + 1
                 PROVE  /\ ActiveAt(grants'[i].lease, grants'[i].at)
                        /\ grants'[i].lease.expires > highRef'
                            => /\ grants'[i].id \in DOMAIN reg'.contracts
                               /\ reg'.contracts[grants'[i].id]
                                     = grants'[i].lease
      BY <1>5 DEF LiveLeaseOnRecord, ActiveAt
    <2>4. CASE i = n + 1
      BY <1>5, <2>2, <2>4
    <2>5. CASE i \in 1..n
      BY <1>5, <2>1, <2>3, <2>5
    <2> QED
      BY <1>5, <2>4, <2>5
  <1>11. NoEarlyReplay'
    <2> SUFFICES ASSUME NEW i \in 1..n + 1, NEW j \in 1..n + 1,
                        i < j, grants'[i].id = grants'[j].id
                 PROVE  grants'[i].lease.expires <= grants'[j].high
      BY <1>5 DEF NoEarlyReplay
    <2>1. i \in 1..n /\ grants'[i] = grants[i]
      BY <1>5
    <2>2. CASE j \in 1..n
      BY <1>5, <2>1, <2>2 DEF IndInv, NoEarlyReplay
    <2>3. CASE j = n + 1
      <3>1. grants'[j].id = id /\ grants'[j].high = highRef'
        BY <1>2, <1>5, <2>3 DEF g
      <3>2. ~(grants[i].lease.expires > highRef')
        BY <1>1, <1>9, <2>1, <3>1
      <3> QED
        BY <1>3, <1>7, <2>1, <3>1, <3>2
    <2> QED
      BY <1>5, <2>2, <2>3
  <1> QED
    BY <1>6, <1>8, <1>10, <1>11 DEF IndInv

(* Every call keeps it. *)
LEMMA NextInd == IndInv /\ [Next]_vars => IndInv'
  <1> SUFFICES ASSUME IndInv, [Next]_vars PROVE IndInv'
    OBVIOUS
  <1> USE DEF IndInv
  <1>1. ASSUME NEW t \in Times, NEW s \in SessionIds, CallSession(s, t)
        PROVE  IndInv'
    BY <1>1, SessionFacts, PurgeKeepsInd DEF CallSession, TypeOK
  <1>2. ASSUME NEW t \in Times, NEW s \in SessionIds, NEW c \in Commitments,
               CallCommitment(s, c, t)
        PROVE  IndInv'
    BY <1>2, CommitmentFacts, PurgeKeepsInd DEF CallCommitment, TypeOK
  <1>3. ASSUME NEW t \in Times, NEW h \in TranscriptHashes,
               CallTranscript(h, t)
        PROVE  IndInv'
    BY <1>3, TranscriptFacts, PurgeKeepsInd DEF CallTranscript, TypeOK
  <1>4. ASSUME NEW t \in Times, NEW id \in ContractIds, NEW lease \in Leases,
               CallContract(id, lease, t)
        PROVE  IndInv'
    <2>1. CASE RegisterContract(reg, id, lease, t).ok
      BY <1>4, <2>1, GrantKeepsInd
    <2>2. CASE ~RegisterContract(reg, id, lease, t).ok /\ ActiveAt(lease, t)
      <3>1. /\ reg' = Cleanup(reg, t) /\ reg' \in RegistryType
            /\ highRef' = Later(t) /\ UNCHANGED grants
        BY <1>4, <2>2, ContractFacts, CleanupFacts DEF CallContract, TypeOK
      <3> QED
        BY <3>1, PurgeKeepsInd
    <2>3. CASE ~ActiveAt(lease, t)
      <3>1. UNCHANGED vars
        BY <1>4, <2>3, ContractFacts DEF CallContract, TypeOK, vars
      <3> QED
        BY <3>1 DEF vars, TypeOK, HighIsHistory, LiveLeaseOnRecord,
                    NoEarlyReplay
    <2> QED
      BY <2>1, <2>2, <2>3
  <1>5. CASE UNCHANGED vars
    BY <1>5 DEF vars, TypeOK, HighIsHistory, LiveLeaseOnRecord, NoEarlyReplay
  <1> QED
    BY <1>1, <1>2, <1>3, <1>4, <1>5 DEF Next

(* The invariant holds in every behaviour of the registry. *)
THEOREM IndInvariant == Spec => []IndInv
  BY InitInd, NextInd, PTL DEF Spec

(* The four tables of protocol/replay.py keep their types.                 *)
THEOREM TypeCorrect == Spec => []TypeOK
  <1>1. IndInv => TypeOK
    BY DEF IndInv
  <1> QED
    BY <1>1, IndInvariant, PTL

(* register_contract accepts an ID a second time only after some operation *)
(* worked with a time at or past the end of the earlier lease.             *)
THEOREM ContractReplaySafety == Spec => []NoEarlyReplay
  <1>1. IndInv => NoEarlyReplay
    BY DEF IndInv
  <1> QED
    BY <1>1, IndInvariant, PTL

(* No purge of one caller drops a lease that is live at every time         *)
(* supplied so far.                                                        *)
THEOREM LiveLeaseSafety == Spec => []LiveLeaseOnRecord
  <1>1. IndInv => LiveLeaseOnRecord
    BY DEF IndInv
  <1> QED
    BY <1>1, IndInvariant, PTL

(* No operation of protocol/replay.py forgets a session, a transcript hash *)
(* or the owner of a commitment, purge or not, return or raise.            *)
THEOREM PermanentMemory == Spec => ReplayMemoryIsPermanent
  <1> DEFINE Kept == /\ reg.sessions \subseteq reg'.sessions
                     /\ reg.transcripts \subseteq reg'.transcripts
                     /\ \A c \in DOMAIN reg.commitments :
                            /\ c \in DOMAIN reg'.commitments
                            /\ reg'.commitments[c] = reg.commitments[c]
  <1>1. TypeOK /\ [Next]_vars => [Kept]_vars
    <2> SUFFICES ASSUME reg \in RegistryType, Next PROVE Kept
      BY DEF TypeOK
    <2>1. ASSUME NEW t \in Times, NEW s \in SessionIds, CallSession(s, t)
          PROVE  Kept
      BY <2>1, SessionFacts DEF CallSession
    <2>2. ASSUME NEW t \in Times, NEW s \in SessionIds,
                 NEW c \in Commitments, CallCommitment(s, c, t)
          PROVE  Kept
      BY <2>2, CommitmentFacts DEF CallCommitment
    <2>3. ASSUME NEW t \in Times, NEW h \in TranscriptHashes,
                 CallTranscript(h, t)
          PROVE  Kept
      BY <2>3, TranscriptFacts DEF CallTranscript
    <2>4. ASSUME NEW t \in Times, NEW id \in ContractIds,
                 NEW lease \in Leases, CallContract(id, lease, t)
          PROVE  Kept
      BY <2>4, ContractFacts DEF CallContract
    <2> QED
      BY <2>1, <2>2, <2>3, <2>4 DEF Next
  <1> QED
    BY <1>1, TypeCorrect, PTL DEF Spec, ReplayMemoryIsPermanent
=============================================================================

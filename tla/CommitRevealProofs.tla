------------------------- MODULE CommitRevealProofs -------------------------
(***************************************************************************)
(* What CommitReveal guarantees for every set of sessions, agents, reveals *)
(* and times, and every order of the calls.                                *)
(*                                                                         *)
(* CommitmentHeldOnce is not inductive: a commitment a session accepts is  *)
(* new to all sessions only because the registry knows the ones they hold  *)
(* (Owned).  That a verified transcript and its session agree depends on   *)
(* what verify_transcript computed again (SelfConsistent) and on what was  *)
(* checked when the session accepted its reveals (Opened, PairChecked).    *)
(* That a decision is final depends on the registry, which turns a second  *)
(* object of the same ID away (Registered).                                *)
(***************************************************************************)
EXTENDS CommitReveal, TLAPS

(* The registry is a record with its four tables.                          *)
IsRegistry(r) ==
    r = [sessions |-> r.sessions, commitments |-> r.commitments,
         transcripts |-> r.transcripts, contracts |-> r.contracts]

(* The registry knows every commitment a session holds as that session's.  *)
Owned ==
    \A s \in SessionIds : \A p \in DOMAIN commitments[s] :
        /\ commitments[s][p] \in DOMAIN reg.commitments
        /\ reg.commitments[commitments[s][p]] = s

(* The registry knows the ID of every session that exists.                 *)
Registered == DOMAIN activation \subseteq reg.sessions

(* A session exists if it has a commitment.                                *)
Created == \A s \in SessionIds : DOMAIN commitments[s] # {} => s \in DOMAIN activation

(* An accepted reveal opens the commitment of its own session and role.    *)
Opened ==
    \A s \in SessionIds : \A p \in DOMAIN reveals[s] :
        /\ DOMAIN commitments[s] = Roles
        /\ reveals[s][p].session = s
        /\ reveals[s][p].role = p
        /\ commitments[s][p] = create_commitment(reveals[s][p])

(* The pair of a session is rejected exactly if it is complete and does    *)
(* not match.                                                              *)
PairChecked ==
    \A s \in SessionIds :
        s \in rejected <=>
            /\ DOMAIN reveals[s] = Roles
            /\ ~ValidPair(reveals[s]["initiator"], reveals[s]["responder"])

(* A verified transcript carries the commitments of its own reveals.       *)
SelfConsistent ==
    \A x \in verified :
        /\ x.initiator_commitment = create_commitment(x.initiator)
        /\ x.responder_commitment = create_commitment(x.responder)

IndInv ==
    /\ TypeOK /\ IsRegistry(reg)
    /\ Owned /\ Registered /\ Created /\ CommitmentHeldOnce
    /\ Opened /\ PairChecked /\ SelfConsistent

-----------------------------------------------------------------------------

(* The purge touches the contract table only.                              *)
LEMMA CleanupKeeps ==
    ASSUME NEW r, NEW t, IsRegistry(r)
    PROVE  LET p == Cleanup(r, t) IN
           /\ IsRegistry(p)
           /\ p.sessions = r.sessions
           /\ p.commitments = r.commitments
           /\ p.transcripts = r.transcripts
  <1> DEFINE new == Restrict(r.contracts,
                             {c \in DOMAIN r.contracts : r.contracts[c].expires > t})
             p == [sessions |-> r.sessions, commitments |-> r.commitments,
                   transcripts |-> r.transcripts, contracts |-> new]
  <1>1. Cleanup(r, t) = [r EXCEPT !.contracts = new]
    BY DEF Cleanup
  <1>2. [r EXCEPT !.contracts = new] = p
    <2> HIDE DEF new
    <2> QED BY DEF IsRegistry
  <1> HIDE DEF new
  <1> QED
    BY <1>1, <1>2 DEF IsRegistry

(* register_session changes nothing but the set of session IDs, and        *)
(* returns only for an ID that is not in it.                               *)
LEMMA SessionKeeps ==
    ASSUME NEW r, NEW s \in SessionIds, NEW t, IsRegistry(r),
           r.sessions \subseteq SessionIds
    PROVE  LET result == RegisterSession(r, s, t)
               q == result.reg IN
           /\ IsRegistry(q)
           /\ q.sessions \subseteq SessionIds
           /\ r.sessions \subseteq q.sessions
           /\ q.commitments = r.commitments
           /\ result.ok \in BOOLEAN
           /\ result.ok => s \notin r.sessions /\ s \in q.sessions
  <1> DEFINE p == Cleanup(r, t)
             q == [p EXCEPT !.sessions = @ \cup {s}]
  <1>1. IsRegistry(p) /\ p.sessions = r.sessions /\ p.commitments = r.commitments
    BY CleanupKeeps
  <1> HIDE DEF p
  <1>2. CASE s \in p.sessions
    <2>1. RegisterSession(r, s, t) = [reg |-> p, ok |-> FALSE]
      BY <1>2 DEF RegisterSession, Raises, p
    <2> QED BY <1>1, <2>1
  <1>3. CASE s \notin p.sessions
    <2>1. RegisterSession(r, s, t) = [reg |-> q, ok |-> TRUE]
      BY <1>3 DEF RegisterSession, Returns, p
    <2>2. /\ IsRegistry(q) /\ q.sessions = p.sessions \cup {s}
          /\ q.commitments = p.commitments
      BY <1>1 DEF IsRegistry
    <2> HIDE DEF q
    <2> QED BY <1>1, <1>3, <2>1, <2>2
  <1> QED BY <1>2, <1>3

(* register_transcript changes nothing but the set of transcript hashes.   *)
LEMMA TranscriptKeeps ==
    ASSUME NEW r, NEW h, NEW t, IsRegistry(r)
    PROVE  LET q == RegisterTranscript(r, h, t).reg IN
           /\ IsRegistry(q)
           /\ q.sessions = r.sessions
           /\ q.commitments = r.commitments
  <1> DEFINE p == Cleanup(r, t)
  <1>1. IsRegistry(p) /\ p.sessions = r.sessions /\ p.commitments = r.commitments
    BY CleanupKeeps
  <1> HIDE DEF p
  <1>2. RegisterTranscript(r, h, t).reg \in {p, [p EXCEPT !.transcripts = @ \cup {h}]}
    BY DEF RegisterTranscript, Raises, Returns, p
  <1> QED
    BY <1>1, <1>2 DEF IsRegistry

(* register_commitment returns only for a commitment nobody owns, and then *)
(* makes the session its owner; every other entry stays as it is.          *)
LEMMA CommitmentKeeps ==
    ASSUME NEW r, NEW s, NEW c, NEW t, IsRegistry(r)
    PROVE  LET result == RegisterCommitment(r, s, c, t)
               q == result.reg IN
           /\ IsRegistry(q)
           /\ q.sessions = r.sessions
           /\ result.ok \in BOOLEAN
           /\ ~result.ok => q.commitments = r.commitments
           /\ result.ok => /\ c \notin DOMAIN r.commitments
                           /\ q.commitments = Put(r.commitments, c, s)
  <1> DEFINE p == Cleanup(r, t)
  <1>1. IsRegistry(p) /\ p.sessions = r.sessions /\ p.commitments = r.commitments
    BY CleanupKeeps
  <1> HIDE DEF p
  <1>2. CASE c \in DOMAIN p.commitments
    <2>1. RegisterCommitment(r, s, c, t) = [reg |-> p, ok |-> FALSE]
      BY <1>2 DEF RegisterCommitment, Raises, p
    <2> QED BY <1>1, <2>1
  <1>3. CASE c \notin DOMAIN p.commitments
    <2> DEFINE table == Put(p.commitments, c, s)
               q == [p EXCEPT !.commitments = table]
    <2>1. RegisterCommitment(r, s, c, t) = [reg |-> q, ok |-> TRUE]
      BY <1>3 DEF RegisterCommitment, Returns, p
    <2>2. IsRegistry(q) /\ q.sessions = p.sessions /\ q.commitments = table
      <3> HIDE DEF table
      <3> QED BY <1>1 DEF IsRegistry
    <2> HIDE DEF q
    <2>3. q.commitments = Put(r.commitments, c, s) /\ c \notin DOMAIN r.commitments
      BY <1>1, <1>3, <2>2
    <2> HIDE DEF table
    <2> QED BY <1>1, <2>1, <2>2, <2>3
  <1> QED BY <1>2, <1>3

(* What dict[k] = v makes of a dict.                                       *)
PutSpec(K, W, f, k, v) ==
    /\ Put(f, k, v) \in Dicts(K, W)
    /\ DOMAIN Put(f, k, v) = DOMAIN f \cup {k}
    /\ Put(f, k, v)[k] = v
    /\ \A j \in DOMAIN f : j # k => Put(f, k, v)[j] = f[j]

(* dict[k] = v on a dict gives a dict with that entry.                     *)
LEMMA PutFacts ==
    ASSUME NEW K, NEW W, NEW f \in Dicts(K, W), NEW k \in K, NEW v \in W
    PROVE  PutSpec(K, W, f, k, v)
  <1>1. PICK D \in SUBSET K : f \in [D -> W]
    BY DEF Dicts
  <1>2. Put(f, k, v) \in [D \cup {k} -> W] /\ DOMAIN f = D
    BY <1>1 DEF Put
  <1>3. D \cup {k} \in SUBSET K
    BY <1>1
  <1>4. Put(f, k, v) \in Dicts(K, W)
    BY <1>2, <1>3 DEF Dicts
  <1> QED BY <1>2, <1>4 DEF Put, PutSpec

-----------------------------------------------------------------------------

(* The initial state satisfies the invariant.                              *)
LEMMA InitInd == Init => IndInv
  <1> SUFFICES ASSUME Init PROVE IndInv
    OBVIOUS
  <1>1. IsRegistry(reg) /\ reg.sessions = {} /\ reg.commitments = [c \in {} |-> c]
    BY DEF Init, EmptyRegistry, IsRegistry
  <1>2. \A K, W : [c \in {} |-> c] \in Dicts(K, W)
    BY DEF Dicts
  <1>3. \A s \in SessionIds : commitments[s] = [r \in {} |-> r] /\ reveals[s] = [r \in {} |-> r]
    BY DEF Init, NoneYet
  <1>4. \A s \in SessionIds : DOMAIN commitments[s] = {} /\ DOMAIN reveals[s] = {}
    BY <1>3
  <1>5. TypeOK
    <2>1. activation \in Dicts(SessionIds, Times)
      BY <1>2 DEF Init
    <2>2. reg.commitments \in Dicts(CommitmentHashes, SessionIds)
      BY <1>1, <1>2
    <2>3. commitments \in [SessionIds -> Dicts(Roles, CommitmentHashes)]
      BY <1>2 DEF Init, NoneYet
    <2>4. reveals \in [SessionIds -> Dicts(Roles, Reveals)]
      BY <1>2 DEF Init, NoneYet
    <2> QED BY <1>1, <2>1, <2>2, <2>3, <2>4 DEF Init, TypeOK
  <1>6. rejected = {} /\ verified = {}
    BY DEF Init
  <1>7. Roles # {}
    BY DEF Roles
  <1>8. Owned /\ Registered /\ Created /\ CommitmentHeldOnce /\ Opened
    BY <1>4 DEF Init, Owned, Registered, Created, CommitmentHeldOnce, Opened
  <1>9. PairChecked /\ SelfConsistent
    BY <1>4, <1>6, <1>7 DEF PairChecked, SelfConsistent
  <1> QED BY <1>1, <1>5, <1>8, <1>9 DEF IndInv

(* A session that does not exist has neither commitments nor reveals.      *)
LEMMA Fresh ==
    ASSUME IndInv, NEW s \in SessionIds, s \notin DOMAIN activation
    PROVE  commitments[s] = NoneYet /\ reveals[s] = NoneYet /\ s \notin rejected
  <1>1. commitments[s] \in Dicts(Roles, CommitmentHashes) /\ reveals[s] \in Dicts(Roles, Reveals)
    BY DEF IndInv, TypeOK
  <1>2. DOMAIN commitments[s] = {}
    BY DEF IndInv, Created
  <1>3. DOMAIN reveals[s] = {}
    BY <1>2 DEF IndInv, Opened, Roles
  <1>4. s \notin rejected
    BY DEF IndInv, TypeOK
  <1>5. PICK D \in SUBSET Roles : commitments[s] \in [D -> CommitmentHashes]
    BY <1>1 DEF Dicts
  <1>6. PICK E \in SUBSET Roles : reveals[s] \in [E -> Reveals]
    BY <1>1 DEF Dicts
  <1> QED BY <1>2, <1>3, <1>4, <1>5, <1>6 DEF NoneYet

(* The object a constructor call makes has empty dicts, as the session had *)
(* none: the registry has seen to it.                                      *)
LEMMA NewSessionKeeps ==
    ASSUME IndInv, NEW s \in SessionIds, NEW t \in Times, NewSession(s, t)
    PROVE  UNCHANGED <<commitments, reveals, rejected, verified>>
  <1> DEFINE result == RegisterSession(reg, s, t)
  <1>1. result.ok \in BOOLEAN /\ (result.ok => s \notin reg.sessions)
    BY SessionKeeps DEF IndInv, TypeOK
  <1>2. /\ result.ok => /\ commitments' = [commitments EXCEPT ![s] = NoneYet]
                        /\ reveals' = [reveals EXCEPT ![s] = NoneYet]
                        /\ rejected' = rejected \ {s}
        /\ ~result.ok => UNCHANGED <<commitments, reveals, rejected>>
        /\ UNCHANGED verified
    BY DEF NewSession
  <1> HIDE DEF result
  <1>3. CASE result.ok
    <2>1. s \notin DOMAIN activation
      BY <1>1, <1>3 DEF IndInv, Registered
    <2>2. commitments[s] = NoneYet /\ reveals[s] = NoneYet /\ s \notin rejected
      BY <2>1, Fresh
    <2>3. /\ commitments \in [SessionIds -> Dicts(Roles, CommitmentHashes)]
          /\ reveals \in [SessionIds -> Dicts(Roles, Reveals)]
      BY DEF IndInv, TypeOK
    <2> QED BY <1>2, <1>3, <2>2, <2>3
  <1> QED BY <1>1, <1>2, <1>3

(* Creating a session touches no commitment and no reveal.                 *)
LEMMA NewSessionInd ==
    ASSUME IndInv, NEW s \in SessionIds, NEW t \in Times, NewSession(s, t)
    PROVE  IndInv'
  <1> DEFINE result == RegisterSession(reg, s, t)
  <1>1. /\ IsRegistry(result.reg) /\ result.reg.sessions \subseteq SessionIds
        /\ reg.sessions \subseteq result.reg.sessions
        /\ result.reg.commitments = reg.commitments
        /\ result.ok \in BOOLEAN
        /\ result.ok => s \in result.reg.sessions
    BY SessionKeeps DEF IndInv, TypeOK
  <1>2. /\ reg' = result.reg
        /\ result.ok => activation' = Put(activation, s, t)
        /\ ~result.ok => activation' = activation
    BY DEF NewSession
  <1> HIDE DEF result
  <1>3. UNCHANGED <<commitments, reveals, rejected, verified>>
    BY NewSessionKeeps
  <1>4. /\ activation' \in Dicts(SessionIds, Times)
        /\ DOMAIN activation \subseteq DOMAIN activation'
        /\ DOMAIN activation' \subseteq reg'.sessions
    <2>1. activation \in Dicts(SessionIds, Times) /\ DOMAIN activation \subseteq reg.sessions
      BY DEF IndInv, TypeOK, Registered
    <2>2. PutSpec(SessionIds, Times, activation, s, t)
      BY <2>1, PutFacts
    <2> QED BY <1>1, <1>2, <2>1, <2>2 DEF PutSpec
  <1>5. TypeOK' /\ Registered' /\ Created'
    BY <1>1, <1>2, <1>3, <1>4 DEF IndInv, TypeOK, Registered, Created
  <1>6. Owned' /\ CommitmentHeldOnce'
    BY <1>1, <1>2, <1>3 DEF IndInv, Owned, CommitmentHeldOnce
  <1>7. Opened' /\ PairChecked' /\ SelfConsistent'
    BY <1>3 DEF IndInv, Opened, PairChecked, SelfConsistent
  <1> QED BY <1>1, <1>2, <1>5, <1>6, <1>7 DEF IndInv

(* A commitment that is accepted is new to the registry, hence to every    *)
(* session, and goes to a role that had none, hence to a session without   *)
(* reveals.                                                                *)
LEMMA CommitmentInd ==
    ASSUME IndInv, NEW s \in SessionIds, NEW role \in Roles, NEW c \in CommitmentHashes,
           RegisterSessionCommitment(s, role, c)
    PROVE  IndInv'
  <1> DEFINE result == RegisterCommitment(reg, s, c, activation[s])
  <1>1. /\ IsRegistry(result.reg) /\ result.reg.sessions = reg.sessions
        /\ result.ok \in BOOLEAN
        /\ ~result.ok => result.reg.commitments = reg.commitments
        /\ result.ok => /\ c \notin DOMAIN reg.commitments
                        /\ result.reg.commitments = Put(reg.commitments, c, s)
    BY CommitmentKeeps DEF IndInv
  <1>2. /\ reg' = result.reg
        /\ s \in DOMAIN activation /\ role \notin DOMAIN commitments[s]
        /\ commitments' = IF result.ok
                          THEN [commitments EXCEPT ![s] = Put(@, role, c)] ELSE commitments
        /\ UNCHANGED <<activation, reveals, rejected, verified>>
    BY DEF RegisterSessionCommitment
  <1> HIDE DEF result
  <1>3. IsRegistry(reg') /\ reg'.sessions = reg.sessions
    BY <1>1, <1>2
  <1>4. CASE ~result.ok
    <2>1. reg'.commitments = reg.commitments /\ commitments' = commitments
      BY <1>1, <1>2, <1>4
    <2>2. TypeOK' /\ Owned' /\ Registered' /\ Created' /\ CommitmentHeldOnce'
      BY <1>2, <1>3, <2>1
      DEF IndInv, TypeOK, Owned, Registered, Created, CommitmentHeldOnce
    <2>3. Opened' /\ PairChecked' /\ SelfConsistent'
      BY <1>2, <2>1 DEF IndInv, Opened, PairChecked, SelfConsistent
    <2> QED BY <1>3, <2>2, <2>3 DEF IndInv
  <1>5. CASE result.ok
    <2> DEFINE held == Put(commitments[s], role, c)
    <2>1. /\ c \notin DOMAIN reg.commitments
          /\ reg'.commitments = Put(reg.commitments, c, s)
          /\ commitments' = [commitments EXCEPT ![s] = held]
      BY <1>1, <1>2, <1>5
    <2>2. /\ commitments[s] \in Dicts(Roles, CommitmentHashes)
          /\ commitments \in [SessionIds -> Dicts(Roles, CommitmentHashes)]
          /\ reg.commitments \in Dicts(CommitmentHashes, SessionIds)
      BY DEF IndInv, TypeOK
    <2>3. /\ held \in Dicts(Roles, CommitmentHashes)
          /\ DOMAIN held = DOMAIN commitments[s] \cup {role}
          /\ held[role] = c
          /\ \A p \in DOMAIN commitments[s] : held[p] = commitments[s][p]
      <3>1. PutSpec(Roles, CommitmentHashes, commitments[s], role, c)
        BY <2>2, PutFacts
      <3> QED BY <1>2, <3>1 DEF PutSpec
    <2>4. /\ reg'.commitments \in Dicts(CommitmentHashes, SessionIds)
          /\ DOMAIN reg'.commitments = DOMAIN reg.commitments \cup {c}
          /\ reg'.commitments[c] = s
          /\ \A d \in DOMAIN reg.commitments : reg'.commitments[d] = reg.commitments[d]
      <3>1. PutSpec(CommitmentHashes, SessionIds, reg.commitments, c, s)
        BY <2>2, PutFacts
      <3> QED BY <2>1, <3>1 DEF PutSpec
    <2> HIDE DEF held
    <2>5. /\ commitments' \in [SessionIds -> Dicts(Roles, CommitmentHashes)]
          /\ commitments'[s] = held
          /\ \A u \in SessionIds : u # s => commitments'[u] = commitments[u]
      BY <2>1, <2>2, <2>3
    <2>6. TypeOK'
      BY <1>2, <1>3, <2>4, <2>5 DEF IndInv, TypeOK
    <2>7. \A u \in SessionIds : \A p \in DOMAIN commitments[u] :
             /\ commitments[u][p] # c
             /\ commitments[u][p] \in DOMAIN reg.commitments
             /\ reg.commitments[commitments[u][p]] = u
      BY <2>1 DEF IndInv, Owned
    <2>8. \A u \in SessionIds : \A p \in DOMAIN commitments'[u] :
             \/ u = s /\ p = role /\ commitments'[u][p] = c
             \/ p \in DOMAIN commitments[u] /\ commitments'[u][p] = commitments[u][p]
      BY <2>3, <2>5
    <2>9. Owned'
      BY <2>4, <2>7, <2>8 DEF Owned
    <2>10. CommitmentHeldOnce'
      BY <2>7, <2>8 DEF IndInv, CommitmentHeldOnce
    <2>11. Created' /\ Registered'
      BY <1>2, <1>3, <2>5 DEF IndInv, Created, Registered
    <2>12. DOMAIN reveals[s] = {}
      BY <1>2 DEF IndInv, Opened
    <2>13. Opened'
      BY <1>2, <2>5, <2>12 DEF IndInv, Opened
    <2>14. PairChecked' /\ SelfConsistent'
      BY <1>2 DEF IndInv, PairChecked, SelfConsistent
    <2> QED BY <1>3, <2>6, <2>9, <2>10, <2>11, <2>13, <2>14 DEF IndInv
  <1> QED BY <1>1, <1>4, <1>5

(* A reveal goes to a role that had none, and the pair it completes is     *)
(* checked at once.                                                        *)
LEMMA RevealInd ==
    ASSUME IndInv, NEW s \in SessionIds, NEW r \in Reveals, NEW t \in Times,
           AcceptReveal(s, r, t)
    PROVE  IndInv'
  <1> DEFINE accepted == Put(reveals[s], r.role, r)
             mismatch == /\ DOMAIN accepted = Roles
                         /\ ~ValidPair(accepted["initiator"], accepted["responder"])
  <1>1. /\ DOMAIN commitments[s] = Roles
        /\ r.role \notin DOMAIN reveals[s]
        /\ r.session = s
        /\ commitments[s][r.role] = create_commitment(r)
        /\ reveals' = [reveals EXCEPT ![s] = accepted]
        /\ rejected' = IF mismatch THEN rejected \cup {s} ELSE rejected
        /\ UNCHANGED <<reg, activation, commitments, verified>>
    BY DEF AcceptReveal
  <1>2. /\ reveals \in [SessionIds -> Dicts(Roles, Reveals)]
        /\ reveals[s] \in Dicts(Roles, Reveals)
        /\ r.role \in Roles
    BY RevealsAssumption DEF IndInv, TypeOK, RevealRecords
  <1>3. /\ accepted \in Dicts(Roles, Reveals)
        /\ DOMAIN accepted = DOMAIN reveals[s] \cup {r.role}
        /\ accepted[r.role] = r
        /\ \A p \in DOMAIN reveals[s] : accepted[p] = reveals[s][p]
    <2>1. PutSpec(Roles, Reveals, reveals[s], r.role, r)
      BY <1>2, PutFacts
    <2> QED BY <1>1, <2>1 DEF PutSpec
  <1> HIDE DEF accepted
  <1>4. /\ reveals' \in [SessionIds -> Dicts(Roles, Reveals)]
        /\ reveals'[s] = accepted
        /\ \A u \in SessionIds : u # s => reveals'[u] = reveals[u]
    BY <1>1, <1>2, <1>3
  <1>5. s \notin rejected
    BY <1>1, <1>2 DEF IndInv, PairChecked
  <1>6. /\ mismatch => rejected' = rejected \cup {s}
        /\ ~mismatch => rejected' = rejected
    BY <1>1
  <1>7. s \in DOMAIN activation
    BY <1>1, <1>2 DEF IndInv, Created
  <1>8. TypeOK'
    <2>1. rejected' \subseteq DOMAIN activation
      BY <1>6, <1>7 DEF IndInv, TypeOK
    <2> QED BY <1>1, <1>4, <2>1 DEF IndInv, TypeOK
  <1>9. /\ IsRegistry(reg') /\ Owned' /\ Registered' /\ Created' /\ CommitmentHeldOnce'
        /\ SelfConsistent'
    BY <1>1 DEF IndInv, Owned, Registered, Created, CommitmentHeldOnce, SelfConsistent
  <1>10. Opened'
    BY <1>1, <1>3, <1>4 DEF IndInv, Opened
  <1>11. PairChecked'
    <2> SUFFICES ASSUME NEW u \in SessionIds
                 PROVE  u \in rejected' <=>
                            /\ DOMAIN reveals'[u] = Roles
                            /\ ~ValidPair(reveals'[u]["initiator"], reveals'[u]["responder"])
      BY DEF PairChecked, ValidPair
    <2>1. CASE u = s
      BY <1>4, <1>5, <1>6, <2>1
    <2>2. CASE u # s
      BY <1>4, <1>6, <2>2 DEF IndInv, PairChecked
    <2> QED BY <2>1, <2>2
  <1> QED BY <1>8, <1>9, <1>10, <1>11 DEF IndInv

(* Whatever transcript is verified, it carries the commitments of its      *)
(* reveals; the sessions, and the registry's tables of sessions and        *)
(* commitments, stay.                                                      *)
LEMMA VerifyInd ==
    ASSUME IndInv, NEW x \in Transcripts, NEW t \in Times, VerifyTranscript(x, t)
    PROVE  IndInv'
  <1> DEFINE h == compute_transcript_hash(x)
  <1>1. /\ reg' = RegisterTranscript(reg, h, t).reg
        /\ verified' = verified \cup {x} \/ verified' = verified
        /\ x.initiator_commitment = create_commitment(x.initiator)
        /\ x.responder_commitment = create_commitment(x.responder)
        /\ UNCHANGED <<activation, commitments, reveals, rejected>>
    BY DEF VerifyTranscript, TranscriptValid
  <1> HIDE DEF h
  <1>2. /\ IsRegistry(reg') /\ reg'.sessions = reg.sessions
        /\ reg'.commitments = reg.commitments
    BY <1>1, TranscriptKeeps DEF IndInv
  <1>3. TypeOK' /\ Owned' /\ Registered' /\ Created' /\ CommitmentHeldOnce'
    BY <1>1, <1>2 DEF IndInv, TypeOK, Owned, Registered, Created, CommitmentHeldOnce
  <1>4. Opened' /\ PairChecked' /\ SelfConsistent'
    BY <1>1 DEF IndInv, Opened, PairChecked, SelfConsistent
  <1> QED BY <1>2, <1>3, <1>4 DEF IndInv

(* What build_transcript makes is a transcript if the reveals are theirs.  *)
LEMMA BuiltIsTranscript ==
    ASSUME NEW i \in Reveals, NEW p \in Reveals, NEW created \in Times
    PROVE  build_transcript(i, p, created) \in Transcripts
  BY RevealsAssumption
  DEF build_transcript, Transcripts, CommitmentHashes, RevealRecords

(* A step of the specification is one of four calls.                       *)
LEMMA NextCases ==
    ASSUME Next
    PROVE  \/ \E s \in SessionIds, t \in Times : NewSession(s, t)
           \/ \E s \in SessionIds, role \in Roles, c \in CommitmentHashes :
                  RegisterSessionCommitment(s, role, c)
           \/ \E s \in SessionIds, r \in Reveals, t \in Times : AcceptReveal(s, r, t)
           \/ \E x \in Transcripts, t \in Times : VerifyTranscript(x, t)
  <1>1. CASE \E i, p \in Reveals, created, t \in Times :
               VerifyTranscript(build_transcript(i, p, created), t)
    BY <1>1, BuiltIsTranscript
  <1>2. CASE \E x \in Altered, t \in Times : VerifyTranscript(x, t)
    BY <1>2, RevealsAssumption
  <1> QED BY <1>1, <1>2 DEF Next

(* Every step of the specification keeps the invariant.                    *)
LEMMA StepInd == IndInv /\ [Next]_vars => IndInv'
  <1> SUFFICES ASSUME IndInv, [Next]_vars PROVE IndInv'
    OBVIOUS
  <1>1. CASE Next
    BY <1>1, NextCases, NewSessionInd, CommitmentInd, RevealInd, VerifyInd
  <1>2. CASE UNCHANGED vars
    BY <1>2 DEF vars, IndInv, TypeOK, IsRegistry, Owned, Registered, Created,
                CommitmentHeldOnce, Opened, PairChecked, SelfConsistent
  <1> QED BY <1>1, <1>2

-----------------------------------------------------------------------------

(* The inductive invariant holds in every reachable state.                 *)
LEMMA Invariance == Spec => []IndInv
  BY InitInd, StepInd, PTL DEF Spec

(* No order of calls on CommitRevealSession leaves the sessions' tables    *)
(* or the registry's outside their types, in particular a rejected pair    *)
(* without a session.                                                      *)
THEOREM TypeCorrect == Spec => []TypeOK
  <1>1. IndInv => TypeOK
    BY DEF IndInv
  <1> QED BY <1>1, Invariance, PTL

(* register_commitment never lets one commitment be held twice, neither by *)
(* two sessions nor by both roles of one, whatever the activation times    *)
(* the registry is told.                                                   *)
THEOREM CommitmentsUnique == Spec => []CommitmentHeldOnce
  <1>1. IndInv => CommitmentHeldOnce
    BY DEF IndInv
  <1> QED BY <1>1, Invariance, PTL

(* A transcript that verifies and carries the commitments of a session     *)
(* that has accepted both reveals is about those reveals: the commitments  *)
(* are of the reveals on both sides, and hashes are injective.             *)
THEOREM TranscriptsMatch == Spec => []TranscriptsMatchSessions
  <1>1. IndInv => TranscriptsMatchSessions
    <2> SUFFICES ASSUME IndInv, NEW x \in verified,
                        commitments[x.session]
                           = [p \in Roles |-> IF p = "initiator"
                                              THEN x.initiator_commitment
                                              ELSE x.responder_commitment],
                        DOMAIN reveals[x.session] = Roles,
                        x.session \notin rejected
                 PROVE  /\ reveals[x.session]["initiator"] = x.initiator
                        /\ reveals[x.session]["responder"] = x.responder
                        /\ ValidPair(x.initiator, x.responder)
      BY DEF TranscriptsMatchSessions
    <2> DEFINE s == x.session
    <2>1. s \in SessionIds
      BY DEF IndInv, TypeOK, Transcripts
    <2>2. "initiator" \in Roles /\ "responder" \in Roles
      BY DEF Roles
    <2>3. /\ commitments[s]["initiator"] = create_commitment(x.initiator)
          /\ commitments[s]["responder"] = create_commitment(x.responder)
      BY <2>2 DEF IndInv, SelfConsistent
    <2>4. /\ commitments[s]["initiator"] = create_commitment(reveals[s]["initiator"])
          /\ commitments[s]["responder"] = create_commitment(reveals[s]["responder"])
      BY <2>1, <2>2 DEF IndInv, Opened
    <2>5. \A a, b : create_commitment(a) = create_commitment(b) => a = b
      BY DEF create_commitment
    <2>6. reveals[s]["initiator"] = x.initiator /\ reveals[s]["responder"] = x.responder
      BY <2>3, <2>4, <2>5
    <2>7. ValidPair(reveals[s]["initiator"], reveals[s]["responder"])
      BY <2>1 DEF IndInv, PairChecked
    <2> QED BY <2>6, <2>7
  <1> QED BY <1>1, Invariance, PTL

(* Once a session has accepted a reveal, both roles have committed.        *)
LEMMA RevealNeedsBoth ==
    ASSUME IndInv, NEW s \in SessionIds, reveals[s] # NoneYet
    PROVE  DOMAIN commitments[s] = Roles
  <1>1. PICK D \in SUBSET Roles : reveals[s] \in [D -> Reveals]
    BY DEF IndInv, TypeOK, Dicts
  <1>2. DOMAIN reveals[s] # {}
    BY <1>1 DEF NoneYet
  <1> QED BY <1>2 DEF IndInv, Opened

(* The commitments of a session with both commitments are never touched:   *)
(* register_commitment refuses a role that has one, and the constructor an *)
(* ID that is known.                                                       *)
LEMMA CommitmentsStay ==
    ASSUME IndInv, Next, NEW s \in SessionIds, DOMAIN commitments[s] = Roles
    PROVE  commitments'[s] = commitments[s]
  <1>1. commitments \in [SessionIds -> Dicts(Roles, CommitmentHashes)]
    BY DEF IndInv, TypeOK
  <1>2. ASSUME NEW u \in SessionIds, NEW role \in Roles, NEW c \in CommitmentHashes,
               RegisterSessionCommitment(u, role, c)
        PROVE  commitments'[s] = commitments[s]
    <2>1. u # s
      BY <1>2 DEF RegisterSessionCommitment
    <2>2. \/ commitments' = commitments
          \/ commitments' = [commitments EXCEPT ![u] = Put(@, role, c)]
      BY <1>2 DEF RegisterSessionCommitment
    <2> QED BY <1>1, <2>1, <2>2
  <1>3. ASSUME NEW u \in SessionIds, NEW t \in Times, NewSession(u, t)
        PROVE  commitments'[s] = commitments[s]
    BY <1>3, NewSessionKeeps
  <1>4. ASSUME NEW u \in SessionIds, NEW r \in Reveals, NEW t \in Times, AcceptReveal(u, r, t)
        PROVE  commitments'[s] = commitments[s]
    BY <1>4 DEF AcceptReveal
  <1>5. ASSUME NEW x \in Transcripts, NEW t \in Times, VerifyTranscript(x, t)
        PROVE  commitments'[s] = commitments[s]
    BY <1>5 DEF VerifyTranscript
  <1> QED BY <1>2, <1>3, <1>4, <1>5, NextCases

(* Once a session has accepted a reveal, both roles have committed and     *)
(* neither register_commitment nor another session object of that ID can   *)
(* change what they committed to.                                          *)
THEOREM Binding == Spec => BoundBeforeReveal
  <1> DEFINE Bound ==
        \A s \in SessionIds : reveals[s] # NoneYet =>
            /\ DOMAIN commitments[s] = Roles
            /\ commitments'[s] = commitments[s]
  <1>1. IndInv /\ [Next]_vars => [Bound]_vars
    BY RevealNeedsBoth, CommitmentsStay
  <1> QED BY <1>1, Invariance, PTL DEF Spec, BoundBeforeReveal

(* A session with both reveals is rejected exactly if they do not match,   *)
(* and no call changes its reveals, its commitments or that decision.      *)
THEOREM Final == Spec => DecisionIsFinal
  <1> DEFINE Kept ==
        \A s \in SessionIds : DOMAIN reveals[s] = Roles =>
            /\ (s \in rejected) <=> ~ValidPair(reveals[s]["initiator"],
                                               reveals[s]["responder"])
            /\ commitments'[s] = commitments[s]
            /\ reveals'[s] = reveals[s]
            /\ (s \in rejected') <=> (s \in rejected)
  <1>1. IndInv /\ [Next]_vars => [Kept]_vars
    <2> SUFFICES ASSUME IndInv, Next, NEW s \in SessionIds, DOMAIN reveals[s] = Roles
                 PROVE  /\ (s \in rejected) <=> ~ValidPair(reveals[s]["initiator"],
                                                           reveals[s]["responder"])
                        /\ commitments'[s] = commitments[s]
                        /\ reveals'[s] = reveals[s]
                        /\ (s \in rejected') <=> (s \in rejected)
      OBVIOUS
    <2>1. (s \in rejected) <=> ~ValidPair(reveals[s]["initiator"], reveals[s]["responder"])
      BY DEF IndInv, PairChecked
    <2>2. "initiator" \in DOMAIN reveals[s]
      BY DEF Roles
    <2>3. DOMAIN commitments[s] = Roles
      BY <2>2 DEF IndInv, Opened
    <2>4. commitments'[s] = commitments[s]
      BY <2>3, CommitmentsStay
    <2>5. ASSUME NEW u \in SessionIds, NEW r \in Reveals, NEW t \in Times, AcceptReveal(u, r, t)
          PROVE  reveals'[s] = reveals[s] /\ ((s \in rejected') <=> (s \in rejected))
      <3>1. u # s
        BY <2>5, RevealsAssumption DEF AcceptReveal, RevealRecords
      <3>2. /\ reveals' = [reveals EXCEPT ![u] = Put(@, r.role, r)]
            /\ rejected' = rejected \cup {u} \/ rejected' = rejected
        BY <2>5 DEF AcceptReveal
      <3>3. reveals \in [SessionIds -> Dicts(Roles, Reveals)]
        BY DEF IndInv, TypeOK
      <3> QED BY <3>1, <3>2, <3>3
    <2>6. ASSUME NEW u \in SessionIds, NEW t \in Times, NewSession(u, t)
          PROVE  reveals' = reveals /\ rejected' = rejected
      BY <2>6, NewSessionKeeps
    <2>7. reveals'[s] = reveals[s] /\ ((s \in rejected') <=> (s \in rejected))
      BY <2>5, <2>6, NextCases DEF RegisterSessionCommitment, VerifyTranscript
    <2> QED BY <2>1, <2>4, <2>7
  <1> QED BY <1>1, Invariance, PTL DEF Spec, DecisionIsFinal

=============================================================================

------------------------ MODULE JsonFileReplayProofs ------------------------
(***************************************************************************)
(* What one handle on the JSON registry guarantees, for every set of keys, *)
(* every bound, and crashes, restarts and failed writes at every step.     *)
(*                                                                         *)
(* AcknowledgedIsDurable is not inductive.  That os.replace publishes      *)
(* nothing worse than what it overwrites needs three more facts: the       *)
(* tables in memory keep all that the file holds (MemoryKeepsFile), the    *)
(* temporary file holds exactly those when it is renamed (Publishing), and *)
(* the registration about to be acknowledged is among them and was never   *)
(* acknowledged before (PendingIsNew).  None of the three survives a       *)
(* second handle, which writes the same temporary name and never rereads   *)
(* the file, so the theorems are about one: OneHandle.                     *)
(***************************************************************************)
EXTENDS JsonFileReplay, SequenceTheorems, TLAPS

(* At most one handle on the file at any time (any number one after the    *)
(* other: a handle that crashed may be constructed again).                 *)
OneHandle == \A g, h \in Handles : g = h

KeyRegistrations   == [kind : {"key"}, key : Keys]
LeaseRegistrations == [kind : {"contract"}, id : ContractIds, lease : Leases]
Registrations      == KeyRegistrations \cup LeaseRegistrations
Grants             == [id : ContractIds, lease : Leases]
Steps              == {"closed", "idle", "open", "write", "replace"}
Flushing           == {"open", "write", "replace"}

TypeOK ==
    /\ file \in Images \cup {Absent}
    /\ tmp \in Images \cup {Absent, Torn}
    /\ mem \in [Handles -> Images]
    /\ pc \in [Handles -> Steps]
    /\ fd \in [Handles -> {"none", "tmp"}]
    /\ pending \in [Handles -> Registrations \cup {NoRegistration}]
    /\ acks \in [Keys -> {0, 1}]
    /\ grants \in Seq(Grants)
    /\ highRef \in Times

(* One image keeps all that another holds, but for leases over at t.       *)
Keeps(new, old, t) ==
    /\ old.sessions \subseteq new.sessions
    /\ old.transcripts \subseteq new.transcripts
    /\ \A c \in DOMAIN old.commitments :
          c \in DOMAIN new.commitments /\ new.commitments[c] = old.commitments[c]
    /\ \A c \in DOMAIN old.contracts : old.contracts[c].expires > t =>
          c \in DOMAIN new.contracts /\ new.contracts[c] = old.contracts[c]

(* The image holds what the registration asked for, a lease unless it is   *)
(* over at t.                                                              *)
Made(image, r, t) ==
    /\ r.kind = "key" => Recorded(image, r.key)
    /\ r.kind = "contract" /\ r.lease.expires > t =>
          r.id \in DOMAIN image.contracts /\ image.contracts[r.id] = r.lease

(* A handle's tables keep all that the file holds.                         *)
MemoryKeepsFile ==
    \A h \in Handles : pc[h] # "closed" /\ file # Absent
                           => Keeps(mem[h], file, highRef)

(* Where a flush stands: the descriptor is open from open to close, on the *)
(* truncated temporary file, which then holds the handle's tables.         *)
Publishing ==
    \A h \in Handles :
        /\ fd[h] = "tmp" <=> pc[h] = "write"
        /\ pc[h] = "write" => tmp = Torn
        /\ pc[h] = "replace" => tmp = mem[h]

(* The registration being published is in memory, and its key is one that  *)
(* was never acknowledged.                                                 *)
PendingIsNew ==
    \A h \in Handles : pc[h] \in Flushing =>
        /\ Made(mem[h], pending[h], highRef)
        /\ pending[h].kind = "key" => acks[pending[h].key] = 0

IndInv ==
    /\ TypeOK
    /\ MemoryKeepsFile
    /\ Publishing
    /\ PendingIsNew
    /\ AcknowledgedIsDurable

-----------------------------------------------------------------------------

(* Keeping is reflexive, and transitive at one time.                       *)
LEMMA KeepsSelf == ASSUME NEW a, NEW t PROVE Keeps(a, a, t)
  BY DEF Keeps

LEMMA KeepsTransitive ==
    ASSUME NEW a \in Images, NEW b \in Images, NEW c \in Images,
           NEW t \in Times, NEW u \in Times, t <= u,
           Keeps(a, b, u), Keeps(b, c, t)
    PROVE  Keeps(a, c, u)
  <1>1. \A k \in DOMAIN c.contracts : c.contracts[k].expires \in Nat
    <2>1. PICK D \in SUBSET ContractIds : c.contracts \in [D -> Leases]
      BY DEF Images, Dicts
    <2> QED
      BY <2>1 DEF Leases, Times
  <1>2. t \in Nat /\ u \in Nat
    BY DEF Times
  <1>3. \A k \in DOMAIN c.contracts :
            c.contracts[k].expires > u => c.contracts[k].expires > t
    BY <1>1, <1>2
  <1> QED
    BY <1>3 DEF Keeps

(* What an image keeps of another includes its keys.                       *)
LEMMA KeepsRecorded ==
    ASSUME NEW a, NEW b, NEW t, NEW k, Keeps(a, b, t), Recorded(b, k)
    PROVE  Recorded(a, k)
  BY DEF Keeps, Recorded

(* In which table each kind of key is looked up.                           *)
LEMMA RecordedKey ==
    ASSUME NEW image, NEW k
    PROVE  /\ Recorded(image, SessionKey(k)) <=> k \in image.sessions
           /\ Recorded(image, CommitmentKey(k)) <=> k \in DOMAIN image.commitments
           /\ Recorded(image, TranscriptKey(k)) <=> k \in image.transcripts
  BY DEF Recorded, SessionKey, CommitmentKey, TranscriptKey

(* _cleanup_expired_contracts at t keeps an image but for leases over at t *)
(* and leaves none that is.                                                *)
LEMMA CleanupFacts ==
    ASSUME NEW r \in Images, NEW t \in Times
    PROVE  /\ Cleanup(r, t) \in Images
           /\ Keeps(Cleanup(r, t), r, t)
           /\ Cleanup(r, t).sessions = r.sessions
           /\ Cleanup(r, t).commitments = r.commitments
           /\ Cleanup(r, t).transcripts = r.transcripts
           /\ \A k \in DOMAIN Cleanup(r, t).contracts :
                  Cleanup(r, t).contracts[k].expires > t
  <1> DEFINE f == r.contracts
             D == {c \in DOMAIN f : f[c].expires > t}
             g == Restrict(f, D)
  <1>1. PICK E \in SUBSET ContractIds : f \in [E -> Leases]
    BY DEF Images, Dicts
  <1>2. D \in SUBSET ContractIds /\ g \in [D -> Leases]
    BY <1>1 DEF Restrict
  <1>3. g \in Dicts(ContractIds, Leases)
    BY <1>2 DEF Dicts
  <1>4. Cleanup(r, t) = [r EXCEPT !.contracts = g]
    BY DEF Cleanup
  <1>5. DOMAIN g = D /\ \A k \in D : g[k] = f[k]
    BY DEF Restrict
  <1>6. /\ Cleanup(r, t) \in Images
        /\ Cleanup(r, t).contracts = g
        /\ Cleanup(r, t).sessions = r.sessions
        /\ Cleanup(r, t).commitments = r.commitments
        /\ Cleanup(r, t).transcripts = r.transcripts
    <2> HIDE DEF g
    <2> QED BY <1>3, <1>4 DEF Images
  <1> QED
    BY <1>5, <1>6 DEF Keeps

(* register_session, register_commitment and register_transcript keep all  *)
(* that was there but for leases over at t, and return only for a key that *)
(* was not there and then is.                                              *)
LEMMA SessionFacts ==
    ASSUME NEW r \in Images, NEW t \in Times, NEW s \in SessionIds
    PROVE  LET res == RegisterSession(r, s, t) IN
           /\ res.reg \in Images
           /\ res.ok \in BOOLEAN
           /\ Keeps(res.reg, r, t)
           /\ res.ok => /\ ~Recorded(r, SessionKey(s))
                        /\ Recorded(res.reg, SessionKey(s))
  <1> DEFINE p == Cleanup(r, t)
  <1>1. /\ p \in Images /\ Keeps(p, r, t)
        /\ p.sessions = r.sessions
    BY CleanupFacts
  <1> HIDE DEF p
  <1>2. CASE s \in p.sessions
    <2>1. RegisterSession(r, s, t) = [reg |-> p, ok |-> FALSE]
      BY <1>2 DEF RegisterSession, Raises, p
    <2> QED BY <1>1, <2>1
  <1>3. CASE s \notin p.sessions
    <2> DEFINE q == [p EXCEPT !.sessions = @ \cup {s}]
    <2>1. RegisterSession(r, s, t) = [reg |-> q, ok |-> TRUE]
      BY <1>3 DEF RegisterSession, Returns, p
    <2>2. q \in Images /\ Keeps(q, r, t) /\ s \in q.sessions
      BY <1>1 DEF Images, Keeps
    <2> HIDE DEF q
    <2> QED
      BY <1>1, <1>3, <2>1, <2>2, RecordedKey
  <1> QED BY <1>2, <1>3

LEMMA TranscriptFacts ==
    ASSUME NEW r \in Images, NEW t \in Times, NEW x \in TranscriptHashes
    PROVE  LET res == RegisterTranscript(r, x, t) IN
           /\ res.reg \in Images
           /\ res.ok \in BOOLEAN
           /\ Keeps(res.reg, r, t)
           /\ res.ok => /\ ~Recorded(r, TranscriptKey(x))
                        /\ Recorded(res.reg, TranscriptKey(x))
  <1> DEFINE p == Cleanup(r, t)
  <1>1. /\ p \in Images /\ Keeps(p, r, t)
        /\ p.transcripts = r.transcripts
    BY CleanupFacts
  <1> HIDE DEF p
  <1>2. CASE x \in p.transcripts
    <2>1. RegisterTranscript(r, x, t) = [reg |-> p, ok |-> FALSE]
      BY <1>2 DEF RegisterTranscript, Raises, p
    <2> QED BY <1>1, <2>1
  <1>3. CASE x \notin p.transcripts
    <2> DEFINE q == [p EXCEPT !.transcripts = @ \cup {x}]
    <2>1. RegisterTranscript(r, x, t) = [reg |-> q, ok |-> TRUE]
      BY <1>3 DEF RegisterTranscript, Returns, p
    <2>2. q \in Images /\ Keeps(q, r, t) /\ x \in q.transcripts
      BY <1>1 DEF Images, Keeps
    <2> HIDE DEF q
    <2> QED
      BY <1>1, <1>3, <2>1, <2>2, RecordedKey
  <1> QED BY <1>2, <1>3

LEMMA CommitmentFacts ==
    ASSUME NEW r \in Images, NEW t \in Times,
           NEW s \in SessionIds, NEW c \in Commitments
    PROVE  LET res == RegisterCommitment(r, s, c, t) IN
           /\ res.reg \in Images
           /\ res.ok \in BOOLEAN
           /\ Keeps(res.reg, r, t)
           /\ res.ok => /\ ~Recorded(r, CommitmentKey(c))
                        /\ Recorded(res.reg, CommitmentKey(c))
  <1> DEFINE p == Cleanup(r, t)
  <1>1. /\ p \in Images /\ Keeps(p, r, t)
        /\ p.commitments = r.commitments
    BY CleanupFacts
  <1> HIDE DEF p
  <1>2. CASE c \in DOMAIN p.commitments
    <2>1. RegisterCommitment(r, s, c, t) = [reg |-> p, ok |-> FALSE]
      BY <1>2 DEF RegisterCommitment, Raises, p
    <2> QED BY <1>1, <2>1
  <1>3. CASE c \notin DOMAIN p.commitments
    <2> DEFINE m == Put(p.commitments, c, s)
               q == [p EXCEPT !.commitments = m]
    <2>1. RegisterCommitment(r, s, c, t) = [reg |-> q, ok |-> TRUE]
      BY <1>3 DEF RegisterCommitment, Returns, p
    <2>2. /\ m \in Dicts(Commitments, SessionIds)
          /\ DOMAIN m = DOMAIN p.commitments \cup {c}
          /\ \A x \in DOMAIN p.commitments : x # c => m[x] = p.commitments[x]
      <3> DEFINE f == p.commitments
      <3>1. PICK D \in SUBSET Commitments : f \in [D -> SessionIds]
        BY <1>1 DEF Images, Dicts
      <3> HIDE DEF f
      <3>2. m = [x \in D \cup {c} |-> IF x = c THEN s ELSE f[x]]
        BY <3>1 DEF Put, f
      <3> QED BY <3>1, <3>2 DEF f, Dicts
    <2> HIDE DEF m
    <2>3. q \in Images /\ q.commitments = m
      BY <1>1, <2>2 DEF Images
    <2>4. Keeps(q, r, t)
      BY <1>1, <1>3, <2>2 DEF Keeps, Images
    <2> HIDE DEF q
    <2> QED
      BY <1>1, <1>3, <2>1, <2>2, <2>3, <2>4, RecordedKey
  <1> QED BY <1>2, <1>3

(* register_contract outside the lease changes nothing; inside it, it      *)
(* keeps all that was there but for leases over at t, and when it returns  *)
(* the lease is on record.                                                 *)
LEMMA ContractFacts ==
    ASSUME NEW r \in Images, NEW t \in Times,
           NEW id \in ContractIds, NEW lease \in Leases
    PROVE  LET res == RegisterContract(r, id, lease, t) IN
           /\ res.reg \in Images
           /\ res.ok \in BOOLEAN
           /\ ~ActiveAt(lease, t) => res.reg = r /\ ~res.ok
           /\ ActiveAt(lease, t) => Keeps(res.reg, r, t)
           /\ res.ok => /\ id \in DOMAIN res.reg.contracts
                        /\ res.reg.contracts[id] = lease
  <1> DEFINE p == Cleanup(r, t)
  <1>1. /\ p \in Images /\ Keeps(p, r, t)
        /\ \A k \in DOMAIN p.contracts : p.contracts[k].expires > t
    BY CleanupFacts
  <1> HIDE DEF p
  <1>2. CASE ~ActiveAt(lease, t)
    BY <1>2 DEF RegisterContract, Raises
  <1>3. CASE ActiveAt(lease, t) /\ id \in DOMAIN p.contracts
    <2>1. RegisterContract(r, id, lease, t) = [reg |-> p, ok |-> FALSE]
      BY <1>1, <1>3 DEF RegisterContract, Raises, p
    <2> QED BY <1>1, <1>3, <2>1
  <1>4. CASE ActiveAt(lease, t) /\ id \notin DOMAIN p.contracts
    <2> DEFINE m == Put(p.contracts, id, lease)
               q == [p EXCEPT !.contracts = m]
    <2>1. RegisterContract(r, id, lease, t) = [reg |-> q, ok |-> TRUE]
      BY <1>4 DEF RegisterContract, Returns, p
    <2>2. /\ m \in Dicts(ContractIds, Leases)
          /\ DOMAIN m = DOMAIN p.contracts \cup {id}
          /\ m[id] = lease
          /\ \A x \in DOMAIN p.contracts : x # id => m[x] = p.contracts[x]
      <3> DEFINE f == p.contracts
      <3>1. PICK D \in SUBSET ContractIds : f \in [D -> Leases]
        BY <1>1 DEF Images, Dicts
      <3> HIDE DEF f
      <3>2. m = [x \in D \cup {id} |-> IF x = id THEN lease ELSE f[x]]
        BY <3>1 DEF Put, f
      <3> QED BY <3>1, <3>2 DEF f, Dicts
    <2> HIDE DEF m
    <2>3. q \in Images /\ q.contracts = m
      BY <1>1, <2>2 DEF Images
    <2>4. Keeps(q, r, t)
      BY <1>1, <1>4, <2>2 DEF Keeps, Images
    <2> HIDE DEF q
    <2> QED
      BY <1>4, <2>1, <2>2, <2>3, <2>4
  <1> QED BY <1>2, <1>3, <1>4

-----------------------------------------------------------------------------

(* A new registry's tables are an image.                                   *)
LEMMA EmptyIsImage == EmptyRegistry \in Images
  <1>1. [c \in {} |-> c] \in Dicts(Commitments, SessionIds)
    BY DEF Dicts
  <1>2. [c \in {} |-> c] \in Dicts(ContractIds, Leases)
    BY DEF Dicts
  <1> QED BY <1>1, <1>2 DEF EmptyRegistry, Images

(* No file, no handle and nothing acknowledged: the invariant holds.       *)
LEMMA InitInd == Init => IndInv
  <1> SUFFICES ASSUME Init PROVE IndInv
    OBVIOUS
  <1>1. EmptyRegistry \in Images
    BY EmptyIsImage
  <1>2. /\ file = Absent /\ tmp = Absent /\ highRef = 0 /\ grants = <<>>
        /\ mem = [h \in Handles |-> EmptyRegistry]
        /\ pc = [h \in Handles |-> "closed"]
        /\ fd = [h \in Handles |-> "none"]
        /\ pending = [h \in Handles |-> NoRegistration]
        /\ acks = [k \in Keys |-> 0]
    BY DEF Init
  <1> HIDE DEF Init
  <1>3. TypeOK
    <2>1. highRef \in Times
      BY <1>2, BoundsAssumption DEF Times
    <2>2. grants \in Seq(Grants)
      BY <1>2
    <2> QED
      BY <1>1, <1>2, <2>1, <2>2 DEF TypeOK, Steps
  <1>4. MemoryKeepsFile /\ Publishing /\ PendingIsNew
    BY <1>2 DEF MemoryKeepsFile, Publishing, PendingIsNew, Flushing
  <1>5. AcknowledgedIsDurable
    BY <1>2, ContentAssumption DEF AcknowledgedIsDurable
  <1> QED BY <1>3, <1>4, <1>5 DEF IndInv

(* A stuttering step changes none of the state.                            *)
LEMMA StutterInd == IndInv /\ UNCHANGED vars => IndInv'
  BY DEF IndInv, vars, TypeOK, MemoryKeepsFile, Publishing, PendingIsNew,
         AcknowledgedIsDurable, Keeps, Made, Recorded

(* JsonFileReplayRegistry(path) reads what the file holds.                 *)
LEMMA ConstructInd ==
    ASSUME OneHandle, IndInv, NEW h \in Handles, Construct(h)
    PROVE  IndInv'
  <1> DEFINE image == IF file = Absent THEN EmptyRegistry ELSE file
  <1>1. /\ pc[h] = "closed"
        /\ mem' = [mem EXCEPT ![h] = image]
        /\ pc' = [pc EXCEPT ![h] = "idle"]
        /\ UNCHANGED <<file, tmp, fd, pending, acks, grants, highRef, failures>>
    BY DEF Construct
  <1>2. image \in Images
    BY EmptyIsImage DEF IndInv, TypeOK
  <1>3. file # Absent => Keeps(image, file, highRef)
    BY KeepsSelf
  <1> HIDE DEF image
  <1>4. TypeOK'
    BY <1>1, <1>2 DEF IndInv, TypeOK, Steps
  <1>5. /\ \A g \in Handles : g = h
        /\ mem'[h] = image /\ pc'[h] = "idle" /\ fd'[h] = fd[h]
    BY <1>1 DEF OneHandle, IndInv, TypeOK
  <1>6. MemoryKeepsFile'
    BY <1>1, <1>3, <1>5, Zenon DEF MemoryKeepsFile
  <1>7. Publishing' /\ PendingIsNew'
    BY <1>1, <1>5 DEF IndInv, Publishing, PendingIsNew, Flushing
  <1>8. AcknowledgedIsDurable'
    BY <1>1 DEF IndInv, AcknowledgedIsDurable, Recorded
  <1> QED BY <1>4, <1>6, <1>7, <1>8 DEF IndInv

(* Each grant on record is of a contract and a lease.                      *)
LEMMA GrantType ==
    ASSUME TypeOK
    PROVE  /\ DOMAIN grants = 1..Len(grants) /\ Len(grants) \in Nat
           /\ \A i \in DOMAIN grants : /\ grants[i].id \in ContractIds
                                        /\ grants[i].lease \in Leases
                                        /\ grants[i].lease.expires \in Nat
  <1>1. \A i \in DOMAIN grants : grants[i] \in Grants
    BY DEF TypeOK
  <1>2. DOMAIN grants = 1..Len(grants) /\ Len(grants) \in Nat
    BY DEF TypeOK
  <1>3. \A l \in Leases : l.expires \in Nat
    BY DEF Leases, Times
  <1> QED BY <1>1, <1>2, <1>3 DEF Grants

(* A registration that leaves tables keeping all of the old ones preserves *)
(* the invariant, provided that when it returns it is made, and its key    *)
(* was never acknowledged.                                                 *)
LEMMA RegisterInd ==
    ASSUME OneHandle, IndInv, NEW h \in Handles, NEW res,
           NEW registration \in Registrations,
           Register(h, res, registration),
           res.reg \in Images, res.ok \in BOOLEAN,
           highRef' \in Times, highRef <= highRef',
           Keeps(res.reg, mem[h], highRef'),
           res.ok => /\ Made(res.reg, registration, highRef')
                     /\ registration.kind = "key" => acks[registration.key] = 0
    PROVE  IndInv'
  <1> DEFINE q == res.reg
  <1>1. /\ pc[h] = "idle"
        /\ mem' = [mem EXCEPT ![h] = q]
        /\ UNCHANGED <<file, tmp, fd, acks, grants, failures>>
    BY DEF Register
  <1>2. \/ /\ res.ok
           /\ pc' = [pc EXCEPT ![h] = "open"]
           /\ pending' = [pending EXCEPT ![h] = registration]
        \/ pc' = pc /\ pending' = pending
    BY DEF Register
  <1>3. \A g \in Handles : g = h
    BY DEF OneHandle
  <1>4. TypeOK'
    BY <1>1, <1>2 DEF IndInv, TypeOK, Steps
  <1>5. mem'[h] = q /\ pc'[h] \in {"idle", "open"} /\ fd'[h] = fd[h]
    BY <1>1, <1>2 DEF IndInv, TypeOK
  <1>6. MemoryKeepsFile'
    <2> SUFFICES ASSUME file # Absent PROVE Keeps(q, file, highRef')
      BY <1>1, <1>3, <1>5, Zenon DEF MemoryKeepsFile
    <2>1. Keeps(mem[h], file, highRef)
      BY <1>1 DEF IndInv, MemoryKeepsFile
    <2>2. mem[h] \in Images /\ file \in Images /\ highRef \in Times
      BY DEF IndInv, TypeOK
    <2> QED BY <2>1, <2>2, KeepsTransitive
  <1>7. Publishing'
    BY <1>1, <1>3, <1>5 DEF IndInv, Publishing
  <1>8. PendingIsNew'
    <2>1. CASE res.ok /\ pending' = [pending EXCEPT ![h] = registration]
      <3>1. pending'[h] = registration
        BY <2>1 DEF IndInv, TypeOK
      <3> QED BY <1>1, <1>3, <1>5, <2>1, <3>1, Zenon DEF PendingIsNew
    <2>2. CASE pc' = pc
      BY <1>1, <1>3, <2>2 DEF PendingIsNew, Flushing
    <2> QED BY <1>2, <2>1, <2>2
  <1>9. AcknowledgedIsDurable'
    <2>1. \A i \in DOMAIN grants : grants[i].lease.expires > highRef'
                                       => grants[i].lease.expires > highRef
      <3>1. \A i \in DOMAIN grants : grants[i].lease.expires \in Nat
        BY GrantType DEF IndInv
      <3> QED BY <3>1 DEF IndInv, TypeOK, Times
    <2> QED BY <1>1, <2>1 DEF IndInv, AcknowledgedIsDurable, Recorded
  <1> QED BY <1>4, <1>6, <1>7, <1>8, <1>9 DEF IndInv

(* A key that the tables in memory do not hold was never acknowledged.     *)
LEMMA UnrecordedIsNew ==
    ASSUME IndInv, NEW h \in Handles, pc[h] = "idle",
           NEW k \in Keys, ~Recorded(mem[h], k)
    PROVE  acks[k] = 0
  <1> SUFFICES ASSUME acks[k] # 0 PROVE FALSE
    OBVIOUS
  <1>1. acks[k] > 0
    BY DEF IndInv, TypeOK
  <1>2. file # Absent /\ Recorded(file, k)
    BY <1>1 DEF IndInv, AcknowledgedIsDurable
  <1>3. Keeps(mem[h], file, highRef)
    BY <1>2 DEF IndInv, MemoryKeepsFile
  <1> QED BY <1>2, <1>3, KeepsRecorded

(* The latest time seen only grows, and counts t.                          *)
LEMMA LaterFacts ==
    ASSUME IndInv, NEW t \in Times
    PROVE  Later(t) \in Times /\ highRef <= Later(t) /\ t <= Later(t)
  BY BoundsAssumption DEF IndInv, TypeOK, Later, Times

(* What keeps all but leases over at t keeps all but leases over later.    *)
LEMMA KeepsLater ==
    ASSUME NEW a \in Images, NEW b \in Images, NEW t \in Times,
           NEW u \in Times, t <= u, Keeps(a, b, t)
    PROVE  Keeps(a, b, u)
  BY KeepsTransitive, KeepsSelf

(* The four calls of a handle.                                             *)
LEMMA CallInd ==
    ASSUME OneHandle, IndInv, NEW h \in Handles, NEW t \in Times, Call(h, t)
    PROVE  IndInv'
  <1>1. mem[h] \in Images
    BY DEF IndInv, TypeOK
  <1>2. Later(t) \in Times /\ highRef <= Later(t) /\ t <= Later(t)
    BY LaterFacts
  <1>3. ASSUME NEW k \in Keys, NEW res, Register(h, res, KeyRegistration(k)),
               highRef' = Later(t), res.reg \in Images, res.ok \in BOOLEAN,
               Keeps(res.reg, mem[h], t),
               res.ok => ~Recorded(mem[h], k) /\ Recorded(res.reg, k)
        PROVE  IndInv'
    <2>1. KeyRegistration(k) \in Registrations
      BY DEF KeyRegistration, Registrations, KeyRegistrations
    <2>2. Keeps(res.reg, mem[h], highRef')
      BY <1>1, <1>2, <1>3, KeepsLater
    <2>3. pc[h] = "idle"
      BY <1>3 DEF Register
    <2>4. res.ok => Made(res.reg, KeyRegistration(k), highRef')
      BY <1>3 DEF Made, KeyRegistration
    <2>5. res.ok => acks[KeyRegistration(k).key] = 0
      BY <1>3, <2>3, UnrecordedIsNew DEF KeyRegistration
    <2> QED
      BY <1>2, <1>3, <2>1, <2>2, <2>4, <2>5, RegisterInd
  <1>4. ASSUME NEW s \in SessionIds, CallSession(h, s, t) PROVE IndInv'
    <2>1. SessionKey(s) \in Keys
      BY DEF Keys
    <2> QED BY <1>1, <1>3, <1>4, <2>1, SessionFacts DEF CallSession
  <1>5. ASSUME NEW s \in SessionIds, NEW c \in Commitments,
               CallCommitment(h, s, c, t)
        PROVE  IndInv'
    <2>1. CommitmentKey(c) \in Keys
      BY DEF Keys
    <2> QED BY <1>1, <1>3, <1>5, <2>1, CommitmentFacts DEF CallCommitment
  <1>6. ASSUME NEW x \in TranscriptHashes, CallTranscript(h, x, t) PROVE IndInv'
    <2>1. TranscriptKey(x) \in Keys
      BY DEF Keys
    <2> QED BY <1>1, <1>3, <1>6, <2>1, TranscriptFacts DEF CallTranscript
  <1>7. ASSUME NEW id \in ContractIds, NEW lease \in Leases,
               CallContract(h, id, lease, t)
        PROVE  IndInv'
    <2> DEFINE res == RegisterContract(mem[h], id, lease, t)
               registration == LeaseRegistration(id, lease)
    <2>1. /\ res.reg \in Images /\ res.ok \in BOOLEAN
          /\ ~ActiveAt(lease, t) => res.reg = mem[h] /\ ~res.ok
          /\ ActiveAt(lease, t) => Keeps(res.reg, mem[h], t)
          /\ res.ok => /\ id \in DOMAIN res.reg.contracts
                       /\ res.reg.contracts[id] = lease
      BY <1>1, ContractFacts
    <2>2. /\ Register(h, res, registration)
          /\ highRef' = IF ActiveAt(lease, t) THEN Later(t) ELSE highRef
      BY <1>7 DEF CallContract
    <2>3. registration \in Registrations /\ registration.kind # "key"
      BY DEF LeaseRegistration, Registrations, LeaseRegistrations
    <2>4. res.ok => Made(res.reg, registration, highRef')
      BY <2>1 DEF Made, LeaseRegistration
    <2> HIDE DEF res, registration
    <2>5. highRef' \in Times /\ highRef <= highRef'
      BY <1>2, <2>2 DEF IndInv, TypeOK, Times
    <2>6. Keeps(res.reg, mem[h], highRef')
      BY <1>1, <1>2, <2>1, <2>2, KeepsLater, KeepsSelf
    <2> QED
      BY <2>1, <2>2, <2>3, <2>4, <2>5, <2>6, RegisterInd
  <1> QED BY <1>4, <1>5, <1>6, <1>7 DEF Call

(* open(tmp, "w") truncates the temporary file.                            *)
LEMMA OpenInd ==
    ASSUME OneHandle, IndInv, NEW h \in Handles, OpenTmp(h)
    PROVE  IndInv'
  <1>1. /\ pc[h] = "open"
        /\ tmp' = Torn
        /\ fd' = [fd EXCEPT ![h] = "tmp"]
        /\ pc' = [pc EXCEPT ![h] = "write"]
        /\ UNCHANGED <<file, mem, pending, acks, grants, highRef, failures>>
    BY DEF OpenTmp
  <1>2. TypeOK'
    BY <1>1 DEF IndInv, TypeOK, Steps
  <1>3. /\ \A g \in Handles : g = h
        /\ pc'[h] = "write" /\ fd'[h] = "tmp"
    BY <1>1 DEF OneHandle, IndInv, TypeOK
  <1>4. MemoryKeepsFile'
    BY <1>1, <1>3 DEF IndInv, MemoryKeepsFile, Keeps
  <1>5. Publishing'
    BY <1>1, <1>3 DEF Publishing
  <1>6. PendingIsNew'
    BY <1>1, <1>3 DEF IndInv, PendingIsNew, Flushing, Made, Recorded
  <1>7. AcknowledgedIsDurable'
    BY <1>1 DEF IndInv, AcknowledgedIsDurable, Recorded
  <1> QED BY <1>2, <1>4, <1>5, <1>6, <1>7 DEF IndInv

(* The write fills the truncated file with the handle's tables.            *)
LEMMA WriteInd ==
    ASSUME OneHandle, IndInv, NEW h \in Handles, WriteTmp(h)
    PROVE  IndInv'
  <1>1. pc[h] = "write" /\ fd[h] = "tmp" /\ tmp = Torn
    BY DEF WriteTmp, IndInv, Publishing
  <1>2. /\ tmp' = mem[h]
        /\ fd' = [fd EXCEPT ![h] = "none"]
        /\ pc' = [pc EXCEPT ![h] = "replace"]
        /\ UNCHANGED <<file, mem, pending, acks, grants, highRef, failures>>
    BY <1>1 DEF WriteTmp, Written
  <1>3. TypeOK'
    BY <1>2 DEF IndInv, TypeOK, Steps
  <1>4. /\ \A g \in Handles : g = h
        /\ pc'[h] = "replace" /\ fd'[h] = "none"
    BY <1>2 DEF OneHandle, IndInv, TypeOK
  <1>5. MemoryKeepsFile'
    BY <1>1, <1>2, <1>4 DEF IndInv, MemoryKeepsFile, Keeps
  <1>6. Publishing'
    BY <1>2, <1>4 DEF Publishing
  <1>7. PendingIsNew'
    BY <1>1, <1>2, <1>4 DEF IndInv, PendingIsNew, Flushing, Made, Recorded
  <1>8. AcknowledgedIsDurable'
    BY <1>2 DEF IndInv, AcknowledgedIsDurable, Recorded
  <1> QED BY <1>3, <1>5, <1>6, <1>7, <1>8 DEF IndInv

(* What os.replace does when there is one handle: the file becomes the     *)
(* handle's tables, which keep all it held, and the registration among     *)
(* them is acknowledged.                                                   *)
LEMMA ReplaceFacts ==
    ASSUME OneHandle, IndInv, NEW h \in Handles, Replace(h)
    PROVE  /\ pc[h] = "replace"
           /\ file' = mem[h] /\ mem[h] \in Images /\ tmp' = Absent
           /\ file # Absent => file \in Images /\ Keeps(mem[h], file, highRef)
           /\ pending[h] \in Registrations \cup {NoRegistration}
           /\ Made(mem[h], pending[h], highRef)
           /\ pending[h].kind = "key" => acks[pending[h].key] = 0
           /\ Acknowledge(pending[h])
           /\ pc' = [pc EXCEPT ![h] = "idle"]
           /\ pending' = [pending EXCEPT ![h] = NoRegistration]
           /\ fd' = [g \in Handles |-> Renamed(fd[g])]
           /\ UNCHANGED <<mem, highRef, failures>>
  <1>1. pc[h] = "replace" /\ tmp = mem[h] /\ mem[h] \in Images
    BY DEF Replace, IndInv, TypeOK, Publishing
  <1>2. tmp # Absent
    BY <1>1, ContentAssumption
  <1>3. /\ file' = tmp /\ tmp' = Absent /\ Acknowledge(pending[h])
        /\ pc' = [pc EXCEPT ![h] = "idle"]
        /\ pending' = [pending EXCEPT ![h] = NoRegistration]
        /\ fd' = [g \in Handles |-> Renamed(fd[g])]
        /\ UNCHANGED <<mem, highRef, failures>>
    BY <1>2 DEF Replace
  <1>4. file # Absent => file \in Images /\ Keeps(mem[h], file, highRef)
    BY <1>1 DEF IndInv, TypeOK, MemoryKeepsFile
  <1>5. /\ pending[h] \in Registrations \cup {NoRegistration}
        /\ Made(mem[h], pending[h], highRef)
        /\ pending[h].kind = "key" => acks[pending[h].key] = 0
    BY <1>1 DEF IndInv, TypeOK, PendingIsNew, Flushing
  <1> QED BY <1>1, <1>3, <1>4, <1>5

(* The acknowledgement counts a key for the first time or appends a lease. *)
LEMMA AcknowledgeFacts ==
    ASSUME TypeOK, NEW r \in Registrations \cup {NoRegistration}, Acknowledge(r)
    PROVE  \/ /\ r = NoRegistration
              /\ acks' = acks /\ grants' = grants
           \/ /\ r \in KeyRegistrations
              /\ acks' = [acks EXCEPT ![r.key] = @ + 1] /\ grants' = grants
           \/ /\ r \in LeaseRegistrations /\ acks' = acks
              /\ grants' = Append(grants, [id |-> r.id, lease |-> r.lease])
  <1>1. CASE r = NoRegistration
    BY <1>1 DEF Acknowledge, NoRegistration
  <1>2. CASE r \in KeyRegistrations
    BY <1>2 DEF Acknowledge, KeyRegistrations
  <1>3. CASE r \in LeaseRegistrations
    BY <1>3 DEF Acknowledge, LeaseRegistrations
  <1> QED BY <1>1, <1>2, <1>3 DEF Registrations

LEMMA ReplaceInd ==
    ASSUME OneHandle, IndInv, NEW h \in Handles, Replace(h)
    PROVE  IndInv'
  <1> DEFINE r == pending[h]
  <1>1. /\ pc[h] = "replace"
        /\ file' = mem[h] /\ mem[h] \in Images /\ tmp' = Absent
        /\ file # Absent => file \in Images /\ Keeps(mem[h], file, highRef)
        /\ r \in Registrations \cup {NoRegistration}
        /\ Made(mem[h], r, highRef)
        /\ r.kind = "key" => acks[r.key] = 0
        /\ Acknowledge(r)
        /\ pc' = [pc EXCEPT ![h] = "idle"]
        /\ pending' = [pending EXCEPT ![h] = NoRegistration]
        /\ fd' = [g \in Handles |-> Renamed(fd[g])]
        /\ UNCHANGED <<mem, highRef, failures>>
    BY ReplaceFacts
  <1>2. \/ r = NoRegistration /\ acks' = acks /\ grants' = grants
        \/ /\ r \in KeyRegistrations
           /\ acks' = [acks EXCEPT ![r.key] = @ + 1] /\ grants' = grants
        \/ /\ r \in LeaseRegistrations /\ acks' = acks
           /\ grants' = Append(grants, [id |-> r.id, lease |-> r.lease])
    BY <1>1, AcknowledgeFacts DEF IndInv
  <1> HIDE DEF r
  <1>3. /\ \A g \in Handles : g = h
        /\ pc'[h] = "idle" /\ fd'[h] = "none"
    BY <1>1 DEF OneHandle, IndInv, TypeOK, Publishing, Renamed
  <1>4. TypeOK'
    <2>1. acks' \in [Keys -> {0, 1}]
      BY <1>1, <1>2 DEF IndInv, TypeOK, KeyRegistrations
    <2>2. grants' \in Seq(Grants)
      <3>1. r \in LeaseRegistrations => [id |-> r.id, lease |-> r.lease] \in Grants
        BY DEF LeaseRegistrations, Grants
      <3> QED BY <1>2, <3>1 DEF IndInv, TypeOK
    <2>3. fd' \in [Handles -> {"none", "tmp"}]
      BY <1>1, <1>3
    <2> QED
      BY <1>1, <2>1, <2>2, <2>3 DEF IndInv, TypeOK, Steps
  <1>5. MemoryKeepsFile'
    BY <1>1, <1>3, KeepsSelf DEF MemoryKeepsFile
  <1>6. Publishing' /\ PendingIsNew'
    BY <1>3 DEF Publishing, PendingIsNew, Flushing
  <1>7. file' # Torn /\ file' # Absent
    BY <1>1, ContentAssumption
  <1>8. ASSUME NEW k \in Keys, acks'[k] > 0 PROVE Recorded(mem[h], k)
    <2>1. CASE acks[k] > 0
      BY <1>1, <2>1, KeepsRecorded DEF IndInv, AcknowledgedIsDurable
    <2>2. CASE ~(acks[k] > 0)
      <3>1. r \in KeyRegistrations /\ r.key = k
        BY <1>2, <1>8, <2>2 DEF IndInv, TypeOK
      <3> QED BY <1>1, <3>1 DEF Made, KeyRegistrations
    <2> QED BY <2>1, <2>2
  <1>9. ASSUME NEW i \in DOMAIN grants', grants'[i].lease.expires > highRef
        PROVE  /\ grants'[i].id \in DOMAIN mem[h].contracts
               /\ mem[h].contracts[grants'[i].id] = grants'[i].lease
    <2>1. CASE i \in DOMAIN grants /\ grants'[i] = grants[i]
      <3>1. /\ file # Absent
            /\ grants[i].id \in DOMAIN file.contracts
            /\ file.contracts[grants[i].id] = grants[i].lease
        BY <1>9, <2>1 DEF IndInv, AcknowledgedIsDurable
      <3> QED BY <1>1, <1>9, <2>1, <3>1 DEF Keeps
    <2>2. CASE /\ r \in LeaseRegistrations
               /\ grants'[i] = [id |-> r.id, lease |-> r.lease]
      BY <1>1, <1>9, <2>2 DEF Made, LeaseRegistrations
    <2>3. \/ i \in DOMAIN grants /\ grants'[i] = grants[i]
          \/ /\ r \in LeaseRegistrations
             /\ grants'[i] = [id |-> r.id, lease |-> r.lease]
      <3>1. CASE grants' = grants
        BY <3>1
      <3>2. CASE /\ r \in LeaseRegistrations
                 /\ grants' = Append(grants, [id |-> r.id, lease |-> r.lease])
        BY <3>2, AppendProperties DEF IndInv, TypeOK, LeaseRegistrations
      <3> QED BY <1>2, <3>1, <3>2
    <2> QED BY <2>1, <2>2, <2>3
  <1>10. AcknowledgedIsDurable'
    BY <1>1, <1>7, <1>8, <1>9 DEF AcknowledgedIsDurable, Recorded
  <1> QED BY <1>4, <1>5, <1>6, <1>10 DEF IndInv

(* A failed open, write or rename leaves the file alone and the tables in  *)
(* memory ahead of it.                                                     *)
LEMMA FlushFailsInd ==
    ASSUME OneHandle, IndInv, NEW h \in Handles, FlushFails(h)
    PROVE  IndInv'
  <1>1. /\ pc[h] \in Flushing
        /\ pc' = [pc EXCEPT ![h] = "idle"]
        /\ fd' = [fd EXCEPT ![h] = "none"]
        /\ pending' = [pending EXCEPT ![h] = NoRegistration]
        /\ UNCHANGED <<file, tmp, mem, acks, grants, highRef>>
    BY DEF FlushFails, Flushing
  <1>2. TypeOK'
    BY <1>1 DEF IndInv, TypeOK, Steps
  <1>3. /\ \A g \in Handles : g = h
        /\ pc'[h] = "idle" /\ fd'[h] = "none"
    BY <1>1 DEF OneHandle, IndInv, TypeOK
  <1>4. MemoryKeepsFile'
    BY <1>1, <1>3 DEF IndInv, MemoryKeepsFile, Keeps, Flushing
  <1>5. Publishing' /\ PendingIsNew'
    BY <1>3 DEF Publishing, PendingIsNew, Flushing
  <1>6. AcknowledgedIsDurable'
    BY <1>1 DEF IndInv, AcknowledgedIsDurable, Recorded
  <1> QED BY <1>2, <1>4, <1>5, <1>6 DEF IndInv

(* A crash loses the tables in memory, and nothing that was acknowledged.  *)
LEMMA CrashInd ==
    ASSUME OneHandle, IndInv, NEW h \in Handles, Crash(h)
    PROVE  IndInv'
  <1>1. /\ pc' = [pc EXCEPT ![h] = "closed"]
        /\ fd' = [fd EXCEPT ![h] = "none"]
        /\ pending' = [pending EXCEPT ![h] = NoRegistration]
        /\ mem' = [mem EXCEPT ![h] = EmptyRegistry]
        /\ UNCHANGED <<file, tmp, acks, grants, highRef>>
    BY DEF Crash
  <1>2. EmptyRegistry \in Images
    BY EmptyIsImage
  <1>3. TypeOK'
    BY <1>1, <1>2 DEF IndInv, TypeOK, Steps
  <1>4. /\ \A g \in Handles : g = h
        /\ pc'[h] = "closed" /\ fd'[h] = "none"
    BY <1>1 DEF OneHandle, IndInv, TypeOK
  <1>5. MemoryKeepsFile' /\ Publishing' /\ PendingIsNew'
    BY <1>4 DEF MemoryKeepsFile, Publishing, PendingIsNew, Flushing
  <1>6. AcknowledgedIsDurable'
    BY <1>1 DEF IndInv, AcknowledgedIsDurable, Recorded
  <1> QED BY <1>3, <1>5, <1>6 DEF IndInv

-----------------------------------------------------------------------------

(* With one handle the invariant holds in every state: the tables in       *)
(* memory keep what the file holds, a rename publishes exactly those       *)
(* tables, and what is being published was never acknowledged.             *)
THEOREM AlwaysIndInv == ASSUME OneHandle PROVE Spec => []IndInv
  <1>1. Init => IndInv
    BY InitInd
  <1>2. IndInv /\ [Next]_vars => IndInv'
    <2> SUFFICES ASSUME IndInv, [Next]_vars PROVE IndInv'
      OBVIOUS
    <2>1. CASE UNCHANGED vars
      BY <2>1, StutterInd
    <2>2. CASE Next
      BY <2>2, ConstructInd, CallInd, OpenInd, WriteInd, ReplaceInd,
         FlushFailsInd, CrashInd DEF Next
    <2> QED BY <2>1, <2>2
  <1> QED BY <1>1, <1>2, PTL DEF Spec

(* With one handle, whatever crashes and failed writes come after it, a    *)
(* registration that returned to its caller is in the file, a lease until  *)
(* some operation has worked with a time at which it is over.              *)
THEOREM AcknowledgedStays == ASSUME OneHandle PROVE Spec => []AcknowledgedIsDurable
  <1>1. IndInv => AcknowledgedIsDurable
    BY DEF IndInv
  <1> QED BY <1>1, AlwaysIndInv, PTL

(* With one handle the file, once it is there, never goes away, is never   *)
(* torn, and never forgets a session, a commitment or a transcript.        *)
THEOREM FileIsPermanent == ASSUME OneHandle PROVE Spec => FileNeverForgets
  <1> DEFINE A == file \notin {Absent, Torn} =>
                    /\ file' \notin {Absent, Torn}
                    /\ file.sessions \subseteq file'.sessions
                    /\ file.transcripts \subseteq file'.transcripts
                    /\ \A c \in DOMAIN file.commitments :
                          /\ c \in DOMAIN file'.commitments
                          /\ file'.commitments[c] = file.commitments[c]
  <1>1. IndInv /\ [Next]_vars => [A]_vars
    <2> SUFFICES ASSUME IndInv, Next PROVE A
      OBVIOUS
    <2>1. PICK h \in Handles : \/ Construct(h)
                               \/ \E t \in Times : Call(h, t)
                               \/ OpenTmp(h) \/ WriteTmp(h) \/ Replace(h)
                               \/ FlushFails(h) \/ Crash(h)
      BY DEF Next
    <2>2. CASE file' = file
      BY <2>2
    <2>3. CASE Replace(h)
      <3>1. file' = mem[h] /\ mem[h] \in Images
            /\ (file # Absent => Keeps(mem[h], file, highRef))
        BY <2>3, ReplaceFacts
      <3> QED BY <3>1, ContentAssumption DEF Keeps
    <2>4. ~Replace(h) => file' = file
      <3>1. ASSUME NEW t \in Times, Call(h, t) PROVE file' = file
        BY <3>1 DEF Call, CallSession, CallCommitment, CallTranscript,
                    CallContract, Register
      <3>2. WriteTmp(h) => file' = file
        BY DEF WriteTmp, IndInv, Publishing
      <3> QED BY <2>1, <3>1, <3>2 DEF Construct, OpenTmp, FlushFails, Crash
    <2> QED BY <2>2, <2>3, <2>4
  <1> QED BY <1>1, AlwaysIndInv, PTL DEF Spec, FileNeverForgets

(* With one handle the file registry implements the abstract registry: it  *)
(* acknowledges each key at most once, for ever, across crashes.           *)
THEOREM RefinesOneTimeUse == ASSUME OneHandle PROVE Spec => AcceptsEachKeyOnce
  <1>1. Init => Promise!Init
    BY DEF Init, Promise!Init
  <1>2. IndInv /\ [Next]_vars => [Promise!Next]_acks
    <2> SUFFICES ASSUME IndInv, [Next]_vars, acks' # acks PROVE Promise!Next
      OBVIOUS
    <2>1. PICK h \in Handles : Replace(h)
      <3>1. \A h \in Handles, t \in Times : Call(h, t) => acks' = acks
        BY DEF Call, CallSession, CallCommitment, CallTranscript,
               CallContract, Register
      <3> QED BY <3>1 DEF Next, vars, Construct, OpenTmp, WriteTmp,
                          FlushFails, Crash
    <2> DEFINE r == pending[h]
    <2>2. /\ r \in Registrations \cup {NoRegistration}
          /\ r.kind = "key" => acks[r.key] = 0
          /\ Acknowledge(r)
      BY <2>1, ReplaceFacts
    <2>3. r \in KeyRegistrations /\ acks' = [acks EXCEPT ![r.key] = @ + 1]
      BY <2>2, AcknowledgeFacts DEF IndInv
    <2> HIDE DEF r
    <2>4. r.key \in Keys /\ acks[r.key] = 0
      BY <2>2, <2>3 DEF KeyRegistrations
    <2>5. acks' = [acks EXCEPT ![r.key] = 1]
      BY <2>3, <2>4 DEF IndInv, TypeOK
    <2> QED BY <2>4, <2>5 DEF Promise!Next, Promise!Use
  <1> QED BY <1>1, <1>2, AlwaysIndInv, PTL DEF Spec, AcceptsEachKeyOnce, Promise!Spec
=============================================================================

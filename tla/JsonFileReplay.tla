--------------------------- MODULE JsonFileReplay ---------------------------
(***************************************************************************)
(* JsonFileReplayRegistry: registries ("handles") that keep a copy of the  *)
(* tables in memory and publish it after every successful operation by     *)
(* writing .<name>.tmp and renaming it over <name>.                        *)
(*                                                                         *)
(* An operation takes the steps the operating system sees: the in-memory   *)
(* change, open(tmp, "w"), write and close, os.replace.  The process that  *)
(* holds a handle may die between any two of them and a write may fail.    *)
(* The two paths hold a registry image, Torn (truncated or mixed text that *)
(* json.loads rejects) or Absent.                                          *)
(***************************************************************************)
EXTENDS ReplayRegistry, Sequences

CONSTANTS
    Handles,
    SessionIds, Commitments, TranscriptHashes, ContractIds,
    Absent, Torn,
    MaxTime,    \* bound on the times callers supply
    MaxGrants,  \* bound on acknowledged contract registrations
    MaxFailures \* bound on the writes that fail

ASSUME BoundsAssumption ==
    /\ MaxTime \in Nat
    /\ MaxGrants \in Nat
    /\ MaxFailures \in Nat

Times  == 0..MaxTime
Leases == {l \in [issued : Times, expires : Times] : l.issued < l.expires}

(* A key is a string together with the table it is kept in: the same       *)
(* string in two tables is two keys.                                       *)
SessionKey(s)    == [table |-> "sessions", key |-> s]
CommitmentKey(c) == [table |-> "commitments", key |-> c]
TranscriptKey(x) == [table |-> "transcripts", key |-> x]

Keys == {SessionKey(s) : s \in SessionIds}
            \cup {CommitmentKey(c) : c \in Commitments}
            \cup {TranscriptKey(x) : x \in TranscriptHashes}

(* The table of its kind in an image holds the key.                        *)
Recorded(image, k) ==
    \/ k.table = "sessions"    /\ k.key \in image.sessions
    \/ k.table = "commitments" /\ k.key \in DOMAIN image.commitments
    \/ k.table = "transcripts" /\ k.key \in image.transcripts

(* What json.dumps writes and json.loads reads back: a registry's tables.  *)
Images ==
    [sessions    : SUBSET SessionIds,
     commitments : Dicts(Commitments, SessionIds),
     transcripts : SUBSET TranscriptHashes,
     contracts   : Dicts(ContractIds, Leases)]

(* No file and torn text are told apart from each other and from an image. *)
ASSUME ContentAssumption ==
    /\ Absent # Torn
    /\ Absent \notin Images
    /\ Torn \notin Images

VARIABLES
    file,     \* what <name> holds
    tmp,      \* what .<name>.tmp holds
    mem,      \* handle -> its in-memory tables
    pc,       \* handle -> closed | idle | open | write | replace
    fd,       \* handle -> the path its open descriptor now has: tmp | file | none
    pending,  \* handle -> the registration being published
    acks,     \* history: key -> number of registrations that returned
    grants,   \* history: contract registrations that returned
    highRef,  \* history: the latest time an operation has worked with
    failures  \* number of failed writes so far

vars == <<file, tmp, mem, pc, fd, pending, acks, grants, highRef, failures>>

NoRegistration == [kind |-> "none"]
KeyRegistration(k) == [kind |-> "key", key |-> k]
LeaseRegistration(id, lease) == [kind |-> "contract", id |-> id, lease |-> lease]

Init ==
    /\ file = Absent
    /\ tmp = Absent
    /\ mem = [h \in Handles |-> EmptyRegistry]
    /\ pc = [h \in Handles |-> "closed"]
    /\ fd = [h \in Handles |-> "none"]
    /\ pending = [h \in Handles |-> NoRegistration]
    /\ acks = [k \in Keys |-> 0]
    /\ grants = <<>>
    /\ highRef = 0
    /\ failures = 0

Later(t) == IF t > highRef THEN t ELSE highRef

(* Mutant: a new handle starts empty instead of reading the file.          *)
ConstructEmpty(h) ==
    /\ pc[h] = "closed"
    /\ file # Torn
    /\ mem' = [mem EXCEPT ![h] = EmptyRegistry]
    /\ pc' = [pc EXCEPT ![h] = "idle"]
    /\ UNCHANGED <<file, tmp, fd, pending, acks, grants, highRef, failures>>

(* JsonFileReplayRegistry(path); json.loads raises on torn text, and no    *)
(* handle exists then.                                                     *)
Construct(h) ==
    /\ pc[h] = "closed"
    /\ file # Torn
    /\ mem' = [mem EXCEPT ![h] = IF file = Absent THEN EmptyRegistry ELSE file]
    /\ pc' = [pc EXCEPT ![h] = "idle"]
    /\ UNCHANGED <<file, tmp, fd, pending, acks, grants, highRef, failures>>

(* Mutant: a registration that raises is flushed and acknowledged too.     *)
RegisterIgnoringRaise(h, result, registration) ==
    /\ pc[h] = "idle"
    /\ mem' = [mem EXCEPT ![h] = result.reg]
    /\ pc' = [pc EXCEPT ![h] = "open"]
    /\ pending' = [pending EXCEPT ![h] = registration]
    /\ UNCHANGED <<file, tmp, fd, acks, grants, failures>>

(* super().register_*: on a raise the purge stays in memory and nothing is *)
(* published; otherwise _flush begins.                                     *)
Register(h, result, registration) ==
    /\ pc[h] = "idle"
    /\ mem' = [mem EXCEPT ![h] = result.reg]
    /\ IF result.ok
       THEN /\ pc' = [pc EXCEPT ![h] = "open"]
            /\ pending' = [pending EXCEPT ![h] = registration]
       ELSE UNCHANGED <<pc, pending>>
    /\ UNCHANGED <<file, tmp, fd, acks, grants, failures>>

CallSession(h, s, t) ==
    /\ Register(h, RegisterSession(mem[h], s, t), KeyRegistration(SessionKey(s)))
    /\ highRef' = Later(t)

CallCommitment(h, s, c, t) ==
    /\ Register(h, RegisterCommitment(mem[h], s, c, t),
                KeyRegistration(CommitmentKey(c)))
    /\ highRef' = Later(t)

CallTranscript(h, x, t) ==
    /\ Register(h, RegisterTranscript(mem[h], x, t),
                KeyRegistration(TranscriptKey(x)))
    /\ highRef' = Later(t)

CallContract(h, id, lease, t) ==
    /\ Len(grants) < MaxGrants
    /\ Register(h, RegisterContract(mem[h], id, lease, t),
                LeaseRegistration(id, lease))
    /\ highRef' = IF ActiveAt(lease, t) THEN Later(t) ELSE highRef

(* Mutant: the image is written in place, without the temporary file.      *)
OpenInPlace(h) ==
    /\ pc[h] = "open"
    /\ file' = Torn
    /\ tmp' = Torn
    /\ fd' = [fd EXCEPT ![h] = "file"]
    /\ pc' = [pc EXCEPT ![h] = "write"]
    /\ UNCHANGED <<mem, pending, acks, grants, highRef, failures>>

(* tmp.write_text opens with "w": whatever was there is truncated.         *)
OpenTmp(h) ==
    /\ pc[h] = "open"
    /\ tmp' = Torn
    /\ fd' = [fd EXCEPT ![h] = "tmp"]
    /\ pc' = [pc EXCEPT ![h] = "write"]
    /\ UNCHANGED <<file, mem, pending, acks, grants, highRef, failures>>

(* What a path holds after an image is written over it from offset 0: over *)
(* other text (two descriptors on one file) the longer tail may survive.   *)
Written(old, image) == IF old = Torn THEN {image} ELSE {image, Torn}

(* The write goes to the file the descriptor refers to, under whatever     *)
(* name another handle's rename has given it since.                        *)
WriteTmp(h) ==
    /\ pc[h] = "write"
    /\ IF fd[h] = "tmp"  THEN tmp' \in Written(tmp, mem[h]) ELSE UNCHANGED tmp
    /\ IF fd[h] = "file" THEN file' \in Written(file, mem[h]) ELSE UNCHANGED file
    /\ fd' = [fd EXCEPT ![h] = "none"]
    /\ pc' = [pc EXCEPT ![h] = "replace"]
    /\ UNCHANGED <<mem, pending, acks, grants, highRef, failures>>

(* The caller is told the registration was made.                           *)
Acknowledge(r) ==
    /\ acks' = IF r.kind = "key" THEN [acks EXCEPT ![r.key] = @ + 1] ELSE acks
    /\ grants' = IF r.kind = "contract"
                 THEN Append(grants, [id |-> r.id, lease |-> r.lease])
                 ELSE grants

(* A rename moves the file under the descriptors that are open on it.      *)
Renamed(path) == IF path = "tmp"  THEN "file"   ELSE
                 IF path = "file" THEN "orphan" ELSE path

(* os.replace(tmp, path) and the return to the caller, or FileNotFoundError *)
(* when another handle has renamed the temporary file away.                 *)
Replace(h) ==
    /\ pc[h] = "replace"
    /\ pc' = [pc EXCEPT ![h] = "idle"]
    /\ pending' = [pending EXCEPT ![h] = NoRegistration]
    /\ IF tmp = Absent
       THEN UNCHANGED <<file, tmp, fd, acks, grants>>
       ELSE /\ file' = tmp
            /\ tmp' = Absent
            /\ fd' = [g \in Handles |-> Renamed(fd[g])]
            /\ Acknowledge(pending[h])
    /\ UNCHANGED <<mem, highRef, failures>>

(* open, write or rename raises (a full disk, say): the operation raises,  *)
(* but the in-memory tables keep the registration.                         *)
FlushFails(h) ==
    /\ pc[h] \in {"open", "write", "replace"}
    /\ failures < MaxFailures
    /\ failures' = failures + 1
    /\ pc' = [pc EXCEPT ![h] = "idle"]
    /\ fd' = [fd EXCEPT ![h] = "none"]
    /\ pending' = [pending EXCEPT ![h] = NoRegistration]
    /\ UNCHANGED <<file, tmp, mem, acks, grants, highRef>>

(* The process dies; a half-written temporary file stays behind.           *)
Crash(h) ==
    /\ pc[h] # "closed"
    /\ pc' = [pc EXCEPT ![h] = "closed"]
    /\ fd' = [fd EXCEPT ![h] = "none"]
    /\ pending' = [pending EXCEPT ![h] = NoRegistration]
    /\ mem' = [mem EXCEPT ![h] = EmptyRegistry]
    /\ UNCHANGED <<file, tmp, acks, grants, highRef, failures>>

Call(h, t) ==
    \/ \E s \in SessionIds : CallSession(h, s, t)
    \/ \E s \in SessionIds, c \in Commitments : CallCommitment(h, s, c, t)
    \/ \E x \in TranscriptHashes : CallTranscript(h, x, t)
    \/ \E id \in ContractIds, lease \in Leases : CallContract(h, id, lease, t)

Next ==
    \E h \in Handles :
        \/ Construct(h)
        \/ \E t \in Times : Call(h, t)
        \/ OpenTmp(h)
        \/ WriteTmp(h)
        \/ Replace(h)
        \/ FlushFails(h)
        \/ Crash(h)

Spec == Init /\ [][Next]_vars

-----------------------------------------------------------------------------

(* A registration that returned to its caller is in the file, whatever     *)
(* crashes or failed writes came after it, a lease until some operation has *)
(* worked with a time at which it is over; the file is never torn.         *)
AcknowledgedIsDurable ==
    /\ file # Torn
    /\ \A k \in Keys : acks[k] > 0 => file # Absent /\ Recorded(file, k)
    /\ \A i \in DOMAIN grants : grants[i].lease.expires > highRef =>
          /\ file # Absent
          /\ grants[i].id \in DOMAIN file.contracts
          /\ file.contracts[grants[i].id] = grants[i].lease

(* The published file never forgets a session, commitment or transcript:   *)
(* each image that replaces it was loaded from it and only added keys.     *)
FileNeverForgets ==
    [][file \notin {Absent, Torn} =>
          /\ file' \notin {Absent, Torn}
          /\ file.sessions \subseteq file'.sessions
          /\ file.transcripts \subseteq file'.transcripts
          /\ \A c \in DOMAIN file.commitments :
                /\ c \in DOMAIN file'.commitments
                /\ file'.commitments[c] = file.commitments[c]]_vars

Promise == INSTANCE OneTimeUse WITH uses <- acks

(* Every behaviour of the file registry is one of the abstract registry    *)
(* that accepts each key at most once.                                     *)
AcceptsEachKeyOnce == Promise!Spec
=============================================================================

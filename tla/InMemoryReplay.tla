--------------------------- MODULE InMemoryReplay ---------------------------
(***************************************************************************)
(* One InMemoryReplayRegistry object used by any number of callers.  Every *)
(* operation takes the time it works with as an argument ("Core protocol   *)
(* logic does not read the wall clock"), so here each call supplies any    *)
(* time at all, in any order: a caller may replay a historical fixture     *)
(* after another caller has registered something much later.               *)
(***************************************************************************)
EXTENDS ReplayRegistry, Sequences

CONSTANTS
    SessionIds, Commitments, TranscriptHashes, ContractIds,
    MaxTime,   \* bound on the times callers supply
    MaxGrants  \* bound on the contract registrations of one behaviour

ASSUME BoundsAssumption == MaxTime \in Nat /\ MaxGrants \in Nat

Times  == 0..MaxTime
Leases == [issued : Times, expires : Times]

VARIABLES
    reg,      \* the registry's state
    highRef,  \* history: the latest time any operation has worked with
    grants    \* history: the contract registrations that returned, in order

vars == <<reg, highRef, grants>>

Grants == [id : ContractIds, lease : Leases, at : Times, high : Times]

RegistryType ==
    [sessions    : SUBSET SessionIds,
     commitments : Dicts(Commitments, SessionIds),
     transcripts : SUBSET TranscriptHashes,
     contracts   : Dicts(ContractIds, Leases)]

(* The registry's four tables hold keys and values of their own kind only. *)
TypeOK ==
    /\ reg \in RegistryType
    /\ highRef \in Times
    /\ grants \in Seq(Grants)

Init ==
    /\ reg = EmptyRegistry
    /\ highRef = 0
    /\ grants = <<>>

Later(t) == IF t > highRef THEN t ELSE highRef

CallSession(s, t) ==
    /\ reg' = RegisterSession(reg, s, t).reg
    /\ highRef' = Later(t)
    /\ UNCHANGED grants

CallCommitment(s, c, t) ==
    /\ reg' = RegisterCommitment(reg, s, c, t).reg
    /\ highRef' = Later(t)
    /\ UNCHANGED grants

CallTranscript(h, t) ==
    /\ reg' = RegisterTranscript(reg, h, t).reg
    /\ highRef' = Later(t)
    /\ UNCHANGED grants

CallContract(id, lease, t) ==
    LET result == RegisterContract(reg, id, lease, t) IN
    /\ Len(grants) < MaxGrants
    /\ reg' = result.reg
    /\ highRef' = IF ActiveAt(lease, t) THEN Later(t) ELSE highRef
    /\ grants' = IF result.ok
                 THEN Append(grants, [id |-> id, lease |-> lease,
                                      at |-> t, high |-> Later(t)])
                 ELSE grants

Next ==
    \E t \in Times :
        \/ \E s \in SessionIds : CallSession(s, t)
        \/ \E s \in SessionIds, c \in Commitments : CallCommitment(s, c, t)
        \/ \E h \in TranscriptHashes : CallTranscript(h, t)
        \/ \E id \in ContractIds, lease \in Leases : CallContract(id, lease, t)

Spec == Init /\ [][Next]_vars

-----------------------------------------------------------------------------

(* What register_contract promises for ANY times its callers supply: a     *)
(* contract ID is registered a second time only after some operation has   *)
(* worked with a time at or past the end of the first lease.  Callers that *)
(* never go back in time therefore never activate one ID twice within a    *)
(* lease; callers that mix historical and current times have only this.    *)
NoEarlyReplay ==
    \A i, j \in 1..Len(grants) :
        i < j /\ grants[i].id = grants[j].id
            => grants[i].lease.expires <= grants[j].high

(* A registration that went through was made inside its own lease, and the *)
(* lease is still on record until an operation works with a time past it:  *)
(* the purge of one caller never drops a lease that is live at every time  *)
(* supplied so far.                                                        *)
LiveLeaseOnRecord ==
    \A i \in 1..Len(grants) :
        /\ ActiveAt(grants[i].lease, grants[i].at)
        /\ grants[i].lease.expires > highRef
               => /\ grants[i].id \in DOMAIN reg.contracts
                  /\ reg.contracts[grants[i].id] = grants[i].lease

(* Session IDs and transcript hashes are never forgotten and a commitment  *)
(* never changes hands, whatever is purged around them, so a replay of any *)
(* of them is rejected for ever.                                           *)
ReplayMemoryIsPermanent ==
    [][/\ reg.sessions \subseteq reg'.sessions
       /\ reg.transcripts \subseteq reg'.transcripts
       /\ \A c \in DOMAIN reg.commitments :
              /\ c \in DOMAIN reg'.commitments
              /\ reg'.commitments[c] = reg.commitments[c]]_vars
=============================================================================

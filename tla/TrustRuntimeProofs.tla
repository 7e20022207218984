------------------------- MODULE TrustRuntimeProofs -------------------------
(***************************************************************************)
(* What the gate, the TLS executor and the task protocol guarantee for any *)
(* number of runtimes, sessions and profiles, any clock bound, and         *)
(* whatever contracts and requests are presented.                          *)
(*                                                                         *)
(* Core is the inductive invariant.  Two live leases are excluded by the   *)
(* registry only because the lease of an authorization stays on record     *)
(* until it is over (LiveLeaseOnRecord); that a task is agreed rests on    *)
(* what the state of a runtime says about its context and its connection   *)
(* (StageFacts), on what the gate checked (GateFacts) and on the task      *)
(* protocol's memory (TaskFacts).                                          *)
(***************************************************************************)
EXTENDS TrustRuntime, TLAPS

States ==
    {"CREATED", "DISCOVERY_COMPLETE", "COMMITMENTS_REGISTERED", "REVEALS_VERIFIED",
     "FEASIBILITY_EVALUATED", "PROFILE_SELECTED", "CONTRACT_CREATED",
     "CONTRACT_VERIFIED", "TLS_ACTIVATED", "TASK_EXECUTED", "COMPLETED",
     "CONFLICT_CERTIFIED", "ABORTED", "FAILED"}

Leases == [issued : Times, expires : Nat]
RegistryType ==
    [sessions : SUBSET Sessions, commitments : {EmptyRegistry.commitments},
     transcripts : SUBSET Sessions, contracts : Dicts(Sessions, Leases)]
Contexts == [runtime : Runtimes, contract : Contracts, at : Times]
Requests ==
    [contract : Contracts, session : Sessions, scenario : Scenarios, intact : BOOLEAN]

TypeOK ==
    /\ now \in Times
    /\ state \in [Runtimes -> States]
    /\ contract \in [Runtimes -> Contracts \cup {Absent}]
    /\ context \in [Runtimes -> Contexts \cup {Absent}]
    /\ registry \in RegistryType
    /\ handshakes \in [Runtimes -> Nat]
    /\ ends \in [Runtimes -> SUBSET (Groups \cup {Unregistered})]
    /\ requests \subseteq Requests
    /\ authorized \subseteq Contexts
    /\ executed \subseteq Runtimes \X Requests

(* The states a runtime comes to only with a context of the gate.          *)
Connected == {"TLS_ACTIVATED", "TASK_EXECUTED", "COMPLETED"}

(* The state a runtime is in says what it has done: no context before the  *)
(* gate, no handshake before TLS, one after it.                            *)
StageFact(r) ==
    /\ state[r] = "PROFILE_SELECTED" => Agreed[SessionOf[r]].selected # Absent
    /\ context[r] # Absent => state[r] \in Connected \cup {"CONTRACT_VERIFIED", "FAILED"}
    /\ handshakes[r] # 0 => state[r] \in Connected \cup {"FAILED"}
    /\ state[r] \in Connected => /\ context[r] # Absent
                                 /\ handshakes[r] = 1
                                 /\ ends[r] = {context[r].contract.group}
    /\ state[r] \in {"TASK_EXECUTED", "COMPLETED"} => \E e \in executed : e[1] = r

StageFacts == \A r \in Runtimes : StageFact(r)

(* Every authorization passed the checks of the gate when it was given.    *)
GateFacts ==
    /\ \A a \in authorized :
          Verifiable(a.contract, SessionOf[a.runtime], a.at) /\ a.at <= now
    /\ \A r \in Runtimes :
          context[r] # Absent => context[r] \in authorized /\ context[r].runtime = r

(* The lease of an authorization is on record until it is over.            *)
LiveLeaseOnRecord ==
    \A a \in authorized :
        a.contract.expires > now =>
            /\ a.contract.session \in DOMAIN registry.contracts
            /\ registry.contracts[a.contract.session] = Lease(a.contract)

(* A task was executed over the runtime's one connection, for a request    *)
(* bound to its context, and its response is remembered.                   *)
TaskFacts ==
    \A e \in executed :
        /\ context[e[1]] # Absent
        /\ handshakes[e[1]] = 1
        /\ ends[e[1]] = {context[e[1]].contract.group}
        /\ e[2].contract = context[e[1]].contract
        /\ e[2].session = e[2].contract.session
        /\ ResponseTo(e[2]) \in responses

Core ==
    /\ TypeOK /\ StageFacts /\ GateFacts
    /\ LiveLeaseOnRecord /\ OneLiveLease /\ OnlyAuthorizedIsRegistered
    /\ TaskFacts /\ OneTaskPerContract

-----------------------------------------------------------------------------

(* ALLOWED_TRANSITIONS leads from states to states, out of final ones      *)
(* nowhere, and through the negotiation one state at a time.               *)
LEMMA MayFollowFacts ==
    ASSUME NEW from \in States, NEW to, MayFollow(to, from)
    PROVE  /\ to \in States /\ from \notin Final
           /\ from \in Negotiating =>
                 to \in Negotiating \cup {"FEASIBILITY_EVALUATED", "FAILED"}
  BY DEF States, MayFollow, AllowedTransitions, Final, Negotiating

(* What RuntimeStateMachine.transition does to the machines.               *)
LEMMA TransitionFacts ==
    ASSUME TypeOK, NEW r \in Runtimes, NEW to, Transition(r, to)
    PROVE  /\ to \in States /\ state[r] \in States \ Final
           /\ state' = [state EXCEPT ![r] = to]
           /\ state' \in [Runtimes -> States]
  <1>1. to \in States /\ state[r] \in States \ Final
    BY MayFollowFacts DEF Transition, TypeOK
  <1> QED
    BY <1>1 DEF Transition, TypeOK

(* Whatever is presented as a contract has the form of one.                *)
LEMMA PresentedFacts ==
    ASSUME TypeOK, NEW c \in Presented
    PROVE  c \in Contracts
  <1>1. PICK r \in Runtimes :
            contract[r] # Absent /\ c \in {contract[r]} \cup Altered(contract[r])
    BY DEF Presented
  <1>2. contract[r] \in Contracts
    BY <1>1 DEF TypeOK
  <1>3. ASSUME NEW d \in Contracts, c \in {d} \cup Altered(d) PROVE c \in Contracts
    <2>1. [d EXCEPT !.intact = FALSE] \in Contracts
      BY DEF Contracts
    <2>2. \A g \in Groups : [d EXCEPT !.group = g, !.signed = FALSE] \in Contracts
      BY DEF Contracts
    <2>3. \A x \in Nat : [d EXCEPT !.expires = x, !.signed = FALSE] \in Contracts
      BY DEF Contracts
    <2>4. d.expires + 1 \in Nat
      BY DEF Contracts
    <2> QED
      BY <1>3, <2>1, <2>2, <2>3, <2>4 DEF Altered
  <1> QED
    BY <1>1, <1>2, <1>3

(* A contract that verifies has the profile the selection chose, so there  *)
(* is one.                                                                 *)
LEMMA VerifiableFacts ==
    ASSUME NEW c \in Contracts, NEW s \in Sessions, NEW t \in Times, Verifiable(c, s, t)
    PROVE  /\ Agreed[s].selected # Absent
           /\ c.session = s /\ c.issued <= t /\ t < c.expires
           /\ c.issued \in Times /\ c.expires \in Nat
           /\ c.group = GroupOf[c.profile]
  BY RuntimeAssumption DEF Verifiable, ActiveAt, Contracts

(* NativeRunner.run returns only when both ends have the group asked for.  *)
LEMMA HandshakeFacts ==
    ASSUME NEW g, NEW h \in Handshakes, NEW inTime,
           NativeRunReturns(Registered(g), h, inTime)
    PROVE  h.client.group = g /\ h.server.group = g
  BY HandshakeAssumption
     DEF NativeRunReturns, Record, ValidResult, CaseEqual, Registered

(* The purge takes exactly the leases that are over from the table.        *)
LEMMA CleanupFacts ==
    ASSUME NEW reg \in RegistryType, NEW t \in Times
    PROVE  LET p == Cleanup(reg, t) IN
           /\ p \in RegistryType
           /\ \A s \in DOMAIN reg.contracts :
                 s \in DOMAIN p.contracts <=> reg.contracts[s].expires > t
           /\ \A s \in DOMAIN p.contracts :
                 s \in DOMAIN reg.contracts /\ p.contracts[s] = reg.contracts[s]
  <1> DEFINE f == reg.contracts
             D == {s \in DOMAIN f : f[s].expires > t}
             g == Restrict(f, D)
  <1>1. PICK E \in SUBSET Sessions : f \in [E -> Leases]
    BY DEF RegistryType, Dicts
  <1>2. D \in SUBSET Sessions /\ g \in [D -> Leases]
    BY <1>1 DEF Restrict
  <1>3. g \in Dicts(Sessions, Leases)
    BY <1>2 DEF Dicts
  <1>4. Cleanup(reg, t) = [reg EXCEPT !.contracts = g]
    BY DEF Cleanup
  <1>5. \A s \in D : g[s] = f[s]
    BY DEF Restrict
  <1> QED
    BY <1>1, <1>2, <1>3, <1>4, <1>5 DEF RegistryType

(* register_contract: refused, with nothing changed but the purge, or the  *)
(* session had no lease on record after the purge and has this one now.    *)
LEMMA RegisterFacts ==
    ASSUME NEW reg \in RegistryType, NEW s \in Sessions, NEW lease \in Leases,
           NEW t \in Times
    PROVE  LET res == RegisterContract(reg, s, lease, t)
               p   == Cleanup(reg, t) IN
           /\ res.reg \in RegistryType
           /\ ~res.ok => res.reg = reg \/ res.reg = p
           /\ res.ok => /\ s \notin DOMAIN p.contracts
                        /\ DOMAIN res.reg.contracts = DOMAIN p.contracts \cup {s}
                        /\ res.reg.contracts[s] = lease
                        /\ \A x \in DOMAIN p.contracts :
                              res.reg.contracts[x] = p.contracts[x]
  <1> DEFINE p == Cleanup(reg, t)
             f == p.contracts
             m == Put(f, s, lease)
  <1>1. p \in RegistryType /\ \A x \in DOMAIN f : f[x].expires > t
    BY CleanupFacts
  <1>2. CASE ~ActiveAt(lease, t)
    BY <1>1, <1>2 DEF RegisterContract, Raises
  <1>3. CASE ActiveAt(lease, t) /\ s \in DOMAIN f
    BY <1>1, <1>3 DEF RegisterContract, Raises
  <1>4. CASE ActiveAt(lease, t) /\ s \notin DOMAIN f
    <2>1. PICK D \in SUBSET Sessions : f \in [D -> Leases]
      BY <1>1 DEF RegistryType, Dicts
    <2>2. RegisterContract(reg, s, lease, t)
              = [reg |-> [p EXCEPT !.contracts = m], ok |-> TRUE]
      BY <1>4 DEF RegisterContract, Returns
    <2>3. m = [x \in D \cup {s} |-> IF x = s THEN lease ELSE f[x]]
      BY <2>1 DEF Put
    <2> HIDE DEF f, m, p
    <2>4. /\ m \in Dicts(Sessions, Leases)
          /\ DOMAIN m = D \cup {s} /\ m[s] = lease
          /\ \A x \in D : x # s => m[x] = f[x]
      BY <2>1, <2>3 DEF Dicts
    <2>5. [p EXCEPT !.contracts = m] \in RegistryType
      BY <1>1, <2>4 DEF RegistryType
    <2>6. [p EXCEPT !.contracts = m].contracts = m
      BY <1>1 DEF RegistryType
    <2>7. DOMAIN f = D
      BY <2>1
    <2> DEFINE res == RegisterContract(reg, s, lease, t)
    <2>8. /\ res.ok /\ res.reg \in RegistryType
          /\ s \notin DOMAIN f
          /\ DOMAIN res.reg.contracts = DOMAIN f \cup {s}
          /\ res.reg.contracts[s] = lease
          /\ \A x \in DOMAIN f : res.reg.contracts[x] = f[x]
      <3>1. res.ok /\ res.reg = [p EXCEPT !.contracts = m]
        BY <2>2
      <3> QED
        BY <1>4, <2>4, <2>5, <2>6, <2>7, <3>1
    <2> QED
      BY <2>8 DEF f, p
  <1> QED
    BY <1>2, <1>3, <1>4

-----------------------------------------------------------------------------

(* A registry that is left alone, or only purged at the present time,      *)
(* still has every live lease on record.                                   *)
LEMMA PurgeKeeps ==
    ASSUME Core, registry' \in {registry, Cleanup(registry, now)},
           UNCHANGED <<now, authorized>>
    PROVE  registry' \in RegistryType /\ LiveLeaseOnRecord' /\ OnlyAuthorizedIsRegistered'
  <1>1. registry \in RegistryType /\ now \in Times
    BY DEF Core, TypeOK
  <1>2. registry' \in RegistryType
    BY <1>1, CleanupFacts
  <1>3. /\ \A s \in DOMAIN registry.contracts :
              registry.contracts[s].expires > now => s \in DOMAIN registry'.contracts
        /\ \A s \in DOMAIN registry'.contracts :
              /\ s \in DOMAIN registry.contracts
              /\ registry'.contracts[s] = registry.contracts[s]
    BY <1>1, CleanupFacts
  <1>4. \A a \in authorized : Lease(a.contract).expires = a.contract.expires
    BY DEF Lease
  <1>5. LiveLeaseOnRecord'
    BY <1>3, <1>4 DEF Core, LiveLeaseOnRecord
  <1>6. OnlyAuthorizedIsRegistered'
    BY <1>3 DEF Core, OnlyAuthorizedIsRegistered
  <1> QED
    BY <1>2, <1>5, <1>6

(* A step that moves a machine and leaves the authorizations, the          *)
(* connections and the responses alone, as long as the new state is one    *)
(* the runtime has earned.                                                 *)
LEMMA MachineStep ==
    ASSUME Core, NEW r \in Runtimes, NEW to, Transition(r, to),
           contract' \in [Runtimes -> Contracts \cup {Absent}],
           requests' \subseteq Requests,
           registry' \in {registry, Cleanup(registry, now)},
           UNCHANGED <<now, tlsVars, context, authorized, responses, executed>>,
           to = "PROFILE_SELECTED" => Agreed[SessionOf[r]].selected # Absent,
           context[r] # Absent => to \in Connected \cup {"CONTRACT_VERIFIED", "FAILED"},
           handshakes[r] # 0 => to \in Connected \cup {"FAILED"},
           to \in Connected => state[r] \in Connected,
           to \in {"TASK_EXECUTED", "COMPLETED"} => \E e \in executed : e[1] = r
    PROVE  Core'
  <1>1. /\ UNCHANGED <<now, context, authorized, handshakes, ends, responses, executed>>
        /\ TypeOK
    BY DEF tlsVars, Core
  <1>2. /\ state' = [state EXCEPT ![r] = to]
        /\ state' \in [Runtimes -> States]
    BY <1>1, TransitionFacts
  <1>3. TypeOK'
    BY <1>1, <1>2, PurgeKeeps DEF TypeOK
  <1>4. StageFacts'
    <2> SUFFICES ASSUME NEW q \in Runtimes PROVE StageFact(q)'
      BY DEF StageFacts
    <2> USE <1>1, <1>2 DEF TypeOK
    <2>1. CASE q = r
      BY <2>1 DEF Core, StageFacts, StageFact
    <2>2. CASE q # r
      BY <2>2 DEF Core, StageFacts, StageFact
    <2> QED
      BY <2>1, <2>2
  <1>5. GateFacts' /\ LiveLeaseOnRecord' /\ OneLiveLease' /\ OnlyAuthorizedIsRegistered'
    BY <1>1, PurgeKeeps DEF Core, GateFacts, OneLiveLease
  <1>6. TaskFacts' /\ OneTaskPerContract'
    BY <1>1 DEF Core, TaskFacts, OneTaskPerContract
  <1> QED
    BY <1>3, <1>4, <1>5, <1>6 DEF Core

(* The clock moves on: no authorization is undone, and fewer leases are    *)
(* live.                                                                   *)
LEMMA TickKeeps == Core /\ Tick => Core'
  <1> SUFFICES ASSUME Core, Tick PROVE Core'
    OBVIOUS
  <1>1. /\ UNCHANGED <<state, contract, handshakes, ends, context, registry,
                       authorized, requests, responses, executed>>
        /\ now \in Times /\ now' \in Times /\ now < now'
        /\ TypeOK
    BY RuntimeAssumption
       DEF Tick, tlsVars, gateVars, taskVars, Core, TypeOK, Times
  <1>2. TypeOK'
    BY <1>1 DEF TypeOK
  <1>3. StageFacts' /\ TaskFacts' /\ OneTaskPerContract' /\ OneLiveLease'
        /\ OnlyAuthorizedIsRegistered'
    BY <1>1 DEF Core, StageFacts, StageFact, TaskFacts, OneTaskPerContract, OneLiveLease,
                OnlyAuthorizedIsRegistered
  <1>4. \A a \in authorized :
            /\ a.at <= now => a.at <= now'
            /\ a.contract.expires > now' => a.contract.expires > now
    BY <1>1, RuntimeAssumption DEF TypeOK, Contexts, Contracts, Times
  <1>5. GateFacts'
    BY <1>1, <1>4 DEF Core, GateFacts
  <1>6. LiveLeaseOnRecord'
    BY <1>1, <1>4 DEF Core, LiveLeaseOnRecord
  <1> QED
    BY <1>2, <1>3, <1>5, <1>6 DEF Core

(* Discovery, commitments and reveals; the evaluation and the safe abort.  *)
LEMMA NegotiationKeeps ==
    ASSUME Core, NEW r \in Runtimes, Negotiate(r) \/ Evaluate(r)
    PROVE  Core'
  <1>1. PICK to :
            /\ Transition(r, to)
            /\ \/ state[r] \in Negotiating
               \/ /\ state[r] = "FEASIBILITY_EVALUATED"
                  /\ to \in {"PROFILE_SELECTED", "CONFLICT_CERTIFIED"}
                  /\ to = "PROFILE_SELECTED" => Agreed[SessionOf[r]].selected # Absent
               \/ state[r] = "CONFLICT_CERTIFIED" /\ to = "ABORTED"
    BY DEF Negotiate, Evaluate
  <1>2. TypeOK /\ StageFact(r) /\ state[r] \in States
    BY DEF Core, TypeOK, StageFacts
  <1>3. /\ contract' \in [Runtimes -> Contracts \cup {Absent}]
        /\ requests' \subseteq Requests
        /\ UNCHANGED <<now, tlsVars, context, authorized, responses, executed>>
        /\ registry' = registry
    BY <1>2 DEF Negotiate, Evaluate, gateVars, taskVars, TypeOK
  <1>4. state[r] \in Negotiating =>
            to \in Negotiating \cup {"FEASIBILITY_EVALUATED", "FAILED"}
    BY <1>1, <1>2, MayFollowFacts DEF Transition
  <1>5. context[r] = Absent /\ handshakes[r] = 0
    BY <1>1, <1>2 DEF StageFact, Negotiating, Connected
  <1>6. to \notin Connected
    BY <1>1, <1>4 DEF Negotiating, Connected
  <1>7. to = "PROFILE_SELECTED" => Agreed[SessionOf[r]].selected # Absent
    BY <1>1, <1>4 DEF Negotiating
  <1> QED
    BY <1>1, <1>3, <1>5, <1>6, <1>7, MachineStep DEF Connected

(* build_signed_contract and the verification before the gate.             *)
LEMMA ContractKeeps ==
    ASSUME Core, NEW r \in Runtimes,
           \/ \E d \in 1..MaxTime : CreateContract(r, d)
           \/ \E c \in Presented : VerifyContract(r, c)
    PROVE  Core'
  <1>1. TypeOK /\ StageFact(r)
    BY DEF Core, StageFacts
  <1>2. CASE \E d \in 1..MaxTime : CreateContract(r, d)
    <2>1. PICK d \in 1..MaxTime : CreateContract(r, d)
      BY <1>2
    <2> DEFINE s == SessionOf[r]
               p == Agreed[s].selected
               c == [session |-> s, profile |-> p, group |-> GroupOf[p], issued |-> now,
                     expires |-> now + d, intact |-> TRUE, signed |-> TRUE]
    <2>2. s \in Sessions /\ p \in Profiles /\ GroupOf[p] \in Groups
      <3>1. s \in Sessions /\ Agreed[s] \in Agreements
        BY RuntimeAssumption
      <3>2. p # Absent
        BY <1>1, <2>1 DEF CreateContract, StageFact
      <3> QED
        BY <3>1, <3>2, RuntimeAssumption DEF Agreements
    <2>3. now \in Times /\ now + d \in Nat
      BY <1>1, RuntimeAssumption DEF TypeOK, Times
    <2>4. contract' = [contract EXCEPT ![r] = c]
      BY <2>1 DEF CreateContract
    <2>5. c \in Contracts
      BY <2>2, <2>3 DEF Contracts
    <2>6. contract' \in [Runtimes -> Contracts \cup {Absent}]
      <3> HIDE DEF c
      <3> QED BY <1>1, <2>4, <2>5 DEF TypeOK
    <2>7. /\ Transition(r, "CONTRACT_CREATED")
          /\ requests' \subseteq Requests
          /\ UNCHANGED <<now, tlsVars, context, authorized, responses, executed>>
          /\ registry' = registry
          /\ state[r] = "PROFILE_SELECTED"
      BY <1>1, <2>1 DEF CreateContract, gateVars, taskVars, TypeOK
    <2>8. context[r] = Absent /\ handshakes[r] = 0
      BY <1>1, <2>7 DEF StageFact, Connected
    <2> QED
      BY <2>6, <2>7, <2>8, MachineStep DEF Connected
  <1>3. CASE \E c \in Presented : VerifyContract(r, c)
    <2>1. PICK to \in {"CONTRACT_VERIFIED", "FAILED"} : Transition(r, to)
      BY <1>3 DEF VerifyContract
    <2>2. /\ contract' \in [Runtimes -> Contracts \cup {Absent}]
          /\ requests' \subseteq Requests
          /\ UNCHANGED <<now, tlsVars, context, authorized, responses, executed>>
          /\ registry' = registry
          /\ state[r] = "CONTRACT_CREATED"
      BY <1>1, <1>3 DEF VerifyContract, gateVars, taskVars, TypeOK
    <2>3. context[r] = Absent /\ handshakes[r] = 0
      BY <1>1, <2>2 DEF StageFact, Connected
    <2> QED
      BY <2>1, <2>2, <2>3, MachineStep DEF Connected
  <1> QED
    BY <1>2, <1>3

(* The driver goes on after a response, and closes the session.            *)
LEMMA FinishKeeps ==
    ASSUME Core, NEW r \in Runtimes, Finish(r)
    PROVE  Core'
  <1>1. TypeOK /\ StageFact(r)
    BY DEF Core, StageFacts
  <1>2. /\ contract' \in [Runtimes -> Contracts \cup {Absent}]
        /\ requests' \subseteq Requests
        /\ UNCHANGED <<now, tlsVars, context, authorized, responses, executed>>
        /\ registry' = registry
    BY <1>1 DEF Finish, gateVars, taskVars, TypeOK
  <1>3. PICK to \in {"TASK_EXECUTED", "COMPLETED"} :
            Transition(r, to) /\ state[r] \in Connected /\ \E e \in executed : e[1] = r
    BY <1>1 DEF Finish, StageFact, Connected
  <1> QED
    BY <1>2, <1>3, MachineStep DEF Connected

(* ExecutionGate.authorize: turned away, or the session's lease is entered *)
(* where there was none that is still live.                                *)
LEMMA AuthorizeKeeps ==
    ASSUME Core, NEW r \in Runtimes, NEW c \in Presented, Authorize(r, c)
    PROVE  Core'
  <1> DEFINE s == SessionOf[r]
             res == RegisterContract(registry, c.session, Lease(c), now)
             p == Cleanup(registry, now)
             a == ContextOf(r, c)
  <1>1. /\ TypeOK /\ registry \in RegistryType /\ now \in Times
        /\ s \in Sessions
        /\ c \in Contracts
        /\ StageFact(r)
    BY PresentedFacts, RuntimeAssumption DEF Core, TypeOK, StageFacts
  <1>2. /\ c.session \in Sessions /\ Lease(c) \in Leases
        /\ Lease(c).expires = c.expires
    BY <1>1 DEF Contracts, Lease, Leases
  <1>3. /\ res.reg \in RegistryType
        /\ ~res.ok => res.reg = registry \/ res.reg = p
        /\ res.ok => /\ c.session \notin DOMAIN p.contracts
                     /\ DOMAIN res.reg.contracts = DOMAIN p.contracts \cup {c.session}
                     /\ res.reg.contracts[c.session] = Lease(c)
                     /\ \A x \in DOMAIN p.contracts :
                           res.reg.contracts[x] = p.contracts[x]
    BY <1>1, <1>2, RegisterFacts
  <1>4. state[r] = "CONTRACT_VERIFIED" /\ context[r] = Absent /\ handshakes[r] = 0
    BY <1>1 DEF Authorize, StageFact, Connected
  <1>5. UNCHANGED <<now, contract, handshakes, ends, requests, responses, executed>>
    BY DEF Authorize, tlsVars, taskVars
  <1>6. CASE ~(Verifiable(c, s, now) /\ res.ok)
    <2>1. /\ Transition(r, "FAILED")
          /\ UNCHANGED <<context, authorized>>
          /\ registry' \in {registry, p}
      BY <1>3, <1>6 DEF Authorize
    <2>2. /\ contract' \in [Runtimes -> Contracts \cup {Absent}]
          /\ requests' \subseteq Requests
      BY <1>1, <1>5 DEF TypeOK
    <2> QED
      BY <1>4, <1>5, <2>1, <2>2, MachineStep DEF tlsVars, Connected
  <1>7. CASE Verifiable(c, s, now) /\ res.ok
    <2>1. /\ registry' = res.reg
          /\ context' = [context EXCEPT ![r] = a]
          /\ authorized' = authorized \cup {a}
          /\ UNCHANGED state
      BY <1>7 DEF Authorize
    <2>2. c.session = s /\ now < c.expires
      BY <1>1, <1>7, VerifiableFacts
    <2>3. a \in Contexts /\ a.runtime = r /\ a.contract = c /\ a.at = now
      BY <1>1 DEF ContextOf, Contexts
    <2> HIDE DEF a, res
    <2>4. TypeOK'
      BY <1>1, <1>3, <1>5, <2>1, <2>3 DEF TypeOK
    <2>5. StageFacts'
      <3> SUFFICES ASSUME NEW q \in Runtimes PROVE StageFact(q)'
        BY DEF StageFacts
      <3>1. StageFact(q) /\ context \in [Runtimes -> Contexts \cup {Absent}]
        BY <1>1 DEF Core, StageFacts, TypeOK
      <3>2. CASE q = r
        BY <1>4, <1>5, <2>1, <3>1, <3>2 DEF StageFact, Connected
      <3>3. CASE q # r
        BY <1>5, <2>1, <3>1, <3>3 DEF StageFact
      <3> QED
        BY <3>2, <3>3
    <2>6. GateFacts'
      <3>1. GateFacts /\ context \in [Runtimes -> Contexts \cup {Absent}]
        BY <1>1 DEF Core, TypeOK
      <3>2. Verifiable(a.contract, SessionOf[a.runtime], a.at) /\ a.at <= now
        BY <1>1, <1>7, <2>3 DEF Times
      <3> QED
        BY <1>5, <2>1, <2>3, <3>1, <3>2 DEF GateFacts
    <2>7. \A b \in authorized :
              /\ b.contract.session \in Sessions
              /\ b.contract.expires > now =>
                    /\ b.contract.session \in DOMAIN p.contracts
                    /\ p.contracts[b.contract.session] = Lease(b.contract)
      <3>1. \A b \in authorized : b \in Contexts /\ b.contract \in Contracts
                /\ Lease(b.contract).expires = b.contract.expires
        BY <1>1 DEF TypeOK, Contexts, Lease
      <3> QED
        BY <1>1, <3>1, CleanupFacts DEF Core, LiveLeaseOnRecord, Contracts
    <2>8. LiveLeaseOnRecord'
      BY <1>3, <1>5, <1>7, <2>1, <2>3, <2>7 DEF LiveLeaseOnRecord
    <2>9. OneLiveLease'
      <3>1. \A b \in authorized : b.contract.session = c.session => ~(b.contract.expires > now)
        BY <1>3, <1>7, <2>7
      <3>2. \A b \in authorized : b.contract.expires \in Nat
        BY <1>1 DEF TypeOK, Contexts, Contracts
      <3>3. \A b \in authorized : b.contract.session = c.session => b.contract.expires <= now
        BY <1>1, <3>1, <3>2 DEF Times
      <3> QED
        BY <2>1, <2>3, <3>3 DEF Core, OneLiveLease
    <2>10. OnlyAuthorizedIsRegistered'
      <3>1. \A x \in DOMAIN p.contracts :
                x \in DOMAIN registry.contracts /\ p.contracts[x] = registry.contracts[x]
        BY <1>1, CleanupFacts
      <3> QED
        BY <1>3, <1>7, <2>1, <2>3, <3>1 DEF Core, OnlyAuthorizedIsRegistered
    <2>11. TaskFacts' /\ OneTaskPerContract'
      <3>1. \A e \in executed : e[1] \in Runtimes /\ e[1] # r
        BY <1>1, <1>4 DEF Core, TaskFacts, TypeOK
      <3> QED
        BY <1>1, <1>5, <2>1, <3>1 DEF Core, TaskFacts, OneTaskPerContract, TypeOK
    <2> QED
      BY <2>4, <2>5, <2>6, <2>8, <2>9, <2>10, <2>11 DEF Core
  <1> QED
    BY <1>6, <1>7

(* TlsExecutor.execute: the runtime's first handshake and its last.        *)
LEMMA TlsKeeps ==
    ASSUME Core, NEW r \in Runtimes, NEW h \in Handshakes, NEW inTime \in BOOLEAN,
           ExecuteTls(r, h, inTime)
    PROVE  Core'
  <1> DEFINE c == context[r].contract
             bound == c.group = GroupOf[c.profile]
             ok == bound /\ NativeRunReturns(Registered(c.group), h, inTime)
             to == IF ok THEN "TLS_ACTIVATED" ELSE "FAILED"
  <1>1. /\ TypeOK /\ StageFact(r)
        /\ state[r] = "CONTRACT_VERIFIED" /\ context[r] # Absent /\ handshakes[r] = 0
        /\ ok => h.client.group = c.group /\ h.server.group = c.group
    BY HandshakeFacts DEF Core, StageFacts, StageFact, ExecuteTls, Connected
  <1>2. UNCHANGED <<now, contract, context, registry, authorized, requests, responses,
                    executed>>
    BY DEF ExecuteTls, gateVars, taskVars
  <1>3. /\ h.client.group \in Groups \cup {Unregistered}
        /\ h.server.group \in Groups \cup {Unregistered}
    BY HandshakeAssumption DEF Names
  <1>4. /\ handshakes' = [handshakes EXCEPT ![r] = IF bound THEN 1 ELSE 0]
        /\ ends' = [ends EXCEPT ![r] = IF ok THEN {c.group} ELSE {}]
        /\ Transition(r, to)
    <2>1. (IF bound THEN handshakes[r] + 1 ELSE handshakes[r]) = (IF bound THEN 1 ELSE 0)
      BY <1>1
    <2>2. (IF ok THEN {h.client.group, h.server.group} ELSE {})
              = (IF ok THEN {c.group} ELSE {})
      BY <1>1
    <2>3. /\ handshakes' = [handshakes EXCEPT ![r] =
                                IF bound THEN handshakes[r] + 1 ELSE handshakes[r]]
          /\ ends' = [ends EXCEPT ![r] =
                          IF ok THEN {h.client.group, h.server.group} ELSE {}]
          /\ Transition(r, to)
      BY Zenon DEF ExecuteTls
    <2> QED
      BY <2>1, <2>2, <2>3, Zenon
  <1>5. /\ handshakes' \in [Runtimes -> Nat]
        /\ ends' \in [Runtimes -> SUBSET (Groups \cup {Unregistered})]
    BY <1>1, <1>3, <1>4 DEF TypeOK
  <1>6. /\ state' = [state EXCEPT ![r] = to]
        /\ state' \in [Runtimes -> States]
    BY <1>1, <1>4, TransitionFacts
  <1>7. TypeOK'
    BY <1>1, <1>2, <1>5, <1>6 DEF TypeOK
  <1>8. StageFacts'
    <2> SUFFICES ASSUME NEW q \in Runtimes PROVE StageFact(q)'
      BY DEF StageFacts
    <2>1. StageFact(q)
      BY DEF Core, StageFacts
    <2>2. CASE q = r
      <3>1. to \in {"TLS_ACTIVATED", "FAILED"} /\ (to = "TLS_ACTIVATED" => ok /\ bound)
        OBVIOUS
      <3>2. state'[r] = to /\ ends'[r] = (IF ok THEN {c.group} ELSE {})
            /\ handshakes'[r] = (IF bound THEN 1 ELSE 0)
        BY <1>1, <1>4, <1>6 DEF TypeOK
      <3> HIDE DEF ok, to, bound
      <3> QED
        BY <1>1, <1>2, <2>2, <3>1, <3>2 DEF StageFact, Connected
    <2>3. CASE q # r
      BY <1>1, <1>2, <1>4, <1>6, <2>1, <2>3 DEF StageFact, TypeOK
    <2> QED
      BY <2>2, <2>3
  <1>9. GateFacts' /\ LiveLeaseOnRecord' /\ OneLiveLease' /\ OnlyAuthorizedIsRegistered'
    BY <1>2 DEF Core, GateFacts, LiveLeaseOnRecord, OneLiveLease, OnlyAuthorizedIsRegistered
  <1>10. TaskFacts' /\ OneTaskPerContract'
    <2>1. \A e \in executed : e[1] \in Runtimes /\ e[1] # r
      BY <1>1 DEF Core, TaskFacts, TypeOK
    <2>2. \A e \in executed : handshakes'[e[1]] = handshakes[e[1]] /\ ends'[e[1]] = ends[e[1]]
      BY <1>1, <1>4, <2>1 DEF TypeOK
    <2> QED
      BY <1>2, <2>2 DEF Core, TaskFacts, OneTaskPerContract
  <1> QED
    BY <1>7, <1>8, <1>9, <1>10 DEF Core

(* TaskProtocol.execute: the contract has no response yet.                 *)
LEMMA TaskKeeps ==
    ASSUME Core, NEW r \in Runtimes, NEW q \in Sendable, ExecuteTask(r, q)
    PROVE  Core'
  <1> DEFINE c == context[r].contract
             bound == q.session = c.session /\ q.contract = c /\ q.intact /\ q \notin requests
             ok == bound /\ ResponseTo(q) \notin responses
  <1>1. /\ TypeOK /\ StageFact(r)
        /\ state[r] = "TLS_ACTIVATED" /\ context[r] # Absent
        /\ handshakes[r] = 1 /\ ends[r] = {c.group}
    BY DEF Core, StageFacts, StageFact, ExecuteTask, Connected
  <1>2. q \in Requests
    <2>1. PICK x \in Runtimes, sc \in Scenarios, i \in BOOLEAN :
              /\ context[x] # Absent
              /\ q = [contract |-> context[x].contract, session |-> SessionOf[x],
                      scenario |-> sc, intact |-> i]
      BY DEF Sendable
    <2>2. context[x].contract \in Contracts /\ SessionOf[x] \in Sessions
      BY <1>1, <2>1, RuntimeAssumption DEF TypeOK, Contexts
    <2> QED
      BY <2>1, <2>2 DEF Requests
  <1>3. UNCHANGED <<now, contract, handshakes, ends, context, registry, authorized>>
    BY DEF ExecuteTask, tlsVars, gateVars
  <1>4. requests' \subseteq Requests
    BY <1>1, <1>2 DEF ExecuteTask, TypeOK
  <1>5. CASE ~ok
    <2>1. Transition(r, "FAILED") /\ UNCHANGED <<responses, executed>>
      BY <1>5 DEF ExecuteTask
    <2>2. contract' \in [Runtimes -> Contracts \cup {Absent}]
      BY <1>1, <1>3 DEF TypeOK
    <2> QED
      BY <1>3, <1>4, <2>1, <2>2, MachineStep DEF tlsVars, Connected
  <1>6. CASE ok
    <2>1. /\ responses' = responses \cup {ResponseTo(q)}
          /\ executed' = executed \cup {<<r, q>>}
          /\ UNCHANGED state
      BY <1>6 DEF ExecuteTask
    <2>2. TypeOK'
      BY <1>1, <1>2, <1>3, <1>4, <2>1 DEF TypeOK
    <2>3. StageFacts'
      BY <1>3, <2>1 DEF Core, StageFacts, StageFact
    <2>4. GateFacts' /\ LiveLeaseOnRecord' /\ OneLiveLease' /\ OnlyAuthorizedIsRegistered'
      BY <1>3 DEF Core, GateFacts, LiveLeaseOnRecord, OneLiveLease,
                  OnlyAuthorizedIsRegistered
    <2>5. q.session = q.contract.session /\ q.contract = c /\ ResponseTo(q) \notin responses
      BY <1>6
    <2>6. TaskFacts'
      BY <1>1, <1>3, <2>1, <2>5 DEF Core, TaskFacts
    <2>7. OneTaskPerContract'
      <3>1. \A e \in executed : e[2].contract # q.contract
        BY <2>5 DEF Core, TaskFacts, ResponseTo
      <3> QED
        BY <2>1, <3>1 DEF Core, OneTaskPerContract
    <2> QED
      BY <2>2, <2>3, <2>4, <2>6, <2>7 DEF Core
  <1> QED
    BY <1>5, <1>6

(* Nothing has been negotiated, authorized or executed yet.                *)
LEMMA InitCore == Init => Core
  <1> SUFFICES ASSUME Init PROVE Core
    OBVIOUS
  <1>1. EmptyRegistry \in RegistryType /\ DOMAIN EmptyRegistry.contracts = {}
    <2>1. [x \in {} |-> x] \in Dicts(Sessions, Leases)
      BY DEF Dicts
    <2> QED
      BY <2>1 DEF EmptyRegistry, RegistryType
  <1>2. TypeOK
    BY <1>1, RuntimeAssumption DEF Init, TypeOK, States, Times
  <1>3. StageFacts
    BY DEF Init, StageFacts, StageFact, Connected
  <1>4. GateFacts /\ LiveLeaseOnRecord /\ OneLiveLease /\ OnlyAuthorizedIsRegistered
    BY <1>1 DEF Init, GateFacts, LiveLeaseOnRecord, OneLiveLease, OnlyAuthorizedIsRegistered
  <1>5. TaskFacts /\ OneTaskPerContract
    BY DEF Init, TaskFacts, OneTaskPerContract
  <1> QED
    BY <1>2, <1>3, <1>4, <1>5 DEF Core

(* Every step of the clock and of a driver keeps the invariant.            *)
LEMMA NextKeepsCore == Core /\ [Next]_vars => Core'
  <1> SUFFICES ASSUME Core, [Next]_vars PROVE Core'
    OBVIOUS
  <1>1. CASE UNCHANGED vars
    BY <1>1 DEF vars, tlsVars, Core, TypeOK, StageFacts, StageFact, GateFacts,
                LiveLeaseOnRecord, OneLiveLease, OnlyAuthorizedIsRegistered, TaskFacts,
                OneTaskPerContract
  <1>2. CASE Tick
    BY <1>2, TickKeeps
  <1>3. ASSUME NEW r \in Runtimes, Drive(r) PROVE Core'
    <2>1. CASE Negotiate(r) \/ Evaluate(r)
      BY <2>1, NegotiationKeeps
    <2>2. CASE \/ \E d \in 1..MaxTime : CreateContract(r, d)
               \/ \E c \in Presented : VerifyContract(r, c)
      BY <2>2, ContractKeeps
    <2>3. CASE \E c \in Presented : Authorize(r, c)
      BY <2>3, AuthorizeKeeps
    <2>4. CASE \E h \in Handshakes, inTime \in BOOLEAN : ExecuteTls(r, h, inTime)
      BY <2>4, TlsKeeps
    <2>5. CASE \E q \in Sendable : ExecuteTask(r, q)
      BY <2>5, TaskKeeps
    <2>6. CASE Finish(r)
      BY <2>6, FinishKeeps
    <2> QED
      BY <1>3, <2>1, <2>2, <2>3, <2>4, <2>5, <2>6 DEF Drive
  <1> QED
    BY <1>1, <1>2, <1>3 DEF Next

(* The inductive invariant, for any number of runtimes and sessions and    *)
(* whatever is presented, sent and answered.                               *)
THEOREM AlwaysCore == Spec => []Core
  BY InitCore, NextKeepsCore, PTL DEF Spec

(* Shared by any number of runtimes, the gate never has two live leases    *)
(* for one transcript.                                                     *)
THEOREM AlwaysOneLiveLease == Spec => []OneLiveLease
  <1>1. Core => OneLiveLease
    BY DEF Core
  <1> QED
    BY <1>1, AlwaysCore, PTL

(* A contract the gate turned away leaves nothing in its registry.         *)
THEOREM RegistryHoldsAuthorized == Spec => []OnlyAuthorizedIsRegistered
  <1>1. Core => OnlyAuthorizedIsRegistered
    BY DEF Core
  <1> QED
    BY <1>1, AlwaysCore, PTL

(* Under one contract the task protocol executes one task at most.         *)
THEOREM AlwaysOneTaskPerContract == Spec => []OneTaskPerContract
  <1>1. Core => OneTaskPerContract
    BY DEF Core
  <1> QED
    BY <1>1, AlwaysCore, PTL

(* No task without one handshake in the group of the agreed profile, under *)
(* a contract that was verified and in force at the gate.                  *)
THEOREM AlwaysTaskIsAgreed == Spec => []TaskIsAgreed
  <1>1. Core => TaskIsAgreed
    <2> SUFFICES ASSUME Core, NEW e \in executed
                 PROVE  \E a \in authorized :
                            LET c == a.contract
                                agreed == Agreed[SessionOf[e[1]]] IN
                            /\ a.runtime = e[1] /\ c = e[2].contract
                            /\ handshakes[e[1]] = 1 /\ ends[e[1]] = {c.group}
                            /\ c.signed /\ c.intact
                            /\ c.profile = agreed.selected
                            /\ c.profile \in agreed.initiatorSafe \cap agreed.responderSafe
                            /\ c.group = GroupOf[c.profile]
                            /\ context[e[1]].contract = c
                            /\ ActiveAt(c, a.at)
                            /\ agreed.from <= a.at /\ a.at < agreed.until
      BY DEF TaskIsAgreed
    <2>1. e[1] \in Runtimes
      BY DEF Core, TypeOK
    <2> DEFINE a == context[e[1]]
    <2>2. /\ a # Absent
          /\ handshakes[e[1]] = 1 /\ ends[e[1]] = {a.contract.group}
          /\ e[2].contract = a.contract
      BY DEF Core, TaskFacts
    <2>3. a \in authorized /\ a.runtime = e[1]
      BY <2>1, <2>2 DEF Core, GateFacts
    <2>4. Verifiable(a.contract, SessionOf[e[1]], a.at)
      BY <2>3 DEF Core, GateFacts
    <2> HIDE DEF a
    <2> QED
      BY <2>2, <2>3, <2>4 DEF Verifiable, a
  <1> QED
    BY <1>1, AlwaysCore, PTL

(* A runtime whose session is infeasible, or which has ended, makes no     *)
(* handshake, gets no context and executes no task, whatever the others do.*)
THEOREM AlwaysFailClosed == Spec => FailClosed
  <1> DEFINE Closed(r) ==
        state[r] \in Final \/ Agreed[SessionOf[r]].selected = Absent =>
            /\ handshakes'[r] = handshakes[r]
            /\ context'[r] = context[r]
            /\ \A e \in executed' \ executed : e[1] # r
  <1>1. Core /\ [Next]_vars => [\A r \in Runtimes : Closed(r)]_vars
    <2> SUFFICES ASSUME Core, Next, NEW r \in Runtimes PROVE Closed(r)
      OBVIOUS
    <2>1. TypeOK
      BY DEF Core
    <2>2. ASSUME UNCHANGED <<handshakes, context, executed>> PROVE Closed(r)
      BY <2>2
    <2>3. CASE Tick
      BY <2>2, <2>3 DEF Tick, tlsVars, gateVars, taskVars
    <2>4. ASSUME NEW q \in Runtimes, Drive(q) PROVE Closed(r)
      <3>1. CASE Negotiate(q) \/ Evaluate(q) \/ Finish(q)
        BY <2>2, <3>1 DEF Negotiate, Evaluate, Finish, tlsVars, gateVars, taskVars
      <3>2. CASE \/ \E d \in 1..MaxTime : CreateContract(q, d)
                 \/ \E c \in Presented : VerifyContract(q, c)
        BY <2>2, <3>2 DEF CreateContract, VerifyContract, tlsVars, gateVars, taskVars
      <3>3. ASSUME context[q] # Absent
            PROVE  Agreed[SessionOf[q]].selected # Absent
        <4>1. /\ context[q] \in authorized /\ context[q].runtime = q
              /\ context[q] \in Contexts
          BY <2>1, <3>3 DEF Core, GateFacts, TypeOK
        <4>2. Verifiable(context[q].contract, SessionOf[q], context[q].at)
          BY <4>1 DEF Core, GateFacts
        <4>3. context[q].contract \in Contracts /\ context[q].at \in Times
              /\ SessionOf[q] \in Sessions
          BY <4>1, RuntimeAssumption DEF Contexts
        <4> QED
          BY <4>2, <4>3, VerifiableFacts
      <3>4. ASSUME NEW c \in Presented, Authorize(q, c) PROVE Closed(r)
        <4>1. handshakes' = handshakes /\ executed' = executed
              /\ state[q] = "CONTRACT_VERIFIED"
          BY <3>4 DEF Authorize, tlsVars, taskVars
        <4>2. CASE ~Verifiable(c, SessionOf[q], now)
          BY <2>2, <3>4, <4>1, <4>2 DEF Authorize
        <4>3. CASE Verifiable(c, SessionOf[q], now)
          <5>1. Agreed[SessionOf[q]].selected # Absent
            BY <2>1, <4>3, PresentedFacts, VerifiableFacts, RuntimeAssumption DEF TypeOK
          <5>2. \A x \in Runtimes : x # q => context'[x] = context[x]
            BY <2>1, <3>4 DEF Authorize, TypeOK
          <5> QED
            BY <4>1, <5>1, <5>2 DEF Final
        <4> QED
          BY <4>2, <4>3
      <3>5. ASSUME NEW h \in Handshakes, NEW inTime \in BOOLEAN, ExecuteTls(q, h, inTime)
            PROVE  Closed(r)
        <4>1. /\ context' = context /\ executed' = executed
              /\ state[q] = "CONTRACT_VERIFIED" /\ context[q] # Absent
          BY <3>5 DEF ExecuteTls, gateVars, taskVars
        <4>2. \A x \in Runtimes : x # q => handshakes'[x] = handshakes[x]
          BY <2>1, <3>5 DEF ExecuteTls, TypeOK
        <4> QED
          BY <3>3, <4>1, <4>2 DEF Final
      <3>6. ASSUME NEW m \in Sendable, ExecuteTask(q, m) PROVE Closed(r)
        <4>1. /\ context' = context /\ handshakes' = handshakes
              /\ state[q] = "TLS_ACTIVATED"
              /\ \A e \in executed' \ executed : e[1] = q
          BY <3>6 DEF ExecuteTask, gateVars, tlsVars
        <4>2. context[q] # Absent
          BY <4>1 DEF Core, StageFacts, StageFact, Connected
        <4> QED
          BY <3>3, <4>1, <4>2 DEF Final
      <3> QED
        BY <2>4, <3>1, <3>2, <3>4, <3>5, <3>6 DEF Drive
    <2> QED
      BY <2>3, <2>4 DEF Next
  <1> QED
    BY <1>1, AlwaysCore, PTL DEF Spec, FailClosed
=============================================================================

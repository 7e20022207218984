---------------------------- MODULE TrustRuntime ----------------------------
(***************************************************************************)
(* From an agreed transcript to an executed task: the runtime state        *)
(* machine, contract verification, the execution gate with its replay      *)
(* registry, the TLS executor and the task protocol, driven the way        *)
(* measure_feasible and measure_infeasible drive them, by several runtimes *)
(* at once that share one gate and one task protocol.  Two runtimes may    *)
(* work on the same session: a retry, or the other endpoint.               *)
(*                                                                         *)
(* A contract ID is a hash of the transcript, so a session stands for its  *)
(* transcript, its selection result and its contract ID.  A contract is    *)
(* its content and whether the recorded hash and both signatures are those *)
(* of that content.  Any exception makes the driver give the runtime up.   *)
(* How transcripts come about is in CommitReveal.                          *)
(*                                                                         *)
(* The adapters hand each operation the state it asks for as a constant,   *)
(* and no program of the repository creates a RuntimeStateMachine.  Here   *)
(* each runtime has one, which is where its driver has got to, and hands   *)
(* over its state: what the operations do with a state is the code's, that *)
(* it is the machine's is how they are meant to be used.                   *)
(***************************************************************************)
EXTENDS ReplayRegistry, RuntimeStates, NativeTls, FiniteSets

CONSTANTS
    Runtimes, Sessions, Profiles, Scenarios,
    SessionOf,   \* runtime -> the session it works on
    Agreed,      \* session -> what its transcript and selection say
    GroupOf,     \* profile -> tls_group (the catalog, PROFILE_TLS_GROUPS)
    MaxLease,    \* profile -> max_lease_seconds
    MaxTime,     \* bound on the clock
    Absent

Times == 0..MaxTime
Agreements == [initiatorSafe : SUBSET Profiles, responderSafe : SUBSET Profiles,
               selected : Profiles \cup {Absent}, from : Times, until : Nat]

ASSUME RuntimeAssumption ==
    /\ SessionOf \in [Runtimes -> Sessions]
    /\ Agreed \in [Sessions -> Agreements]
    /\ GroupOf \in [Profiles -> Groups]
    /\ MaxLease \in [Profiles -> Nat \ {0}]
    /\ MaxTime \in Nat
    /\ Absent \notin Profiles

Negotiating == {"CREATED", "DISCOVERY_COMPLETE", "COMMITMENTS_REGISTERED",
                "REVEALS_VERIFIED"}

Contracts == [session : Sessions, profile : Profiles, group : Groups,
              issued : Times, expires : Nat, intact : BOOLEAN, signed : BOOLEAN]

VARIABLES
    now,         \* the time handed to the operations as reference time
    state,       \* runtime -> RuntimeStateMachine._state
    contract,    \* runtime -> the contract it built, or Absent
    context,     \* runtime -> what the gate returned to it, or Absent
    registry,    \* the gate's replay registry
    handshakes,  \* runtime -> TlsExecutor.invocation_count
    ends,        \* history: runtime -> the groups at both ends of its connection
    requests,    \* TaskProtocol._requests
    responses,   \* TaskProtocol._responses
    authorized,  \* history: the contexts the gate ever returned
    executed     \* history: the tasks executed, as <<runtime, request>>

tlsVars == <<handshakes, ends>>
vars == <<now, state, contract, context, registry, tlsVars, requests,
          responses, authorized, executed>>
gateVars == <<context, registry, authorized>>
taskVars == <<requests, responses, executed>>

Init ==
    /\ now = 0
    /\ state = [r \in Runtimes |-> "CREATED"]
    /\ contract = [r \in Runtimes |-> Absent]
    /\ context = [r \in Runtimes |-> Absent]
    /\ registry = EmptyRegistry
    /\ handshakes = [r \in Runtimes |-> 0] /\ ends = [r \in Runtimes |-> {}]
    /\ requests = {} /\ responses = {}
    /\ authorized = {} /\ executed = {}

(* RuntimeStateMachine.transition *)
Transition(r, to) ==
    /\ MayFollow(to, state[r])
    /\ state' = [state EXCEPT ![r] = to]

Tick ==
    /\ now < MaxTime
    /\ now' = now + 1
    /\ UNCHANGED <<state, contract, tlsVars, gateVars, taskVars>>

(* Discovery, commitments and reveals.                                     *)
Negotiate(r) ==
    /\ state[r] \in Negotiating
    /\ \E to \in AllowedTransitions[state[r]] : Transition(r, to)
    /\ UNCHANGED <<now, contract, tlsVars, gateVars, taskVars>>

(* Mutant: a certified conflict is not followed by an abort.               *)
EvaluateWithoutAbort(r) ==
    /\ state[r] = "FEASIBILITY_EVALUATED"
    /\ Transition(r, IF Agreed[SessionOf[r]].selected # Absent
                     THEN "PROFILE_SELECTED" ELSE "CONFLICT_CERTIFIED")
    /\ UNCHANGED <<now, contract, tlsVars, gateVars, taskVars>>

(* An empty common safe set is certified as a conflict and aborted; there  *)
(* is no other way out of it.                                              *)
Evaluate(r) ==
    /\ \/ /\ state[r] = "FEASIBILITY_EVALUATED"
          /\ Transition(r, IF Agreed[SessionOf[r]].selected # Absent
                           THEN "PROFILE_SELECTED" ELSE "CONFLICT_CERTIFIED")
       \/ state[r] = "CONFLICT_CERTIFIED" /\ Transition(r, "ABORTED")
    /\ UNCHANGED <<now, contract, tlsVars, gateVars, taskVars>>

(* build_unsigned_contract and build_signed_contract: the profile's        *)
(* properties are the catalog's, the lease is at most the profile's.       *)
CreateContract(r, duration) ==
    LET s == SessionOf[r]
        p == Agreed[s].selected IN
    /\ state[r] = "PROFILE_SELECTED"
    /\ duration \in 1..MaxLease[p]
    /\ contract' = [contract EXCEPT ![r] =
            [session |-> s, profile |-> p, group |-> GroupOf[p], issued |-> now,
             expires |-> now + duration, intact |-> TRUE, signed |-> TRUE]]
    /\ Transition(r, "CONTRACT_CREATED")
    /\ UNCHANGED <<now, tlsVars, gateVars, taskVars>>

(* What may be presented as a signed contract: one that was built, for     *)
(* this session or another, as it is or altered on the way.                *)
Altered(c) ==
    {[c EXCEPT !.intact = FALSE]}
    \cup {[c EXCEPT !.group = g, !.signed = FALSE] : g \in Groups \ {c.group}}
    \cup {[c EXCEPT !.expires = c.expires + 1, !.signed = FALSE]}

Presented ==
    UNION {{contract[r]} \cup Altered(contract[r]) :
              r \in {q \in Runtimes : contract[q] # Absent}}

(* Mutant: neither the time nor the proposals' lifetime is looked at.      *)
VerifiableAnyTime(c, s, t) ==
    /\ c.intact /\ c.signed
    /\ c.session = s
    /\ c.profile = Agreed[s].selected
    /\ c.group = GroupOf[c.profile]

(* The checks of verify_signed_contract, verify_transcript's on time       *)
(* included.                                                               *)
Verifiable(c, s, t) ==
    /\ Agreed[s].from <= t /\ t < Agreed[s].until
    /\ c.intact
    /\ c.session = s
    /\ c.profile = Agreed[s].selected
    /\ c.profile \in Agreed[s].initiatorSafe
    /\ c.profile \in Agreed[s].responderSafe
    /\ c.group = GroupOf[c.profile]
    /\ ActiveAt(c, t)
    /\ c.expires - c.issued <= MaxLease[c.profile]
    /\ c.signed

(* verify_signed_contract with a registry of its own, as the driver calls  *)
(* it before the gate.                                                     *)
VerifyContract(r, c) ==
    /\ state[r] = "CONTRACT_CREATED"
    /\ Transition(r, IF Verifiable(c, SessionOf[r], now)
                     THEN "CONTRACT_VERIFIED" ELSE "FAILED")
    /\ UNCHANGED <<now, contract, tlsVars, gateVars, taskVars>>

Lease(c) == [issued |-> c.issued, expires |-> c.expires]

ContextOf(r, c) == [runtime |-> r, contract |-> c, at |-> now]

(* Mutant: the contract is registered before it is verified.               *)
AuthorizeRegistersFirst(r, c) ==
    LET reg == RegisterContract(registry, c.session, Lease(c), now)
        ok == Verifiable(c, SessionOf[r], now) /\ reg.ok IN
    /\ state[r] = "CONTRACT_VERIFIED" /\ context[r] = Absent
    /\ registry' = reg.reg
    /\ IF ok
       THEN /\ context' = [context EXCEPT ![r] = ContextOf(r, c)]
            /\ authorized' = authorized \cup {ContextOf(r, c)}
            /\ UNCHANGED state
       ELSE Transition(r, "FAILED") /\ UNCHANGED <<context, authorized>>
    /\ UNCHANGED <<now, contract, tlsVars, taskVars>>

(* ExecutionGate.authorize: the contract is verified again and, last of    *)
(* all, registered; a rejection is a value, which the driver turns into an *)
(* exception.                                                              *)
Authorize(r, c) ==
    LET reg == RegisterContract(registry, c.session, Lease(c), now) IN
    /\ state[r] = "CONTRACT_VERIFIED" /\ context[r] = Absent
    /\ registry' = IF Verifiable(c, SessionOf[r], now) THEN reg.reg ELSE registry
    /\ IF Verifiable(c, SessionOf[r], now) /\ reg.ok
       THEN /\ context' = [context EXCEPT ![r] = ContextOf(r, c)]
            /\ authorized' = authorized \cup {ContextOf(r, c)}
            /\ UNCHANGED state
       ELSE Transition(r, "FAILED") /\ UNCHANGED <<context, authorized>>
    /\ UNCHANGED <<now, contract, tlsVars, taskVars>>

(* Mutant: a handshake that failed is tried again.                         *)
ExecuteTlsRetrying(r, h, inTime) ==
    LET requested == Registered(context[r].contract.group)
        ok == NativeRunReturns(requested, h, inTime) IN
    /\ state[r] \in {"CONTRACT_VERIFIED", "FAILED"} /\ context[r] # Absent
    /\ handshakes' = [handshakes EXCEPT ![r] = @ + 1]
    /\ ends' = [ends EXCEPT ![r] = IF ok THEN {h.client.group, h.server.group} ELSE {}]
    /\ state' = [state EXCEPT ![r] = IF ok THEN "TLS_ACTIVATED" ELSE "FAILED"]
    /\ UNCHANGED <<now, contract, gateVars, taskVars>>

(* TlsExecutor.execute: one run of the native program, and no other after  *)
(* a failure or a timeout.  The groups of its record are compared with     *)
(* each other; that the requested one is the contract's is up to the       *)
(* program, which copies it from its command line.                         *)
ExecuteTls(r, h, inTime) ==
    LET c == context[r].contract
        bound == c.group = GroupOf[c.profile]
        ok == bound /\ NativeRunReturns(Registered(c.group), h, inTime) IN
    /\ state[r] = "CONTRACT_VERIFIED" /\ context[r] # Absent
    /\ handshakes' = [handshakes EXCEPT ![r] = IF bound THEN @ + 1 ELSE @]
    /\ ends' = [ends EXCEPT ![r] = IF ok THEN {h.client.group, h.server.group} ELSE {}]
    /\ Transition(r, IF ok THEN "TLS_ACTIVATED" ELSE "FAILED")
    /\ UNCHANGED <<now, contract, gateVars, taskVars>>

(* A response names the task, the session and the contract, but not the    *)
(* scenario.                                                               *)
ResponseTo(q) == [contract |-> q.contract, session |-> q.session]

(* Mutant: neither requests nor responses are remembered.                  *)
ExecuteTaskForgetting(r, q) ==
    /\ state[r] = "TLS_ACTIVATED"
    /\ q.session = SessionOf[r] /\ q.contract = context[r].contract /\ q.intact
    /\ executed' = executed \cup {<<r, q>>}
    /\ UNCHANGED <<now, state, contract, tlsVars, gateVars, requests, responses>>

(* TaskProtocol.execute.  The request is remembered before the response is *)
(* looked up: a request that differs from an earlier one in the scenario   *)
(* only is used up without being answered.                                 *)
ExecuteTask(r, q) ==
    LET bound == /\ q.session = context[r].contract.session
                 /\ q.contract = context[r].contract
                 /\ q.intact
                 /\ q \notin requests
        ok == bound /\ ResponseTo(q) \notin responses IN
    /\ state[r] = "TLS_ACTIVATED"
    /\ requests' = IF bound THEN requests \cup {q} ELSE requests
    /\ IF ok
       THEN /\ responses' = responses \cup {ResponseTo(q)}
            /\ executed' = executed \cup {<<r, q>>}
            /\ UNCHANGED state
       ELSE Transition(r, "FAILED") /\ UNCHANGED <<responses, executed>>
    /\ UNCHANGED <<now, contract, tlsVars, gateVars>>

(* build_request fills a request from the context; the scenario is the     *)
(* caller's, and it may be altered or sent to the wrong runtime.           *)
Sendable ==
    {[contract |-> context[p].contract, session |-> SessionOf[p],
      scenario |-> sc, intact |-> i] :
        p \in {p \in Runtimes : context[p] # Absent}, sc \in Scenarios, i \in BOOLEAN}

(* The driver goes on once it has a response, and closes the session.      *)
Finish(r) ==
    /\ \/ /\ state[r] = "TLS_ACTIVATED"
          /\ \E e \in executed : e[1] = r
          /\ Transition(r, "TASK_EXECUTED")
       \/ state[r] = "TASK_EXECUTED" /\ Transition(r, "COMPLETED")
    /\ UNCHANGED <<now, contract, tlsVars, gateVars, taskVars>>

Drive(r) ==
    \/ Negotiate(r) \/ Evaluate(r)
    \/ \E d \in 1..MaxTime : CreateContract(r, d)
    \/ \E c \in Presented : VerifyContract(r, c) \/ Authorize(r, c)
    \/ \E h \in Handshakes, inTime \in BOOLEAN : ExecuteTls(r, h, inTime)
    \/ \E q \in Sendable : ExecuteTask(r, q)
    \/ Finish(r)

Next == Tick \/ \E r \in Runtimes : Drive(r)

Spec == Init /\ [][Next]_vars

(* The driver is straight-line code and every call it makes returns: the   *)
(* handshake is cut off by NativeRunner's timeout.                         *)
FairSpec == Spec /\ WF_vars(\E r \in Runtimes : Drive(r))

-----------------------------------------------------------------------------

(* Two authorizations for one transcript never have leases that are live   *)
(* together, even when the contract was issued anew in between with other  *)
(* terms ("duplicate-active-contract" protection).                         *)
OneLiveLease ==
    \A a, b \in authorized :
        a # b /\ a.contract.session = b.contract.session =>
            a.contract.expires <= b.at \/ b.contract.expires <= a.at

(* A contract the gate turned away is not used up: whatever the registry   *)
(* holds is the lease of an authorization that was given.                  *)
OnlyAuthorizedIsRegistered ==
    \A s \in DOMAIN registry.contracts :
        \E a \in authorized : /\ a.contract.session = s
                              /\ Lease(a.contract) = registry.contracts[s]

(* Behind every task is one handshake, both ends of which are in the group *)
(* of a profile that both sides declared safe and the selection chose,     *)
(* under a contract that both signed and that was in force when the gate   *)
(* let it through.                                                         *)
TaskIsAgreed ==
    \A e \in executed :
        \E a \in authorized :
            LET c == a.contract
                agreed == Agreed[SessionOf[e[1]]] IN
            /\ a.runtime = e[1] /\ c = e[2].contract
            /\ handshakes[e[1]] = 1 /\ ends[e[1]] = {c.group}
            /\ c.signed /\ c.intact
            /\ c.profile = agreed.selected
            /\ c.profile \in agreed.initiatorSafe \cap agreed.responderSafe
            /\ c.group = GroupOf[c.profile]
            /\ context[e[1]].contract = c
            /\ ActiveAt(c, a.at)
            /\ agreed.from <= a.at /\ a.at < agreed.until

(* A contract stands for one task at most, whatever requests are repeated, *)
(* altered or sent by another runtime.                                     *)
OneTaskPerContract ==
    \A e, f \in executed : e[2].contract = f[2].contract => e = f

(* "Infeasible sessions never call the TLS executor", and a runtime that   *)
(* has ended calls nothing any more.                                       *)
FailClosed ==
    [][\A r \in Runtimes :
          state[r] \in Final \/ Agreed[SessionOf[r]].selected = Absent =>
              /\ handshakes'[r] = handshakes[r]
              /\ context'[r] = context[r]
              /\ \A e \in executed' \ executed : e[1] # r]_vars

(* Every runtime ends, completed, safely aborted or failed, and is never   *)
(* left waiting in between.                                                *)
EveryRuntimeEnds == <>(\A r \in Runtimes : state[r] \in Final)
=============================================================================

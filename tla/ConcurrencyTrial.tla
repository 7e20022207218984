-------------------------- MODULE ConcurrencyTrial --------------------------
(***************************************************************************)
(* measure_concurrency: a number of session workers meet at a barrier, run *)
(* one feasible session each and put their result on a manager's queue.    *)
(* The parent joins them in order under one deadline, terminates whoever   *)
(* is still running after it, drains the queue and accounts for every      *)
(* process.                                                                *)
(*                                                                         *)
(* A put is a request to the manager's process: it may be under way when   *)
(* its sender is terminated, and arrive before or after the drain.  A      *)
(* process may die at any time, and a terminated one may outlast the two   *)
(* seconds it is given.                                                    *)
(***************************************************************************)
EXTENDS Integers, Sequences, FiniteSets

CONSTANTS
    MaxLevel,     \* the largest requested_concurrency
    MaxDeaths,    \* bound on workers that die by themselves
    None

ASSUME TrialAssumption ==
    /\ MaxLevel \in Nat \ {0} /\ MaxDeaths \in Nat
    /\ None \notin Nat
    /\ None \notin {"zero", "died", "terminated", "completed", "failed", "process_failure"}

VARIABLES
    trial,      \* where the parent is
    level,      \* requested_concurrency
    at,         \* the process it is at
    late,       \* the deadline has passed
    worker,     \* where each worker is
    exitcode,   \* None while it runs
    arrived,    \* who has called barrier.wait
    session,    \* how a worker's session ended, or None
    underway,   \* puts the manager has not performed yet
    queue,      \* the manager's queue
    results     \* what the parent has collected

trialVars == <<trial, level, at, late, worker, exitcode, arrived, session, underway, queue,
               results>>

Workers == 1..MaxLevel
Taking == 1..level
Alive(w) == exitcode[w] = None /\ worker[w] # "new"
Deaths == Cardinality({w \in Workers : exitcode[w] = "died"})

TrialInit ==
    /\ trial = "idle" /\ level = 0 /\ at = 1 /\ late = FALSE
    /\ worker = [w \in Workers |-> "new"]
    /\ exitcode = [w \in Workers |-> None]
    /\ arrived = {} /\ session = [w \in Workers |-> None]
    /\ underway = {} /\ queue = <<>> /\ results = <<>>

BeginTrial(n) ==
    /\ trial' = "start" /\ level' = n /\ at' = 1 /\ late' = FALSE
    /\ worker' = [w \in Workers |-> "new"]
    /\ exitcode' = [w \in Workers |-> None]
    /\ arrived' = {} /\ session' = [w \in Workers |-> None]
    /\ underway' = {} /\ queue' = <<>> /\ results' = <<>>

(* proc.start()                                                            *)
StartProcess ==
    /\ trial = "start"
    /\ worker' = [worker EXCEPT ![at] = "starting"]
    /\ IF at = level THEN trial' = "join" /\ at' = 1 ELSE trial' = trial /\ at' = at + 1
    /\ UNCHANGED <<level, late, exitcode, arrived, session, underway, queue, results>>

(* barrier.wait: a place in the barrier is not given back by dying.        *)
Arrive(w) ==
    /\ worker[w] = "starting"
    /\ worker' = [worker EXCEPT ![w] = "barrier"]
    /\ arrived' = arrived \cup {w}
    /\ UNCHANGED <<trial, level, at, late, exitcode, session, underway, queue, results>>

Pass(w) ==
    /\ worker[w] = "barrier" /\ arrived = Taking
    /\ worker' = [worker EXCEPT ![w] = "measuring"]
    /\ UNCHANGED <<trial, level, at, late, exitcode, arrived, session, underway, queue, results>>

(* measure_feasible returns a completed row, or a failed one, or raises;   *)
(* the worker puts its result and waits for the manager's reply.           *)
Put(w) ==
    /\ worker[w] = "measuring"
    /\ \E how \in {"completed", "failed"} :
        /\ session' = [session EXCEPT ![w] = how]
        /\ underway' = underway \cup {[pid |-> w, ok |-> how = "completed"]}
    /\ worker' = [worker EXCEPT ![w] = "putting"]
    /\ UNCHANGED <<trial, level, at, late, exitcode, arrived, queue, results>>

Deliver(r) ==
    /\ r \in underway
    /\ underway' = underway \ {r}
    /\ queue' = Append(queue, r)
    /\ worker' = IF worker[r.pid] = "putting" THEN [worker EXCEPT ![r.pid] = "leaving"]
                 ELSE worker
    /\ UNCHANGED <<trial, level, at, late, exitcode, arrived, session, results>>

Exit(w) ==
    /\ worker[w] = "leaving"
    /\ worker' = [worker EXCEPT ![w] = "ended"]
    /\ exitcode' = [exitcode EXCEPT ![w] = "zero"]
    /\ UNCHANGED <<trial, level, at, late, arrived, session, underway, queue, results>>

(* An exception outside the worker's try, or a signal from elsewhere.      *)
Die(w) ==
    /\ Alive(w) /\ worker[w] # "stuck" /\ Deaths < MaxDeaths
    /\ worker' = [worker EXCEPT ![w] = "ended"]
    /\ exitcode' = [exitcode EXCEPT ![w] = "died"]
    /\ UNCHANGED <<trial, level, at, late, arrived, session, underway, queue, results>>

Deadline ==
    /\ trial = "join" /\ ~late
    /\ late' = TRUE
    /\ UNCHANGED <<trial, level, at, worker, exitcode, arrived, session, underway, queue, results>>

NextProcess == IF at = level THEN trial' = "drain" /\ at' = 1 ELSE trial' = trial /\ at' = at + 1

(* proc.join returns in time.                                              *)
Join ==
    /\ trial = "join" /\ exitcode[at] # None
    /\ NextProcess
    /\ UNCHANGED <<level, late, worker, exitcode, arrived, session, underway, queue, results>>

(* Mutant: a process is waited for without a deadline.                     *)
TerminateNever ==
    /\ FALSE
    /\ UNCHANGED trialVars

(* It does not: terminate, and wait for two seconds more.                  *)
Terminate ==
    /\ trial = "join" /\ late /\ exitcode[at] = None
    /\ \/ /\ worker' = [worker EXCEPT ![at] = "ended"]
          /\ exitcode' = [exitcode EXCEPT ![at] = "terminated"]
       \/ /\ worker' = [worker EXCEPT ![at] = "stuck"]
          /\ exitcode' = exitcode
    /\ NextProcess
    /\ UNCHANGED <<level, late, arrived, session, underway, queue, results>>

Drain ==
    /\ trial = "drain" /\ queue # <<>>
    /\ results' = Append(results, Head(queue))
    /\ queue' = Tail(queue)
    /\ UNCHANGED <<trial, level, at, late, worker, exitcode, arrived, session, underway>>

(* queue.empty() was true: what arrives from here on is not looked at.     *)
Drained ==
    /\ trial = "drain" /\ queue = <<>>
    /\ trial' = "account"
    /\ UNCHANGED <<level, at, late, worker, exitcode, arrived, session, underway, queue, results>>

(* Mutant: a process that did not end well is counted as failed again.     *)
AccountedForTwice ==
    LET failed == {w \in Taking : exitcode[w] \notin {"zero", None}} IN
    results \o [i \in 1..Cardinality(failed) |-> [pid |-> None, ok |-> FALSE]]

(* A process that ended badly and left no result counts as a failure.      *)
AccountedFor ==
    LET left == {results[i].pid : i \in DOMAIN results}
        failed == {w \in Taking : exitcode[w] \notin {"zero", None} /\ w \notin left} IN
    results \o [i \in 1..Cardinality(failed) |-> [pid |-> None, ok |-> FALSE]]

Successes == {i \in DOMAIN results : results[i].ok}

TrialRow(all) ==
    [kind |-> "concurrency", completed |-> Len(all) = level, requested |-> level,
     successes |-> Cardinality(Successes), failed |-> level - Cardinality(Successes),
     timeouts |-> Cardinality({w \in Taking : exitcode[w] = None}),
     class |-> IF Cardinality(Successes) = level THEN None ELSE "process_failure"]

(* The rest of measure_concurrency.                                        *)
Account ==
    /\ trial = "account"
    /\ trial' = "returned"
    /\ results' = AccountedFor
    /\ UNCHANGED <<level, at, late, worker, exitcode, arrived, session, underway, queue>>

(* A stuck process gets its signal in the end.                             *)
Release(w) ==
    /\ worker[w] = "stuck"
    /\ worker' = [worker EXCEPT ![w] = "ended"]
    /\ exitcode' = [exitcode EXCEPT ![w] = "terminated"]
    /\ UNCHANGED <<trial, level, at, late, arrived, session, underway, queue, results>>

Parent == StartProcess \/ Join \/ Terminate \/ Drain \/ Drained \/ Account
TrialNext ==
    \/ StartProcess \/ Deadline \/ Join \/ Terminate \/ Drain \/ Drained \/ Account
    \/ \E w \in Workers : Arrive(w) \/ Pass(w) \/ Put(w) \/ Exit(w) \/ Die(w) \/ Release(w)
    \/ \E r \in underway : Deliver(r)
=============================================================================

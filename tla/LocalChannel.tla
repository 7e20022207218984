---------------------------- MODULE LocalChannel ----------------------------
(***************************************************************************)
(* The local agent probe of a feasible session: _run_local_agents          *)
(* (campaigns/stage8_measurement.py) starts a responder process, waits     *)
(* until its socket path exists, lets a pool worker send a payload and     *)
(* read the echo, and joins the responder (runtime/responder.py,           *)
(* runtime/initiator.py, transport/local_channel.py).                      *)
(*                                                                         *)
(* Three processes meet in the file system and on the socket.  Durations   *)
(* are left out: a timeout of the code may strike whenever the wait it     *)
(* bounds has not ended, and "Timeouts" says which of them can.            *)
(***************************************************************************)
EXTENDS FiniteSets

CONSTANT Timeouts  \* of "poll", "accept", "recv", "get", "join"

ASSUME TimeoutsAssumption ==
    Timeouts \subseteq {"poll", "accept", "recv", "get", "join"}

VARIABLES
    parent,     \* _run_local_agents: start, poll, probe, get, join, leave, fail,
                \*   returned, raised
    responder,  \* responder_echo_once: off, mkdir, bind, listen, accept, recv,
                \*   send, close, cleanup, ended
    initiator,  \* initiator_probe: off, connect, send, recv, echoed, failed, refused
    dir,        \* whether the temporary directory exists
    path,       \* the socket path: absent, bound, listening, dead
    conn,       \* the connection: what has been queued, taken, sent, closed
    struck      \* history: the timeouts that have struck

probeVars == <<parent, responder, initiator, dir, path, conn, struck>>

NoConn == [queued |-> FALSE, taken |-> FALSE, request |-> FALSE, reply |-> FALSE,
           serverClosed |-> FALSE, clientClosed |-> FALSE]

ProbeInit ==
    /\ parent = "start"
    /\ responder = "off"
    /\ initiator = "off"
    /\ dir = FALSE
    /\ path = "absent"
    /\ conn = NoConn
    /\ struck = {}

-----------------------------------------------------------------------------

(* LocalSocketEndpoint.listen: the directory is made again if it is gone,  *)
(* an old path is unlinked...                                              *)
MakeDirectory ==
    /\ responder = "mkdir"
    /\ dir' = TRUE
    /\ path' = "absent"
    /\ responder' = "bind"
    /\ UNCHANGED <<parent, initiator, conn, struck>>

(* ... bind creates the path, and connecting is possible only after listen.*)
Bind ==
    /\ responder = "bind"
    /\ IF dir
       THEN path' = "bound" /\ responder' = "listen"
       ELSE responder' = "ended" /\ UNCHANGED path
    /\ UNCHANGED <<parent, initiator, conn, dir, struck>>

Listen ==
    /\ responder = "listen"
    /\ path' = IF path = "absent" THEN "absent" ELSE "listening"
    /\ responder' = "accept"
    /\ UNCHANGED <<parent, initiator, conn, dir, struck>>

Accept ==
    /\ responder = "accept"
    /\ conn.queued
    /\ conn' = [conn EXCEPT !.taken = TRUE]
    /\ responder' = "recv"
    /\ UNCHANGED <<parent, initiator, path, dir, struck>>

(* server.settimeout bounds the wait; the "finally" closes the server.     *)
AcceptTimeout ==
    /\ "accept" \in Timeouts
    /\ responder = "accept" /\ ~conn.queued
    /\ responder' = "close"
    /\ struck' = struck \cup {"accept"}
    /\ UNCHANGED <<parent, initiator, path, conn, dir>>

(* conn.recv(4096): the accepted connection has no timeout, but ends when  *)
(* the other side is gone.                                                 *)
ReceiveRequest ==
    /\ responder = "recv"
    /\ conn.request \/ conn.clientClosed
    /\ responder' = "send"
    /\ UNCHANGED <<parent, initiator, path, conn, dir, struck>>

(* conn.sendall(data) and clean_shutdown(conn); an empty read is echoed as *)
(* nothing at all.                                                         *)
SendReply ==
    /\ responder = "send"
    /\ conn' = [conn EXCEPT !.reply = conn.request, !.serverClosed = TRUE]
    /\ responder' = "close"
    /\ UNCHANGED <<parent, initiator, path, dir, struck>>

(* server.close(): a connection still in the queue is reset.               *)
CloseServer ==
    /\ responder = "close"
    /\ path' = IF path = "absent" THEN "absent" ELSE "dead"
    /\ conn' = [conn EXCEPT !.serverClosed = TRUE]
    /\ responder' = "cleanup"
    /\ UNCHANGED <<parent, initiator, dir, struck>>

(* Mutant: the socket path is left behind.                                 *)
CleanupNothing ==
    /\ responder = "cleanup"
    /\ responder' = "ended"
    /\ UNCHANGED <<parent, initiator, path, conn, dir, struck>>

(* endpoint.cleanup() *)
Cleanup ==
    /\ responder = "cleanup"
    /\ path' = "absent"
    /\ responder' = "ended"
    /\ UNCHANGED <<parent, initiator, conn, dir, struck>>

Responder ==
    \/ MakeDirectory \/ Bind \/ Listen \/ Accept \/ AcceptTimeout
    \/ ReceiveRequest \/ SendReply \/ CloseServer \/ Cleanup

-----------------------------------------------------------------------------

(* LocalSocketEndpoint.connect: one attempt.  Without a path it raises     *)
(* FileNotFoundError, on a path nobody listens at ConnectionRefusedError:  *)
(* "refused" if the responder has bound it but does not listen yet.        *)
Connect ==
    /\ initiator = "connect"
    /\ IF path = "listening"
       THEN initiator' = "send" /\ conn' = [conn EXCEPT !.queued = TRUE]
       ELSE /\ initiator' = IF path = "bound" THEN "refused" ELSE "failed"
            /\ UNCHANGED conn
    /\ UNCHANGED <<parent, responder, path, dir, struck>>

SendRequest ==
    /\ initiator = "send"
    /\ IF conn.serverClosed
       THEN initiator' = "failed" /\ conn' = [conn EXCEPT !.clientClosed = TRUE]
       ELSE initiator' = "recv" /\ conn' = [conn EXCEPT !.request = TRUE]
    /\ UNCHANGED <<parent, responder, path, dir, struck>>

(* sock.recv(4096), bounded by the client's timeout.                       *)
ReceiveReply ==
    /\ initiator = "recv"
    /\ \/ conn.reply /\ initiator' = "echoed" /\ UNCHANGED struck
       \/ ~conn.reply /\ conn.serverClosed /\ initiator' = "failed" /\ UNCHANGED struck
       \/ /\ ~conn.reply /\ "recv" \in Timeouts
          /\ initiator' = "failed"
          /\ struck' = struck \cup {"recv"}
    /\ conn' = [conn EXCEPT !.clientClosed = TRUE]
    /\ UNCHANGED <<parent, responder, path, dir>>

Initiator == Connect \/ SendRequest \/ ReceiveReply

-----------------------------------------------------------------------------

(* TemporaryDirectory() and responder.start() *)
Start ==
    /\ parent = "start"
    /\ parent' = "poll"
    /\ dir' = TRUE
    /\ responder' = "mkdir"
    /\ UNCHANGED <<initiator, path, conn, struck>>

(* while not socket_path.exists() and time.monotonic() < deadline          *)
Poll ==
    /\ parent = "poll"
    /\ \/ path # "absent" /\ UNCHANGED struck
       \/ path = "absent" /\ "poll" \in Timeouts /\ struck' = struck \cup {"poll"}
    /\ parent' = "probe"
    /\ UNCHANGED <<responder, initiator, path, conn, dir>>

(* pool.apply_async(initiator_probe, ...) *)
Probe ==
    /\ parent = "probe"
    /\ parent' = "get"
    /\ initiator' = "connect"
    /\ UNCHANGED <<responder, path, conn, dir, struck>>

(* result.get(timeout=10).  An exception of the worker, or a timeout after *)
(* which the pool is terminated, leaves the function at once: the          *)
(* responder is not joined.                                                *)
GetResult ==
    /\ parent = "get"
    /\ \/ /\ initiator = "echoed"
          /\ parent' = "join"
          /\ UNCHANGED <<initiator, conn, struck>>
       \/ /\ initiator \in {"failed", "refused"}
          /\ parent' = "fail"
          /\ UNCHANGED <<initiator, conn, struck>>
       \/ /\ initiator \notin {"echoed", "failed", "refused"} /\ "get" \in Timeouts
          /\ parent' = "fail"
          /\ initiator' = "failed"
          /\ conn' = [conn EXCEPT !.clientClosed = TRUE]
          /\ struck' = struck \cup {"get"}
    /\ UNCHANGED <<responder, path, dir>>

(* Mutant: a responder that does not end is left alone.                    *)
JoinOrLeave ==
    /\ parent = "join"
    /\ responder = "ended" \/ "join" \in Timeouts
    /\ parent' = "leave"
    /\ UNCHANGED <<responder, initiator, path, conn, dir, struck>>

(* responder.join(timeout=10), terminate if it is still alive.             *)
JoinResponder ==
    /\ parent = "join"
    /\ \/ responder = "ended" /\ UNCHANGED struck
       \/ responder # "ended" /\ "join" \in Timeouts /\ struck' = struck \cup {"join"}
    /\ responder' = "ended"
    /\ parent' = "leave"
    /\ UNCHANGED <<initiator, path, conn, dir>>

(* Leaving the block removes the temporary directory and what is in it.    *)
RemoveDirectory ==
    /\ parent \in {"leave", "fail"}
    /\ parent' = IF parent = "leave" THEN "returned" ELSE "raised"
    /\ dir' = FALSE
    /\ path' = "absent"
    /\ UNCHANGED <<responder, initiator, conn, struck>>

ProbeParent == Start \/ Poll \/ Probe \/ GetResult \/ JoinResponder \/ RemoveDirectory

ProbeNext == ProbeParent \/ Responder \/ Initiator

ProbeSpec == ProbeInit /\ [][ProbeNext]_probeVars

(* Each process runs, and each timeout strikes in the end.                 *)
FairProbeSpec ==
    /\ ProbeSpec
    /\ WF_probeVars(ProbeParent) /\ WF_probeVars(Responder) /\ WF_probeVars(Initiator)

-----------------------------------------------------------------------------

(* When _run_local_agents returns, the responder, its socket path and the  *)
(* directory are gone, and the payload has been to the responder and back. *)
(* If nothing has timed out, the probe fails in one way only, by being     *)
(* refused: it was made after bind, which is when the path the parent      *)
(* waits for exists, and before listen.                                    *)
ProbeEndIsExplained ==
    /\ parent = "returned" =>
          /\ responder = "ended"
          /\ path = "absent" /\ ~dir
          /\ initiator = "echoed"
          /\ conn.taken /\ conn.reply
    /\ initiator = "failed" => struck # {}

(* Whatever times out, in the end all three processes have stopped and no  *)
(* socket path is left, even when the parent gave up on the responder.     *)
EventuallyQuiet ==
    <>[](/\ parent \in {"returned", "raised"}
         /\ responder = "ended"
         /\ initiator \in {"echoed", "failed", "refused"}
         /\ path = "absent")

=============================================================================

----------------------------- MODULE HttpServer ------------------------------
(***************************************************************************)
(* edge::HttpServer of src/edge/http_server.cpp, with the four routes that *)
(* src/apps/safeedged.cpp registers: one accept thread, one connection at  *)
(* a time, against clients that may stay silent, trickle or leave, and an  *)
(* owner that starts and stops the server.  A client that leaves can end   *)
(* the process: it writes with write(), and does not handle SIGPIPE.       *)
(*                                                                         *)
(* There is no time in the model: the 2 s of a connection are those of one *)
(* poll(), and a client that trickles has them again for every byte.       *)
(*                                                                         *)
(* A request is its length, counted in the units of MaxRequest, and what   *)
(* it asks for once it has been read.                                      *)
(***************************************************************************)
EXTENDS Integers, Sequences

CONSTANTS
  Clients,
  NoClient,
  MaxRequest,  \* kMaxRequestBytes
  Chunk,       \* the size of the buffer one read() fills
  Backlog,     \* the length of the listen queue
  MaxStarts,   \* bound on the calls of start()
  MaxFaults    \* bound on the faults the runtime latches

ASSUME HttpAssumption ==
  /\ NoClient \notin Clients
  /\ MaxRequest \in Nat \ {0} /\ Chunk \in Nat \ {0} /\ Backlog \in Nat \ {0}
  /\ MaxStarts \in Nat /\ MaxFaults \in Nat

VARIABLES
  running,        \* running_
  listening,      \* listen_fd_ >= 0
  owner,          \* where the owner is in stop()
  at,             \* where the accept thread is
  connection,     \* the client it serves
  received,       \* request.size()
  complete,       \* the request holds the end of its headers
  response,       \* its status, and whether it says that no fault is latched
  queue,          \* the connections the kernel holds for accept()
  client,         \* what each client has seen of its request
  silent,         \* the clients that never send anything, nor leave
  left,           \* the clients that have closed their end
  loop_running, fault_latched,  \* of the runtime
  starts, faults,
  under_fault     \* history: clients with a fault latched ever since they connected

serving == <<at, connection, received, complete, response>>
runtime == <<loop_running, fault_latched, faults>>
server == <<running, listening, owner, serving, queue, client, silent, left, runtime,
            starts, under_fault>>

Response(status, clear) == [status |-> status, clear |-> clear]
NoResponse == Response(0, FALSE)
Statuses   == {200, 400, 404, 405, 503}
Responses  == [status: Statuses \cup {0}, clear: BOOLEAN]

Progress == {"idle", "waiting", "clear", "answered", "dropped"}
Lengths  == 0 .. MaxRequest + Chunk - 1

ServerType ==
  /\ running \in BOOLEAN /\ listening \in BOOLEAN
  /\ owner \in {"idle", "joining", "closing"}
  /\ at \in {"none", "head", "poll", "accept", "read", "route", "health", "write",
             "body", "ended", "killed"}
  /\ connection \in Clients \cup {NoClient}
  /\ received \in Lengths /\ complete \in BOOLEAN
  /\ response \in Responses
  /\ queue \in Seq(Clients) /\ Len(queue) <= Backlog
  /\ client \in [Clients -> Progress]
  /\ silent \in SUBSET Clients /\ left \in SUBSET Clients
  /\ loop_running \in BOOLEAN /\ fault_latched \in BOOLEAN
  /\ starts \in Nat /\ faults \in Nat
  /\ under_fault \in SUBSET Clients

ServerInit ==
  /\ running = FALSE /\ listening = FALSE /\ owner = "idle"
  /\ at = "none" /\ connection = NoClient /\ received = 0 /\ complete = FALSE
  /\ response = NoResponse
  /\ queue = <<>>
  /\ client = [c \in Clients |-> "idle"]
  /\ silent \in SUBSET Clients /\ left = {}
  /\ loop_running = FALSE /\ fault_latched = FALSE
  /\ starts = 0 /\ faults = 0
  /\ under_fault = {}
-----------------------------------------------------------------------------
(* A client connects while the port is open and the queue has room.        *)
Connect(c) ==
  /\ listening /\ client[c] = "idle" /\ Len(queue) < Backlog
  /\ client' = [client EXCEPT ![c] = "waiting"]
  /\ queue' = Append(queue, c)
  /\ under_fault' = IF fault_latched THEN under_fault \cup {c} ELSE under_fault
  /\ UNCHANGED <<running, listening, owner, serving, silent, left, runtime, starts>>

(* A client closes its end before it has its answer; what it had sent can  *)
(* still be read.                                                          *)
Leave(c) ==
  /\ client[c] = "waiting" /\ c \notin silent \cup left
  /\ left' = left \cup {c}
  /\ UNCHANGED <<running, listening, owner, serving, queue, client, silent, runtime, starts,
                 under_fault>>

(* The control thread starts or ends its loop, and publishes a snapshot    *)
(* with or without a latched fault.                                        *)
LoopChanges ==
  /\ at # "killed"
  /\ loop_running' = ~loop_running
  /\ UNCHANGED <<running, listening, owner, serving, queue, client, silent, left,
                 fault_latched, faults, starts, under_fault>>

FaultLatches ==
  /\ at # "killed" /\ ~fault_latched /\ faults < MaxFaults
  /\ fault_latched' = TRUE
  /\ faults' = faults + 1
  /\ UNCHANGED <<running, listening, owner, serving, queue, client, silent, left,
                 loop_running, starts, under_fault>>

FaultClears ==
  /\ at # "killed" /\ fault_latched
  /\ fault_latched' = FALSE
  /\ under_fault' = {}
  /\ UNCHANGED <<running, listening, owner, serving, queue, client, silent, left,
                 loop_running, faults, starts>>
-----------------------------------------------------------------------------
(* start(), when socket(), bind() and listen() succeed.  On a failure it   *)
(* closes the socket and leaves everything as it was; on a running server  *)
(* it does nothing.                                                        *)
Start ==
  /\ at # "killed" /\ owner = "idle" /\ ~running /\ starts < MaxStarts
  /\ running' = TRUE
  /\ listening' = TRUE
  /\ at' = "head"
  /\ starts' = starts + 1
  /\ UNCHANGED <<owner, connection, received, complete, response, queue, client, silent, left,
                 runtime, under_fault>>

(* stop(): the exchange of running_.                                       *)
StopBegin ==
  /\ owner = "idle" /\ running
  /\ running' = FALSE
  /\ owner' = "joining"
  /\ UNCHANGED <<listening, serving, queue, client, silent, left, runtime, starts, under_fault>>

M_StopWithoutJoin ==
  /\ owner = "joining"
  /\ owner' = "closing"
  /\ UNCHANGED <<running, listening, serving, queue, client, silent, left, runtime, starts,
                 under_fault>>

(* stop(): thread_.join().                                                 *)
StopJoin ==
  /\ owner = "joining" /\ at = "ended"
  /\ owner' = "closing"
  /\ at' = "none"
  /\ UNCHANGED <<running, listening, connection, received, complete, response, queue,
                 client, silent, left, runtime, starts, under_fault>>

Queued == {queue[i] : i \in 1 .. Len(queue)}

(* stop(): the listening socket is closed, and with it the connections     *)
(* nobody accepted.                                                        *)
StopClose ==
  /\ owner = "closing"
  /\ listening' = FALSE
  /\ queue' = <<>>
  /\ client' = [c \in Clients |-> IF c \in Queued THEN "dropped" ELSE client[c]]
  /\ owner' = "idle"
  /\ UNCHANGED <<running, serving, silent, left, runtime, starts, under_fault>>
-----------------------------------------------------------------------------
(* acceptLoop(): the head of the loop.                                     *)
LoopHead ==
  /\ at = "head"
  /\ at' = IF running THEN "poll" ELSE "ended"
  /\ UNCHANGED <<running, listening, owner, connection, received, complete, response,
                 queue, client, silent, left, runtime, starts, under_fault>>

M_PollUnbounded ==
  /\ at = "poll" /\ queue # <<>>
  /\ at' = "accept"
  /\ UNCHANGED <<running, listening, owner, connection, received, complete, response,
                 queue, client, silent, left, runtime, starts, under_fault>>

(* acceptLoop(): poll() finds a connection, or times out.                  *)
PollListen ==
  /\ at = "poll"
  /\ at' = IF queue = <<>> THEN "head" ELSE "accept"
  /\ UNCHANGED <<running, listening, owner, connection, received, complete, response,
                 queue, client, silent, left, runtime, starts, under_fault>>

(* acceptLoop(): accept(), and serveConnection() begins.                   *)
Accept ==
  /\ at = "accept"
  /\ connection' = Head(queue)
  /\ queue' = Tail(queue)
  /\ received' = 0 /\ complete' = FALSE
  /\ at' = "read"
  /\ UNCHANGED <<running, listening, owner, response, client, silent, left, runtime, starts,
                 under_fault>>

(* acceptLoop(): accept() fails, the client having left.                   *)
AcceptFails ==
  /\ at = "accept" /\ Head(queue) \in left
  /\ client' = [client EXCEPT ![Head(queue)] = "dropped"]
  /\ queue' = Tail(queue)
  /\ at' = "head"
  /\ UNCHANGED <<running, listening, owner, connection, received, complete, response,
                 silent, left, runtime, starts, under_fault>>

(* serveConnection() returns and acceptLoop() closes the connection.       *)
Finish(outcome) ==
  /\ client' = [client EXCEPT ![connection] = outcome]
  /\ connection' = NoClient
  /\ received' = 0 /\ complete' = FALSE /\ response' = NoResponse
  /\ at' = "head"

(* The condition of the read loop.                                         *)
MoreToRead == ~complete /\ received < MaxRequest

(* read() returns some bytes, which may end the headers.                   *)
ReadSome ==
  /\ at = "read" /\ MoreToRead /\ connection \notin silent
  /\ received' \in received + 1 .. received + Chunk
  /\ complete' \in BOOLEAN
  /\ UNCHANGED <<running, listening, owner, at, connection, response, queue, client,
                 silent, left, runtime, starts, under_fault>>

M_ReadForever ==
  /\ at = "read" /\ MoreToRead /\ connection \notin silent
  /\ Finish("dropped")
  /\ UNCHANGED <<running, listening, owner, queue, silent, left, runtime, starts, under_fault>>

(* poll() on the connection times out, or the client is gone.              *)
ReadEnds ==
  /\ at = "read" /\ MoreToRead
  /\ Finish("dropped")
  /\ UNCHANGED <<running, listening, owner, queue, silent, left, runtime, starts, under_fault>>

(* The request is parsed, complete or cut off at its limit.                *)
Parse ==
  /\ at = "read" /\ ~MoreToRead
  /\ at' = "route"
  /\ UNCHANGED <<running, listening, owner, connection, received, complete, response,
                 queue, client, silent, left, runtime, starts, under_fault>>

Refuse ==
  /\ at = "route"
  /\ \E status \in {400, 404, 405} : response' = Response(status, FALSE)
  /\ at' = "write"
  /\ UNCHANGED <<running, listening, owner, connection, received, complete, queue,
                 client, silent, left, runtime, starts, under_fault>>

(* The /healthz handler reads loop_running for its body, and again for its *)
(* status.                                                                 *)
HealthBody ==
  /\ at = "route"
  /\ at' = "health"
  /\ UNCHANGED <<running, listening, owner, connection, received, complete, response,
                 queue, client, silent, left, runtime, starts, under_fault>>

HealthStatus == IF loop_running THEN 200 ELSE 503

Health ==
  /\ at = "health"
  /\ response' = Response(HealthStatus, FALSE)
  /\ at' = "write"
  /\ UNCHANGED <<running, listening, owner, connection, received, complete, queue,
                 client, silent, left, runtime, starts, under_fault>>

M_readyWithoutSnapshot(loaded) == IF loaded /\ fault_latched THEN 503 ELSE 200

(* The /readyz handler: its status, given whether tryLoad() succeeded.     *)
ReadyStatus(loaded) == IF ~loaded \/ fault_latched THEN 503 ELSE 200

Ready ==
  /\ at = "route"
  /\ \E loaded \in BOOLEAN :
       response' = Response(ReadyStatus(loaded), ReadyStatus(loaded) = 200)
  /\ at' = "write"
  /\ UNCHANGED <<running, listening, owner, connection, received, complete, queue,
                 client, silent, left, runtime, starts, under_fault>>

(* The /safety handler: the torque permission of the snapshot, which a     *)
(* latched fault excludes (SafetyStateMachine.tla), or 503 and no numbers. *)
Safety ==
  /\ at = "route"
  /\ \/ response' = Response(503, FALSE)
     \/ \E torque_permitted \in BOOLEAN :
          /\ torque_permitted => ~fault_latched
          /\ response' = Response(200, torque_permitted)
  /\ at' = "write"
  /\ UNCHANGED <<running, listening, owner, connection, received, complete, queue,
                 client, silent, left, runtime, starts, under_fault>>

(* renderPrometheus(): what the page says of the fault.  Without a fresh   *)
(* snapshot the figures are zeroes, and safeedge_snapshot_fresh is 0.      *)
renderPrometheus(fresh) == fresh /\ ~fault_latched

Metrics ==
  /\ at = "route"
  /\ \E fresh \in BOOLEAN : response' = Response(200, renderPrometheus(fresh))
  /\ at' = "write"
  /\ UNCHANGED <<running, listening, owner, connection, received, complete, queue,
                 client, silent, left, runtime, starts, under_fault>>

(* writeAll() of the head.  A first write() after the client has closed    *)
(* its end succeeds like any other, and an answer fits in the socket       *)
(* buffer, so that write() does not wait for the client to read.           *)
WriteHead ==
  /\ at = "write"
  /\ at' = "body"
  /\ UNCHANGED <<running, listening, owner, connection, received, complete, response,
                 queue, client, silent, left, runtime, starts, under_fault>>

(* writeAll() of the body; the request is counted.                         *)
WriteBody ==
  /\ at = "body"
  /\ Finish(IF response.clear THEN "clear" ELSE "answered")
  /\ UNCHANGED <<running, listening, owner, queue, silent, left, runtime, starts,
                 under_fault>>

(* write() of the head or of the body fails on a connection its client has *)
(* reset; after the head the body is not tried.  The request is counted.   *)
WriteFails ==
  /\ at \in {"write", "body"} /\ connection \in left
  /\ Finish("dropped")
  /\ UNCHANGED <<running, listening, owner, queue, silent, left, runtime, starts,
                 under_fault>>

(* write() on a connection its client has closed and then reset, as it     *)
(* does when the head reaches it, raises SIGPIPE, whose default ends the   *)
(* process: the kernel closes its sockets, and those who wait are not      *)
(* answered.                                                               *)
BrokenPipe ==
  /\ at \in {"write", "body"} /\ connection \in left
  /\ at' = "killed"
  /\ running' = FALSE /\ listening' = FALSE
  /\ connection' = NoClient /\ received' = 0 /\ complete' = FALSE /\ response' = NoResponse
  /\ queue' = <<>>
  /\ UNCHANGED <<owner, client, silent, left, runtime, starts, under_fault>>

Thread ==
  \/ LoopHead \/ PollListen \/ Accept \/ AcceptFails \/ ReadSome \/ ReadEnds \/ Parse
  \/ Refuse \/ HealthBody \/ Health \/ Ready \/ Safety \/ Metrics
  \/ WriteHead \/ WriteBody \/ WriteFails
Owner == StopJoin \/ StopClose

ServerNext ==
  \/ \E c \in Clients : Connect(c) \/ Leave(c)
  \/ LoopChanges \/ FaultLatches \/ FaultClears
  \/ Start \/ StopBegin \/ Owner
  \/ Thread \/ BrokenPipe

ServerSpec == ServerInit /\ [][ServerNext]_server

(* The accept thread and a stop() in progress are scheduled; a client need *)
(* never send anything.                                                    *)
FairServer == ServerSpec /\ WF_server(Thread) /\ WF_server(Owner)
-----------------------------------------------------------------------------
(* stop(): the accept thread never polls or accepts on a listening socket  *)
(* that has been closed, however stop() falls into its loop.               *)
SocketOutlivesThread == at \in {"poll", "accept"} => listening

(* REQ-EDGE-002, /readyz, /safety and /metrics: a client that connected    *)
(* with a fault latched is not told, while that fault stays, that the      *)
(* service is ready, that torque is permitted or that a fresh snapshot has *)
(* no fault, even when the snapshot could not be read.                     *)
FaultIsNotDenied == \A c \in Clients : client[c] = "clear" => c \notin under_fault

(* REQ-EDGE-007, serveConnection(): every client that connects is answered *)
(* or dropped in the end, behind clients that send nothing, too much, a    *)
(* little at a time, or leave; unless a client that left while it was      *)
(* being answered has ended the process.                                   *)
EveryClientIsServed ==
  \A c \in Clients :
    client[c] = "waiting" ~> client[c] # "waiting" \/ at = "killed"

(* REQ-EDGE-001 and the comment in acceptLoop(): stop() returns, with or   *)
(* without clients, unless the process ends under it; when is not said,    *)
(* since the client being served is served to its end.                     *)
StopReturns == owner = "joining" ~> owner = "idle" \/ at = "killed"
=============================================================================

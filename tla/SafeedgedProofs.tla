--------------------------- MODULE SafeedgedProofs ---------------------------
(***************************************************************************)
(* The runtime process and the HTTP server in it.  The server, for any     *)
(* number of clients, every length of its queue and of a request, and      *)
(* however start() and stop() alternate.  The process, for every period    *)
(* and watchdog and any number of presses, touches and failed removals of  *)
(* the acknowledge file.                                                   *)
(***************************************************************************)
EXTENDS Safeedged, HttpServer, TLAPS

(* The accept thread is there from start() to the join in stop(), and the  *)
(* listening socket longer, unless the process is ended.                   *)
ThreadInv ==
  /\ at \notin {"none", "killed"} => listening
  /\ owner = "idle" => (running <=> at \notin {"none", "killed"}) /\ at # "ended"
  /\ owner = "joining" => ~running /\ at # "none"
  /\ owner = "closing" => ~running /\ at = "none"

Serving == {"read", "route", "health", "write", "body"}

(* A client is in the queue once, and waits; so does the one being served, *)
(* which has left the queue.                                               *)
QueueInv ==
  /\ at = "accept" => queue # <<>>
  /\ \A i \in 1 .. Len(queue) : client[queue[i]] = "waiting"
  /\ \A i, j \in 1 .. Len(queue) : queue[i] = queue[j] => i = j
  /\ at \in Serving =>
       /\ connection \in Clients /\ client[connection] = "waiting"
       /\ \A i \in 1 .. Len(queue) : queue[i] # connection

(* An answer that denies a fault was made without one, and its client does *)
(* not come under one that is latched later.                               *)
AnswerInv ==
  /\ ~fault_latched => under_fault = {}
  /\ at \in {"write", "body"} /\ response.clear => connection \notin under_fault
-----------------------------------------------------------------------------
(* What the accept thread does leaves the socket, the owner and the        *)
(* runtime alone, and keeps the thread there.                              *)
LEMMA ThreadStep ==
  ASSUME Thread
  PROVE  /\ UNCHANGED <<running, listening, owner, fault_latched, under_fault>>
         /\ at \notin {"none", "ended", "killed"} /\ at' \notin {"none", "killed"}
         /\ at' = "ended" => ~running
<1>1. CASE LoopHead \/ PollListen \/ Accept \/ AcceptFails
  BY <1>1 DEF LoopHead, PollListen, Accept, AcceptFails, runtime
<1>2. CASE ReadSome \/ ReadEnds \/ Parse \/ WriteHead \/ WriteBody \/ WriteFails
  BY <1>2 DEF ReadSome, ReadEnds, Parse, WriteHead, WriteBody, WriteFails, Finish, runtime
<1>3. CASE Refuse \/ HealthBody \/ Health \/ Ready \/ Safety \/ Metrics
  BY <1>3 DEF Refuse, HealthBody, Health, Ready, Safety, Metrics, runtime
<1> QED BY <1>1, <1>2, <1>3 DEF Thread

(* start() and stop() keep the thread inside the life of the socket.       *)
LEMMA ThreadInvStep ==
  ASSUME ServerType, ThreadInv, [ServerNext]_server
  PROVE  ThreadInv'
<1> USE DEF ThreadInv
<1>1. CASE (\E c \in Clients : Connect(c) \/ Leave(c)) \/ LoopChanges \/ FaultLatches
           \/ FaultClears \/ UNCHANGED server
  <2>1. UNCHANGED <<running, listening, owner, at>>
    BY <1>1 DEF Connect, Leave, LoopChanges, FaultLatches, FaultClears, server, serving
  <2> QED BY <2>1
<1>2. CASE Start
  BY <1>2 DEF Start
<1>3. CASE StopBegin
  BY <1>3 DEF StopBegin, serving
<1>4. CASE StopJoin
  BY <1>4 DEF StopJoin
<1>5. CASE StopClose
  BY <1>5 DEF StopClose, serving
<1>6. CASE Thread
  BY <1>6, ThreadStep DEF ServerType
<1>7. CASE BrokenPipe
  BY <1>7 DEF BrokenPipe
<1> QED BY <1>1, <1>2, <1>3, <1>4, <1>5, <1>6, <1>7 DEF ServerNext, Owner

(* accept() and its failure take the head of the queue.                    *)
LEMMA Shorter ==
  ASSUME NEW s \in Seq(Clients), s # <<>>
  PROVE  /\ Head(s) \in Clients /\ Head(s) = s[1] /\ Tail(s) \in Seq(Clients)
         /\ Len(s) \in Nat \ {0} /\ Len(Tail(s)) = Len(s) - 1
         /\ \A i \in 1 .. Len(Tail(s)) : Tail(s)[i] = s[i + 1]
OBVIOUS

(* What the routes answer: an answer that denies a fault is made while     *)
(* none is latched.                                                        *)
LEMMA Answers ==
  ASSUME Refuse \/ Health \/ Ready \/ Safety \/ Metrics
  PROVE  \/ \E status \in Statuses : response' = Response(status, FALSE)
         \/ response' = Response(200, TRUE) /\ ~fault_latched
<1>0. 200 \in Statuses /\ 503 \in Statuses
  BY DEF Statuses
<1>1. CASE Refuse
  <2>1. PICK status \in {400, 404, 405} : response' = Response(status, FALSE)
    BY <1>1, Zenon DEF Refuse
  <2>2. status \in Statuses
    BY DEF Statuses
  <2> QED BY <2>1, <2>2, Zenon
<1>2. CASE Health
  <2>1. HealthStatus \in Statuses
    BY DEF HealthStatus, Statuses
  <2> QED BY <1>2, <2>1, Zenon DEF Health
<1>3. CASE Ready
  <2>1. PICK loaded \in BOOLEAN :
          response' = Response(ReadyStatus(loaded), ReadyStatus(loaded) = 200)
    BY <1>3, Zenon DEF Ready
  <2>2. CASE ~loaded \/ fault_latched
    <3>1. ReadyStatus(loaded) = 503 /\ ReadyStatus(loaded) # 200
      BY <2>2 DEF ReadyStatus
    <3>2. (ReadyStatus(loaded) = 200) = FALSE
      BY <3>1, Zenon
    <3>3. response' = Response(503, FALSE)
      BY <2>1, <3>1, <3>2, Zenon
    <3> QED BY <1>0, <3>3, Zenon
  <2>3. CASE loaded /\ ~fault_latched
    <3>1. ReadyStatus(loaded) = 200
      BY <2>3 DEF ReadyStatus
    <3>2. (ReadyStatus(loaded) = 200) = TRUE
      BY <3>1, Zenon
    <3> QED BY <2>1, <2>3, <3>1, <3>2, Zenon
  <2> QED BY <2>2, <2>3
<1>4. CASE Safety
  <2>1. \/ response' = Response(503, FALSE)
        \/ \E torque_permitted \in BOOLEAN :
             (torque_permitted => ~fault_latched) /\ response' = Response(200, torque_permitted)
    BY <1>4, Zenon DEF Safety
  <2>2. CASE response' = Response(503, FALSE)
    BY <1>0, <2>2, Zenon
  <2>3. CASE response' = Response(200, FALSE)
    BY <1>0, <2>3, Zenon
  <2>4. CASE response' = Response(200, TRUE) /\ ~fault_latched
    BY <2>4, Zenon
  <2>5. CASE \E torque_permitted \in BOOLEAN :
               (torque_permitted => ~fault_latched) /\ response' = Response(200, torque_permitted)
    <3>1. PICK torque_permitted \in BOOLEAN :
            (torque_permitted => ~fault_latched) /\ response' = Response(200, torque_permitted)
      BY <2>5, Zenon
    <3>2. CASE torque_permitted
      <4>1. torque_permitted = TRUE
        BY <3>2
      <4> QED BY <2>4, <3>1, <3>2, <4>1, Zenon
    <3>3. CASE ~torque_permitted
      <4>1. torque_permitted = FALSE
        BY <3>3
      <4>2. response' = Response(200, FALSE)
        BY <3>1, <4>1, Zenon
      <4> QED BY <2>3, <4>2, Zenon
    <3> QED BY <3>2, <3>3, Zenon
  <2> QED BY <2>1, <2>2, <2>5, Zenon
<1>5. CASE Metrics
  <2>1. PICK fresh \in BOOLEAN : response' = Response(200, renderPrometheus(fresh))
    BY <1>5, Zenon DEF Metrics
  <2>2. CASE fresh /\ ~fault_latched
    <3>1. renderPrometheus(fresh) = TRUE
      BY <2>2, Zenon DEF renderPrometheus
    <3> QED BY <2>1, <2>2, <3>1, Zenon
  <2>3. CASE ~(fresh /\ ~fault_latched)
    <3>1. renderPrometheus(fresh) = FALSE
      BY <2>3, Zenon DEF renderPrometheus
    <3> QED BY <1>0, <2>1, <3>1, Zenon
  <2> QED BY <2>2, <2>3
<1> QED BY <1>1, <1>2, <1>3, <1>4, <1>5

(* Every step keeps the types.                                             *)
LEMMA ServerTypeStep ==
  ASSUME ServerType, QueueInv, [ServerNext]_server
  PROVE  ServerType'
<1>0. {"idle", "waiting", "clear", "answered", "dropped"} \subseteq Progress /\ 0 \in Lengths
  BY HttpAssumption DEF Progress, Lengths
<1>1. ASSUME NEW c \in Clients, Connect(c)
      PROVE  ServerType'
  <2>1. queue' \in Seq(Clients) /\ Len(queue') <= Backlog
    BY <1>1, HttpAssumption DEF ServerType, Connect
  <2>2. client' \in [Clients -> Progress]
    BY <1>0, <1>1 DEF ServerType, Connect
  <2>3. under_fault' \in SUBSET Clients
    BY <1>1 DEF ServerType, Connect
  <2> QED BY <1>1, <2>1, <2>2, <2>3 DEF ServerType, Connect, serving, runtime
<1>2. CASE (\E c \in Clients : Leave(c)) \/ LoopChanges \/ FaultLatches \/ FaultClears
  <2>0. ASSUME NEW c \in Clients, Leave(c)
        PROVE  ServerType'
    BY <2>0 DEF ServerType, Leave, serving, runtime
  <2>1. CASE LoopChanges
    <3>1. loop_running' \in BOOLEAN
      BY <2>1 DEF LoopChanges
    <3> QED BY <2>1, <3>1 DEF ServerType, LoopChanges, serving
  <2>2. CASE FaultLatches
    BY <2>2 DEF ServerType, FaultLatches, serving
  <2>3. CASE FaultClears
    BY <2>3 DEF ServerType, FaultClears, serving
  <2> QED BY <1>2, <2>0, <2>1, <2>2, <2>3
<1>3. CASE Start \/ StopBegin \/ StopJoin \/ UNCHANGED server
  <2>1. CASE Start
    BY <2>1 DEF ServerType, Start, runtime
  <2>2. CASE StopBegin
    BY <2>2 DEF ServerType, StopBegin, serving, runtime
  <2>3. CASE StopJoin
    BY <2>3 DEF ServerType, StopJoin, runtime
  <2>4. CASE UNCHANGED server
    BY <2>4 DEF ServerType, server, serving, runtime
  <2> QED BY <1>3, <2>1, <2>2, <2>3, <2>4
<1>4. CASE StopClose
  <2>1. queue' \in Seq(Clients) /\ Len(queue') <= Backlog
    BY <1>4, HttpAssumption DEF StopClose
  <2>2. client' \in [Clients -> Progress]
    BY <1>0, <1>4 DEF StopClose, ServerType
  <2> QED BY <1>4, <2>1, <2>2 DEF ServerType, StopClose, serving, runtime
<1>5. CASE LoopHead \/ PollListen \/ Parse \/ HealthBody \/ WriteHead
  BY <1>5 DEF ServerType, LoopHead, PollListen, Parse, HealthBody, WriteHead, runtime
<1>6. CASE Accept \/ AcceptFails
  <2>1. queue # <<>> /\ queue' = Tail(queue) /\ queue \in Seq(Clients) /\ Len(queue) <= Backlog
    BY <1>6 DEF Accept, AcceptFails, QueueInv, ServerType
  <2>2. Head(queue) \in Clients /\ queue' \in Seq(Clients) /\ Len(queue') <= Backlog
    BY <2>1, Shorter, HttpAssumption
  <2>3. client' \in [Clients -> Progress]
    BY <1>0, <1>6, <2>2 DEF ServerType, Accept, AcceptFails
  <2> QED BY <1>0, <1>6, <2>2, <2>3 DEF ServerType, Accept, AcceptFails, runtime
<1>7. CASE ReadSome
  <2>1. received' \in Lengths
    BY <1>7, HttpAssumption DEF ReadSome, MoreToRead, ServerType, Lengths
  <2> QED BY <1>7, <2>1 DEF ReadSome, ServerType, runtime
<1>8. CASE ReadEnds \/ WriteBody \/ WriteFails \/ BrokenPipe
  <2>0. NoResponse \in Responses
    BY DEF NoResponse, Response, Responses
  <2>1. CASE BrokenPipe
    <3>1. queue' \in Seq(Clients) /\ Len(queue') <= Backlog
      BY <2>1, HttpAssumption DEF BrokenPipe
    <3> QED BY <1>0, <2>0, <2>1, <3>1 DEF BrokenPipe, ServerType, runtime
  <2>2. CASE ReadEnds \/ WriteBody \/ WriteFails
    <3>1. client' \in [Clients -> Progress]
      BY <1>0, <2>2 DEF ReadEnds, WriteBody, WriteFails, Finish, ServerType
    <3>2. response' \in Responses
      BY <2>0, <2>2 DEF ReadEnds, WriteBody, WriteFails, Finish
    <3> QED BY <1>0, <2>2, <3>1, <3>2
         DEF ReadEnds, WriteBody, WriteFails, Finish, ServerType, runtime
  <2> QED BY <1>8, <2>1, <2>2
<1>9. CASE Refuse \/ Health \/ Ready \/ Safety \/ Metrics
  <2>1. response' \in Responses
    <3>1. Response(200, TRUE) \in Responses
          /\ \A status \in Statuses : Response(status, FALSE) \in Responses
      BY DEF Response, Responses, Statuses
    <3> QED BY <1>9, <3>1, Answers, Zenon
  <2>2. at' = "write" /\ UNCHANGED <<running, listening, owner, connection, received, complete,
                                     queue, client, silent, left, runtime, starts,
                                     under_fault>>
    BY <1>9, Zenon DEF Refuse, Health, Ready, Safety, Metrics
  <2> QED BY <2>1, <2>2 DEF ServerType, runtime
<1> QED BY <1>1, <1>2, <1>3, <1>4, <1>5, <1>6, <1>7, <1>8, <1>9 DEF ServerNext, Thread, Owner

(* Every step keeps each client in one place.                              *)
LEMMA QueueStep ==
  ASSUME ServerType, ThreadInv, QueueInv, [ServerNext]_server
  PROVE  QueueInv'
<1>0. /\ queue \in Seq(Clients) /\ Len(queue) \in Nat
      /\ client \in [Clients -> Progress]
      /\ \A i \in 1 .. Len(queue) : queue[i] \in Clients
  BY DEF ServerType
<1>1. ASSUME NEW c \in Clients, Connect(c)
      PROVE  QueueInv'
  <2>1. /\ client[c] = "idle" /\ client' = [client EXCEPT ![c] = "waiting"]
        /\ queue' = Append(queue, c) /\ UNCHANGED <<at, connection>>
    BY <1>1 DEF Connect, serving
  <2>2. /\ Len(queue') = Len(queue) + 1 /\ queue'[Len(queue) + 1] = c /\ queue' # <<>>
        /\ \A i \in 1 .. Len(queue) : queue'[i] = queue[i]
    BY <1>0, <2>1
  <2>3. /\ client'[c] = "waiting"
        /\ \A d \in Clients : client[d] = "waiting" => client'[d] = "waiting" /\ d # c
    BY <1>0, <2>1
  <2>4. \A i \in 1 .. Len(queue') : i \in 1 .. Len(queue) \/ i = Len(queue) + 1
    BY <1>0, <2>2
  <2>5. \A i \in 1 .. Len(queue) : queue[i] # c
    BY <1>0, <2>3 DEF QueueInv
  <2> QED BY <1>0, <2>1, <2>2, <2>3, <2>4, <2>5 DEF QueueInv
<1>2. CASE (\E c \in Clients : Leave(c)) \/ LoopChanges \/ FaultLatches \/ FaultClears
           \/ Start \/ StopBegin \/ StopJoin \/ UNCHANGED server
  <2>1. UNCHANGED <<queue, client, connection>>
        /\ (at' = at \/ at' \in {"head", "none"})
    BY <1>2 DEF Leave, LoopChanges, FaultLatches, FaultClears, Start, StopBegin, StopJoin, server,
         serving
  <2> QED BY <2>1 DEF QueueInv, Serving
<1>3. CASE StopClose \/ BrokenPipe
  <2>1. queue' = <<>> /\ at' \in {"none", "killed"}
    BY <1>3 DEF StopClose, BrokenPipe, serving, ThreadInv
  <2>2. 1 .. Len(queue') = {}
    BY <2>1
  <2> QED BY <2>1, <2>2 DEF QueueInv, Serving
<1>4. CASE LoopHead \/ PollListen \/ ReadSome \/ Parse \/ HealthBody \/ WriteHead
           \/ Refuse \/ Health \/ Ready \/ Safety \/ Metrics
  <2>1. UNCHANGED <<queue, client, connection>>
    BY <1>4 DEF LoopHead, PollListen, ReadSome, Parse, HealthBody, WriteHead, Refuse, Health,
         Ready, Safety, Metrics
  <2>2. /\ at' \in Serving => at \in Serving
        /\ at' = "accept" => queue # <<>>
    BY <1>4 DEF LoopHead, PollListen, ReadSome, Parse, HealthBody, WriteHead, Refuse, Health,
         Ready, Safety, Metrics, Serving
  <2> QED BY <2>1, <2>2 DEF QueueInv
<1>5. CASE Accept \/ AcceptFails
  <2>1. queue # <<>> /\ queue' = Tail(queue)
    BY <1>5 DEF Accept, AcceptFails, QueueInv
  <2>2. /\ Head(queue) \in Clients /\ Head(queue) = queue[1] /\ 1 \in 1 .. Len(queue)
        /\ Len(queue') = Len(queue) - 1
        /\ \A i \in 1 .. Len(queue') : queue'[i] = queue[i + 1] /\ i + 1 \in 1 .. Len(queue)
    BY <1>0, <2>1, Shorter
  <2>3. /\ \A i \in 1 .. Len(queue') : queue'[i] # Head(queue) /\ client[queue'[i]] = "waiting"
                                       /\ queue'[i] \in Clients
        /\ \A i, j \in 1 .. Len(queue') : queue'[i] = queue'[j] => i = j
    <3>1. ASSUME NEW i \in 1 .. Len(queue') PROVE queue'[i] # Head(queue)
      BY <1>0, <2>2 DEF QueueInv
    <3>2. ASSUME NEW i \in 1 .. Len(queue'), NEW j \in 1 .. Len(queue'), queue'[i] = queue'[j]
          PROVE  i = j
      <4>1. i + 1 = j + 1
        BY <2>2, <3>2 DEF QueueInv
      <4> QED BY <1>0, <2>2, <4>1
    <3> QED BY <1>0, <2>2, <3>1, <3>2 DEF QueueInv
  <2>4. CASE Accept
    BY <2>2, <2>3, <2>4 DEF Accept, QueueInv, Serving
  <2>5. CASE AcceptFails
    <3>1. /\ client' = [client EXCEPT ![Head(queue)] = "dropped"] /\ at' = "head"
      BY <2>5 DEF AcceptFails
    <3> QED BY <1>0, <2>2, <2>3, <3>1 DEF QueueInv, Serving
  <2> QED BY <1>5, <2>4, <2>5
<1>6. CASE ReadEnds \/ WriteBody \/ WriteFails
  <2>1. /\ at \in Serving /\ at' = "head" /\ UNCHANGED queue
        /\ \E outcome : client' = [client EXCEPT ![connection] = outcome]
    BY <1>6 DEF ReadEnds, WriteBody, WriteFails, Finish, Serving
  <2>2. \A i \in 1 .. Len(queue) : client'[queue[i]] = client[queue[i]]
    BY <1>0, <2>1 DEF QueueInv
  <2> QED BY <2>1, <2>2 DEF QueueInv, Serving
<1> QED BY <1>1, <1>2, <1>3, <1>4, <1>5, <1>6 DEF ServerNext, Thread, Owner

(* Every step keeps the answers behind the faults.                         *)
LEMMA AnswerStep ==
  ASSUME ServerType, QueueInv, AnswerInv, FaultIsNotDenied, [ServerNext]_server
  PROVE  AnswerInv' /\ FaultIsNotDenied'
<1>0. /\ client \in [Clients -> Progress] /\ under_fault \subseteq Clients
      /\ queue \in Seq(Clients)
  BY DEF ServerType
<1>1. ASSUME NEW c \in Clients, Connect(c)
      PROVE  AnswerInv' /\ FaultIsNotDenied'
  <2>1. /\ client[c] = "idle" /\ client' = [client EXCEPT ![c] = "waiting"]
        /\ under_fault' = IF fault_latched THEN under_fault \cup {c} ELSE under_fault
        /\ UNCHANGED <<at, connection, response, fault_latched>>
    BY <1>1 DEF Connect, serving, runtime
  <2>2. at \in {"write", "body"} => connection # c
    BY <2>1 DEF QueueInv, Serving
  <2>3. AnswerInv'
    BY <2>1, <2>2 DEF AnswerInv
  <2>4. FaultIsNotDenied'
    BY <1>0, <2>1 DEF FaultIsNotDenied
  <2> QED BY <2>3, <2>4
<1>2. CASE (\E c \in Clients : Leave(c)) \/ LoopChanges \/ FaultLatches
           \/ Start \/ StopBegin \/ StopJoin \/ UNCHANGED server
  <2>1. /\ UNCHANGED <<client, connection, response, under_fault>>
        /\ ~fault_latched' => ~fault_latched
        /\ at' = at \/ at' \in {"head", "none"}
    BY <1>2 DEF Leave, LoopChanges, FaultLatches, Start, StopBegin, StopJoin, server, serving,
         runtime
  <2> QED BY <2>1 DEF AnswerInv, FaultIsNotDenied
<1>3. CASE FaultClears
  BY <1>3 DEF FaultClears, AnswerInv, FaultIsNotDenied
<1>4. CASE StopClose
  <2>1. /\ UNCHANGED <<at, connection, response, fault_latched, under_fault>>
        /\ \A c \in Clients : client'[c] = "clear" => client[c] = "clear"
    BY <1>4 DEF StopClose, serving, runtime
  <2> QED BY <2>1 DEF AnswerInv, FaultIsNotDenied
<1>5. CASE LoopHead \/ PollListen \/ Accept \/ AcceptFails \/ ReadSome \/ Parse \/ HealthBody
  <2>1. UNCHANGED <<fault_latched, under_fault>> /\ at' \notin {"write", "body"}
    BY <1>5 DEF LoopHead, PollListen, Accept, AcceptFails, ReadSome, Parse, HealthBody, runtime
  <2>2. \A c \in Clients : client'[c] = "clear" => client[c] = "clear"
    BY <1>0, <1>5 DEF LoopHead, PollListen, Accept, AcceptFails, ReadSome, Parse, HealthBody
  <2> QED BY <2>1, <2>2 DEF AnswerInv, FaultIsNotDenied
<1>6. CASE ReadEnds \/ WriteFails \/ BrokenPipe
  <2>1. /\ UNCHANGED <<fault_latched, under_fault>> /\ at' \notin {"write", "body"}
        /\ client' = client \/ client' = [client EXCEPT ![connection] = "dropped"]
    BY <1>6 DEF ReadEnds, WriteFails, BrokenPipe, Finish, runtime
  <2> QED BY <1>0, <2>1 DEF AnswerInv, FaultIsNotDenied
<1>7. CASE WriteBody
  <2>1. /\ UNCHANGED <<fault_latched, under_fault>> /\ at = "body" /\ at' = "head"
        /\ client' = [client EXCEPT ![connection] = IF response.clear THEN "clear" ELSE "answered"]
    BY <1>7 DEF WriteBody, Finish, runtime
  <2> QED BY <1>0, <2>1 DEF AnswerInv, FaultIsNotDenied
<1>8. CASE Refuse \/ Health \/ Ready \/ Safety \/ Metrics
  <2>1. UNCHANGED <<client, connection, fault_latched, under_fault>>
    BY <1>8 DEF Refuse, Health, Ready, Safety, Metrics, runtime
  <2>2. response'.clear => ~fault_latched
    <3>1. \A status : ~Response(status, FALSE).clear
      BY DEF Response
    <3> QED BY <1>8, <3>1, Answers
  <2> QED BY <2>1, <2>2 DEF AnswerInv, FaultIsNotDenied
<1>9. CASE WriteHead
  BY <1>9 DEF WriteHead, runtime, AnswerInv, FaultIsNotDenied
<1> QED BY <1>1, <1>2, <1>3, <1>4, <1>5, <1>6, <1>7, <1>8, <1>9 DEF ServerNext, Thread, Owner

(* The inductive invariant of the server.                                  *)
LEMMA ServerInvariant ==
  ServerSpec => [](ServerType /\ ThreadInv /\ QueueInv /\ AnswerInv /\ FaultIsNotDenied)
<1> DEFINE Inv == ServerType /\ ThreadInv /\ QueueInv /\ AnswerInv /\ FaultIsNotDenied
<1>1. ASSUME ServerInit PROVE Inv
  <2>1. ServerType
    <3>1. NoResponse \in Responses /\ 0 \in Lengths /\ "idle" \in Progress
      BY HttpAssumption DEF NoResponse, Response, Responses, Lengths, Progress
    <3>2. queue \in Seq(Clients) /\ Len(queue) <= Backlog
      BY <1>1, HttpAssumption DEF ServerInit
    <3> QED BY <1>1, <3>1, <3>2 DEF ServerInit, ServerType
  <2>2. 1 .. Len(queue) = {}
    BY <1>1 DEF ServerInit
  <2>3. ThreadInv /\ QueueInv
    BY <1>1, <2>2 DEF ServerInit, ThreadInv, QueueInv, Serving
  <2>4. AnswerInv /\ FaultIsNotDenied
    BY <1>1 DEF ServerInit, AnswerInv, FaultIsNotDenied
  <2> QED BY <2>1, <2>3, <2>4
<1>2. Inv /\ [ServerNext]_server => Inv'
  BY ServerTypeStep, ThreadInvStep, QueueStep, AnswerStep
<1> QED BY <1>1, <1>2, PTL DEF ServerSpec

(* The accept thread never uses the listening socket after stop() closed   *)
(* it: stop() closes it once the thread has been joined.                   *)
THEOREM SocketIsOpenForThread == ServerSpec => []SocketOutlivesThread
<1>1. ThreadInv => SocketOutlivesThread
  BY DEF ThreadInv, SocketOutlivesThread
<1> QED BY <1>1, ServerInvariant, PTL

(* No client hears that there is no fault while one stays that was latched *)
(* before it connected, however long its answer is under way.              *)
THEOREM FaultsAreNotDenied == ServerSpec => []FaultIsNotDenied
BY ServerInvariant, PTL
-----------------------------------------------------------------------------
(* The channel states a cycle of the process can leave: no stop is ever    *)
(* requested, and a latched fault comes with STO.                          *)
Supervised(ch) ==
  /\ ch \in Supervisor!Channel
  /\ ch.state \in {Supervisor!SafeTorqueOff, Supervisor!SelfTest, Supervisor!LimitedSpeed}
  /\ Supervisor!faultLatched(ch) => ch.state = Supervisor!SafeTorqueOff

(* What one cycle makes of a channel: a demand latches a fault, a latched  *)
(* fault keeps it in STO and is cleared by an acknowledgement only.        *)
LEMMA CycleEffect ==
  ASSUME NEW ch, Supervised(ch), NEW e, NEW k, NEW s
  PROVE  LET next == Supervisor!evaluate(ch, CycleInputs(e, k, ~s), 0) IN
         /\ Supervised(next)
         /\ e \/ s => Supervisor!faultLatched(next)
         /\ Supervisor!faultLatched(ch) =>
              /\ next.state = Supervisor!SafeTorqueOff
              /\ k \/ Supervisor!faultLatched(next)
<1> DEFINE in   == CycleInputs(e, k, ~s)
           next == Supervisor!evaluate(ch, in, 0)
<1> SUFFICES /\ Supervised(next)
             /\ e \/ s => Supervisor!faultLatched(next)
             /\ Supervisor!faultLatched(ch) =>
                  /\ next.state = Supervisor!SafeTorqueOff
                  /\ k \/ Supervisor!faultLatched(next)
  OBVIOUS
<1> USE DEF Supervisor!SafeTorqueOff, Supervisor!SelfTest, Supervisor!LimitedSpeed,
            Supervisor!Stopping, Supervisor!OperatingStop, Supervisor!Operational
<1>0. /\ ch \in Supervisor!Channel /\ ch.state \in {0, 1, 4}
      /\ ch.fault # "None" => ch.state = 0
      /\ ch.limits = Limits
  BY DEF Supervised, Supervisor!Channel, Supervisor!faultLatched
<1>1. /\ in.emergency_stop_asserted <=> e
      /\ in.communication_ok <=> ~s
      /\ in.acknowledge <=> k
  BY DEF CycleInputs
<1>2. /\ in.heartbeat_ok = TRUE /\ in.self_test_passed = TRUE
      /\ in.speed_magnitude = 5 /\ in.request = "SafelyLimitedSpeed" /\ in.position = 0
  BY DEF CycleInputs
<1>3. Limits.limited_speed = 10 /\ Limits.position_monitoring_enabled = FALSE
  BY DEF Limits
<1>6. 0 \in Supervisor!SafetyState /\ 4 \in Supervisor!SafetyState
  BY DEF Supervisor!SafetyState
<1> HIDE DEF in, next
<1>4. CASE Supervisor!unconditionalDemandActive(in)
  <2> DEFINE reason == Supervisor!unconditionalDemandReason(in)
  <2>1. reason \in Supervisor!FaultReason /\ reason # "None"
    BY DEF Supervisor!unconditionalDemandReason, Supervisor!FaultReason
  <2>2. next = Supervisor!enterSafeTorqueOff(ch, reason)
    BY <1>4 DEF next, Supervisor!evaluate
  <2> HIDE DEF reason
  <2> DEFINE cause == IF ch.fault = "None" THEN reason ELSE ch.fault
  <2>3. next = [ch EXCEPT !.state = 0, !.fault = cause]
    BY <2>1, <2>2 DEF Supervisor!enterSafeTorqueOff
  <2>4. cause \in Supervisor!FaultReason /\ cause # "None"
    BY <1>0, <2>1 DEF Supervisor!Channel
  <2> HIDE DEF cause
  <2>5. next \in Supervisor!Channel
    BY <1>0, <1>6, <2>3, <2>4 DEF Supervisor!Channel
  <2>6. next.state = 0 /\ next.fault # "None"
    BY <1>0, <2>3, <2>4 DEF Supervisor!Channel
  <2> QED BY <2>5, <2>6 DEF Supervised, Supervisor!faultLatched
<1>5. CASE ~Supervisor!unconditionalDemandActive(in)
  <2>1. ~e /\ ~s
    BY <1>1, <1>5 DEF Supervisor!unconditionalDemandActive
  <2>2. CASE ch.fault # "None"
    <3>1. next = [ch EXCEPT !.state = 0, !.fault = IF in.acknowledge THEN "None" ELSE @]
      BY <1>5, <2>2 DEF next, Supervisor!evaluate, Supervisor!faultLatched, Supervisor!LatchedPhase
    <3>2. "None" \in Supervisor!FaultReason
      BY DEF Supervisor!FaultReason
    <3>3. /\ next \in Supervisor!Channel /\ next.state = 0
          /\ in.acknowledge \/ next.fault # "None"
      BY <1>0, <1>6, <2>2, <3>1, <3>2 DEF Supervisor!Channel
    <3> QED BY <1>1, <2>1, <3>3 DEF Supervised, Supervisor!faultLatched
  <2>3. CASE ch.fault = "None"
    <3>1. Supervisor!MonitorFault(ch, in, 0) = "None"
      BY <1>0, <1>2, <1>3 DEF Supervisor!MonitorFault, Supervisor!StateMonitor, Supervisor!OutOfBand
    <3>2. CASE ch.state = 1
      <4>1. next = Supervisor!enterSafeTorqueOff(ch, "None")
        BY <1>2, <1>5, <2>3, <3>1, <3>2
        DEF next, Supervisor!evaluate, Supervisor!faultLatched, Supervisor!PhaseOver
      <4>2. next = [ch EXCEPT !.state = 0]
        BY <1>0, <4>1 DEF Supervisor!enterSafeTorqueOff, Supervisor!Channel
      <4>3. next \in Supervisor!Channel /\ next.state = 0 /\ next.fault = "None"
        BY <1>0, <1>6, <2>3, <4>2 DEF Supervisor!Channel
      <4> QED BY <2>1, <2>3, <4>3 DEF Supervised, Supervisor!faultLatched
    <3>3. CASE ch.state # 1
      <4>1. next = Supervisor!HonourRequest(ch, in, 0)
        BY <1>0, <1>5, <2>3, <3>1, <3>3
        DEF next, Supervisor!evaluate, Supervisor!faultLatched, Supervisor!PhaseOver
      <4>2. next = [ch EXCEPT !.state = 4]
        BY <1>0, <1>2, <1>3, <4>1 DEF Supervisor!HonourRequest
      <4>3. next \in Supervisor!Channel /\ next.state = 4 /\ next.fault = "None"
        BY <1>0, <1>6, <2>3, <4>2 DEF Supervisor!Channel
      <4> QED BY <2>1, <2>3, <4>3 DEF Supervised, Supervisor!faultLatched
    <3> QED BY <3>2, <3>3
  <2> QED BY <2>2, <2>3
<1> QED BY <1>4, <1>5

(* A step in which the loop does not decide leaves the supervisor and the  *)
(* history of its faults alone.                                            *)
LEMMA OtherSteps ==
  ASSUME [Next]_vars, ~Decide
  PROVE  UNCHANGED <<a, b, disagreement_since_ns, discrepancy_latched, outputs, restarts, faulted>>
<1> USE DEF supervisor, history
<1>1. CASE Environment
  BY <1>1 DEF Environment, Press, Release, Touch, Signal
<1>2. CASE EstopWatcher \/ AckWatcher
  BY <1>2 DEF EstopWatcher, AckWatcher, EstopLook, EstopStore, AckLook, AckUnlink, AckStore
<1>3. CASE ControlThread
  BY <1>3 DEF ControlThread, EnterRun, Sample, Publish, CheckShutdown, Stop
<1>4. CASE MainThread
  BY <1>4 DEF MainThread, MainStartup, MainMakesSlot, MainStartsServer, MainGivesUp,
       MainStartsEstop, MainStartsAcknowledge, MainStartsControl, MainSeesSignal,
       MainJoinsControl, MainJoinsAcknowledge, MainJoinsEstop
<1>5. CASE UNCHANGED vars
  BY <1>5 DEF vars
<1> QED BY <1>1, <1>2, <1>3, <1>4, <1>5 DEF Next

(* The two channels agree, no timer of the supervisor runs.                *)
SupervisorInv ==
  /\ a = b /\ Supervised(a)
  /\ disagreement_since_ns = -1 /\ ~discrepancy_latched

(* A cycle of the loop: the channels are given the same inputs and stay    *)
(* alike, so that the outputs are those of either; torque needs a channel  *)
(* without a fault before and after, and neither a stop nor a lost         *)
(* telegram; a fault is cleared by an acknowledgement.                     *)
LEMMA DecideEffect ==
  ASSUME SupervisorInv, Decide
  PROVE  /\ SupervisorInv'
         /\ outputs'.fault_latched <=> Supervisor!faultLatched(a')
         /\ outputs'.torque_permitted =>
              /\ ~Supervisor!faultLatched(a) /\ ~Supervisor!faultLatched(a')
              /\ ~safe_state
         /\ Supervisor!faultLatched(a) =>
              acknowledge.asserted \/ Supervisor!faultLatched(a')
<1> DEFINE in   == CycleInputs(sampled, acknowledge.asserted, ~safe_state)
           next == Supervisor!evaluate(a, in, 0)
<1>1. Supervisor!evaluateBoth(in, in, 0) /\ a = b
  BY DEF Decide, Evaluated, SupervisorInv
<1>2. /\ Supervised(next)
      /\ safe_state => Supervisor!faultLatched(next)
      /\ Supervisor!faultLatched(a) =>
           /\ next.state = Supervisor!SafeTorqueOff
           /\ acknowledge.asserted \/ Supervisor!faultLatched(next)
  BY CycleEffect DEF SupervisorInv
<1> HIDE DEF in
<1>3. Supervisor!Exceeded(next, next, 0) = FALSE
  BY DEF Supervisor!Exceeded
<1>4. /\ a' = next /\ b' = next /\ disagreement_since_ns' = -1
      /\ discrepancy_latched' = FALSE
      /\ outputs' = Supervisor!combine(Supervisor!outputsFor(next), Supervisor!outputsFor(next))
  <2> HIDE DEF next
  <2> QED BY <1>1, <1>3
      DEF Supervisor!evaluateBoth, Supervisor!Driven, Supervisor!Since, next, SupervisorInv
<1> HIDE DEF next
<1>5. /\ outputs'.torque_permitted <=> next.state \in Supervisor!Energised
      /\ outputs'.fault_latched <=> Supervisor!faultLatched(next)
  BY <1>4 DEF Supervisor!combine, Supervisor!outputsFor
<1>6. Supervisor!SafeTorqueOff \notin Supervisor!Energised
  BY DEF Supervisor!SafeTorqueOff, Supervisor!Energised, Supervisor!Stopping,
         Supervisor!OperatingStop, Supervisor!LimitedSpeed, Supervisor!Operational
<1>7. SupervisorInv'
  BY <1>2, <1>4 DEF SupervisorInv
<1>8. outputs'.torque_permitted =>
        ~Supervisor!faultLatched(a) /\ ~Supervisor!faultLatched(next) /\ ~safe_state
  BY <1>2, <1>5, <1>6 DEF Supervised
<1> QED BY <1>2, <1>4, <1>5, <1>7, <1>8

One(condition) == IF condition THEN 1 ELSE 0

(* What can still bring torque back after a fault: the file, the flag on   *)
(* its way to the loop and in it, and a fault acknowledged but not left.   *)
Acknowledgements ==
  One(ack_file) + One(acknowledge.at = "removed") + One(acknowledge.asserted)
    + One(faulted /\ ~Supervisor!faultLatched(a))

(* Every one of them, and every restart, goes back to a touch of its own   *)
(* or to an unlink() that failed.                                          *)
TouchInv ==
  /\ restarts \in Nat /\ touches \in Nat /\ kept \in Nat
  /\ restarts + Acknowledgements <= touches + kept

(* The watcher alone removes the file: what it has seen is still there.    *)
WatcherInv ==
  /\ ack_file \in BOOLEAN /\ acknowledge \in Watcher
  /\ acknowledge.at = "seen" /\ acknowledge.present => ack_file

(* The control thread is started last.                                     *)
StartupInv ==
  main \in {"starting", "slot ready", "server running", "estop watched", "both watched"}
    => control = "none"

(* A receiver in its safe state has had the torque taken away by the end   *)
(* of the cycle.                                                           *)
ReceiverInv == (safe_state /\ control # "sampled") => ~outputs.torque_permitted

(* The steps that change the acknowledge file or its watcher.              *)
LEMMA AckSteps ==
  ASSUME [Next]_vars
  PROVE  \/ Decide \/ Touch \/ AckLook \/ AckUnlink \/ AckStore
         \/ MainStartsAcknowledge \/ MainJoinsControl
         \/ UNCHANGED <<ack_file, acknowledge, touches, kept>>
<1> USE DEF files, operator, history
<1>1. CASE Press \/ Release \/ Signal \/ EstopWatcher
  BY <1>1 DEF Press, Release, Signal, EstopWatcher, EstopLook, EstopStore
<1>2. CASE ControlThread
  BY <1>2 DEF ControlThread, EnterRun, Sample, Publish, CheckShutdown, Stop
<1>3. CASE MainThread
  BY <1>3 DEF MainThread, MainStartup, MainMakesSlot, MainStartsServer, MainGivesUp,
       MainStartsEstop, MainStartsControl, MainSeesSignal, MainJoinsAcknowledge, MainJoinsEstop
<1>4. CASE UNCHANGED vars
  BY <1>4 DEF vars
<1> QED BY <1>1, <1>2, <1>3, <1>4 DEF Next, Environment, AckWatcher

(* Every step keeps the count of the touches.                              *)
LEMMA TouchStep ==
  ASSUME SupervisorInv, WatcherInv, TouchInv, [Next]_vars
  PROVE  WatcherInv' /\ TouchInv'
<1> DEFINE file    == One(ack_file)
           removed == One(acknowledge.at = "removed")
           flag    == One(acknowledge.asserted)
           cleared == One(faulted /\ ~Supervisor!faultLatched(a))
<1>1. PICK f \in 0 .. 1, f1 \in 0 .. 1, r \in 0 .. 1, r1 \in 0 .. 1,
           g \in 0 .. 1, g1 \in 0 .. 1, c \in 0 .. 1, c1 \in 0 .. 1 :
        /\ f = file /\ f1 = file' /\ r = removed /\ r1 = removed'
        /\ g = flag /\ g1 = flag' /\ c = cleared /\ c1 = cleared'
  <2>1. \A condition : One(condition) \in 0 .. 1
    BY DEF One
  <2> QED BY <2>1, Zenon
<1>2. /\ restarts \in Nat /\ touches \in Nat /\ kept \in Nat
      /\ restarts + (f + r + g + c) <= touches + kept
  BY <1>1 DEF TouchInv, Acknowledgements
<1>3. SUFFICES /\ WatcherInv'
               /\ restarts' \in Nat /\ touches' \in Nat /\ kept' \in Nat
               /\ restarts' + (f1 + r1 + g1 + c1) <= touches' + kept'
  BY <1>1 DEF TouchInv, Acknowledgements
<1>4. ~Decide => restarts' = restarts /\ c1 = c
  BY <1>1, OtherSteps DEF One
<1>5. CASE Decide
  <2>1. /\ acknowledge' = [acknowledge EXCEPT !.asserted = FALSE]
        /\ UNCHANGED <<ack_file, touches, kept>>
    BY <1>5 DEF Decide, takeOnce, files, operator
  <2>2. /\ restarts' = IF faulted /\ outputs'.torque_permitted THEN restarts + 1 ELSE restarts
        /\ faulted' <=> ~outputs'.torque_permitted /\ (faulted \/ outputs'.fault_latched)
    BY <1>5 DEF Decide
  <2>3. /\ acknowledge' \in Watcher /\ acknowledge'.at = acknowledge.at
        /\ acknowledge'.present = acknowledge.present /\ acknowledge'.asserted = FALSE
    BY <2>1 DEF WatcherInv, Watcher
  <2>4. f1 = f /\ r1 = r /\ g1 = 0
    BY <1>1, <2>1, <2>3 DEF One
  <2>5. \/ restarts' = restarts + 1 /\ c = 1 /\ c1 = 0
        \/ restarts' = restarts /\ c1 <= g + c
    <3>1. CASE outputs'.torque_permitted
      <4>1. c1 = 0 /\ (faulted => c = 1)
        BY <1>1, <1>5, <2>2, <3>1, DecideEffect DEF One
      <4> QED BY <2>2, <3>1, <4>1
    <3>2. CASE ~outputs'.torque_permitted
      BY <1>1, <1>5, <2>2, <3>2, DecideEffect DEF One
    <3> QED BY <3>1, <3>2
  <2>6. WatcherInv'
    BY <2>1, <2>3 DEF WatcherInv
  <2>7. touches' = touches /\ kept' = kept
    BY <2>1
  <2>8. restarts' + (f1 + r1 + g1 + c1) <= touches + kept
    <3>1. CASE restarts' = restarts + 1 /\ c = 1 /\ c1 = 0
      BY <1>2, <2>4, <3>1
    <3>2. CASE restarts' = restarts /\ c1 <= g + c
      BY <1>2, <2>4, <3>2
    <3> QED BY <2>5, <3>1, <3>2
  <2> QED BY <1>2, <2>5, <2>6, <2>7, <2>8
<1>6. CASE Touch
  <2>1. ack_file' = TRUE /\ acknowledge' = acknowledge
    BY <1>6 DEF Touch
  <2>2. touches' = touches + 1 /\ kept' = kept /\ restarts' = restarts
    BY <1>6 DEF Touch
  <2>3. r1 = r /\ g1 = g /\ c1 = c
    BY <1>1, <1>6, <2>1 DEF Touch, supervisor
  <2>4. WatcherInv'
    BY <2>1 DEF WatcherInv
  <2> QED BY <1>2, <2>2, <2>3, <2>4
<1>7. CASE AckLook
  <2>1. /\ acknowledge.at = "look" /\ acknowledge' = Looked(acknowledge, ack_file)
        /\ UNCHANGED ack_file
    BY <1>7 DEF AckLook, files
  <2>2. UNCHANGED <<touches, kept>> /\ restarts' = restarts /\ c1 = c
    BY <1>1, <1>7 DEF AckLook, operator, history, supervisor
  <2>3. /\ acknowledge' \in Watcher /\ acknowledge'.asserted = acknowledge.asserted
        /\ acknowledge'.at # "removed"
        /\ acknowledge'.at = "seen" => acknowledge'.present = ack_file
    BY <2>1 DEF Looked, Watcher, WatcherInv
  <2>4. f1 = f /\ r1 = 0 /\ g1 = g
    BY <1>1, <2>1, <2>3 DEF One
  <2>5. WatcherInv'
    BY <2>1, <2>3 DEF WatcherInv
  <2> QED BY <1>2, <2>2, <2>4, <2>5
<1>8. CASE AckUnlink
  <2>1. acknowledge.at = "seen" /\ touches' = touches /\ restarts' = restarts
        /\ c1 = c
    BY <1>1, <1>8 DEF AckUnlink, operator, supervisor
  <2>2. CASE /\ acknowledge.present /\ unlink
             /\ acknowledge' = [acknowledge EXCEPT !.at = "removed", !.present = FALSE]
    <3>1. /\ acknowledge' \in Watcher /\ acknowledge'.asserted = acknowledge.asserted
          /\ acknowledge'.at = "removed"
      BY <2>2 DEF Watcher, WatcherInv
    <3>2. ack_file = TRUE
      BY <2>1, <2>2 DEF WatcherInv
    <3>3. r1 = 1 /\ r = 0 /\ g1 = g /\ f = 1
      BY <1>1, <2>1, <3>1, <3>2 DEF One
    <3>4. \/ ack_file' = FALSE /\ kept' = kept
          \/ ack_file' = ack_file /\ kept' = kept + 1
      BY <2>2 DEF unlink
    <3>5. WatcherInv'
      BY <3>1, <3>2, <3>4 DEF WatcherInv
    <3>6. \/ f1 = 0 /\ kept' = kept
          \/ f1 = 1 /\ kept' = kept + 1
      BY <1>1, <3>2, <3>4 DEF One
    <3> QED BY <1>2, <2>1, <3>3, <3>5, <3>6
  <2>3. CASE /\ ~acknowledge.present /\ UNCHANGED <<ack_file, kept>>
             /\ acknowledge' = [acknowledge EXCEPT !.at = "look"]
    <3>1. /\ acknowledge' \in Watcher /\ acknowledge'.asserted = acknowledge.asserted
          /\ acknowledge'.at = "look"
      BY <2>3 DEF Watcher, WatcherInv
    <3>2. r1 = 0 /\ g1 = g /\ f1 = f /\ kept' = kept
      BY <1>1, <2>3, <3>1 DEF One
    <3>3. WatcherInv'
      BY <2>3, <3>1 DEF WatcherInv
    <3> QED BY <1>2, <2>1, <3>2, <3>3
  <2> QED BY <1>8, <2>2, <2>3 DEF AckUnlink
<1>9. CASE AckStore
  <2>1. /\ acknowledge.at = "removed" /\ UNCHANGED ack_file
        /\ acknowledge' = [acknowledge EXCEPT !.at = "look", !.asserted = TRUE]
    BY <1>9 DEF AckStore, files
  <2>2. UNCHANGED <<touches, kept>> /\ restarts' = restarts /\ c1 = c
    BY <1>1, <1>9 DEF AckStore, operator, history, supervisor
  <2>3. acknowledge' \in Watcher /\ acknowledge'.at = "look"
    BY <2>1 DEF Watcher, WatcherInv
  <2>4. r = 1 /\ r1 = 0 /\ f1 = f
    BY <1>1, <2>1, <2>3 DEF One
  <2>5. WatcherInv'
    BY <2>1, <2>3 DEF WatcherInv
  <2> QED BY <1>2, <2>2, <2>4, <2>5
<1>10. CASE MainStartsAcknowledge \/ MainJoinsControl
  <2>1. /\ UNCHANGED ack_file
        /\ \/ acknowledge' = NewWatcher
           \/ acknowledge' = [acknowledge EXCEPT !.running = FALSE]
    BY <1>10 DEF MainStartsAcknowledge, MainJoinsControl, files
  <2>2. UNCHANGED <<touches, kept>> /\ restarts' = restarts /\ c1 = c
    <3>1. CASE MainStartsAcknowledge
      BY <1>1, <3>1 DEF MainStartsAcknowledge, operator, history, supervisor
    <3>2. CASE MainJoinsControl
      BY <1>1, <3>2 DEF MainJoinsControl, operator, history, supervisor
    <3> QED BY <1>10, <3>1, <3>2
  <2>3. /\ acknowledge' \in Watcher
        /\ acknowledge'.asserted => acknowledge.asserted
        /\ acknowledge'.at \in {"look", acknowledge.at}
        /\ acknowledge'.present => acknowledge.present
    BY <2>1 DEF NewWatcher, NoThread, Watcher, WatcherInv
  <2>4. f1 = f /\ r1 <= r /\ g1 <= g
    BY <1>1, <2>1, <2>3 DEF One
  <2>5. WatcherInv'
    BY <2>1, <2>3 DEF WatcherInv
  <2> QED BY <1>2, <2>2, <2>4, <2>5
<1>11. CASE UNCHANGED <<ack_file, acknowledge, touches, kept>> /\ ~Decide
  <2>1. f1 = f /\ r1 = r /\ g1 = g /\ WatcherInv'
    BY <1>1, <1>11 DEF WatcherInv
  <2> QED BY <1>2, <1>4, <1>11, <2>1
<1> QED BY <1>5, <1>6, <1>7, <1>8, <1>9, <1>10, <1>11, AckSteps

(* Every step keeps the control thread behind the start of main(), and the *)
(* torque off in the safe state of the receiver.                           *)
LEMMA ReceiverStep ==
  ASSUME SupervisorInv, StartupInv, ReceiverInv, [Next]_vars
  PROVE  StartupInv' /\ ReceiverInv'
<1>1. CASE Decide
  <2>1. control = "sampled" /\ UNCHANGED <<main, safe_state>> /\ control' = "decided"
    BY <1>1 DEF Decide, lifetime, receiver
  <2> QED BY <1>1, <2>1, DecideEffect DEF StartupInv, ReceiverInv
<1>2. CASE ControlThread /\ ~Decide
  <2>1. /\ outputs' = outputs /\ main' = main /\ control # "none"
        /\ control' # "sampled" => safe_state' = safe_state /\ control # "sampled"
    BY <1>2 DEF ControlThread, EnterRun, Sample, Publish, CheckShutdown, Stop, lifetime,
         receiver, supervisor
  <2>2. StartupInv'
    BY <2>1 DEF StartupInv
  <2>3. ReceiverInv'
    BY <2>1 DEF ReceiverInv
  <2> QED BY <2>2, <2>3
<1>3. CASE Environment \/ EstopWatcher \/ AckWatcher \/ UNCHANGED vars
  <2>1. UNCHANGED <<outputs, main, control, safe_state>>
    BY <1>3 DEF Environment, Press, Release, Touch, Signal, EstopWatcher, EstopLook,
         EstopStore, AckWatcher, AckLook, AckUnlink, AckStore, lifetime, receiver,
         supervisor, vars
  <2> QED BY <2>1 DEF StartupInv, ReceiverInv
<1>4. CASE MainThread
  <2>1. UNCHANGED <<outputs, safe_state>>
    BY <1>4 DEF MainThread, MainStartup, MainMakesSlot, MainStartsServer, MainGivesUp,
         MainStartsEstop, MainStartsAcknowledge, MainStartsControl, MainSeesSignal,
         MainJoinsControl, MainJoinsAcknowledge, MainJoinsEstop, receiver, supervisor
  <2>2. CASE MainStartsControl
    BY <2>1, <2>2 DEF MainStartsControl, StartupInv, ReceiverInv
  <2>3. CASE MainThread /\ ~MainStartsControl
    <3>1. control' = control
      BY <2>3 DEF MainThread, MainStartup, MainMakesSlot, MainStartsServer, MainGivesUp,
           MainStartsEstop, MainStartsAcknowledge, MainSeesSignal, MainJoinsControl,
           MainJoinsAcknowledge, MainJoinsEstop
    <3>2. StartupInv'
      BY <2>3, <3>1 DEF MainThread, MainStartup, MainMakesSlot, MainStartsServer, MainGivesUp,
           MainStartsEstop, MainStartsAcknowledge, MainSeesSignal, MainJoinsControl,
           MainJoinsAcknowledge, MainJoinsEstop, StartupInv
    <3> QED BY <2>1, <3>1, <3>2 DEF ReceiverInv
  <2> QED BY <1>4, <2>2, <2>3
<1> QED BY <1>1, <1>2, <1>3, <1>4 DEF Next

(* The inductive invariant of the process.                                 *)
LEMMA ProcessInvariant ==
  Spec => [](SupervisorInv /\ WatcherInv /\ TouchInv /\ StartupInv /\ ReceiverInv)
<1> DEFINE Inv == SupervisorInv /\ WatcherInv /\ TouchInv /\ StartupInv /\ ReceiverInv
<1>1. ASSUME Init PROVE Inv
  <2>1. Supervisor!Init
    BY <1>1 DEF Init
  <2>2. SupervisorInv
    <3>1. a = Supervisor!PowerOn(Limits) /\ a = b /\ disagreement_since_ns = -1
          /\ ~discrepancy_latched
      BY <2>1 DEF Supervisor!Init
    <3>2. "None" \in Supervisor!FaultReason
      BY DEF Supervisor!FaultReason
    <3>3. Supervisor!SelfTest \in Supervisor!SafetyState
      BY DEF Supervisor!SafetyState, Supervisor!SelfTest, Supervisor!SafeTorqueOff,
             Supervisor!Operational
    <3>4. a \in Supervisor!Channel /\ a.state = Supervisor!SelfTest /\ a.fault = "None"
      BY <3>1, <3>2, <3>3 DEF Supervisor!PowerOn, Supervisor!Channel
    <3> QED BY <3>1, <3>4 DEF SupervisorInv, Supervised, Supervisor!faultLatched
  <2>3. WatcherInv
    BY <1>1 DEF Init, WatcherInv, NoThread, Watcher
  <2>4. TouchInv
    <3>1. /\ restarts = 0 /\ kept = 0 /\ faulted = FALSE
          /\ acknowledge = NoThread /\ touches = One(ack_file)
      BY <1>1 DEF Init, One
    <3>2. Acknowledgements = touches /\ touches \in Nat
      BY <3>1 DEF Acknowledgements, NoThread, One
    <3> QED BY <3>1, <3>2 DEF TouchInv
  <2>5. StartupInv /\ ReceiverInv
    BY <1>1 DEF Init, StartupInv, ReceiverInv
  <2> QED BY <2>2, <2>3, <2>4, <2>5
<1>2. Inv /\ [Next]_vars => Inv'
  <2> SUFFICES ASSUME Inv, [Next]_vars PROVE Inv'
    OBVIOUS
  <2>1. SupervisorInv'
    <3>1. CASE Decide
      BY <3>1, DecideEffect
    <3>2. CASE ~Decide
      <4>1. UNCHANGED <<a, b, disagreement_since_ns, discrepancy_latched>>
        BY <3>2, OtherSteps
      <4> QED BY <4>1 DEF SupervisorInv
    <3> QED BY <3>1, <3>2
  <2> QED BY <2>1, TouchStep, ReceiverStep
<1> QED BY <1>1, <1>2, PTL DEF Spec

(* Given one set of inputs per cycle, the channels never differ and no     *)
(* timer of the supervisor runs, for every period and every watchdog.      *)
THEOREM NoTimerRuns == Spec => []TimersNeverRun
<1>1. SupervisorInv => TimersNeverRun
  BY DEF SupervisorInv, Supervised, TimersNeverRun, Supervisor!SafeTorqueOff,
         Supervisor!SelfTest, Supervisor!LimitedSpeed, Supervisor!Stopping,
         Supervisor!OperatingStop
<1> QED BY <1>1, ProcessInvariant, PTL

(* No restart without a touch of its own, or an unlink() that failed, and  *)
(* none at all once the receiver is in its safe state, however the         *)
(* operator, the watcher, the loop and the shutdown interleave.            *)
THEOREM EveryRestartIsAcknowledged == Spec => []RestartsNeedTouches
<1>1. TouchInv /\ ReceiverInv => RestartsNeedTouches
  <2> SUFFICES ASSUME TouchInv, ReceiverInv PROVE RestartsNeedTouches
    OBVIOUS
  <2>1. Acknowledgements \in Nat
    BY DEF Acknowledgements, One
  <2>2. restarts <= touches + kept
    BY <2>1 DEF TouchInv
  <2> QED BY <2>2 DEF ReceiverInv, RestartsNeedTouches
<1> QED BY <1>1, ProcessInvariant, PTL
=============================================================================

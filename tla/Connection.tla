----------------------------- MODULE Connection -----------------------------
(***************************************************************************)
(* pitaya::connection::Connection (src/connection.cpp) with its State      *)
(* (src/connection/state.cpp), the requests in flight                      *)
(* (include/pitaya/request.h) and the packet stream it drives.             *)
(*                                                                         *)
(* Two threads take steps: the application calls Start and PostRequest,    *)
(* and the worker runs the handlers of the io_context one at a time, in    *)
(* the order in which they became ready.  The rest is the environment:     *)
(* TCP, the server and the timers.                                         *)
(*                                                                         *)
(* A handler is one step, except that the application may call Start       *)
(* between the event a handler broadcasts and the socket operations that   *)
(* follow it: these are kept in work until the worker has done them.       *)
(*                                                                         *)
(* The queue of TcpPacketStream::SendPacket is not a variable: it always   *)
(* holds the packets of the posted SendNextPacket calls, in their order    *)
(* (PostsMatchQueue of TcpPacketWriter).  ReadToBuffer and the parsing of  *)
(* packets are one step (ImplementsChannel of TcpPacketReader).            *)
(***************************************************************************)
EXTENDS Naturals, Sequences, FiniteSets, Functions

CONSTANTS
    Requests,       \* the requests of the application, each posted once
    RouteOf,        \* the route of each request
    Dicts,          \* route dictionaries the server may announce: sets of routes
    Sent,           \* kinds of packets the server may send
    MaxBatch,       \* bound: packets handed over by one read
    MaxQueued,      \* kMaxQueuedPackets
    MaxHeartbeats,  \* bound: heartbeats sent and not yet written
    MaxStarts,      \* bound: calls of Start
    Restart         \* when the application calls Start again

ASSUME ConnectionAssumption ==
    /\ MaxBatch \in Nat \ {0}
    /\ MaxQueued \in Nat \ {0}
    /\ MaxHeartbeats \in Nat
    /\ MaxStarts \in Nat \ {0}
    /\ Sent \subseteq {"Handshake", "BadHandshake", "Heartbeat", "Kick", "Push", "BadData", "Response", "ErrorResponse"}
    /\ Restart \in {"anytime", "after event", "when idle"}

VARIABLES
    \* Connection and State
    state,          \* "Inited" or "Connected"
    dict,           \* Connected::routeToCode, as the set of its routes
    heartbeatTimer, \* the wait on heartbeatTimer is pending
    heartbeatTimeout,\* the wait on heartbeatTimeout is pending
    reqId,          \* _reqId
    inFlight,       \* _inFlightRequests: a set of requests with their ids
    reqTimers,      \* ids of requests in flight whose timer is pending
    alive,          \* no exception has left a handler
    \* io_context and the worker
    ioQueue,        \* handlers ready to run
    work,           \* what is left to do of the running handler
    \* The socket
    socket,         \* "closed", "connecting", "open" or "broken"
    connect,        \* the async_connect is pending
    recvs,          \* pending receives
    sends,          \* pending sends
    \* The server and the application
    serverGot,      \* the requests the server received, with their ids
    posted,         \* requests passed to PostRequest
    starts,         \* calls of Start
    events,         \* the events the application heard since its last Start
    \* History
    answers,        \* the statuses each RequestHandler was called with
    lost,           \* requests whose packet SendPacket ignored
    epoch,          \* how often the connection was established
    abandoned       \* the attempt of the last Start ended without an event

stateVars == << state, dict, heartbeatTimer, heartbeatTimeout >>
requestVars == << reqId, inFlight, reqTimers >>
socketVars == << socket, connect, recvs, sends >>
appVars == << posted, starts >>
historyVars == << answers, lost, epoch, abandoned >>

vars == << stateVars, requestVars, alive, ioQueue, work, socketVars, serverGot,
           appVars, events, historyVars >>

-----------------------------------------------------------------------------
(* Handlers *)

\* The SendHandlers passed to SendPacket; each stands for its packet as well.
HandshakeHandler == [kind |-> "Handshake"]
AckHandler(d) == [kind |-> "HandshakeAck", dict |-> d]
HeartbeatHandler == [kind |-> "Heartbeat"]
RequestHandler(r, id) == [kind |-> "Request", req |-> r, id |-> id]

\* Handlers of the io_context.
PostedRequest(r) == [kind |-> "PostRequest", req |-> r]
PostedSend(h) == [kind |-> "SendNextPacket", handler |-> h]
SendDone(h, ec) == [kind |-> "SendDone", handler |-> h, ec |-> ec]
ReceiveDone(reader, ec, ps) == [kind |-> "ReceiveDone", reader |-> reader, ec |-> ec, packets |-> ps]
ConnectDone(ec) == [kind |-> "ConnectDone", ec |-> ec]
Tick == [kind |-> "HeartbeatTick"]
HeartbeatTimedOut(e) == [kind |-> "HeartbeatTimeout", epoch |-> e]
RequestTimedOut(id) == [kind |-> "RequestTimeout", id |-> id]

\* The steps a handler leaves in work.
DoProcess(p) == [do |-> "ProcessPacket", packet |-> p]
DoReceive == [do |-> "ReceivePackets"]
DoDisconnect == [do |-> "Disconnect"]

Init ==
    /\ state = "Inited"
    /\ dict = {}
    /\ heartbeatTimer = FALSE
    /\ heartbeatTimeout = FALSE
    /\ reqId = 1
    /\ inFlight = {}
    /\ reqTimers = {}
    /\ alive = TRUE
    /\ ioQueue = << >>
    /\ work = << >>
    /\ socket = "closed"
    /\ connect = FALSE
    /\ recvs = << >>
    /\ sends = << >>
    /\ serverGot = {}
    /\ posted = {}
    /\ starts = 0
    /\ events = << >>
    /\ answers = [r \in Requests |-> << >>]
    /\ lost = {}
    /\ epoch = 0
    /\ abandoned = FALSE

\* The worker begins a handler of this kind; its body appends to Rest.
Runs(kind) == work = << >> /\ ioQueue # << >> /\ Head(ioQueue).kind = kind

Task == Head(ioQueue)
Rest == Tail(ioQueue)

\* The worker does the next step that the running handler left.
Does(what) == work # << >> /\ Head(work).do = what

Queued(queue) == Len(SelectSeq(queue, LAMBDA t : t.kind = "SendNextPacket"))

\* TcpPacketStream::SendPacket, called with the handlers in queue ready to run.
QueueFull(queue) == Queued(queue) >= MaxQueued

SendPacket(queue, h) ==
    IF QueueFull(queue) THEN queue ELSE Append(queue, PostedSend(h))

-----------------------------------------------------------------------------
(* State *)

\* Mutant of SetInited: the timeout outlives the Connected value.
SetInitedKeepsTimeout ==
    /\ state' = "Inited"
    /\ dict' = {}
    /\ heartbeatTimer' = FALSE
    /\ UNCHANGED heartbeatTimeout

SetInited ==
    /\ state' = "Inited"
    /\ dict' = {}
    /\ heartbeatTimer' = FALSE
    /\ heartbeatTimeout' = FALSE

SetConnected(d) ==
    /\ state' = "Connected"
    /\ dict' = d
    /\ heartbeatTimer' = TRUE
    /\ heartbeatTimeout' = TRUE

\* expires_at cancels the pending wait; no new one is started.
ExtendHeartbeatTimeout ==
    /\ heartbeatTimeout' = FALSE
    /\ UNCHANGED << state, dict, heartbeatTimer >>

\* EventListeners::Broadcast: the application hears of it.
Broadcast(event) == events' = Append(events, event)

HandshakeFailed ==
    /\ SetInited
    /\ Broadcast("ConnectionFailed")

\* Mutants of Leave: without IsConnected, without SetInited, without Disconnect.
LeaveAlways(event, after) ==
    /\ SetInited
    /\ Broadcast(event)
    /\ work' = << DoDisconnect >> \o after

LeaveStaysConnected(event, after) ==
    IF state = "Connected"
    THEN /\ UNCHANGED stateVars
         /\ Broadcast(event)
         /\ work' = << DoDisconnect >> \o after
    ELSE /\ work' = after
         /\ UNCHANGED << stateVars, events >>

LeaveKeepsSocket(event, after) ==
    /\ work' = after
    /\ IF state = "Connected"
       THEN SetInited /\ Broadcast(event)
       ELSE UNCHANGED << stateVars, events >>

\* ConnectionError and KickedFromServer: the event, then Disconnect; after is
\* what the handler does next.
Leave(event, after) ==
    IF state = "Connected"
    THEN /\ SetInited
         /\ Broadcast(event)
         /\ work' = << DoDisconnect >> \o after
    ELSE /\ work' = after
         /\ UNCHANGED << stateVars, events >>

ConnectionError(after) == Leave("ConnectionError", after)

KickedFromServer(after) == Leave("Kicked", after)

-----------------------------------------------------------------------------
(* The socket *)

\* Closing the socket completes the pending operations with an error.
Aborted ==
    [i \in 1..Len(recvs) |-> ReceiveDone(recvs[i], "error", << >>)]
        \o (IF connect THEN << ConnectDone("error") >> ELSE << >>)
        \o [i \in 1..Len(sends) |-> SendDone(sends[i], "error")]

\* TcpPacketStream::Disconnect
Disconnect ==
    /\ Does("Disconnect")
    /\ work' = Tail(work)
    /\ socket' = "closed"
    /\ connect' = FALSE
    /\ recvs' = << >>
    /\ sends' = << >>
    /\ ioQueue' = ioQueue \o Aborted
    /\ UNCHANGED << stateVars, requestVars, alive, serverGot, appVars, events, historyVars >>

\* TcpPacketStream::ReceivePackets, called with the handlers in queue ready.
StartReceive(queue, reader) ==
    IF socket = "closed"
    THEN /\ ioQueue' = Append(queue, ReceiveDone(reader, "error", << >>))
         /\ UNCHANGED recvs
    ELSE /\ ioQueue' = queue
         /\ recvs' = Append(recvs, reader)

\* Connection::ReceivePackets as the last step of a handler.
ReceivePackets ==
    /\ Does("ReceivePackets")
    /\ work' = Tail(work)
    /\ StartReceive(ioQueue, "packets")
    /\ UNCHANGED << stateVars, requestVars, alive, socket, connect, sends, serverGot, appVars,
                    events, historyVars >>

\* TcpPacketStream::SendNextPacket
SendNextPacket ==
    /\ Runs("SendNextPacket")
    /\ IF socket = "closed"
       THEN /\ ioQueue' = Append(Rest, SendDone(Task.handler, "error"))
            /\ UNCHANGED sends
       ELSE /\ ioQueue' = Rest
            /\ sends' = Append(sends, Task.handler)
    /\ UNCHANGED << stateVars, requestVars, alive, work, socket, connect, recvs, serverGot, appVars,
                    events, historyVars >>

-----------------------------------------------------------------------------
(* Connecting *)

\* The handler passed to Connect in Start.  asio reports an error when the
\* socket was closed meanwhile.
OnConnect ==
    /\ Runs("ConnectDone")
    /\ IF Task.ec = "error" \/ socket = "closed"
       THEN /\ HandshakeFailed
            /\ ioQueue' = Rest
       ELSE /\ ioQueue' = SendPacket(Rest, HandshakeHandler)   \* SendHandshake
            /\ UNCHANGED << stateVars, events >>
    /\ abandoned' = (abandoned \/ (Task.ec # "error" /\ socket # "closed" /\ QueueFull(Rest)))
    /\ UNCHANGED << requestVars, alive, work, socketVars, serverGot, appVars, answers, lost, epoch >>

\* The SendHandler of SendHandshake; on success ReceiveHandshakeResponse.
OnHandshakeSent ==
    /\ Runs("SendDone")
    /\ Task.handler.kind = "Handshake"
    /\ IF Task.ec = "error"
       THEN /\ HandshakeFailed
            /\ ioQueue' = Rest
            /\ UNCHANGED recvs
       ELSE /\ StartReceive(Rest, "handshake")
            /\ UNCHANGED << stateVars, events >>
    /\ UNCHANGED << requestVars, alive, work, socket, connect, sends, serverGot, appVars, historyVars >>

\* The ReceiveHandler of ReceiveHandshakeResponse accepts one handshake packet.
IsHandshakeResponse(t) ==
    /\ t.ec = "success"
    /\ Len(t.packets) = 1
    /\ t.packets[1].type \in {"Handshake", "BadHandshake"}

\* Mutant of OnHandshakeRejected: it goes on reading.
OnHandshakeRejectedReadsOn ==
    /\ Runs("ReceiveDone")
    /\ Task.reader = "handshake"
    /\ ~IsHandshakeResponse(Task)
    /\ HandshakeFailed
    /\ StartReceive(Rest, "packets")
    /\ UNCHANGED << requestVars, alive, work, socket, connect, sends, serverGot, appVars, historyVars >>

\* Mutant of OnHandshakeRejected: the failure is only logged.
OnHandshakeRejectedSilently ==
    /\ Runs("ReceiveDone")
    /\ Task.reader = "handshake"
    /\ ~IsHandshakeResponse(Task)
    /\ ioQueue' = Rest
    /\ UNCHANGED << stateVars, events, requestVars, alive, work, socketVars, serverGot, appVars, historyVars >>

OnHandshakeRejected ==
    /\ Runs("ReceiveDone")
    /\ Task.reader = "handshake"
    /\ ~IsHandshakeResponse(Task)
    /\ HandshakeFailed
    /\ ioQueue' = Rest
    /\ UNCHANGED << requestVars, alive, work, socketVars, serverGot, appVars, historyVars >>

\* A response that cannot be decompressed or is not the JSON expected ends in
\* ConnectionError; any other one is acknowledged (SendHandshakeAck).
OnHandshakeResponse ==
    /\ Runs("ReceiveDone")
    /\ Task.reader = "handshake"
    /\ IsHandshakeResponse(Task)
    /\ IF Task.packets[1].type = "BadHandshake"
       THEN /\ ConnectionError(<< >>)
            /\ ioQueue' = Rest
            /\ abandoned' = (abandoned \/ state = "Inited")
       ELSE /\ ioQueue' = SendPacket(Rest, AckHandler(Task.packets[1].dict))
            /\ abandoned' = (abandoned \/ QueueFull(Rest))
            /\ UNCHANGED << stateVars, work, events >>
    /\ UNCHANGED << requestVars, alive, socketVars, serverGot, appVars, answers, lost, epoch >>

\* The SendHandler of SendHandshakeAck: a failure is only logged; on success
\* StartReceivingPackets.
OnAckSent ==
    /\ Runs("SendDone")
    /\ Task.handler.kind = "HandshakeAck"
    /\ ioQueue' = Rest
    /\ IF Task.ec = "error"
       THEN /\ abandoned' = TRUE
            /\ UNCHANGED << stateVars, work, events, epoch >>
       ELSE /\ SetConnected(Task.handler.dict)
            /\ Broadcast("Connected")
            /\ epoch' = epoch + 1
            /\ work' = << DoReceive >>
            /\ UNCHANGED abandoned
    /\ UNCHANGED << requestVars, alive, socketVars, serverGot, appVars, answers, lost >>

-----------------------------------------------------------------------------
(* Receiving *)

\* Mutants of ProcessAll: no further read, and one before the packets as well.
ProcessAllOnce(ps) == [i \in 1..Len(ps) |-> DoProcess(ps[i])]

ProcessAllReadsTwice(ps) == << DoReceive >> \o ProcessAllOnce(ps) \o << DoReceive >>

\* The body of the ReceiveHandler of Connection::ReceivePackets.  It asks for
\* more packets at its end even when one of these closed the connection.
ProcessAll(ps) == [i \in 1..Len(ps) |-> DoProcess(ps[i])] \o << DoReceive >>

\* That handler.
OnReceive ==
    /\ Runs("ReceiveDone")
    /\ Task.reader = "packets"
    /\ ioQueue' = Rest
    /\ IF Task.ec = "error"
       THEN ConnectionError(<< >>)
       ELSE /\ work' = ProcessAll(Task.packets)
            /\ UNCHANGED << stateVars, events >>
    /\ UNCHANGED << requestVars, alive, socketVars, serverGot, appVars, historyVars >>

Entries(id) == {q \in inFlight : q.id = id}

Answer(r, status) == answers' = [answers EXCEPT ![r] = Append(@, status)]

\* Mutants of Finish: without the erase, and with a timer that is not cancelled.
FinishWithoutErase(id, status) ==
    IF Entries(id) = {}
    THEN UNCHANGED << inFlight, reqTimers, answers >>
    ELSE /\ \E q \in Entries(id) : Answer(q.req, status)
         /\ UNCHANGED << inFlight, reqTimers >>

FinishKeepsTimer(id, status) ==
    IF Entries(id) = {}
    THEN UNCHANGED << inFlight, reqTimers, answers >>
    ELSE /\ \E q \in Entries(id) : Answer(q.req, status)
         /\ inFlight' = inFlight \ Entries(id)
         /\ UNCHANGED reqTimers

\* A request leaves _inFlightRequests: its handler is called and its timer,
\* destroyed with it, is cancelled.
Finish(id, status) ==
    IF Entries(id) = {}
    THEN UNCHANGED << inFlight, reqTimers, answers >>
    ELSE /\ \E q \in Entries(id) : Answer(q.req, status)
         /\ inFlight' = inFlight \ Entries(id)
         /\ reqTimers' = reqTimers \ {id}

\* The packet that the loop of OnReceive has come to.
Packet == Head(work).packet

\* ProcessPacket, for the types that may end the connection: an invalid data
\* packet and a type that is not expected, or a kick.
ProcessFatal ==
    /\ Does("ProcessPacket")
    /\ \/ Packet.type \in {"BadData", "Handshake", "BadHandshake"} /\ ConnectionError(Tail(work))
       \/ Packet.type = "Kick" /\ KickedFromServer(Tail(work))
    /\ UNCHANGED << requestVars, alive, ioQueue, socketVars, serverGot, appVars, historyVars >>

ProcessHeartbeat ==
    /\ Does("ProcessPacket")
    /\ Packet.type = "Heartbeat"
    /\ work' = Tail(work)
    /\ IF state = "Connected" THEN ExtendHeartbeatTimeout ELSE UNCHANGED stateVars
    /\ UNCHANGED << requestVars, alive, ioQueue, socketVars, serverGot, appVars, events, historyVars >>

\* ProcessMessage: a response finishes its request; a push, and a request or
\* notify message from the server, is ignored.
ProcessMessage ==
    /\ Does("ProcessPacket")
    /\ Packet.type \in {"Push", "Response", "ErrorResponse"}
    /\ work' = Tail(work)
    /\ IF Packet.type # "Push" /\ state = "Connected"
       THEN Finish(Packet.id, IF Packet.type = "Response" THEN "Ok" ELSE "ServerError")
       ELSE UNCHANGED << inFlight, reqTimers, answers >>
    /\ UNCHANGED << stateVars, reqId, alive, ioQueue, socketVars, serverGot, appVars, events, lost, epoch, abandoned >>

-----------------------------------------------------------------------------
(* Requests *)

\* _reqId++
NextReqId == reqId' = reqId + 1

\* Mutant of OnPostRequest: the state is not looked at.
OnPostRequestUnchecked ==
    /\ Runs("PostRequest")
    /\ NextReqId
    /\ ioQueue' = SendPacket(Rest, RequestHandler(Task.req, reqId))
    /\ UNCHANGED << stateVars, inFlight, reqTimers, alive, work, socketVars, serverGot, appVars, events, historyVars >>

\* The call posted by PostRequest.  Message::SerializeInto looks the route up
\* with routeDict.at, which throws when it is not there; nothing catches it.
OnPostRequest ==
    LET r == Task.req
        h == RequestHandler(r, reqId)
    IN
    /\ Runs("PostRequest")
    /\ \/ /\ state = "Inited"
          /\ Answer(r, "NotConnectedError")
          /\ ioQueue' = Rest
          /\ UNCHANGED << reqId, alive, lost >>
       \/ /\ state = "Connected"
          /\ RouteOf[r] \in dict
          /\ NextReqId
          /\ ioQueue' = SendPacket(Rest, h)
          /\ lost' = IF QueueFull(Rest) THEN lost \union {r} ELSE lost
          /\ UNCHANGED << alive, answers >>
       \/ /\ state = "Connected"
          /\ RouteOf[r] \notin dict
          /\ NextReqId
          /\ alive' = FALSE
          /\ UNCHANGED << ioQueue, answers, lost >>
    /\ UNCHANGED << stateVars, inFlight, reqTimers, work, socketVars, serverGot, appVars, events, epoch, abandoned >>

\* Mutants of Register: under the latest id, and without the timer.
RegisterLatest(h) ==
    /\ inFlight' = inFlight \union {[id |-> reqId - 1, req |-> h.req]}
    /\ reqTimers' = reqTimers \union {reqId - 1}

RegisterWithoutTimer(h) ==
    /\ inFlight' = inFlight \union {[id |-> h.id, req |-> h.req]}
    /\ UNCHANGED reqTimers

\* emplace: the request enters _inFlightRequests and its timer is started, unless
\* the id is taken.
Register(h) ==
    IF Entries(h.id) = {}
    THEN /\ inFlight' = inFlight \union {[id |-> h.id, req |-> h.req]}
         /\ reqTimers' = reqTimers \union {h.id}
    ELSE UNCHANGED << inFlight, reqTimers >>

\* Mutant of OnRequestSent: the handler is posted behind those that are ready.
OnRequestSentPosted ==
    LET h == Task.handler IN
    /\ Runs("SendDone")
    /\ h.kind = "Request"
    /\ IF Rest = << >> /\ Task.ec # "error"
       THEN Register(h) /\ ioQueue' = Rest
       ELSE ioQueue' = Append(Rest, Task) /\ UNCHANGED << inFlight, reqTimers >>
    /\ UNCHANGED << stateVars, reqId, alive, work, socketVars, serverGot, appVars, events, historyVars >>

\* The SendHandler of a request.
OnRequestSent ==
    LET h == Task.handler IN
    /\ Runs("SendDone")
    /\ h.kind = "Request"
    /\ ioQueue' = Rest
    /\ IF Task.ec = "error"
       THEN /\ Answer(h.req, "InternalError")
            /\ UNCHANGED << inFlight, reqTimers >>
       ELSE /\ Register(h)
            /\ UNCHANGED answers
    /\ UNCHANGED << stateVars, reqId, alive, work, socketVars, serverGot, appVars, events, lost, epoch, abandoned >>

\* ProcessRequestTimeout
OnRequestTimeout ==
    /\ Runs("RequestTimeout")
    /\ ioQueue' = Rest
    /\ Finish(Task.id, "Timeout")
    /\ UNCHANGED << stateVars, reqId, alive, work, socketVars, serverGot, appVars, events, lost, epoch, abandoned >>

-----------------------------------------------------------------------------
(* Heartbeats *)

\* Mutant of WaitForNextTick: the timer is not started again.
NoNextTick == UNCHANGED heartbeatTimer

\* expires_after and async_wait on heartbeatTimer.
WaitForNextTick == heartbeatTimer' = TRUE

\* State::HeartbeatTick: send a heartbeat and wait for the next tick.
OnTick ==
    /\ Runs("HeartbeatTick")
    /\ IF state = "Connected"
       THEN /\ ioQueue' = SendPacket(Rest, HeartbeatHandler)
            /\ WaitForNextTick
       ELSE /\ ioQueue' = Rest
            /\ UNCHANGED heartbeatTimer
    /\ UNCHANGED << state, dict, heartbeatTimeout, requestVars, alive, work, socketVars, serverGot,
                    appVars, events, historyVars >>

\* The SendHandler of a heartbeat.
OnHeartbeatSent ==
    /\ Runs("SendDone")
    /\ Task.handler.kind = "Heartbeat"
    /\ ioQueue' = Rest
    /\ IF Task.ec = "error"
       THEN ConnectionError(<< >>)
       ELSE UNCHANGED << stateVars, work, events >>
    /\ UNCHANGED << requestVars, alive, socketVars, serverGot, appVars, historyVars >>

\* The heartbeatTimeoutCb of StartReceivingPackets.
OnHeartbeatTimeout ==
    /\ Runs("HeartbeatTimeout")
    /\ ioQueue' = Rest
    /\ ConnectionError(<< >>)
    /\ UNCHANGED << requestVars, alive, socketVars, serverGot, appVars, historyVars >>

-----------------------------------------------------------------------------
(* TCP, the server and the timers *)

\* The TCP connection is established, or no endpoint accepted it.
ConnectCompletes ==
    /\ connect
    /\ connect' = FALSE
    /\ \/ socket' = "open" /\ ioQueue' = Append(ioQueue, ConnectDone("success"))
       \/ socket' = "broken" /\ ioQueue' = Append(ioQueue, ConnectDone("error"))
    /\ UNCHANGED << stateVars, requestVars, alive, work, recvs, sends, serverGot, appVars, events, historyVars >>

\* The oldest pending send completes.  The server receives what was written
\* to a socket that works.
SendCompletes ==
    LET h == Head(sends) IN
    /\ sends # << >>
    /\ socket \in {"open", "broken"}
    /\ sends' = Tail(sends)
    /\ ioQueue' = Append(ioQueue, SendDone(h, "success"))
    /\ serverGot' = IF h.kind = "Request" /\ socket = "open"
                     THEN serverGot \union {[id |-> h.id, req |-> h.req]}
                     ELSE serverGot
    /\ UNCHANGED << stateVars, requestVars, alive, work, socket, connect, recvs, appVars, events, historyVars >>

SendFails ==
    /\ sends # << >>
    /\ socket \in {"open", "broken"}
    /\ socket' = "broken"
    /\ sends' = Tail(sends)
    /\ ioQueue' = Append(ioQueue, SendDone(Head(sends), "error"))
    /\ UNCHANGED << stateVars, requestVars, alive, work, connect, recvs, serverGot, appVars, events, historyVars >>

\* What the server may send: a handshake with a route dictionary, the response
\* to a request that it received, or a packet without content that matters.
PacketsFromServer ==
    {[type |-> "Handshake", dict |-> d] : d \in IF "Handshake" \in Sent THEN Dicts ELSE {}}
        \union {[type |-> t, id |-> g.id, req |-> g.req] :
                    t \in Sent \intersect {"Response", "ErrorResponse"}, g \in serverGot}
        \union [type : Sent \ {"Handshake", "Response", "ErrorResponse"}]

\* The oldest pending receive gets one or more whole packets.
ReceiveCompletes ==
    /\ recvs # << >>
    /\ socket = "open"
    /\ recvs' = Tail(recvs)
    /\ \E n \in 1..MaxBatch : \E ps \in [1..n -> PacketsFromServer] :
            ioQueue' = Append(ioQueue, ReceiveDone(Head(recvs), "success", ps))
    /\ UNCHANGED << stateVars, requestVars, alive, work, socket, connect, sends, serverGot, appVars, events, historyVars >>

\* The server closes the connection, it breaks, or the bytes that arrive are
\* not packets: ReadToBuffer reports an error.
ReceiveFails ==
    /\ recvs # << >>
    /\ socket \in {"open", "broken"}
    /\ socket' \in {socket, "broken"}
    /\ recvs' = Tail(recvs)
    /\ ioQueue' = Append(ioQueue, ReceiveDone(Head(recvs), "error", << >>))
    /\ UNCHANGED << stateVars, requestVars, alive, work, connect, sends, serverGot, appVars, events, historyVars >>

Heartbeats ==
    Len(SelectSeq(ioQueue, LAMBDA t : t = PostedSend(HeartbeatHandler) \/ t.kind = "HeartbeatTick"))
        + Len(SelectSeq(sends, LAMBDA h : h = HeartbeatHandler))

HeartbeatTimerExpires ==
    /\ heartbeatTimer
    /\ Heartbeats < MaxHeartbeats
    /\ heartbeatTimer' = FALSE
    /\ ioQueue' = Append(ioQueue, Tick)
    /\ UNCHANGED << state, dict, heartbeatTimeout, requestVars, alive, work, socketVars, serverGot,
                    appVars, events, historyVars >>

HeartbeatTimeoutExpires ==
    /\ heartbeatTimeout
    /\ heartbeatTimeout' = FALSE
    /\ ioQueue' = Append(ioQueue, HeartbeatTimedOut(epoch))
    /\ UNCHANGED << state, dict, heartbeatTimer, requestVars, alive, work, socketVars, serverGot,
                    appVars, events, historyVars >>

RequestTimerExpires ==
    /\ \E id \in reqTimers :
          /\ reqTimers' = reqTimers \ {id}
          /\ ioQueue' = Append(ioQueue, RequestTimedOut(id))
    /\ UNCHANGED << stateVars, reqId, inFlight, alive, work, socketVars, serverGot, appVars, events, historyVars >>

-----------------------------------------------------------------------------
(* The application *)

PostRequest(r) ==
    /\ r \notin posted
    /\ posted' = posted \union {r}
    /\ ioQueue' = Append(ioQueue, PostedRequest(r))
    /\ UNCHANGED << stateVars, requestVars, alive, work, socketVars, serverGot, starts, events, historyVars >>

\* When the application calls Start: whenever it likes, after an event that
\* ends the previous attempt, or also with the worker at rest.
Ended == events # << >> /\ events[Len(events)] # "Connected"

MayStart ==
    \/ Restart = "anytime"
    \/ /\ starts = 0 \/ Ended
       /\ Restart = "when idle" => ioQueue = << >> /\ work = << >>

\* Start, for an address that resolves (any other leaves everything as it is).
\* async_connect closes the socket before it opens it again.
Start ==
    /\ starts < MaxStarts
    /\ MayStart
    /\ starts' = starts + 1
    /\ events' = << >>
    /\ ioQueue' = ioQueue \o Aborted
    /\ socket' = "connecting"
    /\ connect' = TRUE
    /\ recvs' = << >>
    /\ sends' = << >>
    /\ abandoned' = FALSE
    /\ UNCHANGED << stateVars, requestVars, alive, work, serverGot, posted, answers, lost, epoch >>

-----------------------------------------------------------------------------
Worker ==
    \/ OnConnect
    \/ OnHandshakeSent
    \/ OnHandshakeRejected
    \/ OnHandshakeResponse
    \/ OnAckSent
    \/ OnReceive
    \/ ProcessFatal
    \/ ProcessHeartbeat
    \/ ProcessMessage
    \/ ReceivePackets
    \/ Disconnect
    \/ SendNextPacket
    \/ OnPostRequest
    \/ OnRequestSent
    \/ OnRequestTimeout
    \/ OnTick
    \/ OnHeartbeatSent
    \/ OnHeartbeatTimeout

Environment ==
    \/ ConnectCompletes
    \/ SendCompletes
    \/ SendFails
    \/ ReceiveCompletes
    \/ ReceiveFails
    \/ HeartbeatTimerExpires
    \/ HeartbeatTimeoutExpires
    \/ RequestTimerExpires

Application ==
    \/ \E r \in Requests : PostRequest(r)
    \/ Start

\* An exception that leaves a handler ends the process.
Next == alive /\ (Worker \/ Environment \/ Application)

Spec == Init /\ [][Next]_vars

\* The operating system runs the worker, a connect or a send ends in success
\* or failure, and timers expire.
FairSpec ==
    /\ Spec
    /\ WF_vars(alive /\ Worker)
    /\ WF_vars(alive /\ ConnectCompletes)
    /\ WF_vars(alive /\ (SendCompletes \/ SendFails))
    /\ WF_vars(alive /\ RequestTimerExpires)

-----------------------------------------------------------------------------
(* Properties *)

\* The ids given to requests.
Ids == 1..Cardinality(posted)

SendHandlers ==
    [kind : {"Handshake", "Heartbeat"}]
        \union [kind : {"HandshakeAck"}, dict : Dicts]
        \union [kind : {"Request"}, req : Requests, id : Ids]

Readers == {"handshake", "packets"}

Packets ==
    [type : {"Handshake"}, dict : Dicts]
        \union [type : {"Response", "ErrorResponse"}, id : Ids, req : Requests]
        \union [type : {"BadHandshake", "Heartbeat", "Kick", "Push", "BadData"}]

Statuses == {"Ok", "ServerError", "Timeout", "NotConnectedError", "InternalError"}

IsTask(t) ==
    CASE t.kind = "PostRequest" -> t.req \in Requests
      [] t.kind = "SendNextPacket" -> t.handler \in SendHandlers
      [] t.kind = "SendDone" -> t.handler \in SendHandlers
      [] t.kind = "ReceiveDone" -> /\ t.reader \in Readers
                                   /\ \A i \in DOMAIN t.packets : t.packets[i] \in Packets
                                   /\ t.ec = "success" <=> t.packets # << >>
      [] t.kind = "ConnectDone" -> t.ec \in {"success", "error"}
      [] t.kind = "HeartbeatTimeout" -> t.epoch \in 1..epoch
      [] t.kind = "RequestTimeout" -> t.id \in Ids
      [] t.kind = "HeartbeatTick" -> TRUE

\* Types, and which part of the state goes with which: the timers of Connected
\* exist only in that state, a request timer only with its request in flight,
\* and operations are pending only on a socket that is open.
TypeOK ==
    /\ state \in {"Inited", "Connected"}
    /\ dict \in Dicts \union {{}}
    /\ heartbeatTimer \in BOOLEAN /\ heartbeatTimeout \in BOOLEAN
    /\ state = "Inited" => ~heartbeatTimer /\ ~heartbeatTimeout
    /\ reqId \in 1..Cardinality(posted) + 1
    /\ inFlight \subseteq [id : Ids, req : Requests]
    /\ reqTimers \subseteq {q.id : q \in inFlight}
    /\ alive \in BOOLEAN
    /\ \A i \in DOMAIN ioQueue : IsTask(ioQueue[i])
    /\ \A i \in DOMAIN work : work[i].do = "ProcessPacket" => work[i].packet \in Packets
    /\ socket \in {"closed", "connecting", "open", "broken"}
    /\ connect = (socket = "connecting")
    /\ \A i \in DOMAIN recvs : recvs[i] \in Readers
    /\ \A i \in DOMAIN sends : sends[i] \in SendHandlers
    /\ socket = "closed" => recvs = << >> /\ sends = << >>
    /\ serverGot \subseteq [id : Ids, req : Requests]
    /\ posted \subseteq Requests /\ lost \subseteq posted
    /\ starts \in 0..MaxStarts
    /\ \A i \in DOMAIN events : events[i] \in {"Connected", "ConnectionFailed", "ConnectionError", "Kicked"}
    /\ \A r \in Requests : \A i \in DOMAIN answers[r] : answers[r][i] \in Statuses
    /\ epoch \in Nat /\ abandoned \in BOOLEAN

\* The handlers ready to run that will still do something for request r.
TasksOf(r) ==
    {i \in DOMAIN ioQueue :
        LET t == ioQueue[i] IN
        \/ t.kind = "PostRequest" /\ t.req = r
        \/ t.kind \in {"SendNextPacket", "SendDone"} /\ t.handler.kind = "Request" /\ t.handler.req = r}

SendsOf(r) == {i \in DOMAIN sends : sends[i].kind = "Request" /\ sends[i].req = r}

\* How often request r is accounted for: on its way, in flight, or finished.
Places(r) ==
    Cardinality(TasksOf(r)) + Cardinality(SendsOf(r)) + Cardinality({q \in inFlight : q.req = r})
        + Len(answers[r]) + (IF r \in lost THEN 1 ELSE 0)

\* Every request passed to PostRequest is in exactly one place until its
\* handler has been called, and its handler is called at most once: answer,
\* timeout, send failure and disconnection never both take it and never lose
\* it, except when SendPacket ignores its packet.
RequestAccounted ==
    alive => \A r \in Requests : Places(r) = IF r \in posted THEN 1 ELSE 0

\* A response reaches the handler of the very request that the server answers,
\* across reconnections too: when the worker processes it, that request is in
\* flight under its id, or it was answered and the id is no longer in use.
ResponseReachesItsRequest ==
    Does("ProcessPacket") /\ Packet.type \in {"Response", "ErrorResponse"} =>
        \/ [id |-> Packet.id, req |-> Packet.req] \in inFlight
        \/ Entries(Packet.id) = {} /\ answers[Packet.req] # << >>

\* The requests whose packets are queued, being written or just written.
TaskRequests(tasks) ==
    {t.handler : t \in {t \in tasks : t.kind \in {"SendNextPacket", "SendDone"} /\ t.handler.kind = "Request"}}

OnTheWay == TaskRequests(Range(ioQueue)) \union {h \in Range(sends) : h.kind = "Request"}

\* The packets received and not yet processed.
TaskPackets(tasks) == UNION {Range(t.packets) : t \in {t \in tasks : t.kind = "ReceiveDone"}}

WorkPackets(steps) == {w.packet : w \in {w \in steps : w.do = "ProcessPacket"}}

Received == TaskPackets(Range(ioQueue)) \union WorkPackets(Range(work))

\* Every place where a request goes by its id.
Numbered ==
    inFlight \union serverGot
        \union {[id |-> h.id, req |-> h.req] : h \in OnTheWay}
        \union {[id |-> p.id, req |-> p.req] :
                    p \in {p \in Received : p.type \in {"Response", "ErrorResponse"}}}

\* An id never stands for two requests: not on the way to the server, not in
\* flight, not in a response, not on two connections one after the other.
IdsIdentify == \A a, b \in Numbered : a.id = b.id => a.req = b.req

\* While the connection is established the next heartbeat is always scheduled,
\* whatever ticks, disconnections and new connections came before.
HeartbeatScheduled ==
    state = "Connected" => heartbeatTimer \/ Tick \in Range(ioQueue)

\* The reads under way: pending, completed, or about to be started.
Reads ==
    Len(recvs)
        + Cardinality({i \in DOMAIN ioQueue : ioQueue[i].kind = "ReceiveDone"})
        + Cardinality({i \in DOMAIN work : work[i] = DoReceive})

\* An established connection is never deaf: ReceivePackets keeps a read under
\* way through every packet it processes.
ConnectedIsReading ==
    state = "Connected" =>
        \/ "packets" \in Range(recvs)
        \/ \E t \in Range(ioQueue) : t.kind = "ReceiveDone" /\ t.reader = "packets"
        \/ DoReceive \in Range(work)

\* No request waits forever: as long as one is in flight its timer runs or its
\* timeout is about to be handled, through answers to other requests,
\* disconnections and new connections.
RequestTimed ==
    \A q \in inFlight : q.id \in reqTimers \/ RequestTimedOut(q.id) \in Range(ioQueue)

\* There is at most one read at a time: two would fill the same part of the
\* read buffer.
OneReader == Reads <= 1

\* What the application sees is what the contract of the client promises:
\* each request is answered at most once, with a status that agrees with the
\* connection it has heard of, and each call of Start fails once, or succeeds
\* once and is then ended at most once.
Contract == INSTANCE ClientContract

ImplementsContract == Contract!Spec

\* The state agrees with what the application was told.
StateMatchesEvents == state = "Connected" <=> events = << "Connected" >>

\* When the application has heard that the connection ended, and the handler
\* that told it is done, the socket is closed.
EndedIsClosed ==
    Ended /\ events[1] = "Connected" /\ work = << >> => socket = "closed"

\* The callback of the heartbeat timeout only ends the connection whose server
\* fell silent, never the one established after it; and when a connection is
\* established no tick of an earlier one is left in the queue.
TimeoutOfThisConnection ==
    /\ Runs("HeartbeatTimeout") /\ state = "Connected" => Task.epoch = epoch
    /\ Runs("SendDone") /\ Task.handler.kind = "HandshakeAck" => Tick \notin Range(ioQueue)

Greets(h) == h.kind \in {"Handshake", "HandshakeAck"}

\* The handshake packet was written, and the connection is not established yet.
Greeted(t) ==
    \/ t.kind = "SendDone" /\ Greets(t.handler)
    \/ t.kind = "ReceiveDone" /\ t.reader = "handshake"
    \/ t.kind = "SendNextPacket" /\ t.handler.kind = "HandshakeAck"

HandshakeWritten == "handshake" \in Range(recvs) \/ \E t \in Range(ioQueue) : Greeted(t)

HandshakeBegun ==
    \/ HandshakeWritten
    \/ \E h \in Range(sends) : Greets(h)
    \/ PostedSend(HandshakeHandler) \in Range(ioQueue)

\* A handshake is not disturbed by an earlier connection.  Its requests and
\* heartbeats may still be queued when the application calls Start, and are then
\* written on the new connection, but only before the handshake packet: once
\* that is queued no other packet is, none is written behind it, and none is
\* being written when the response is awaited and acknowledged.
HandshakeUndisturbed ==
    /\ HandshakeBegun =>
          \A t \in Range(ioQueue) : t.kind = "SendNextPacket" => t.handler.kind \notin {"Request", "Heartbeat"}
    /\ \A i \in DOMAIN sends : Greets(sends[i]) => i = Len(sends)
    /\ HandshakeWritten => sends = << >>

\* The application has the socket to itself when it calls Start again with the
\* worker at rest: async_connect then closes no socket that is being used.
StartHasSocketAlone ==
    starts > 0 /\ Restart = "when idle" /\ MayStart => ~connect /\ recvs = << >> /\ sends = << >>

\* An attempt to connect comes to an event, or is waiting for the handshake
\* response, or was given up in one of the places that tell nobody: an invalid
\* handshake response, an acknowledgement that cannot be sent, a full queue.
AttemptResolved ==
    (starts > 0 /\ events = << >>)
        ~> (events # << >> \/ "handshake" \in Range(recvs) \/ abandoned \/ ~alive)

\* Every request is eventually answered, unless its packet was ignored.
RequestAnswered ==
    \A r \in Requests : (r \in posted) ~> (answers[r] # << >> \/ r \in lost \/ ~alive)
=============================================================================

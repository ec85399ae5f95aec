----------------------------- MODULE Connection -----------------------------
(***************************************************************************)
(* Connection setup through the RDMA communication manager (CM).  In each  *)
(* process a detached cm_thread takes events from the CM's channel and     *)
(* moves the member "state"; the main thread spins on it in bindaddr() and *)
(* start() (simplest_client.cpp, simplest_server.cpp).  One server, any    *)
(* number of clients: the server's listening socket has a backlog of       *)
(* three, its main thread serves one connection.                           *)
(***************************************************************************)
EXTENDS Integers, Sequences

CONSTANTS
    Client,      \* the client processes
    Uninit,      \* what child_cm_id points to before cm_thread assigns it
    CmMayFail    \* the CM may report a failure instead of progress

ASSUME ClientAssumption == Uninit \notin Client
ASSUME FailAssumption == CmMayFail \in BOOLEAN

\* enum ClientState and enum ServerState (rdma-utils.h).  The server's
\* main thread compares a ServerState with CONNECTED of the other enum.
INIT             == 0
ROUTE_RESOLVED   == 1
ADDR_RESOLVED    == 2
CONNECTED        == 3
SERVER_INIT      == 0

\* Mutant: a state is added to enum ServerState before REQUEST_GET.
REQUEST_GET_Moved == 3

REQUEST_GET      == 2

\* Mutant: a state is added to enum ServerState before SERVER_CONNECTED.
SERVER_CONNECTED_Moved == 4

SERVER_CONNECTED == 3

VARIABLES
    cstate,    \* per client: its member state
    cmain,     \* per client: where its main thread is
    cthread,   \* per client: its cm_thread, or the state it stores next
    cpending,  \* per client: the CM operation under way
    cevents,   \* per client: its event channel
    sstate,    \* the server's member state
    smain,     \* where its main thread is
    sthread,   \* its cm_thread: idle, or the request whose id it stores next
    child,     \* child_cm_id
    qpOn,      \* the id the queue pair was created on
    accepted,  \* the id passed to rdma_accept
    sevents    \* its event channel

clientVars == <<cstate, cmain, cthread, cpending, cevents>>
serverVars == <<sstate, smain, sthread, child, qpOn, accepted, sevents>>
vars == <<clientVars, serverVars>>

Id == Client \cup {Uninit}
ClientEvent == {"ADDR_RESOLVED", "ROUTE_RESOLVED", "ESTABLISHED", "FAILURE"}
ServerEvent == [type : {"CONNECT_REQUEST", "ESTABLISHED"}, id : Client]

TypeOK ==
    /\ cstate \in [Client -> {INIT, ROUTE_RESOLVED, ADDR_RESOLVED, CONNECTED}]
    /\ cmain \in [Client -> {"start", "waitRoute", "connect",
                             "waitConnected", "connected"}]
    /\ cthread \in [Client -> {"get", "record"}]
    /\ cpending \in [Client -> {"none", "addr", "route", "connect", "requested",
                                "replied", "failed"}]
    /\ cevents \in [Client -> Seq(ClientEvent)]
    /\ sstate \in {SERVER_INIT, REQUEST_GET, CONNECTED}
    /\ smain \in {"start", "waitRequest", "open", "createQp", "readQp",
                  "accept", "waitConnected", "connected", "crashed", "exited"}
    /\ sthread \in Id
    /\ child \in Id /\ qpOn \in Id /\ accepted \in Id
    /\ sevents \in Seq(ServerEvent)

Init ==
    /\ cstate = [c \in Client |-> INIT]
    /\ cmain = [c \in Client |-> "start"]
    /\ cthread = [c \in Client |-> "get"]
    /\ cpending = [c \in Client |-> "none"]
    /\ cevents = [c \in Client |-> <<>>]
    /\ sstate = SERVER_INIT
    /\ smain = "start"
    /\ sthread = Uninit
    /\ child = Uninit /\ qpOn = Uninit /\ accepted = Uninit
    /\ sevents = <<>>

-----------------------------------------------------------------------------
(* A client.                                                               *)

\* start() creates the id and the cm_thread; bindaddr() starts to resolve.
ResolveAddr(c) ==
    /\ cmain[c] = "start"
    /\ cpending' = [cpending EXCEPT ![c] = "addr"]
    /\ cmain' = [cmain EXCEPT ![c] = "waitRoute"]
    /\ UNCHANGED <<cstate, cthread, cevents, serverVars>>

\* cm_thread's handler of ADDR_RESOLVED resolves the route first ...
TakeAddrResolved(c) ==
    /\ cthread[c] = "get"
    /\ cevents[c] # <<>> /\ Head(cevents[c]) = "ADDR_RESOLVED"
    /\ cevents' = [cevents EXCEPT ![c] = Tail(@)]
    /\ cpending' = [cpending EXCEPT ![c] = "route"]
    /\ cthread' = [cthread EXCEPT ![c] = "record"]
    /\ UNCHANGED <<cstate, cmain, serverVars>>

\* Mutant: the handler of ADDR_RESOLVED does not store the state.
RecordAddr_Missing(c) ==
    /\ cthread[c] = "record"
    /\ cthread' = [cthread EXCEPT ![c] = "get"]
    /\ UNCHANGED <<cstate, cmain, cpending, cevents, serverVars>>

\* ... and then stores the state.
RecordAddr(c) ==
    /\ cthread[c] = "record"
    /\ cstate' = [cstate EXCEPT ![c] = ADDR_RESOLVED]
    /\ cthread' = [cthread EXCEPT ![c] = "get"]
    /\ UNCHANGED <<cmain, cpending, cevents, serverVars>>

\* Mutant: every other event is taken for the connection.
TakeEvent_Any(c) ==
    /\ cthread[c] = "get"
    /\ cevents[c] # <<>> /\ Head(cevents[c]) # "ADDR_RESOLVED"
    /\ cevents' = [cevents EXCEPT ![c] = Tail(@)]
    /\ cstate' = [cstate EXCEPT ![c] =
                     IF Head(cevents[c]) = "ROUTE_RESOLVED"
                     THEN ROUTE_RESOLVED ELSE CONNECTED]
    /\ UNCHANGED <<cmain, cthread, cpending, serverVars>>

\* The other events; a failure, of whatever kind, is ignored.
TakeEvent(c) ==
    /\ cthread[c] = "get"
    /\ cevents[c] # <<>> /\ Head(cevents[c]) # "ADDR_RESOLVED"
    /\ cevents' = [cevents EXCEPT ![c] = Tail(@)]
    /\ cstate' = [cstate EXCEPT ![c] =
                     CASE Head(cevents[c]) = "ROUTE_RESOLVED" -> ROUTE_RESOLVED
                       [] Head(cevents[c]) = "ESTABLISHED"    -> CONNECTED
                       [] OTHER                               -> @]
    /\ UNCHANGED <<cmain, cthread, cpending, serverVars>>

ClientCm(c) == TakeAddrResolved(c) \/ RecordAddr(c) \/ TakeEvent(c)

\* The queues, the first receive and the completion thread.
CreateQueues(c) ==
    /\ cmain[c] = "waitRoute" /\ cstate[c] = ROUTE_RESOLVED
    /\ cmain' = [cmain EXCEPT ![c] = "connect"]
    /\ UNCHANGED <<cstate, cthread, cpending, cevents, serverVars>>

Connect(c) ==
    /\ cmain[c] = "connect"
    /\ cpending' = [cpending EXCEPT ![c] = "connect"]
    /\ cmain' = [cmain EXCEPT ![c] = "waitConnected"]
    /\ UNCHANGED <<cstate, cthread, cevents, serverVars>>

ClientConnected(c) ==
    /\ cmain[c] = "waitConnected" /\ cstate[c] = CONNECTED
    /\ cmain' = [cmain EXCEPT ![c] = "connected"]
    /\ UNCHANGED <<cstate, cthread, cpending, cevents, serverVars>>

-----------------------------------------------------------------------------
(* The server.                                                             *)

\* start() creates the listening id and the cm_thread; bindaddr() listens.
Listen ==
    /\ smain = "start"
    /\ smain' = "waitRequest"
    /\ UNCHANGED <<clientVars, sstate, sthread, child, qpOn, accepted, sevents>>

\* A process that crashed or called exit(1) has no threads left.
ServerUp == smain \notin {"crashed", "exited"}

\* cm_thread takes a request: it announces the state first ...
TakeRequest ==
    /\ ServerUp /\ sthread = Uninit
    /\ sevents # <<>>
    /\ Head(sevents).type = "CONNECT_REQUEST"
    /\ sevents' = Tail(sevents)
    /\ sstate' = REQUEST_GET
    /\ sthread' = Head(sevents).id
    /\ UNCHANGED <<clientVars, smain, child, qpOn, accepted>>

\* ... and then stores the id.
StoreChild ==
    /\ ServerUp /\ sthread # Uninit
    /\ child' = sthread
    /\ sthread' = Uninit
    /\ UNCHANGED <<clientVars, sstate, smain, qpOn, accepted, sevents>>

TakeEstablished ==
    /\ ServerUp /\ sthread = Uninit
    /\ sevents # <<>>
    /\ Head(sevents).type = "ESTABLISHED"
    /\ sevents' = Tail(sevents)
    /\ sstate' = SERVER_CONNECTED
    /\ UNCHANGED <<clientVars, smain, sthread, child, qpOn, accepted>>

SeeRequest ==
    /\ smain = "waitRequest" /\ sstate = REQUEST_GET
    /\ smain' = "open"
    /\ UNCHANGED <<clientVars, sstate, sthread, child, qpOn, accepted, sevents>>

\* Mutant: the queue pair is left to be created after rdma_accept.
OpenDevice_QpLater ==
    /\ smain = "open"
    /\ smain' = IF child = Uninit THEN "crashed" ELSE "accept"
    /\ UNCHANGED <<clientVars, sstate, sthread, child, qpOn, accepted, sevents>>

\* The protection domain, the completion channel and the completion queue
\* are created on child_cm_id->verbs.
OpenDevice ==
    /\ smain = "open"
    /\ smain' = IF child = Uninit THEN "crashed" ELSE "createQp"
    /\ UNCHANGED <<clientVars, sstate, sthread, child, qpOn, accepted, sevents>>

\* rdma_create_qp, on the id that child_cm_id points to now ...
CreateQp ==
    /\ smain = "createQp"
    /\ qpOn' = child
    /\ smain' = "readQp"
    /\ UNCHANGED <<clientVars, sstate, sthread, child, accepted, sevents>>

\* ... and qp = child_cm_id->qp, of the id that it points to then.  Another id
\* has no queue pair: setup_buffer still runs, and the first ibv_post_recv
\* gets a null pointer.  Else the receive is posted and the completion thread
\* starts.
ReadQp ==
    /\ smain = "readQp"
    /\ smain' = IF child = qpOn THEN "accept" ELSE "crashed"
    /\ UNCHANGED <<clientVars, sstate, sthread, child, qpOn, accepted, sevents>>

\* rdma_accept may fail, and start() then exits: if the request is gone, and
\* if the id is another one by now, which has no queue pair.
Accept ==
    /\ smain = "accept"
    /\ \/ smain' = "waitConnected" /\ accepted' = child
       \/ /\ cpending[child] # "requested" \/ child # qpOn
          /\ smain' = "exited"
          /\ UNCHANGED accepted
    /\ UNCHANGED <<clientVars, sstate, sthread, child, qpOn, sevents>>

ServerConnected ==
    /\ smain = "waitConnected" /\ sstate = CONNECTED
    /\ smain' = "connected"
    /\ UNCHANGED <<clientVars, sstate, sthread, child, qpOn, accepted, sevents>>

Server ==
    \/ Listen \/ SeeRequest \/ OpenDevice \/ CreateQp \/ ReadQp \/ Accept
    \/ ServerConnected

ServerCm == TakeRequest \/ StoreChild \/ TakeEstablished

-----------------------------------------------------------------------------
(* The communication manager.                                              *)

ClientEventOf(c, e) ==
    /\ cevents' = [cevents EXCEPT ![c] = Append(@, e)]
    /\ UNCHANGED <<cstate, cmain, cthread>>

Resolved(c) ==
    /\ \/ cpending[c] = "addr"  /\ ClientEventOf(c, "ADDR_RESOLVED")
       \/ cpending[c] = "route" /\ ClientEventOf(c, "ROUTE_RESOLVED")
    /\ cpending' = [cpending EXCEPT ![c] = "none"]
    /\ UNCHANGED serverVars

ServerEventOf(type, c) ==
    /\ sevents' = Append(sevents, [type |-> type, id |-> c])
    /\ UNCHANGED <<sstate, smain, sthread, child, qpOn, accepted>>

\* A request reaches a listening server, as an event with an id of its own.
DeliverRequest(c) ==
    /\ cpending[c] = "connect"
    /\ ServerUp /\ smain # "start"
    /\ cpending' = [cpending EXCEPT ![c] = "requested"]
    /\ ServerEventOf("CONNECT_REQUEST", c)
    /\ UNCHANGED <<cstate, cmain, cthread, cevents>>

\* The reply to an accepted request reaches the client ...
DeliverReply(c) ==
    /\ cpending[c] = "requested" /\ accepted = c
    /\ cpending' = [cpending EXCEPT ![c] = "replied"]
    /\ ClientEventOf(c, "ESTABLISHED")
    /\ UNCHANGED serverVars

\* ... and its confirmation the server.
DeliverConfirmation(c) ==
    /\ cpending[c] = "replied"
    /\ cpending' = [cpending EXCEPT ![c] = "none"]
    /\ ServerEventOf("ESTABLISHED", c)
    /\ UNCHANGED <<cstate, cmain, cthread, cevents>>

\* A timeout, an error or a rejection, up to the reply; a request to a server
\* that is gone fails in any case.
CmFails(c) ==
    /\ \/ CmMayFail
       \/ ~ServerUp /\ cpending[c] \in {"connect", "requested"}
    /\ cpending[c] \in {"addr", "route", "connect", "requested"}
    /\ cpending' = [cpending EXCEPT ![c] = "failed"]
    /\ ClientEventOf(c, "FAILURE")
    /\ UNCHANGED serverVars

ClientMain(c) == CreateQueues(c) \/ Connect(c) \/ ClientConnected(c)

Cm(c) == \/ Resolved(c) \/ DeliverRequest(c)
         \/ DeliverReply(c) \/ DeliverConfirmation(c)

Next ==
    \/ Server \/ ServerCm
    \/ \E c \in Client :
           ResolveAddr(c) \/ ClientMain(c) \/ ClientCm(c) \/ Cm(c) \/ CmFails(c)

\* Threads are scheduled, and the communication manager makes progress;
\* nobody need start a client.
Fairness ==
    /\ WF_vars(Server) /\ WF_vars(ServerCm)
    /\ \A c \in Client : /\ WF_vars(ClientMain(c)) /\ WF_vars(ClientCm(c))
                         /\ WF_vars(Cm(c))

Spec == Init /\ [][Next]_vars /\ Fairness

-----------------------------------------------------------------------------
(* The inductive invariant.                                                *)

ClientAt(c, main, pending, events, thread, state) ==
    /\ cmain[c] \in main
    /\ cpending[c] \in pending
    /\ cevents[c] = events
    /\ cthread[c] = thread
    /\ cstate[c] = state

\* The ways of a client: its main thread, its CM operation, its channel, its
\* cm_thread and its state go together.
Progressing(c) ==
    \/ ClientAt(c, {"start"}, {"none"}, <<>>, "get", INIT)
    \/ ClientAt(c, {"waitRoute"}, {"addr"}, <<>>, "get", INIT)
    \/ ClientAt(c, {"waitRoute"}, {"none"}, <<"ADDR_RESOLVED">>, "get", INIT)
    \/ ClientAt(c, {"waitRoute"}, {"route"}, <<>>, "record", INIT)
    \/ ClientAt(c, {"waitRoute"}, {"route"}, <<>>, "get", ADDR_RESOLVED)
    \/ ClientAt(c, {"waitRoute"}, {"none"}, <<"ROUTE_RESOLVED">>, "record",
                INIT)
    \/ ClientAt(c, {"waitRoute"}, {"none"}, <<"ROUTE_RESOLVED">>, "get",
                ADDR_RESOLVED)
    \/ ClientAt(c, {"waitRoute", "connect"}, {"none"}, <<>>, "get",
                ROUTE_RESOLVED)
    \/ ClientAt(c, {"waitConnected"}, {"connect", "requested"}, <<>>, "get",
                ROUTE_RESOLVED)
    \/ ClientAt(c, {"waitConnected"}, {"replied", "none"}, <<"ESTABLISHED">>,
                "get", ROUTE_RESOLVED)
    \/ ClientAt(c, {"waitConnected", "connected"}, {"replied", "none"}, <<>>,
                "get", CONNECTED)

\* A failure ends them where they are.
Failed(c) ==
    \E events \in {<<"FAILURE">>, <<>>} :
        \/ ClientAt(c, {"waitRoute"}, {"failed"}, events, "record", INIT)
        \/ ClientAt(c, {"waitRoute"}, {"failed"}, events, "get", INIT)
        \/ ClientAt(c, {"waitRoute"}, {"failed"}, events, "get", ADDR_RESOLVED)
        \/ ClientAt(c, {"waitConnected"}, {"failed"}, events, "get",
                    ROUTE_RESOLVED)

\* The client has, or is about to take, the reply to its request.
Replied(c) == cevents[c] = <<"ESTABLISHED">> \/ cstate[c] = CONNECTED

RepliesAreAccepted == \A c \in Client : Replied(c) => accepted = c

\* Both sides have agreed.
Confirmed(c) == accepted = c /\ cpending[c] = "none" /\ Replied(c)

\* The server has an event for the request of c, or had one.
Asked(c) == cpending[c] \in {"requested", "failed"} \/ accepted = c

EventsAreTrue ==
    \A i \in 1..Len(sevents) :
        IF sevents[i].type = "ESTABLISHED" THEN Confirmed(sevents[i].id)
                                           ELSE Asked(sevents[i].id)

IdsAreAsked == \A c \in {sthread, child, qpOn} \ {Uninit} : Asked(c)

\* What the main thread has done when it is at a location.
ServerProgress ==
    /\ accepted # Uninit => smain \in {"waitConnected", "connected"}
    /\ smain \in {"createQp", "readQp", "accept", "waitConnected",
                  "connected", "exited"} => child # Uninit
    /\ smain \in {"readQp", "accept", "waitConnected", "connected", "exited"} =>
           qpOn # Uninit
    /\ smain \in {"waitConnected", "connected"} => accepted # Uninit
    /\ sstate = SERVER_CONNECTED \/ smain = "connected" =>
           accepted # Uninit /\ Confirmed(accepted)

SetupInv ==
    /\ TypeOK
    /\ \A c \in Client : Progressing(c) \/ Failed(c)
    /\ RepliesAreAccepted
    /\ EventsAreTrue
    /\ IdsAreAsked
    /\ ServerProgress

-----------------------------------------------------------------------------
(* Properties.                                                             *)

\* The main thread waits for a connection request and then uses its id: the
\* id is there when the wait is over.
ChildKnownAfterWait == smain = "open" => child # Uninit

\* A client believes it is connected only if the server accepted its request,
\* so at most one client does, however many connect while the server sets up.
OnlyAcceptedConnects ==
    \A c \in Client :
        cstate[c] = CONNECTED \/ cmain[c] = "connected" => accepted = c

\* When cm_thread takes ROUTE_RESOLVED it has stored ADDR_RESOLVED, although
\* it asks for the route before it stores the state: the check that prints
\* "error" in the client never fires.
RouteFollowsAddress ==
    \A c \in Client :
        /\ cthread[c] = "get"
        /\ cevents[c] # <<>> /\ Head(cevents[c]) = "ROUTE_RESOLVED"
        => cstate[c] = ADDR_RESOLVED

\* The client's state moves forward only, from INIT through ADDR_RESOLVED and
\* ROUTE_RESOLVED to CONNECTED, so a main thread that spins on a state does
\* not miss it.
ClientStateAdvances ==
    [][\A c \in Client :
          cstate'[c] # cstate[c] =>
              <<cstate[c], cstate'[c]>> \in {<<INIT, ADDR_RESOLVED>>,
                                            <<ADDR_RESOLVED, ROUTE_RESOLVED>>,
                                            <<ROUTE_RESOLVED, CONNECTED>>}]_vars

\* A server that leaves start()'s wait for the connection has accepted a
\* request, and the client of that request has its reply.
ServerConnectionIsReal ==
    sstate = SERVER_CONNECTED \/ smain = "connected" =>
        /\ accepted # Uninit
        /\ cpending[accepted] = "none"
        /\ \/ cstate[accepted] = CONNECTED
           \/ cevents[accepted] = <<"ESTABLISHED">>

\* The server accepts the id that carries its queue pair, unless a second
\* client's request replaced child_cm_id between the read of its queue pair
\* and rdma_accept: then the queue pair belongs to a client that asked first
\* and was not answered.  (Replaced before that read, the server crashes.)
QueuePairOnAccepted ==
    accepted # Uninit /\ qpOn # accepted =>
        /\ qpOn # Uninit
        /\ cpending[qpOn] \in {"requested", "failed"}

\* Another client's request was handled after the event of the connection and
\* put the server's state back: its main thread spins for ever.
StateOverwritten ==
    /\ smain = "waitConnected" /\ cpending[accepted] = "none"
    /\ sstate = REQUEST_GET /\ sevents = <<>>

\* Another request was stored after rdma_create_qp.
IdReplaced == qpOn # Uninit /\ child # qpOn

\* The ways in which the server comes to connect to nobody: it used
\* child_cm_id before cm_thread stored it (a null pointer, line 344); the id
\* was replaced between rdma_create_qp and the read of its queue pair (a null
\* pointer, line 387) or between that read and rdma_accept (which may fail);
\* the request was gone at rdma_accept; the CM gave up the accepted request.
ServerStops ==
    \/ smain = "crashed" /\ child = Uninit
    \/ smain \in {"crashed", "exited"} /\ IdReplaced
    \/ smain = "exited" /\ cpending[child] = "failed"
    \/ accepted # Uninit /\ cpending[accepted] = "failed"

\* The accepted client has left its waits, and so has the server, unless
\* another client's request overwrote its state.
ConnectionMade ==
    /\ accepted # Uninit
    /\ cmain[accepted] = "connected"
    /\ smain = "connected" \/ StateOverwritten

\* Once a client starts, and unless the CM gives up its own resolution or
\* request, some request is accepted and both sides leave their waits, or the
\* server stops for one of the reasons above: a failure of one client is no
\* reason for the others, or for the server, to stay.
ConnectionIsMade ==
    \A c \in Client :
        cmain[c] # "start" ~>
            cpending[c] = "failed" \/ ServerStops \/ ConnectionMade

=============================================================================

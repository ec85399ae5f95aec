------------------------------- MODULE Session -------------------------------
(***************************************************************************)
(* One server and several clients from the start of both programs to the   *)
(* return of their start() functions: Connection, continued by             *)
(* AddrExchange.  The cm_threads and the other clients go on during the    *)
(* exchange, which is between the server and the client that it accepted.  *)
(***************************************************************************)
EXTENDS Connection

CONSTANT WrIds    \* values an uninitialised wr_id may hold

ASSUME SessionAssumption == 0 \in WrIds /\ WrIds \subseteq Nat

VARIABLES
    \* AddrExchange; the client's main thread goes on as xmain
    spc, sendBuf, staged, sketchReady, gotHello, sendDone, firstId, scq, swc,
    xmain, cpc, recvBuf, recvPosted, info, flag, ccq, cwc,
    hello, wire, unacked, broken

Exchange == INSTANCE AddrExchange WITH cmain <- xmain

setupVars == vars
exchangeVars == <<spc, sendBuf, staged, sketchReady, gotHello, sendDone,
                  firstId, scq, swc, xmain, cpc, recvBuf, recvPosted, info,
                  flag, ccq, cwc, hello, wire, unacked, broken>>
sessionVars == <<setupVars, exchangeVars>>

SessionInit == Init /\ Exchange!Init

\* The threads of setup, the other clients and the CM know nothing of the
\* exchange.
SetupStep == Next /\ UNCHANGED exchangeVars

\* Mutant: start() does not wait for the state CONNECTED.
ServerGoesOn_NoWait ==
    /\ smain \in {"waitConnected", "connected"}
    /\ Exchange!ServerMain
    /\ UNCHANGED setupVars

\* Mutant: the second half asks for the state again.
ServerGoesOn_AsksAgain ==
    /\ smain = "connected" /\ sstate = SERVER_CONNECTED
    /\ Exchange!ServerMain
    /\ UNCHANGED setupVars

\* The second half of the server's start() follows the first.
ServerGoesOn ==
    /\ smain = "connected"
    /\ Exchange!ServerMain
    /\ UNCHANGED setupVars

\* The second half of the client's start().
ClientGoesOn ==
    /\ \E c \in Client : cmain[c] = "connected"
    /\ Exchange!ClientMain
    /\ UNCHANGED setupVars

\* The completion threads run since before the connection.
Completions ==
    /\ Exchange!ServerPoll \/ Exchange!ClientPoll \/ Exchange!ClientHandler
    /\ UNCHANGED setupVars

\* Messages pass between the queue pairs that rdma_connect and rdma_accept
\* brought together.
Linked == accepted # Uninit /\ qpOn = accepted

Transfer == Linked /\ Exchange!Link /\ UNCHANGED setupVars

LinkBreaks ==
    /\ Linked /\ Replied(accepted)
    /\ Exchange!LinkBreaks
    /\ UNCHANGED setupVars

SessionNext ==
    \/ SetupStep
    \/ ServerGoesOn \/ ClientGoesOn \/ Completions \/ Transfer \/ LinkBreaks

Alone(A) == A /\ UNCHANGED setupVars

\* The fairness of both parts.
SessionFairness ==
    /\ Fairness
    /\ WF_sessionVars(ServerGoesOn) /\ WF_sessionVars(ClientGoesOn)
    /\ WF_sessionVars(Alone(Exchange!ServerPoll))
    /\ WF_sessionVars(Alone(Exchange!ClientPoll \/ Exchange!ClientHandler))
    /\ WF_sessionVars(Linked /\ Alone(Exchange!DeliverHello))
    /\ WF_sessionVars(Linked /\ Alone(Exchange!AckHello))
    /\ WF_sessionVars(Linked /\ Alone(Exchange!Deliver))
    /\ WF_sessionVars(Linked /\ Alone(Exchange!Ack))

SessionSpec == SessionInit /\ [][SessionNext]_sessionVars /\ SessionFairness

-----------------------------------------------------------------------------
(* The inductive invariant: that of the setup, and what each message of    *)
(* the exchange proves about the setup before it.                          *)

ExchangeTypes ==
    /\ firstId \in WrIds
    /\ scq \in Seq(Exchange!Completion) /\ swc \in Exchange!Completion
    /\ ccq \in Seq(Exchange!Completion) /\ cwc \in Exchange!Completion
    /\ flag \in [Exchange!Region -> BOOLEAN]
    /\ recvPosted \in Nat
    /\ wire \in Seq(Exchange!Message) /\ unacked \in Seq(Exchange!Message)

SomeConnected == \E c \in Client : cmain[c] = "connected"

\* The hello, on its way to the server's main thread, is a connected client's.
HelloMeansClient ==
    \/ hello # "none" \/ gotHello \/ spc # "waitHello" \/ swc.op = "RECV"
    \/ \E i \in 1..Len(scq) : scq[i].op = "RECV"
    => SomeConnected

\* The server sends once it is connected and has the hello.
SendsMeanServer == wire # <<>> => smain = "connected" /\ SomeConnected

\* A tag, on its way to its flag, is the server's, through the queue pair on
\* the accepted id.
TagMeansSession ==
    \/ flag["start"] \/ cwc.tag = "start"
    \/ \E i \in 1..Len(ccq) : ccq[i].tag = "start"
    => smain = "connected" /\ Linked /\ SomeConnected

SessionInv ==
    /\ SetupInv /\ ExchangeTypes
    /\ HelloMeansClient /\ SendsMeanServer /\ TagMeansSession

-----------------------------------------------------------------------------
(* Properties.                                                             *)

\* The hello may reach the server before its cm_thread has seen that the
\* connection is established, but the server answers only then: a client that
\* has learnt an address is connected, and so is the server, with this client.
AddressesMeanConnection ==
    flag["start"] =>
        /\ smain = "connected"
        /\ accepted \in Client /\ qpOn = accepted
        /\ cmain[accepted] = "connected"

\* A connection request that comes late, or a state that it puts back, takes
\* nothing from the exchange: a server whose start() has left its first half
\* finishes the second while the link and the first wr_id let it, if the
\* accepted client has the queue pair.
LateRequestsAreHarmless ==
    smain = "connected" /\ Linked /\ firstId = 0 ~>
        broken \/ (spc = "done" /\ xmain = "started" /\ flag["sketch"])

\* Once a client starts, and unless the CM gives up its own resolution or
\* request, one client gets all three addresses and both start() functions
\* return, but for: the reasons for which the server stops during setup,
\* another client's request that overwrote the state or replaced the accepted
\* id's queue pair, a lost link, and a first wr_id that is not zero.
SessionCompletes ==
    \A c \in Client :
        cmain[c] # "start" ~>
            \/ spc = "done" /\ xmain = "started" /\ flag["sketch"]
            \/ cpending[c] = "failed" \/ ServerStops \/ StateOverwritten
            \/ accepted # Uninit /\ qpOn # accepted
            \/ broken \/ firstId # 0

=============================================================================

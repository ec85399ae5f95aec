-------------------------- MODULE ConnectionProofs --------------------------
(***************************************************************************)
(* Proofs about Connection and Session, for any set of clients: the        *)
(* invariant of the setup is inductive and its safety properties follow;   *)
(* so is that of the session, and every session is a behaviour of both its *)
(* parts.                                                                  *)
(***************************************************************************)
EXTENDS Session, TLAPS, SequenceTheorems

-----------------------------------------------------------------------------
(* Channels of one event at most.                                          *)

\* An event put into an empty channel is its head, and taking it empties the
\* channel.
LEMMA Channels ==
    /\ \A e : <<e>> # <<>> /\ Len(<<e>>) = 1
    /\ \A e : Head(<<e>>) = e /\ Tail(<<e>>) = <<>> /\ Append(<<>>, e) = <<e>>
    /\ \A e, f : <<e>> = <<f>> => e = f
<1>1. \A e : Len(<<e>>) = 1 /\ Len(<<>>) = 0
  OBVIOUS
<1>2. \A e : <<e>> # <<>>
  BY <1>1
<1>3. \A e : Head(<<e>>) = e /\ Tail(<<e>>) = <<>> /\ Append(<<>>, e) = <<e>>
  OBVIOUS
<1>4. \A e, f : <<e>> = <<f>> => e = f
  OBVIOUS
<1> QED  BY <1>1, <1>2, <1>3, <1>4

-----------------------------------------------------------------------------
(* What a step must keep of a client: its way, and the facts about it that *)
(* the server and the events in its channel rely on.                       *)

OnItsWay(d) == Progressing(d) \/ Failed(d)

Keeps(d) ==
    /\ OnItsWay(d)'
    /\ Replied(d)' => Replied(d) \/ accepted' = d
    /\ Confirmed(d) => Confirmed(d)'
    /\ Asked(d) => Asked(d)'

\* A step of someone else keeps everything.
LEMMA OthersKeep ==
    ASSUME NEW d \in Client, OnItsWay(d), accepted' = accepted,
           cmain'[d] = cmain[d], cpending'[d] = cpending[d],
           cevents'[d] = cevents[d], cthread'[d] = cthread[d],
           cstate'[d] = cstate[d]
    PROVE  Keeps(d)
<1>1. OnItsWay(d)'
  <2>1. Progressing(d) => Progressing(d)'
    BY DEF Progressing, ClientAt
  <2>2. Failed(d) => Failed(d)'
    BY DEF Failed, ClientAt
  <2> QED  BY <2>1, <2>2 DEF OnItsWay
<1>2. /\ Replied(d)' <=> Replied(d)
      /\ Confirmed(d)' <=> Confirmed(d)
      /\ Asked(d)' <=> Asked(d)
  BY DEF Replied, Confirmed, Asked
<1> QED  BY <1>1, <1>2 DEF Keeps

\* A step that leaves the operation and the reply alone keeps the rest.
LEMMA ReplyKept ==
    ASSUME NEW d \in Client, OnItsWay(d)', accepted' = accepted,
           cpending'[d] = cpending[d], Replied(d)' <=> Replied(d)
    PROVE  Keeps(d)
  BY DEF Keeps, Confirmed, Asked

\* If the server does not move and every client keeps what it had, the facts
\* about replies, events and ids, and the server's progress, stay true.
LEMMA ServerFactsKept ==
    ASSUME SetupInv, UNCHANGED serverVars, \A d \in Client : Keeps(d)
    PROVE  /\ RepliesAreAccepted' /\ EventsAreTrue'
           /\ IdsAreAsked' /\ ServerProgress'
<1>1. RepliesAreAccepted'
  BY DEF SetupInv, serverVars, RepliesAreAccepted, Keeps
<1>2. \A i \in 1..Len(sevents) : sevents[i].id \in Client
  <2>1. sevents \in Seq(ServerEvent)
    BY DEF SetupInv, TypeOK
  <2>2. \A i \in 1..Len(sevents) : sevents[i] \in ServerEvent
    BY <2>1, ElementOfSeq
  <2> QED  BY <2>2 DEF ServerEvent
<1>3. EventsAreTrue'
  BY <1>2 DEF SetupInv, serverVars, EventsAreTrue, Keeps
<1>4. \A d \in {sthread, child, qpOn} \ {Uninit} : d \in Client
  BY DEF SetupInv, TypeOK, Id
<1>5. IdsAreAsked'
  <2>1. ASSUME NEW d \in {sthread, child, qpOn} \ {Uninit}
        PROVE  Asked(d)'
    BY <1>4 DEF SetupInv, IdsAreAsked, Keeps
  <2>2. {sthread', child', qpOn'} = {sthread, child, qpOn}
    BY DEF serverVars
  <2> QED  BY <2>1, <2>2 DEF IdsAreAsked
<1>6. accepted # Uninit => accepted \in Client
  BY DEF SetupInv, TypeOK, Id
<1>7. ServerProgress'
  BY <1>6 DEF SetupInv, serverVars, ServerProgress, Keeps
<1> QED  BY <1>1, <1>3, <1>5, <1>7

-----------------------------------------------------------------------------
(* The clients and the operations of the CM that concern only them.        *)

\* What a move of one client amounts to.
Moved(c) == TypeOK' /\ UNCHANGED serverVars /\ \A d \in Client : Keeps(d)

\* Every move of a client's main thread follows its way.
LEMMA MainMoves ==
    ASSUME SetupInv, NEW c \in Client, ResolveAddr(c) \/ ClientMain(c)
    PROVE  Moved(c)
<1> USE DEF INIT, ROUTE_RESOLVED, ADDR_RESOLVED, CONNECTED
<1>1. TypeOK /\ \A d \in Client : OnItsWay(d)
  BY DEF SetupInv, OnItsWay
<1>2. TypeOK' /\ UNCHANGED serverVars
  BY <1>1 DEF TypeOK, ResolveAddr, ClientMain, CreateQueues, Connect,
              ClientConnected, serverVars
<1>3. ASSUME NEW d \in Client, d # c  PROVE Keeps(d)
  BY <1>1, <1>2, <1>3, OthersKeep
     DEF ResolveAddr, ClientMain, CreateQueues, Connect, ClientConnected,
         TypeOK, serverVars
<1>4. cthread'[c] = cthread[c] /\ cevents'[c] = cevents[c]
      /\ cstate'[c] = cstate[c] /\ accepted' = accepted
  BY <1>1, <1>2 DEF ResolveAddr, ClientMain, CreateQueues, Connect,
                    ClientConnected, serverVars
<1>5. \/ cmain[c] = "start" /\ cmain'[c] = "waitRoute"
         /\ cpending'[c] = "addr"
      \/ cmain[c] = "waitRoute" /\ cstate[c] = ROUTE_RESOLVED
         /\ cmain'[c] = "connect" /\ cpending'[c] = cpending[c]
      \/ cmain[c] = "connect" /\ cmain'[c] = "waitConnected"
         /\ cpending'[c] = "connect"
      \/ cmain[c] = "waitConnected" /\ cstate[c] = CONNECTED
         /\ cmain'[c] = "connected" /\ cpending'[c] = cpending[c]
  BY <1>1 DEF ResolveAddr, ClientMain, CreateQueues, Connect, ClientConnected,
              TypeOK
<1>6. OnItsWay(c)
  BY <1>1
<1>7. OnItsWay(c)'
  <2>1. CASE Progressing(c)
    BY <1>4, <1>5, <2>1 DEF OnItsWay, Progressing, ClientAt
  <2>2. CASE Failed(c)
    <3>1. cmain[c] \in {"waitRoute", "waitConnected"}
          /\ cstate[c] \in {INIT, ADDR_RESOLVED, ROUTE_RESOLVED}
          /\ (cmain[c] = "waitRoute" => cstate[c] # ROUTE_RESOLVED)
      BY <2>2 DEF Failed, ClientAt
    <3> QED  BY <1>5, <3>1
  <2> QED  BY <1>6, <2>1, <2>2 DEF OnItsWay
<1>8. cpending'[c] # cpending[c] => cpending[c] = "none" /\ ~Replied(c)
  <2>1. cpending'[c] # cpending[c] => cmain[c] \in {"start", "connect"}
    BY <1>5
  <2>2. cmain[c] \in {"start", "connect"} =>
            cpending[c] = "none" /\ cevents[c] = <<>> /\ cstate[c] # CONNECTED
    BY <1>6 DEF OnItsWay, Progressing, Failed, ClientAt
  <2> QED  BY <2>1, <2>2, Channels DEF Replied
<1>9. Keeps(c)
  BY <1>4, <1>7, <1>8 DEF Keeps, Replied, Confirmed, Asked
<1> QED  BY <1>2, <1>3, <1>9 DEF Moved

\* cm_thread takes the one event there is, or stores the state it owes.
LEMMA CmThreadMoves ==
    ASSUME SetupInv, NEW c \in Client, ClientCm(c)
    PROVE  Moved(c)
<1> USE DEF INIT, ROUTE_RESOLVED, ADDR_RESOLVED, CONNECTED
<1>1. TypeOK /\ \A d \in Client : OnItsWay(d)
  BY DEF SetupInv, OnItsWay
<1>2. UNCHANGED serverVars /\ accepted' = accepted /\ cmain' = cmain
  BY DEF ClientCm, TakeAddrResolved, RecordAddr, TakeEvent, serverVars
<1>3. ASSUME NEW d \in Client, d # c  PROVE Keeps(d)
  BY <1>1, <1>2, <1>3, OthersKeep
     DEF ClientCm, TakeAddrResolved, RecordAddr, TakeEvent, TypeOK
<1>4. OnItsWay(c) /\ cevents[c] \in Seq(ClientEvent)
  BY <1>1 DEF TypeOK
<1>5. CASE TakeAddrResolved(c)
  <2>1. ClientAt(c, {"waitRoute"}, {"none"}, <<"ADDR_RESOLVED">>, "get", INIT)
    BY <1>4, <1>5, Channels
       DEF TakeAddrResolved, OnItsWay, Progressing, Failed, ClientAt
  <2>2. /\ cevents'[c] = <<>> /\ cpending'[c] = "route"
        /\ cthread'[c] = "record" /\ cstate'[c] = cstate[c]
    BY <1>1, <1>5, <2>1, Channels DEF TakeAddrResolved, TypeOK, ClientAt
  <2>3. OnItsWay(c)'
    BY <1>2, <2>1, <2>2 DEF OnItsWay, Progressing, ClientAt
  <2>4. Keeps(c)
    BY <1>2, <2>1, <2>2, <2>3, Channels
       DEF Keeps, ClientAt, Replied, Confirmed, Asked
  <2>5. TypeOK'
    BY <1>1, <1>2, <1>4, <1>5 DEF TakeAddrResolved, TypeOK, serverVars
  <2> QED  BY <1>2, <1>3, <2>4, <2>5 DEF Moved
<1>6. CASE RecordAddr(c)
  <2>1. /\ cthread[c] = "record" /\ cthread'[c] = "get"
        /\ cstate'[c] = ADDR_RESOLVED
        /\ cevents'[c] = cevents[c] /\ cpending'[c] = cpending[c]
    BY <1>1, <1>6 DEF RecordAddr, TypeOK
  <2>2. OnItsWay(c)' /\ cstate[c] # CONNECTED
    BY <1>2, <1>4, <2>1 DEF OnItsWay, Progressing, Failed, ClientAt
  <2>3. Keeps(c)
    BY <1>2, <2>1, <2>2 DEF Keeps, Replied, Confirmed, Asked
  <2>4. TypeOK'
    BY <1>1, <1>2, <1>6 DEF RecordAddr, TypeOK, serverVars
  <2> QED  BY <1>2, <1>3, <2>3, <2>4 DEF Moved
<1>7. CASE TakeEvent(c)
  <2>1. /\ cthread[c] = "get" /\ cthread'[c] = "get"
        /\ cpending'[c] = cpending[c]
    BY <1>1, <1>7 DEF TakeEvent, TypeOK
  <2>2. \/ /\ cevents[c] = <<"ROUTE_RESOLVED">> /\ cstate[c] = ADDR_RESOLVED
           /\ ClientAt(c, {"waitRoute"}, {"none"}, <<"ROUTE_RESOLVED">>,
                       "get", ADDR_RESOLVED)
        \/ /\ cevents[c] = <<"ESTABLISHED">>
           /\ ClientAt(c, {"waitConnected"}, {"replied", "none"},
                       <<"ESTABLISHED">>, "get", ROUTE_RESOLVED)
        \/ cevents[c] = <<"FAILURE">> /\ Failed(c) /\ cstate[c] # CONNECTED
    BY <1>4, <1>7, <2>1, Channels
       DEF TakeEvent, OnItsWay, Progressing, Failed, ClientAt
  <2>3. cevents'[c] = <<>>
    BY <1>1, <1>7, <2>2, Channels DEF TakeEvent, TypeOK
  <2>4. cstate'[c] = CASE Head(cevents[c]) = "ROUTE_RESOLVED" -> ROUTE_RESOLVED
                       [] Head(cevents[c]) = "ESTABLISHED"    -> CONNECTED
                       [] OTHER                               -> cstate[c]
    BY <1>1, <1>7 DEF TakeEvent, TypeOK
  <2>5. ASSUME cevents[c] = <<"ROUTE_RESOLVED">>
        PROVE  Keeps(c)
    <3>1. cstate'[c] = ROUTE_RESOLVED
      BY <2>4, <2>5, Channels
    <3>2. ClientAt(c, {"waitRoute"}, {"none"}, <<"ROUTE_RESOLVED">>, "get",
                   ADDR_RESOLVED)
      BY <2>2, <2>5, Channels
    <3>3. OnItsWay(c)'
      BY <1>2, <2>1, <2>3, <3>1, <3>2 DEF OnItsWay, Progressing, ClientAt
    <3>4. ~Replied(c)
      BY <2>5, <3>2, Channels DEF ClientAt, Replied
    <3>5. ~Replied(c)'
      BY <2>3, <3>1, Channels DEF Replied
    <3> QED  BY <1>2, <2>1, <3>3, <3>4, <3>5, ReplyKept
  <2>6. ASSUME cevents[c] = <<"ESTABLISHED">>
        PROVE  Keeps(c)
    <3>1. cstate'[c] = CONNECTED
      BY <2>4, <2>6, Channels
    <3>2. ClientAt(c, {"waitConnected"}, {"replied", "none"},
                   <<"ESTABLISHED">>, "get", ROUTE_RESOLVED)
      BY <2>2, <2>6, Channels
    <3>3. OnItsWay(c)'
      BY <1>2, <2>1, <2>3, <3>1, <3>2 DEF OnItsWay, Progressing, ClientAt
    <3>4. Replied(c) /\ Replied(c)'
      BY <2>6, <3>1 DEF Replied
    <3> QED  BY <1>2, <2>1, <3>3, <3>4, ReplyKept
  <2>7. ASSUME cevents[c] = <<"FAILURE">>
        PROVE  Keeps(c)
    <3>1. cstate'[c] = cstate[c]
      BY <2>4, <2>7, Channels
    <3>2. Failed(c) /\ cstate[c] # CONNECTED
      BY <2>2, <2>7, Channels
    <3>3. OnItsWay(c)'
      BY <1>2, <2>1, <2>3, <3>1, <3>2 DEF OnItsWay, Failed, ClientAt
    <3>4. ~Replied(c) /\ ~Replied(c)'
      BY <2>3, <2>7, <3>1, <3>2, Channels DEF Replied
    <3> QED  BY <1>2, <2>1, <3>3, <3>4, ReplyKept
  <2>8. TypeOK'
    BY <1>1, <1>2, <1>4, <1>7 DEF TakeEvent, TypeOK, serverVars
  <2> QED  BY <1>2, <1>3, <2>2, <2>5, <2>6, <2>7, <2>8 DEF Moved
<1> QED  BY <1>5, <1>6, <1>7 DEF ClientCm

\* The CM resolves an address or a route, or fails: one event enters an empty
\* channel.
LEMMA CmMoves ==
    ASSUME SetupInv, NEW c \in Client, Resolved(c) \/ CmFails(c)
    PROVE  Moved(c)
<1> USE DEF INIT, ROUTE_RESOLVED, ADDR_RESOLVED, CONNECTED
<1>1. TypeOK /\ \A d \in Client : OnItsWay(d)
  BY DEF SetupInv, OnItsWay
<1>2. /\ UNCHANGED serverVars /\ accepted' = accepted
      /\ cmain' = cmain /\ cthread' = cthread /\ cstate' = cstate
  BY DEF Resolved, CmFails, ClientEventOf, serverVars
<1>3. ASSUME NEW d \in Client, d # c  PROVE Keeps(d)
  BY <1>1, <1>2, <1>3, OthersKeep
     DEF Resolved, CmFails, ClientEventOf, TypeOK
<1>4. OnItsWay(c) /\ cevents[c] \in Seq(ClientEvent)
  BY <1>1 DEF TypeOK
<1>5. cpending[c] \in {"addr", "route", "connect", "requested"}
  BY DEF Resolved, CmFails
<1>6. cevents[c] = <<>> /\ cstate[c] # CONNECTED
  BY <1>4, <1>5 DEF OnItsWay, Progressing, Failed, ClientAt
<1>7. \/ /\ cpending[c] = "addr" /\ cpending'[c] = "none"
         /\ cevents'[c] = Append(cevents[c], "ADDR_RESOLVED")
      \/ /\ cpending[c] = "route" /\ cpending'[c] = "none"
         /\ cevents'[c] = Append(cevents[c], "ROUTE_RESOLVED")
      \/ /\ cpending'[c] = "failed"
         /\ cevents'[c] = Append(cevents[c], "FAILURE")
  BY <1>1 DEF Resolved, CmFails, ClientEventOf, TypeOK
<1>8. ~Replied(c) /\ ~Replied(c)'
  BY <1>2, <1>6, <1>7, Channels DEF Replied
<1>9. OnItsWay(c)'
  <2>1. CASE cpending[c] = "addr" /\ cpending'[c] = "none"
             /\ cevents'[c] = <<"ADDR_RESOLVED">>
    BY <1>2, <1>4, <2>1 DEF OnItsWay, Progressing, Failed, ClientAt
  <2>2. CASE cpending[c] = "route" /\ cpending'[c] = "none"
             /\ cevents'[c] = <<"ROUTE_RESOLVED">>
    BY <1>2, <1>4, <2>2 DEF OnItsWay, Progressing, Failed, ClientAt
  <2>3. CASE cpending'[c] = "failed" /\ cevents'[c] = <<"FAILURE">>
    BY <1>2, <1>4, <1>5, <2>3 DEF OnItsWay, Progressing, Failed, ClientAt
  <2> QED  BY <1>6, <1>7, <2>1, <2>2, <2>3, Channels
<1>10. Keeps(c)
  BY <1>2, <1>5, <1>7, <1>8, <1>9 DEF Keeps, Confirmed, Asked
<1>11. TypeOK'
  <2>1. PICK e \in ClientEvent :
            cevents' = [cevents EXCEPT ![c] = Append(@, e)]
    BY DEF Resolved, CmFails, ClientEventOf, ClientEvent
  <2>2. Append(cevents[c], e) \in Seq(ClientEvent)
    BY <1>4
  <2>3. cevents' \in [Client -> Seq(ClientEvent)]
    BY <1>1, <2>1, <2>2 DEF TypeOK
  <2> QED
    BY <1>1, <1>2, <2>3 DEF Resolved, CmFails, TypeOK, serverVars
<1> QED  BY <1>2, <1>3, <1>10, <1>11 DEF Moved

\* The reply of an accepted request enters the client's empty channel.
LEMMA ReplyMoves ==
    ASSUME SetupInv, NEW c \in Client, DeliverReply(c)
    PROVE  Moved(c)
<1> USE DEF INIT, ROUTE_RESOLVED, ADDR_RESOLVED, CONNECTED
<1>1. TypeOK /\ \A d \in Client : OnItsWay(d)
  BY DEF SetupInv, OnItsWay
<1>2. /\ UNCHANGED serverVars /\ accepted' = accepted /\ accepted = c
      /\ cmain' = cmain /\ cthread' = cthread /\ cstate' = cstate
  BY DEF DeliverReply, ClientEventOf, serverVars
<1>3. ASSUME NEW d \in Client, d # c  PROVE Keeps(d)
  BY <1>1, <1>2, <1>3, OthersKeep DEF DeliverReply, ClientEventOf, TypeOK
<1>4. /\ cpending[c] = "requested" /\ cpending'[c] = "replied"
      /\ cevents' = [cevents EXCEPT ![c] = Append(@, "ESTABLISHED")]
      /\ cevents'[c] = Append(cevents[c], "ESTABLISHED")
  BY <1>1 DEF DeliverReply, ClientEventOf, TypeOK
<1>5. ClientAt(c, {"waitConnected"}, {"connect", "requested"}, <<>>, "get",
               ROUTE_RESOLVED)
  BY <1>1, <1>4 DEF OnItsWay, Progressing, Failed, ClientAt
<1>6. cevents'[c] = <<"ESTABLISHED">>
  BY <1>4, <1>5, Channels DEF ClientAt
<1>7. OnItsWay(c)'
  BY <1>2, <1>4, <1>5, <1>6 DEF OnItsWay, Progressing, ClientAt
<1>8. Keeps(c)
  BY <1>2, <1>4, <1>7 DEF Keeps, Confirmed, Asked
<1>9. TypeOK'
  <2>1. Append(cevents[c], "ESTABLISHED") \in Seq(ClientEvent)
    BY <1>1 DEF TypeOK, ClientEvent
  <2>2. cevents' \in [Client -> Seq(ClientEvent)]
    BY <1>1, <1>4, <2>1 DEF TypeOK
  <2> QED  BY <1>1, <1>2, <2>2 DEF DeliverReply, TypeOK, serverVars
<1> QED  BY <1>2, <1>3, <1>8, <1>9 DEF Moved

\* So a client that moves by itself preserves the invariant.
LEMMA ClientSteps ==
    ASSUME SetupInv, NEW c \in Client,
           \/ ResolveAddr(c) \/ ClientMain(c) \/ ClientCm(c)
           \/ Resolved(c) \/ CmFails(c) \/ DeliverReply(c)
    PROVE  SetupInv'
<1>1. Moved(c)
  BY MainMoves, CmThreadMoves, CmMoves, ReplyMoves
<1> QED
  BY <1>1, ServerFactsKept DEF Moved, SetupInv, Keeps, OnItsWay

-----------------------------------------------------------------------------
(* The server and what reaches its channel.                                *)

\* The events in the server's channel are about clients.
LEMMA EventsTyped ==
    ASSUME SetupInv
    PROVE  /\ sevents \in Seq(ServerEvent)
           /\ \A i \in 1..Len(sevents) : sevents[i] \in ServerEvent
<1>1. sevents \in Seq(ServerEvent)
  BY DEF SetupInv, TypeOK
<1> QED  BY <1>1, ElementOfSeq

\* Taking the oldest event leaves true events.
LEMMA EventTaken ==
    ASSUME SetupInv, \A d \in Client : Keeps(d),
           sevents # <<>>, sevents' = Tail(sevents)
    PROVE  /\ sevents' \in Seq(ServerEvent) /\ EventsAreTrue'
           /\ Head(sevents) \in ServerEvent
           /\ IF Head(sevents).type = "ESTABLISHED"
              THEN Confirmed(Head(sevents).id) ELSE Asked(Head(sevents).id)
<1>1. /\ sevents' \in Seq(ServerEvent)
      /\ Head(sevents) = sevents[1] /\ 1 \in 1..Len(sevents)
      /\ \A i \in 1..Len(sevents') :
             i + 1 \in 1..Len(sevents) /\ sevents'[i] = sevents[i + 1]
  BY EventsTyped
<1>2. ASSUME NEW i \in 1..Len(sevents')
      PROVE  IF sevents'[i].type = "ESTABLISHED"
             THEN Confirmed(sevents[i].id)' ELSE Asked(sevents[i].id)'
  <2>1. PICK j \in 1..Len(sevents) : sevents'[i] = sevents[j]
    BY <1>1
  <2>2. sevents[j].id \in Client
    BY EventsTyped DEF ServerEvent
  <2> QED  BY <2>1, <2>2 DEF SetupInv, EventsAreTrue, Keeps
<1>3. EventsAreTrue'
  BY <1>2 DEF EventsAreTrue
<1> QED  BY <1>1, <1>3, EventsTyped DEF SetupInv, EventsAreTrue

\* A true event may enter the channel.
LEMMA EventAdded ==
    ASSUME SetupInv, \A d \in Client : Keeps(d), NEW e \in ServerEvent,
           sevents' = Append(sevents, e),
           IF e.type = "ESTABLISHED" THEN Confirmed(e.id) \/ Confirmed(e.id)'
                                     ELSE Asked(e.id)'
    PROVE  sevents' \in Seq(ServerEvent) /\ EventsAreTrue'
<1>1. /\ sevents' \in Seq(ServerEvent)
      /\ \A i \in 1..Len(sevents') :
             \/ i \in 1..Len(sevents) /\ sevents'[i] = sevents[i]
             \/ sevents'[i] = e
  BY EventsTyped
<1>2. ASSUME NEW i \in 1..Len(sevents')
      PROVE  IF sevents'[i].type = "ESTABLISHED"
             THEN Confirmed(sevents[i].id)' ELSE Asked(sevents[i].id)'
  <2>1. CASE sevents'[i] = e
    BY <2>1 DEF ServerEvent, Keeps
  <2>2. CASE i \in 1..Len(sevents) /\ sevents'[i] = sevents[i]
    <3>1. sevents[i].id \in Client
      BY <2>2, EventsTyped DEF ServerEvent
    <3> QED  BY <2>2, <3>1 DEF SetupInv, EventsAreTrue, Keeps
  <2> QED  BY <1>1, <2>1, <2>2
<1> QED  BY <1>1, <1>2 DEF EventsAreTrue

\* A request, or the confirmation of an accepted one, reaches the server.
LEMMA DeliverySteps ==
    ASSUME SetupInv, NEW c \in Client,
           DeliverRequest(c) \/ DeliverConfirmation(c)
    PROVE  SetupInv'
<1> USE DEF INIT, ROUTE_RESOLVED, ADDR_RESOLVED, CONNECTED
<1>1. TypeOK /\ (\A d \in Client : OnItsWay(d)) /\ RepliesAreAccepted
  BY DEF SetupInv, OnItsWay
<1>2. /\ UNCHANGED <<sstate, smain, sthread, child, qpOn, accepted>>
      /\ UNCHANGED <<cstate, cmain, cthread, cevents>>
  BY DEF DeliverRequest, DeliverConfirmation, ServerEventOf
<1>3. ASSUME NEW d \in Client, d # c  PROVE Keeps(d)
  BY <1>1, <1>2, <1>3, OthersKeep
     DEF DeliverRequest, DeliverConfirmation, TypeOK
<1>4. \/ cpending[c] = "connect" /\ cpending'[c] = "requested"
      \/ cpending[c] = "replied" /\ cpending'[c] = "none"
  BY <1>1 DEF DeliverRequest, DeliverConfirmation, TypeOK
<1>5. OnItsWay(c)'
  BY <1>1, <1>2, <1>4 DEF OnItsWay, Progressing, Failed, ClientAt
<1>6. cpending[c] = "replied" => Replied(c)
  BY <1>1 DEF OnItsWay, Progressing, Failed, ClientAt, Replied
<1>7. Replied(c)' <=> Replied(c)
  BY <1>2 DEF Replied
<1>8. Keeps(c)
  BY <1>2, <1>4, <1>5, <1>7 DEF Keeps, Confirmed, Asked
<1>9. \A d \in Client : Keeps(d)
  BY <1>3, <1>8
<1>10. sevents' \in Seq(ServerEvent) /\ EventsAreTrue'
  <2>1. CASE DeliverRequest(c)
    <3> DEFINE e == [type |-> "CONNECT_REQUEST", id |-> c]
    <3>1. e \in ServerEvent /\ sevents' = Append(sevents, e)
      BY <2>1 DEF DeliverRequest, ServerEventOf, ServerEvent
    <3>2. cpending'[c] = "requested"
      BY <1>1, <2>1 DEF DeliverRequest, TypeOK
    <3>3. Asked(c)'
      BY <3>2 DEF Asked
    <3> QED  BY <1>9, <3>1, <3>3, EventAdded
  <2>2. CASE DeliverConfirmation(c)
    <3> DEFINE e == [type |-> "ESTABLISHED", id |-> c]
    <3>1. e \in ServerEvent /\ sevents' = Append(sevents, e)
      BY <2>2 DEF DeliverConfirmation, ServerEventOf, ServerEvent
    <3>2. cpending[c] = "replied" /\ cpending'[c] = "none"
      BY <1>1, <2>2 DEF DeliverConfirmation, TypeOK
    <3>3. Confirmed(c)'
      BY <1>1, <1>2, <1>6, <1>7, <3>2 DEF RepliesAreAccepted, Confirmed
    <3> QED  BY <1>9, <3>1, <3>3, EventAdded
  <2> QED  BY <2>1, <2>2
<1>11. TypeOK'
  BY <1>1, <1>2, <1>10 DEF DeliverRequest, DeliverConfirmation, TypeOK
<1>12. RepliesAreAccepted'
  BY <1>1, <1>2, <1>9 DEF RepliesAreAccepted, Keeps
<1>13. IdsAreAsked'
  <2>1. \A d \in {sthread, child, qpOn} \ {Uninit} : d \in Client /\ Asked(d)
    BY <1>1 DEF SetupInv, TypeOK, Id, IdsAreAsked
  <2>2. \A d \in {sthread, child, qpOn} \ {Uninit} : Asked(d)'
    BY <1>9, <2>1 DEF Keeps
  <2>3. {sthread', child', qpOn'} = {sthread, child, qpOn}
    BY <1>2
  <2> QED  BY <2>2, <2>3 DEF IdsAreAsked
<1>14. ServerProgress'
  <2>1. accepted # Uninit => accepted \in Client
    BY <1>1 DEF TypeOK, Id
  <2> QED  BY <1>2, <1>9, <2>1 DEF SetupInv, ServerProgress, Keeps
<1> QED
  BY <1>9, <1>10, <1>11, <1>12, <1>13, <1>14 DEF SetupInv, Keeps, OnItsWay

\* A step of the server leaves every client where it is, and does not take
\* an acceptance back.
LEMMA ServerKeeps ==
    ASSUME SetupInv, UNCHANGED clientVars, accepted \in {Uninit, accepted'}
    PROVE  /\ \A d \in Client : Keeps(d)
           /\ RepliesAreAccepted'
<1>1. \A d \in Client : OnItsWay(d)
  BY DEF SetupInv, OnItsWay
<1>2. ASSUME NEW d \in Client PROVE Keeps(d)
  <2>1. CASE accepted' = accepted
    BY <1>1, <2>1, OthersKeep DEF clientVars
  <2>2. CASE accepted = Uninit
    <3>1. OnItsWay(d)'
      BY <1>1 DEF clientVars, OnItsWay, Progressing, Failed, ClientAt
    <3>2. accepted # d /\ cpending' = cpending
      BY <2>2, ClientAssumption DEF clientVars
    <3>3. Replied(d)' <=> Replied(d)
      BY DEF clientVars, Replied
    <3> QED  BY <3>1, <3>2, <3>3 DEF Keeps, Confirmed, Asked
  <2> QED  BY <2>1, <2>2
<1>3. \A d \in Client : Replied(d) => accepted = d /\ accepted' = d
  BY ClientAssumption DEF SetupInv, RepliesAreAccepted
<1>4. RepliesAreAccepted'
  BY <1>2, <1>3 DEF RepliesAreAccepted, Keeps
<1> QED  BY <1>2, <1>4

\* The ids that the server holds stay asked for if a new one is.
LEMMA IdsKept ==
    ASSUME SetupInv, \A d \in Client : Keeps(d),
           \A d \in {sthread', child', qpOn'} \ {Uninit} :
               d \in {sthread, child, qpOn} \/ (d \in Client /\ Asked(d))
    PROVE  IdsAreAsked'
<1>1. \A d \in {sthread, child, qpOn} \ {Uninit} : d \in Client /\ Asked(d)
  BY DEF SetupInv, TypeOK, Id, IdsAreAsked
<1>2. \A d \in {sthread', child', qpOn'} \ {Uninit} : Asked(d)'
  BY <1>1 DEF Keeps
<1> QED  BY <1>2 DEF IdsAreAsked

\* The server's main thread and its cm_thread preserve the invariant.
LEMMA ServerSteps ==
    ASSUME SetupInv, Server \/ ServerCm
    PROVE  SetupInv'
<1> USE DEF CONNECTED, SERVER_CONNECTED, REQUEST_GET, SERVER_INIT
<1>1. /\ TypeOK /\ EventsAreTrue /\ IdsAreAsked /\ ServerProgress
      /\ \A d \in {sthread, child, qpOn} \ {Uninit} : d \in Client
  BY DEF SetupInv, TypeOK, Id
<1>2. UNCHANGED clientVars
  BY DEF Server, Listen, SeeRequest, OpenDevice, CreateQp, ReadQp, Accept,
         ServerConnected, ServerCm, TakeRequest, StoreChild, TakeEstablished
<1>3. accepted \in {Uninit, accepted'}
  BY <1>1 DEF Server, Listen, SeeRequest, OpenDevice, CreateQp, ReadQp,
              Accept, ServerConnected, ServerCm, TakeRequest, StoreChild,
              TakeEstablished,
         ServerProgress
<1>4. (\A d \in Client : Keeps(d)) /\ RepliesAreAccepted'
  BY <1>2, <1>3, ServerKeeps
<1>5. \A c \in Client : Progressing(c)' \/ Failed(c)'
  BY <1>4 DEF Keeps, OnItsWay
<1>6. SUFFICES TypeOK' /\ EventsAreTrue' /\ IdsAreAsked' /\ ServerProgress'
  BY <1>4, <1>5 DEF SetupInv
<1>7. accepted # Uninit => accepted \in Client
  BY <1>1 DEF TypeOK, Id
<1>8. ASSUME Server  PROVE sevents' = sevents /\ EventsAreTrue'
  <2>1. sevents' = sevents
    BY <1>8 DEF Server, Listen, SeeRequest, OpenDevice, CreateQp, ReadQp,
                Accept, ServerConnected
  <2> QED  BY <1>1, <1>4, <2>1, EventsTyped DEF EventsAreTrue, Keeps, ServerEvent
<1>9. ASSUME accepted' = accepted, accepted # Uninit, Confirmed(accepted)
      PROVE  Confirmed(accepted)'
  BY <1>4, <1>7, <1>9 DEF Keeps
<1>10. CASE Listen \/ SeeRequest \/ OpenDevice \/ ServerConnected
  <2>1. TypeOK'
    BY <1>1, <1>2, <1>10
       DEF Listen, SeeRequest, OpenDevice, ServerConnected, TypeOK, clientVars
  <2>2. UNCHANGED <<sstate, sthread, child, qpOn, accepted, sevents>>
    BY <1>10 DEF Listen, SeeRequest, OpenDevice, ServerConnected
  <2>3. IdsAreAsked'
    BY <1>4, <2>2, IdsKept
  <2>4. ServerProgress'
    BY <1>1, <1>9, <1>10, <2>2
       DEF Listen, SeeRequest, OpenDevice, ServerConnected, ServerProgress
  <2> QED  BY <1>8, <1>10, <2>1, <2>3, <2>4 DEF Server
<1>11. CASE CreateQp \/ ReadQp
  <2>1. TypeOK'
    BY <1>1, <1>2, <1>11 DEF CreateQp, ReadQp, TypeOK, clientVars
  <2>2. IdsAreAsked'
    BY <1>4, <1>11, IdsKept DEF CreateQp, ReadQp
  <2>3. ServerProgress'
    BY <1>1, <1>9, <1>11 DEF CreateQp, ReadQp, ServerProgress
  <2> QED  BY <1>8, <1>11, <2>1, <2>2, <2>3 DEF Server
<1>12. CASE Accept
  <2>1. TypeOK'
    BY <1>1, <1>2, <1>12 DEF Accept, TypeOK, clientVars
  <2>2. IdsAreAsked'
    BY <1>4, <1>12, IdsKept DEF Accept
  <2>3. accepted = Uninit /\ child # Uninit /\ qpOn # Uninit
        /\ sstate # SERVER_CONNECTED
    BY <1>1, <1>12 DEF Accept, ServerProgress
  <2>4. ServerProgress'
    BY <2>3, <1>12 DEF Accept, ServerProgress
  <2> QED  BY <1>8, <1>12, <2>1, <2>2, <2>4 DEF Server
<1>13. CASE TakeRequest
  <2>1. /\ sevents # <<>> /\ sevents' = Tail(sevents)
        /\ Head(sevents).type = "CONNECT_REQUEST"
    BY <1>13 DEF TakeRequest
  <2>2. /\ sevents' \in Seq(ServerEvent) /\ EventsAreTrue'
        /\ Head(sevents).id \in Client /\ Asked(Head(sevents).id)
    BY <1>4, <2>1, EventTaken DEF ServerEvent
  <2>3. TypeOK'
    BY <1>1, <1>2, <1>13, <2>2 DEF TakeRequest, TypeOK, clientVars, Id
  <2>4. IdsAreAsked'
    BY <1>4, <1>13, <2>2, IdsKept DEF TakeRequest
  <2>5. ServerProgress'
    BY <1>1, <1>9, <1>13 DEF TakeRequest, ServerProgress
  <2> QED  BY <2>2, <2>3, <2>4, <2>5
<1>14. CASE StoreChild
  <2>1. TypeOK' /\ sevents' = sevents
    BY <1>1, <1>2, <1>14 DEF StoreChild, TypeOK, clientVars, Id
  <2>2. EventsAreTrue'
    BY <1>1, <1>4, <2>1, EventsTyped DEF EventsAreTrue, Keeps, ServerEvent
  <2>3. IdsAreAsked'
    BY <1>4, <1>14, IdsKept DEF StoreChild
  <2>4. ServerProgress'
    BY <1>1, <1>9, <1>14 DEF StoreChild, ServerProgress
  <2> QED  BY <2>1, <2>2, <2>3, <2>4
<1>15. CASE TakeEstablished
  <2>1. /\ sevents # <<>> /\ sevents' = Tail(sevents)
        /\ Head(sevents).type = "ESTABLISHED"
    BY <1>15 DEF TakeEstablished
  <2>2. /\ sevents' \in Seq(ServerEvent) /\ EventsAreTrue'
        /\ Head(sevents).id \in Client /\ Confirmed(Head(sevents).id)
    BY <1>4, <2>1, EventTaken DEF ServerEvent
  <2>3. TypeOK'
    BY <1>1, <1>2, <1>15, <2>2 DEF TakeEstablished, TypeOK, clientVars
  <2>4. IdsAreAsked'
    BY <1>4, <1>15, IdsKept DEF TakeEstablished
  <2>5. accepted # Uninit /\ Confirmed(accepted)
    BY <2>2, ClientAssumption DEF Confirmed
  <2>6. ServerProgress'
    BY <1>1, <1>9, <1>15, <2>5 DEF TakeEstablished, ServerProgress
  <2> QED  BY <2>2, <2>3, <2>4, <2>6
<1> QED
  BY <1>10, <1>11, <1>12, <1>13, <1>14, <1>15 DEF Server, ServerCm

-----------------------------------------------------------------------------
(* The invariant and what it is for.                                       *)

\* Before start() nothing has happened.
LEMMA InitSetupInv == Init => SetupInv
<1> SUFFICES ASSUME Init PROVE SetupInv
  OBVIOUS
<1> USE DEF Init, INIT, ROUTE_RESOLVED, ADDR_RESOLVED, CONNECTED, SERVER_INIT,
            REQUEST_GET, SERVER_CONNECTED
<1>1. TypeOK
  BY DEF TypeOK, Id
<1>2. \A c \in Client : Progressing(c)
  BY DEF Progressing, ClientAt
<1>3. RepliesAreAccepted
  BY Channels DEF RepliesAreAccepted, Replied
<1>4. EventsAreTrue /\ IdsAreAsked
  BY DEF EventsAreTrue, IdsAreAsked
<1>5. ServerProgress
  BY DEF ServerProgress
<1> QED  BY <1>1, <1>2, <1>3, <1>4, <1>5 DEF SetupInv

\* Every step of the two programs and of the CM preserves the invariant.
LEMMA NextSetupInv == SetupInv /\ [Next]_vars => SetupInv'
<1> SUFFICES ASSUME SetupInv, [Next]_vars PROVE SetupInv'
  OBVIOUS
<1>1. CASE UNCHANGED vars
  <2>1. UNCHANGED clientVars /\ UNCHANGED serverVars
    BY <1>1 DEF vars
  <2>2. \A d \in Client : Keeps(d)
    BY <2>1, ServerKeeps DEF serverVars
  <2>3. TypeOK'
    BY <2>1 DEF SetupInv, TypeOK, clientVars, serverVars
  <2> QED
    BY <2>1, <2>2, <2>3, ServerFactsKept DEF SetupInv, Keeps, OnItsWay
<1>2. CASE Server \/ ServerCm
  BY <1>2, ServerSteps
<1>3. ASSUME NEW c \in Client,
             ResolveAddr(c) \/ ClientMain(c) \/ ClientCm(c) \/ CmFails(c)
      PROVE  SetupInv'
  BY <1>3, ClientSteps
<1>4. ASSUME NEW c \in Client, Cm(c)  PROVE SetupInv'
  BY <1>4, ClientSteps, DeliverySteps DEF Cm
<1> QED  BY <1>1, <1>2, <1>3, <1>4 DEF Next

\* The invariant holds in every reachable state, whatever the clients.
THEOREM SetupInvariance == Spec => []SetupInv
  BY InitSetupInv, NextSetupInv, PTL DEF Spec

\* A client whose main thread has left start()'s wait is in state CONNECTED.
LEMMA MainAfterState ==
    ASSUME SetupInv, NEW c \in Client, cmain[c] = "connected"
    PROVE  cstate[c] = CONNECTED
  BY DEF SetupInv, Progressing, Failed, ClientAt

\* Every member, location and channel keeps its type, whatever the clients.
THEOREM TypeCorrect == Spec => []TypeOK
<1>1. SetupInv => TypeOK
  BY DEF SetupInv
<1> QED  BY <1>1, SetupInvariance, PTL

\* Only the client whose request the server accepted is ever connected.
THEOREM OnlyAcceptedConnectsHolds == Spec => []OnlyAcceptedConnects
<1>1. ASSUME SetupInv, NEW c \in Client,
             cstate[c] = CONNECTED \/ cmain[c] = "connected"
      PROVE  accepted = c
  <2>1. cstate[c] = CONNECTED
    BY <1>1, MainAfterState
  <2> QED  BY <1>1, <2>1 DEF SetupInv, RepliesAreAccepted, Replied
<1>2. SetupInv => OnlyAcceptedConnects
  BY <1>1 DEF OnlyAcceptedConnects
<1> QED  BY <1>2, SetupInvariance, PTL

\* The event ROUTE_RESOLVED finds the state ADDR_RESOLVED in cm_thread.
LEMMA RouteAfterAddress ==
    ASSUME SetupInv, NEW c \in Client, cthread[c] = "get",
           cevents[c] # <<>>, Head(cevents[c]) = "ROUTE_RESOLVED"
    PROVE  cstate[c] = ADDR_RESOLVED
<1>1. Progressing(c) \/ Failed(c)
  BY DEF SetupInv
<1>2. CASE Failed(c)
  <2>1. cevents[c] = <<"FAILURE">>
    BY <1>2 DEF Failed, ClientAt
  <2> QED  BY <2>1, Channels
<1>3. CASE Progressing(c)
  BY <1>3, Channels DEF Progressing, ClientAt
<1> QED  BY <1>1, <1>2, <1>3

\* The handler of ROUTE_RESOLVED never reports an unexpected state.
THEOREM RouteFollowsAddressHolds == Spec => []RouteFollowsAddress
<1>1. SetupInv => RouteFollowsAddress
  BY RouteAfterAddress DEF RouteFollowsAddress
<1> QED  BY <1>1, SetupInvariance, PTL

\* A server that considers itself connected shares that view with the client
\* it accepted.
THEOREM ServerConnectionIsRealHolds == Spec => []ServerConnectionIsReal
<1>1. SetupInv => ServerConnectionIsReal
  BY DEF SetupInv, ServerProgress, Confirmed, Replied, ServerConnectionIsReal
<1> QED  BY <1>1, SetupInvariance, PTL

\* Where the queue pair is not on the accepted id, it is on the id of a client
\* that asked and was not answered.
THEOREM QueuePairOnAcceptedHolds == Spec => []QueuePairOnAccepted
<1>1. ASSUME SetupInv, accepted # Uninit, qpOn # accepted
      PROVE  qpOn # Uninit /\ cpending[qpOn] \in {"requested", "failed"}
  <2>1. qpOn # Uninit
    BY <1>1 DEF SetupInv, ServerProgress
  <2>2. Asked(qpOn)
    BY <1>1, <2>1 DEF SetupInv, IdsAreAsked, TypeOK, Id
  <2> QED  BY <1>1, <2>1, <2>2 DEF Asked
<1>2. SetupInv => QueuePairOnAccepted
  BY <1>1 DEF QueuePairOnAccepted
<1> QED  BY <1>2, SetupInvariance, PTL

-----------------------------------------------------------------------------
(* The client's state only moves forward.                                  *)

Forward(c) ==
    cstate'[c] # cstate[c] =>
        <<cstate[c], cstate'[c]>> \in {<<INIT, ADDR_RESOLVED>>,
                                      <<ADDR_RESOLVED, ROUTE_RESOLVED>>,
                                      <<ROUTE_RESOLVED, CONNECTED>>}

\* Only the handler of ADDR_RESOLVED stores ADDR_RESOLVED, over INIT.
LEMMA RecordMovesForward ==
    ASSUME SetupInv, NEW c \in Client, RecordAddr(c)
    PROVE  \A d \in Client : Forward(d)
<1>1. cthread[c] = "record" /\ cstate' = [cstate EXCEPT ![c] = ADDR_RESOLVED]
  BY DEF RecordAddr
<1>2. cstate[c] = INIT /\ cstate \in [Client -> {INIT, ROUTE_RESOLVED,
                                                 ADDR_RESOLVED, CONNECTED}]
  BY <1>1 DEF SetupInv, TypeOK, Progressing, Failed, ClientAt
<1>3. \A d \in Client : cstate'[d] = IF d = c THEN ADDR_RESOLVED ELSE cstate[d]
  BY <1>1, <1>2
<1> QED  BY <1>2, <1>3 DEF Forward

\* The other events find the state that comes before theirs.
LEMMA EventMovesForward ==
    ASSUME SetupInv, NEW c \in Client, TakeEvent(c)
    PROVE  \A d \in Client : Forward(d)
<1> DEFINE e == Head(cevents[c])
           next == CASE e = "ROUTE_RESOLVED" -> ROUTE_RESOLVED
                     [] e = "ESTABLISHED"    -> CONNECTED
                     [] OTHER                -> cstate[c]
<1>1. /\ cthread[c] = "get" /\ cevents[c] # <<>>
      /\ cstate' = [cstate EXCEPT ![c] = next]
  BY DEF TakeEvent
<1>2. cstate \in [Client -> {INIT, ROUTE_RESOLVED, ADDR_RESOLVED, CONNECTED}]
  BY DEF SetupInv, TypeOK
<1>3. e = "ROUTE_RESOLVED" => cstate[c] = ADDR_RESOLVED
  BY <1>1, RouteAfterAddress
<1>4. e = "ESTABLISHED" => cstate[c] = ROUTE_RESOLVED
  BY <1>1, Channels DEF SetupInv, Progressing, Failed, ClientAt
<1>5. \A d \in Client : cstate'[d] = IF d = c THEN next ELSE cstate[d]
  BY <1>1, <1>2
<1>6. Forward(c)
  <2>1. cstate'[c] = next
    BY <1>5
  <2>2. CASE e = "ROUTE_RESOLVED"
    BY <1>3, <2>1, <2>2 DEF Forward
  <2>3. CASE e = "ESTABLISHED"
    BY <1>4, <2>1, <2>3 DEF Forward
  <2>4. CASE e \notin {"ROUTE_RESOLVED", "ESTABLISHED"}
    BY <2>1, <2>4 DEF Forward
  <2> QED  BY <2>2, <2>3, <2>4
<1>7. \A d \in Client \ {c} : Forward(d)
  BY <1>5 DEF Forward
<1> QED  BY <1>6, <1>7

\* No step of any thread moves a client's state back or past a wait.
THEOREM ClientStateAdvancesHolds == Spec => ClientStateAdvances
<1>1. ASSUME SetupInv, [Next]_vars  PROVE [\A c \in Client : Forward(c)]_vars
  <2>1. CASE UNCHANGED cstate
    BY <2>1 DEF Forward
  <2>2. ASSUME NEW c \in Client, RecordAddr(c) \/ TakeEvent(c)
        PROVE  \A d \in Client : Forward(d)
    BY <1>1, <2>2, RecordMovesForward, EventMovesForward
  <2>3. UNCHANGED cstate \/ \E c \in Client : RecordAddr(c) \/ TakeEvent(c)
    <3>1. CASE UNCHANGED vars
      BY <3>1 DEF vars, clientVars
    <3>2. CASE Server \/ ServerCm
      BY <3>2 DEF Server, Listen, SeeRequest, OpenDevice, CreateQp, ReadQp,
                  Accept, ServerConnected, ServerCm, TakeRequest, StoreChild,
           TakeEstablished, clientVars
    <3>3. ASSUME NEW c \in Client,
                 \/ ResolveAddr(c) \/ ClientMain(c) \/ TakeAddrResolved(c)
                 \/ Cm(c) \/ CmFails(c)
          PROVE  UNCHANGED cstate
      BY <3>3 DEF ResolveAddr, ClientMain, CreateQueues, Connect,
           ClientConnected, TakeAddrResolved, Cm, Resolved, DeliverRequest,
           DeliverReply, DeliverConfirmation, CmFails, ClientEventOf
    <3> QED  BY <1>1, <3>1, <3>2, <3>3 DEF Next, ClientCm
  <2> QED  BY <2>1, <2>2, <2>3
<1>2. [\A c \in Client : Forward(c)]_vars
        <=> [\A c \in Client :
               cstate'[c] # cstate[c] =>
                 <<cstate[c], cstate'[c]>> \in {<<INIT, ADDR_RESOLVED>>,
                                               <<ADDR_RESOLVED, ROUTE_RESOLVED>>,
                                               <<ROUTE_RESOLVED, CONNECTED>>}]_vars
  BY DEF Forward
<1> QED
  BY <1>1, <1>2, SetupInvariance, PTL DEF Spec, ClientStateAdvances

-----------------------------------------------------------------------------
(* Nobody waits for ever.  ConnectionIsMade is a liveness property, which   *)
(* the prover does not reach; but what makes it true is proved here for     *)
(* every set of clients: from the start of a client on, some thread or the  *)
(* CM can go on until ConnectionIsMade's right side holds, and every step   *)
(* leaves one client, or else the server, fewer steps to take.              *)

\* Whether a thread of a client, or the CM for it, can take a step that must
\* come: the guards of ClientMain, ClientCm and Cm.
ClientCanGoOn(c) ==
    \/ cmain[c] = "waitRoute" /\ cstate[c] = ROUTE_RESOLVED
    \/ cmain[c] = "connect"
    \/ cmain[c] = "waitConnected" /\ cstate[c] = CONNECTED
    \/ cthread[c] = "record"
    \/ cthread[c] = "get" /\ cevents[c] # <<>>
    \/ cpending[c] \in {"addr", "route", "replied"}
    \/ cpending[c] = "connect" /\ ServerUp /\ smain # "start"
    \/ cpending[c] = "requested" /\ accepted = c

\* The same for the server's two threads.
ServerCanGoOn ==
    \/ smain \in {"start", "open", "createQp", "readQp", "accept"}
    \/ smain = "waitRequest" /\ sstate = REQUEST_GET
    \/ smain = "waitConnected" /\ sstate = CONNECTED
    \/ ServerUp /\ sthread # Uninit
    \/ ServerUp /\ sevents # <<>>

CanGoOn == ServerCanGoOn \/ \E c \in Client : ClientCanGoOn(c)

\* What ConnectionIsMade promises to client c.
Outcome(c) == cpending[c] = "failed" \/ ServerStops \/ ConnectionMade

\* start() ends early only if child_cm_id was read before it was stored, if
\* it was replaced, or if its request is gone.
StopsHaveCause ==
    /\ smain = "crashed" => child = Uninit \/ IdReplaced
    /\ smain = "exited" => IdReplaced \/ cpending[child] = "failed"

\* A request that has reached the server has been announced by the state, or
\* its event is still in the channel.
RequestIsSeen ==
    /\ smain = "start" => \A c \in Client : cpending[c] # "requested"
    /\ smain = "waitRequest" /\ (\E c \in Client : cpending[c] = "requested")
           => sstate = REQUEST_GET \/ sevents # <<>>
    /\ smain \in {"open", "createQp", "readQp", "accept", "waitConnected",
                  "connected"} => sstate # SERVER_INIT

\* The accepted client has asked, and waits for the answer or has it.
AcceptedWaits ==
    accepted # Uninit =>
        \/ cpending[accepted] = "failed"
        \/ /\ cpending[accepted] \in {"requested", "replied", "none"}
           /\ cmain[accepted] \in {"waitConnected", "connected"}

WaitInv == StopsHaveCause /\ RequestIsSeen /\ AcceptedWaits

\* The steps that a client, with the CM, has left to take: those of its main
\* thread, of the CM's operation, of the event in its channel and of its
\* cm_thread.
MainSteps(c) ==
    [start |-> 13, waitRoute |-> 7, connect |-> 6, waitConnected |-> 1,
     connected |-> 0][cmain[c]]
PendingSteps(c) ==
    [addr |-> 5, route |-> 2, connect |-> 4, requested |-> 3, replied |-> 1,
     none |-> 0, failed |-> 0][cpending[c]]
EventSteps(c) ==
    CASE cevents[c] = <<>>                -> 0
      [] cevents[c] = <<"ADDR_RESOLVED">> -> 4
      [] OTHER                            -> 1
ThreadSteps(c) == IF cthread[c] = "record" THEN 1 ELSE 0
ClientLeft(c) ==
    MainSteps(c) + PendingSteps(c) + EventSteps(c) + ThreadSteps(c)

\* Those of the server, with the events that it has.
ServerLeft ==
    [start |-> 7, waitRequest |-> 6, open |-> 5, createQp |-> 4, readQp |-> 3,
     accept |-> 2, waitConnected |-> 1, connected |-> 0, crashed |-> 0,
     exited |-> 0][smain]
    + 2 * Len(sevents) + (IF sthread # Uninit THEN 1 ELSE 0)

\* No fair action of a thread or of the CM has another guard.
LEMMA StepsAreGuarded ==
    ASSUME SetupInv,
           \/ Server \/ ServerCm
           \/ \E c \in Client : ClientMain(c) \/ ClientCm(c) \/ Cm(c)
    PROVE  CanGoOn
<1>1. Server \/ ServerCm => CanGoOn
  BY DEF Server, Listen, SeeRequest, OpenDevice, CreateQp, ReadQp, Accept,
         ServerConnected, ServerCm, TakeRequest, StoreChild, TakeEstablished,
         CanGoOn, ServerCanGoOn
<1>2. ASSUME NEW c \in Client, ClientMain(c) \/ ClientCm(c) \/ Cm(c)
      PROVE  ClientCanGoOn(c)
  BY <1>2 DEF ClientMain, CreateQueues, Connect, ClientConnected, ClientCm,
              TakeAddrResolved, RecordAddr, TakeEvent, Cm, Resolved,
              DeliverRequest, DeliverReply, DeliverConfirmation, ClientCanGoOn
<1> QED  BY <1>1, <1>2 DEF CanGoOn

\* How a step leaves a client.
Leaves(c, main, pending, events, thread) ==
    /\ cmain'[c] = main /\ cpending'[c] = pending
    /\ cevents'[c] = events /\ cthread'[c] = thread

\* The moves of a client and of the CM for it.
Moves(c) ==
    \/ /\ cmain[c] = "start" /\ cpending[c] = "none"
       /\ Leaves(c, "waitRoute", "addr", cevents[c], cthread[c])
    \/ /\ cmain[c] = "waitRoute"
       /\ Leaves(c, "connect", cpending[c], cevents[c], cthread[c])
    \/ /\ cmain[c] = "connect" /\ cpending[c] = "none"
       /\ Leaves(c, "waitConnected", "connect", cevents[c], cthread[c])
    \/ /\ cmain[c] = "waitConnected"
       /\ Leaves(c, "connected", cpending[c], cevents[c], cthread[c])
    \/ /\ cevents[c] = <<"ADDR_RESOLVED">> /\ cpending[c] = "none"
       /\ cthread[c] = "get" /\ cmain[c] = "waitRoute"
       /\ Leaves(c, cmain[c], "route", <<>>, "record")
    \/ /\ cthread[c] = "record"
       /\ Leaves(c, cmain[c], cpending[c], cevents[c], "get")
    \/ /\ \E e \in ClientEvent \ {"ADDR_RESOLVED"} : cevents[c] = <<e>>
       /\ Leaves(c, cmain[c], cpending[c], <<>>, cthread[c])
    \/ /\ cpending[c] = "addr" /\ cevents[c] = <<>>
       /\ Leaves(c, cmain[c], "none", <<"ADDR_RESOLVED">>, cthread[c])
    \/ /\ cpending[c] = "route" /\ cevents[c] = <<>>
       /\ Leaves(c, cmain[c], "none", <<"ROUTE_RESOLVED">>, cthread[c])
    \/ /\ cpending[c] = "connect" /\ smain # "start" /\ sevents' # <<>>
       /\ Leaves(c, cmain[c], "requested", cevents[c], cthread[c])
    \/ /\ cpending[c] = "requested" /\ cevents[c] = <<>>
       /\ Leaves(c, cmain[c], "replied", <<"ESTABLISHED">>, cthread[c])
    \/ /\ cpending[c] = "replied"
       /\ Leaves(c, cmain[c], "none", cevents[c], cthread[c])
    \/ /\ cpending[c] \in {"addr", "route", "connect", "requested"}
       /\ cevents[c] = <<>>
       /\ Leaves(c, cmain[c], "failed", <<"FAILURE">>, cthread[c])

ClientStep(c) ==
    ResolveAddr(c) \/ ClientMain(c) \/ ClientCm(c) \/ Cm(c) \/ CmFails(c)

\* Every step of a client or of the CM for it is one of these moves.
LEMMA StepMoves ==
    ASSUME SetupInv, NEW c \in Client, ClientStep(c)
    PROVE  Moves(c)
<1>1. /\ cmain \in [Client -> {"start", "waitRoute", "connect",
                               "waitConnected", "connected"}]
      /\ cthread \in [Client -> {"get", "record"}]
      /\ cpending \in [Client -> {"none", "addr", "route", "connect",
                                  "requested", "replied", "failed"}]
      /\ cevents \in [Client -> Seq(ClientEvent)]
      /\ sevents \in Seq(ServerEvent)
      /\ Progressing(c) \/ Failed(c)
  BY DEF SetupInv, TypeOK
<1>2. CASE ResolveAddr(c)
  <2>1. cmain[c] = "start" /\ cpending[c] = "none"
    BY <1>1, <1>2 DEF ResolveAddr, Progressing, Failed, ClientAt
  <2>2. Leaves(c, "waitRoute", "addr", cevents[c], cthread[c])
    BY <1>1, <1>2 DEF ResolveAddr, Leaves
  <2> QED  BY <2>1, <2>2 DEF Moves
<1>3. CASE CreateQueues(c)
  <2>1. cmain[c] = "waitRoute"
        /\ Leaves(c, "connect", cpending[c], cevents[c], cthread[c])
    BY <1>1, <1>3 DEF CreateQueues, Leaves
  <2> QED  BY <2>1 DEF Moves
<1>4. CASE Connect(c)
  <2>1. cmain[c] = "connect" /\ cpending[c] = "none"
    BY <1>1, <1>4 DEF Connect, Progressing, Failed, ClientAt
  <2>2. Leaves(c, "waitConnected", "connect", cevents[c], cthread[c])
    BY <1>1, <1>4 DEF Connect, Leaves
  <2> QED  BY <2>1, <2>2 DEF Moves
<1>5. CASE ClientConnected(c)
  <2>1. cmain[c] = "waitConnected"
        /\ Leaves(c, "connected", cpending[c], cevents[c], cthread[c])
    BY <1>1, <1>5 DEF ClientConnected, Leaves
  <2> QED  BY <2>1 DEF Moves
<1>6. CASE TakeAddrResolved(c)
  <2>1. /\ cthread[c] = "get" /\ cevents[c] # <<>>
        /\ Head(cevents[c]) = "ADDR_RESOLVED"
    BY <1>6 DEF TakeAddrResolved
  <2>2. /\ cevents[c] = <<"ADDR_RESOLVED">> /\ cpending[c] = "none"
        /\ cmain[c] = "waitRoute"
    BY <1>1, <2>1, Channels DEF Progressing, Failed, ClientAt
  <2>3. Leaves(c, cmain[c], "route", <<>>, "record")
    <3>1. Tail(cevents[c]) = <<>>
      BY <2>2, Channels
    <3> QED  BY <1>1, <1>6, <3>1 DEF TakeAddrResolved, Leaves
  <2> QED  BY <2>1, <2>2, <2>3 DEF Moves
<1>7. CASE RecordAddr(c)
  <2>1. cthread[c] = "record"
        /\ Leaves(c, cmain[c], cpending[c], cevents[c], "get")
    BY <1>1, <1>7 DEF RecordAddr, Leaves
  <2> QED  BY <2>1 DEF Moves
<1>8. CASE TakeEvent(c)
  <2>1. /\ cevents[c] # <<>> /\ Head(cevents[c]) # "ADDR_RESOLVED"
    BY <1>8 DEF TakeEvent
  <2>2. PICK e \in ClientEvent : cevents[c] = <<e>>
    BY <1>1, <2>1 DEF Progressing, Failed, ClientAt, ClientEvent
  <2>3. e # "ADDR_RESOLVED" /\ Tail(cevents[c]) = <<>>
    BY <2>1, <2>2, Channels
  <2>4. Leaves(c, cmain[c], cpending[c], <<>>, cthread[c])
    BY <1>1, <1>8, <2>3 DEF TakeEvent, Leaves
  <2> QED  BY <2>2, <2>3, <2>4 DEF Moves
<1>9. CASE Resolved(c)
  <2>1. cpending[c] \in {"addr", "route"} /\ cevents[c] = <<>>
    BY <1>1, <1>9 DEF Resolved, Progressing, Failed, ClientAt
  <2>2. CASE cpending[c] = "addr"
    <3>1. cevents'[c] = <<"ADDR_RESOLVED">>
      BY <1>1, <1>9, <2>1, <2>2, Channels DEF Resolved, ClientEventOf
    <3>2. Leaves(c, cmain[c], "none", <<"ADDR_RESOLVED">>, cthread[c])
      BY <1>1, <1>9, <3>1 DEF Resolved, ClientEventOf, Leaves
    <3> QED  BY <2>1, <2>2, <3>2 DEF Moves
  <2>3. CASE cpending[c] = "route"
    <3>1. cevents'[c] = <<"ROUTE_RESOLVED">>
      BY <1>1, <1>9, <2>1, <2>3, Channels DEF Resolved, ClientEventOf
    <3>2. Leaves(c, cmain[c], "none", <<"ROUTE_RESOLVED">>, cthread[c])
      BY <1>1, <1>9, <3>1 DEF Resolved, ClientEventOf, Leaves
    <3> QED  BY <2>1, <2>3, <3>2 DEF Moves
  <2> QED  BY <2>1, <2>2, <2>3
<1>10. CASE DeliverRequest(c)
  <2>1. cpending[c] = "connect" /\ smain # "start"
    BY <1>10 DEF DeliverRequest
  <2>2. sevents' # <<>>
    <3> DEFINE e == [type |-> "CONNECT_REQUEST", id |-> c]
    <3>1. e \in ServerEvent /\ sevents' = Append(sevents, e)
      BY <1>10 DEF DeliverRequest, ServerEventOf, ServerEvent
    <3> HIDE DEF e
    <3> QED  BY <1>1, <3>1, AppendProperties
  <2>3. Leaves(c, cmain[c], "requested", cevents[c], cthread[c])
    BY <1>1, <1>10 DEF DeliverRequest, Leaves
  <2> QED  BY <2>1, <2>2, <2>3 DEF Moves
<1>11. CASE DeliverReply(c)
  <2>1. cpending[c] = "requested" /\ cevents[c] = <<>>
    BY <1>1, <1>11 DEF DeliverReply, Progressing, Failed, ClientAt
  <2>2. cevents'[c] = <<"ESTABLISHED">>
    BY <1>1, <1>11, <2>1, Channels DEF DeliverReply, ClientEventOf
  <2>3. Leaves(c, cmain[c], "replied", <<"ESTABLISHED">>, cthread[c])
    BY <1>1, <1>11, <2>2 DEF DeliverReply, ClientEventOf, Leaves
  <2> QED  BY <2>1, <2>3 DEF Moves
<1>12. CASE DeliverConfirmation(c)
  <2>1. cpending[c] = "replied"
        /\ Leaves(c, cmain[c], "none", cevents[c], cthread[c])
    BY <1>1, <1>12 DEF DeliverConfirmation, Leaves
  <2> QED  BY <2>1 DEF Moves
<1>13. CASE CmFails(c)
  <2>1. cpending[c] \in {"addr", "route", "connect", "requested"}
        /\ cevents[c] = <<>>
    BY <1>1, <1>13 DEF CmFails, Progressing, Failed, ClientAt
  <2>2. cevents'[c] = <<"FAILURE">>
    BY <1>1, <1>13, <2>1, Channels DEF CmFails, ClientEventOf
  <2>3. Leaves(c, cmain[c], "failed", <<"FAILURE">>, cthread[c])
    BY <1>1, <1>13, <2>2 DEF CmFails, ClientEventOf, Leaves
  <2> QED  BY <2>1, <2>3 DEF Moves
<1> QED  BY <1>2, <1>3, <1>4, <1>5, <1>6, <1>7, <1>8, <1>9, <1>10, <1>11,
            <1>12, <1>13 DEF ClientStep, ClientMain, ClientCm, Cm

\* A step of one client leaves the others and the server's threads alone.
LEMMA StepLeavesOthers ==
    ASSUME TypeOK, NEW c \in Client, ClientStep(c)
    PROVE  /\ UNCHANGED <<sstate, smain, sthread, child, qpOn, accepted>>
           /\ sevents' = sevents \/ sevents' # <<>>
           /\ \A d \in Client \ {c} :
                  Leaves(d, cmain[d], cpending[d], cevents[d], cthread[d])
<1>1. UNCHANGED <<sstate, smain, sthread, child, qpOn, accepted>>
  BY DEF ClientStep, ResolveAddr, ClientMain, CreateQueues, Connect,
         ClientConnected, ClientCm, TakeAddrResolved, RecordAddr, TakeEvent,
         Cm, Resolved, DeliverRequest, DeliverReply, DeliverConfirmation,
         CmFails, ServerEventOf, serverVars
<1>2. sevents' = sevents \/ sevents' # <<>>
  <2>1. CASE DeliverRequest(c) \/ DeliverConfirmation(c)
    <3>1. PICK e \in ServerEvent : sevents' = Append(sevents, e)
      BY <2>1 DEF DeliverRequest, DeliverConfirmation, ServerEventOf,
                  ServerEvent
    <3>2. sevents \in Seq(ServerEvent)
      BY DEF TypeOK
    <3>3. Append(sevents, e) # <<>>
      BY <3>2, AppendProperties
    <3> QED  BY <3>1, <3>3
  <2>2. CASE ~DeliverRequest(c) /\ ~DeliverConfirmation(c)
    BY <2>2 DEF ClientStep, ResolveAddr, ClientMain, CreateQueues, Connect,
         ClientConnected, ClientCm, TakeAddrResolved, RecordAddr, TakeEvent,
         Cm, Resolved, DeliverReply, CmFails, serverVars
  <2> QED  BY <2>1, <2>2
<1>3. ASSUME NEW d \in Client \ {c}
      PROVE  Leaves(d, cmain[d], cpending[d], cevents[d], cthread[d])
  <2>1. cmain'[d] = cmain[d] /\ cthread'[d] = cthread[d]
    BY DEF ClientStep, ResolveAddr, ClientMain, CreateQueues, Connect,
           ClientConnected, ClientCm, TakeAddrResolved, RecordAddr, TakeEvent,
           Cm, Resolved, DeliverRequest, DeliverReply, DeliverConfirmation,
           CmFails, ClientEventOf, TypeOK
  <2>2. cpending'[d] = cpending[d] /\ cevents'[d] = cevents[d]
    BY DEF ClientStep, ResolveAddr, ClientMain, CreateQueues, Connect,
           ClientConnected, ClientCm, TakeAddrResolved, RecordAddr, TakeEvent,
           Cm, Resolved, DeliverRequest, DeliverReply, DeliverConfirmation,
           CmFails, ClientEventOf, TypeOK
  <2> QED  BY <2>1, <2>2 DEF Leaves
<1> QED  BY <1>1, <1>2, <1>3

\* A step of the server leaves the clients alone.
LEMMA ServerLeavesClients ==
    ASSUME Server \/ ServerCm
    PROVE  UNCHANGED <<cstate, cmain, cthread, cpending, cevents>>
  BY DEF Server, Listen, SeeRequest, OpenDevice, CreateQp, ReadQp, Accept,
         ServerConnected, ServerCm, TakeRequest, StoreChild, TakeEstablished,
         clientVars

\* Before the start nobody has asked.
LEMMA InitWaitInv == Init => WaitInv
  BY DEF Init, WaitInv, StopsHaveCause, IdReplaced, RequestIsSeen, AcceptedWaits

\* A client that asks has a server that is up to listen, and its request is in
\* the channel.
LEMMA ClientStepWaits ==
    ASSUME SetupInv, WaitInv, NEW c \in Client, ClientStep(c)
    PROVE  WaitInv'
<1>1. /\ UNCHANGED <<sstate, smain, sthread, child, qpOn, accepted>>
      /\ sevents' = sevents \/ sevents' # <<>>
      /\ \A d \in Client \ {c} :
             Leaves(d, cmain[d], cpending[d], cevents[d], cthread[d])
  BY StepLeavesOthers DEF SetupInv
<1>2. Moves(c)
  BY StepMoves
<1>3. /\ cpending[c] = "failed" => cpending'[c] = "failed"
      /\ cpending'[c] = "requested" =>
             cpending[c] = "requested" \/ (smain # "start" /\ sevents' # <<>>)
      /\ /\ cpending[c] \in {"requested", "replied", "none"}
         /\ cmain[c] \in {"waitConnected", "connected"}
         => \/ cpending'[c] = "failed"
            \/ /\ cpending'[c] \in {"requested", "replied", "none"}
               /\ cmain'[c] \in {"waitConnected", "connected"}
  BY <1>2 DEF Moves, Leaves
<1>4. \A d \in Client \ {c} : cpending'[d] = cpending[d] /\ cmain'[d] = cmain[d]
  BY <1>1 DEF Leaves
<1>5. StopsHaveCause'
  <2>1. smain = "exited" => child \in Client
    BY DEF SetupInv, ServerProgress, TypeOK, Id
  <2> QED  BY <1>1, <1>3, <1>4, <2>1 DEF WaitInv, StopsHaveCause, IdReplaced
<1>6. RequestIsSeen'
  BY <1>1, <1>3, <1>4 DEF WaitInv, RequestIsSeen
<1>7. AcceptedWaits'
  <2>1. accepted # Uninit => accepted \in Client
    BY DEF SetupInv, TypeOK, Id
  <2> QED  BY <1>1, <1>3, <1>4, <2>1 DEF WaitInv, AcceptedWaits
<1> QED  BY <1>5, <1>6, <1>7 DEF WaitInv

\* The server's state announces a request before its event is gone, and it
\* accepts a client that has asked, or stops for one of the causes.
LEMMA ServerStepWaits ==
    ASSUME SetupInv, WaitInv, Server \/ ServerCm
    PROVE  WaitInv'
<1> USE DEF SERVER_INIT, REQUEST_GET, SERVER_CONNECTED, CONNECTED
<1>1. UNCHANGED <<cmain, cpending>>
  BY ServerLeavesClients
<1>2. /\ StopsHaveCause /\ RequestIsSeen /\ AcceptedWaits /\ ServerProgress
      /\ accepted \in Id /\ child \in Id
  BY DEF WaitInv, SetupInv, TypeOK
<1>3. ASSUME Accept
      PROVE  /\ child \in Client /\ accepted = Uninit
             /\ \/ cpending[child] = "failed"
                \/ /\ cpending[child] = "requested"
                   /\ cmain[child] = "waitConnected"
  <2>1. child # Uninit /\ accepted = Uninit
    BY <1>2, <1>3 DEF Accept, ServerProgress
  <2>2. child \in Client /\ Asked(child)
    BY <1>2, <2>1 DEF SetupInv, IdsAreAsked, Id
  <2>3. cpending[child] \in {"requested", "failed"}
    BY <2>1, <2>2 DEF Asked
  <2>4. cpending[child] = "requested" => cmain[child] = "waitConnected"
    BY <2>2 DEF SetupInv, Progressing, Failed, ClientAt
  <2> QED  BY <2>1, <2>2, <2>3, <2>4
<1>4. StopsHaveCause'
  <2>1. CASE Accept
    <3>1. smain' # "crashed" /\ child' = child /\ qpOn' = qpOn /\ qpOn # Uninit
      BY <1>2, <2>1 DEF Accept, ServerProgress
    <3>2. smain' = "exited" => child # qpOn \/ cpending'[child] = "failed"
      BY <1>1, <1>3, <2>1 DEF Accept
    <3> QED  BY <3>1, <3>2 DEF StopsHaveCause, IdReplaced
  <2>2. CASE OpenDevice \/ ReadQp
    BY <1>2, <2>2
       DEF OpenDevice, ReadQp, StopsHaveCause, IdReplaced, ServerProgress
  <2>3. CASE ~Accept /\ ~OpenDevice /\ ~ReadQp
    <3>1. smain' \notin {"crashed", "exited"}
          \/ UNCHANGED <<smain, child, qpOn>>
      BY <2>3 DEF Server, Listen, SeeRequest, CreateQp, ServerConnected,
                  ServerCm, TakeRequest, StoreChild, TakeEstablished, ServerUp
    <3> QED  BY <1>1, <1>2, <3>1 DEF StopsHaveCause, IdReplaced
  <2> QED  BY <2>1, <2>2, <2>3
<1>5. RequestIsSeen'
  <2>1. CASE Server
    <3>1. sstate' = sstate /\ sevents' = sevents
      BY <2>1 DEF Server, Listen, SeeRequest, OpenDevice, CreateQp, ReadQp,
                  Accept, ServerConnected
    <3>2. /\ smain' # "start"
          /\ smain' = "waitRequest" => smain = "start"
          /\ smain' \in {"open", "createQp", "readQp", "accept",
                         "waitConnected", "connected"}
                => \/ sstate = REQUEST_GET
                   \/ smain \in {"open", "createQp", "readQp", "accept",
                                 "waitConnected"}
      BY <2>1 DEF Server, Listen, SeeRequest, OpenDevice, CreateQp, ReadQp,
                  Accept, ServerConnected
    <3> QED  BY <1>1, <1>2, <3>1, <3>2 DEF RequestIsSeen
  <2>2. CASE TakeRequest
    BY <1>1, <1>2, <2>2 DEF TakeRequest, RequestIsSeen
  <2>3. CASE StoreChild
    BY <1>1, <1>2, <2>3 DEF StoreChild, RequestIsSeen
  <2>4. CASE TakeEstablished
    <3>1. accepted # Uninit
      <4>1. sevents \in Seq(ServerEvent) /\ sevents # <<>>
        BY <2>4, EventsTyped DEF TakeEstablished
      <4>2. 1 \in 1..Len(sevents) /\ Head(sevents) = sevents[1]
        BY <4>1
      <4>3. sevents[1].type = "ESTABLISHED" /\ sevents[1] \in ServerEvent
        BY <2>4, <4>2, EventsTyped DEF TakeEstablished
      <4>4. Confirmed(sevents[1].id) /\ sevents[1].id \in Client
        BY <4>2, <4>3 DEF SetupInv, EventsAreTrue, ServerEvent
      <4> QED  BY <4>4, ClientAssumption DEF Confirmed
    <3>2. smain \in {"waitConnected", "connected"}
      BY <1>2, <3>1 DEF ServerProgress
    <3> QED  BY <2>4, <3>2 DEF TakeEstablished, RequestIsSeen
  <2> QED  BY <2>1, <2>2, <2>3, <2>4 DEF ServerCm
<1>6. AcceptedWaits'
  <2>1. CASE accepted' = accepted
    BY <1>1, <1>2, <2>1 DEF AcceptedWaits
  <2>2. CASE accepted' # accepted
    <3>1. Accept /\ accepted' = child
      BY <2>2 DEF Server, Listen, SeeRequest, OpenDevice, CreateQp, ReadQp,
                  Accept, ServerConnected, ServerCm, TakeRequest, StoreChild,
                  TakeEstablished
    <3> QED  BY <1>1, <1>3, <3>1 DEF AcceptedWaits
  <2> QED  BY <2>1, <2>2
<1> QED  BY <1>4, <1>5, <1>6 DEF WaitInv

\* Every step keeps what the waits of both programs rely on.
LEMMA NextWaitInv ==
    ASSUME SetupInv, WaitInv, [Next]_vars
    PROVE  WaitInv'
<1>1. CASE Server \/ ServerCm
  BY <1>1, ServerStepWaits
<1>2. ASSUME NEW c \in Client, ClientStep(c)  PROVE WaitInv'
  BY <1>2, ClientStepWaits
<1>3. CASE UNCHANGED vars
  BY <1>3 DEF vars, clientVars, serverVars, WaitInv, StopsHaveCause,
              IdReplaced, RequestIsSeen, AcceptedWaits
<1> QED  BY <1>1, <1>2, <1>3 DEF Next, ClientStep

\* A client that has started and cannot go on waits for the server's reply, or
\* is connected.
LEMMA ClientWaits ==
    ASSUME SetupInv, NEW c \in Client, cmain[c] # "start",
           cpending[c] # "failed", ~ClientCanGoOn(c)
    PROVE  \/ cpending[c] = "connect" /\ (~ServerUp \/ smain = "start")
           \/ cpending[c] = "requested" /\ accepted # c
           \/ cmain[c] = "connected" /\ cpending[c] = "none" /\ accepted = c
<1> USE DEF INIT, ROUTE_RESOLVED, ADDR_RESOLVED, CONNECTED
<1>1. Progressing(c)
  BY DEF SetupInv, Failed, ClientAt
<1>2. /\ cevents[c] = <<>> \/ cthread[c] # "get"
      /\ cthread[c] # "record"
      /\ cpending[c] \notin {"addr", "route", "replied"}
      /\ cmain[c] # "connect"
      /\ ~(cmain[c] = "waitRoute" /\ cstate[c] = ROUTE_RESOLVED)
      /\ ~(cmain[c] = "waitConnected" /\ cstate[c] = CONNECTED)
  BY DEF ClientCanGoOn
<1>3. /\ cevents[c] = <<>>
      /\ \/ cpending[c] \in {"connect", "requested"}
         \/ /\ cmain[c] = "connected" /\ cpending[c] = "none"
            /\ cstate[c] = CONNECTED
  BY <1>1, <1>2, Channels DEF Progressing, ClientAt
<1>4. cstate[c] = CONNECTED => accepted = c
  BY DEF SetupInv, RepliesAreAccepted, Replied
<1> QED  BY <1>3, <1>4 DEF ClientCanGoOn

\* When nobody can go on, a client that started has its outcome.
LEMMA SetupWaitsForNothing ==
    ASSUME SetupInv, WaitInv, NEW c \in Client, cmain[c] # "start", ~CanGoOn
    PROVE  Outcome(c)
<1> USE DEF SERVER_INIT, REQUEST_GET, SERVER_CONNECTED, CONNECTED
<1>1. SUFFICES ASSUME ~Outcome(c) PROVE FALSE
  OBVIOUS
<1>2. /\ cpending[c] # "failed" /\ ~ServerStops /\ ~ServerCanGoOn
      /\ \A d \in Client : ~ClientCanGoOn(d)
  BY <1>1 DEF Outcome, CanGoOn
<1>3. /\ smain \in {"waitRequest", "waitConnected", "connected"} /\ ServerUp
      /\ sthread = Uninit /\ sevents = <<>>
      /\ smain = "waitRequest" => sstate # REQUEST_GET
  <2>1. smain # "crashed" /\ smain # "exited"
    BY <1>2 DEF WaitInv, StopsHaveCause, ServerStops
  <2>2. ServerUp
    BY <2>1 DEF ServerUp
  <2> QED  BY <1>2, <2>1, <2>2 DEF SetupInv, TypeOK, ServerCanGoOn
<1>4. cpending[c] = "requested" \/ accepted = c
  BY <1>2, <1>3, ClientWaits
<1>5. smain # "waitRequest"
  <2>1. SUFFICES ASSUME smain = "waitRequest" PROVE FALSE
    OBVIOUS
  <2>2. cpending[c] # "requested"
    BY <1>3, <2>1 DEF WaitInv, RequestIsSeen
  <2>3. accepted = Uninit
    BY <2>1 DEF SetupInv, ServerProgress
  <2> QED  BY <1>4, <2>2, <2>3, ClientAssumption
<1>6. accepted # Uninit /\ accepted \in Client
  BY <1>3, <1>5 DEF SetupInv, ServerProgress, TypeOK, Id
<1>7. cmain[accepted] = "connected" /\ cpending[accepted] = "none"
  <2>1. /\ cpending[accepted] \in {"requested", "replied", "none"}
        /\ cmain[accepted] \in {"waitConnected", "connected"}
    BY <1>2, <1>6 DEF WaitInv, AcceptedWaits, ServerStops
  <2> QED  BY <1>2, <1>3, <1>6, <2>1, ClientWaits
<1>8. smain = "waitConnected" => StateOverwritten
  <2>1. SUFFICES ASSUME smain = "waitConnected" PROVE StateOverwritten
    OBVIOUS
  <2>2. sstate # CONNECTED
    BY <1>2, <2>1 DEF ServerCanGoOn
  <2>3. sstate # SERVER_INIT
    BY <2>1 DEF WaitInv, RequestIsSeen
  <2>4. sstate = REQUEST_GET
    BY <2>2, <2>3 DEF SetupInv, TypeOK
  <2> QED  BY <1>3, <1>7, <2>1, <2>4 DEF StateOverwritten
<1> QED
  BY <1>1, <1>3, <1>5, <1>6, <1>7, <1>8 DEF Outcome, ConnectionMade

\* Once a client starts, setup does not stop short of what ConnectionIsMade
\* promises to it: nobody waits for an event that was taken, for a state that
\* was passed, or for a client whose resolution or request was given up.
THEOREM SetupNeverHangs ==
    Spec => [](\A c \in Client :
                   cmain[c] # "start" =>
                       \/ cpending[c] = "failed" \/ ServerStops
                       \/ ConnectionMade \/ CanGoOn)
<1>1. SetupInv /\ WaitInv =>
          (\A c \in Client :
               cmain[c] # "start" =>
                   \/ cpending[c] = "failed" \/ ServerStops
                   \/ ConnectionMade \/ CanGoOn)
  BY SetupWaitsForNothing DEF Outcome
<1>2. Init => WaitInv
  BY InitWaitInv
<1>3. SetupInv /\ WaitInv /\ [Next]_vars => WaitInv'
  BY NextWaitInv
<1> QED  BY <1>1, <1>2, <1>3, SetupInvariance, PTL DEF Spec

\* Each part of a client's measure is a number.
LEMMA ClientStepsType ==
    ASSUME TypeOK, NEW c \in Client
    PROVE  /\ MainSteps(c) \in Nat /\ PendingSteps(c) \in Nat
           /\ EventSteps(c) \in Nat /\ ThreadSteps(c) \in Nat
           /\ ClientLeft(c) \in Nat
<1>1. MainSteps(c) \in Nat
  BY DEF TypeOK, MainSteps
<1>2. PendingSteps(c) \in Nat
  BY DEF TypeOK, PendingSteps
<1>3. EventSteps(c) \in Nat /\ ThreadSteps(c) \in Nat
  BY DEF EventSteps, ThreadSteps
<1> QED  BY <1>1, <1>2, <1>3 DEF ClientLeft

\* And so is the server's.
LEMMA ServerStepsType ==
    ASSUME TypeOK
    PROVE  ServerLeft \in Nat
<1>1. [start |-> 7, waitRequest |-> 6, open |-> 5, createQp |-> 4,
       readQp |-> 3, accept |-> 2, waitConnected |-> 1, connected |-> 0,
       crashed |-> 0, exited |-> 0][smain] \in Nat
  BY DEF TypeOK
<1>2. Len(sevents) \in Nat
  BY LenProperties DEF TypeOK
<1> QED  BY <1>1, <1>2 DEF ServerLeft

\* Every move of a client shortens its way.
LEMMA MovesShorten ==
    ASSUME TypeOK, NEW c \in Client, Moves(c)
    PROVE  ClientLeft(c)' < ClientLeft(c)
<1>0. /\ MainSteps(c) \in Nat /\ PendingSteps(c) \in Nat
      /\ EventSteps(c) \in Nat /\ ThreadSteps(c) \in Nat
  BY ClientStepsType
<1> DEFINE Change(m, p, e, t) == /\ MainSteps(c)' = MainSteps(c) + m
                               /\ PendingSteps(c)' = PendingSteps(c) + p
                               /\ EventSteps(c)' = EventSteps(c) + e
                               /\ ThreadSteps(c)' = ThreadSteps(c) + t
<1>1. ASSUME NEW m \in Int, NEW p \in Int, NEW e \in Int, NEW t \in Int,
             Change(m, p, e, t), m + p + e + t < 0
      PROVE  ClientLeft(c)' < ClientLeft(c)
  <2>1. ClientLeft(c)' = ClientLeft(c) + (m + p + e + t)
    BY <1>0, <1>1 DEF ClientLeft
  <2> QED  BY <1>1, <2>1, ClientStepsType
<1>2. /\ cmain'[c] = cmain[c] => MainSteps(c)' = MainSteps(c) + 0
      /\ cpending'[c] = cpending[c] => PendingSteps(c)' = PendingSteps(c) + 0
      /\ cevents'[c] = cevents[c] => EventSteps(c)' = EventSteps(c) + 0
      /\ cthread'[c] = cthread[c] => ThreadSteps(c)' = ThreadSteps(c) + 0
  <2>1. /\ cmain'[c] = cmain[c] => MainSteps(c)' = MainSteps(c)
        /\ cpending'[c] = cpending[c] => PendingSteps(c)' = PendingSteps(c)
        /\ cevents'[c] = cevents[c] => EventSteps(c)' = EventSteps(c)
        /\ cthread'[c] = cthread[c] => ThreadSteps(c)' = ThreadSteps(c)
    BY DEF MainSteps, PendingSteps, EventSteps, ThreadSteps
  <2> QED  BY <1>0, <2>1
<1>3. /\ cevents[c] = <<>> => EventSteps(c) = 0
      /\ cevents'[c] = <<>> => EventSteps(c)' = 0
      /\ cevents[c] = <<"ADDR_RESOLVED">> => EventSteps(c) = 4
      /\ cevents'[c] = <<"ADDR_RESOLVED">> => EventSteps(c)' = 4
  BY Channels DEF EventSteps
<1>4. ASSUME NEW e \in ClientEvent \ {"ADDR_RESOLVED"}
      PROVE  /\ cevents[c] = <<e>> => EventSteps(c) = 1
             /\ cevents'[c] = <<e>> => EventSteps(c)' = 1
  BY Channels DEF EventSteps
<1>5. {"ROUTE_RESOLVED", "ESTABLISHED", "FAILURE"}
          \subseteq ClientEvent \ {"ADDR_RESOLVED"}
  BY DEF ClientEvent
<1>6. CASE /\ cmain[c] = "start" /\ cpending[c] = "none"
           /\ Leaves(c, "waitRoute", "addr", cevents[c], cthread[c])
  <2>1. MainSteps(c)' = MainSteps(c) + (-6)
    BY <1>6 DEF Leaves, MainSteps
  <2>2. PendingSteps(c)' = PendingSteps(c) + 5
    BY <1>6 DEF Leaves, PendingSteps
  <2>3. Change(-6, 5, 0, 0)
    BY <1>2, <1>6, <2>1, <2>2 DEF Leaves
  <2> QED  BY <1>1, <2>3
<1>7. CASE /\ cmain[c] = "waitRoute"
           /\ Leaves(c, "connect", cpending[c], cevents[c], cthread[c])
  <2>1. MainSteps(c)' = MainSteps(c) + (-1)
    BY <1>7 DEF Leaves, MainSteps
  <2>2. Change(-1, 0, 0, 0)
    BY <1>2, <1>7, <2>1 DEF Leaves
  <2> QED  BY <1>1, <2>2
<1>8. CASE /\ cmain[c] = "connect" /\ cpending[c] = "none"
           /\ Leaves(c, "waitConnected", "connect", cevents[c], cthread[c])
  <2>1. MainSteps(c)' = MainSteps(c) + (-5)
    BY <1>8 DEF Leaves, MainSteps
  <2>2. PendingSteps(c)' = PendingSteps(c) + 4
    BY <1>8 DEF Leaves, PendingSteps
  <2>3. Change(-5, 4, 0, 0)
    BY <1>2, <1>8, <2>1, <2>2 DEF Leaves
  <2> QED  BY <1>1, <2>3
<1>9. CASE /\ cmain[c] = "waitConnected"
           /\ Leaves(c, "connected", cpending[c], cevents[c], cthread[c])
  <2>1. MainSteps(c)' = MainSteps(c) + (-1)
    BY <1>9 DEF Leaves, MainSteps
  <2>2. Change(-1, 0, 0, 0)
    BY <1>2, <1>9, <2>1 DEF Leaves
  <2> QED  BY <1>1, <2>2
<1>10. CASE /\ cevents[c] = <<"ADDR_RESOLVED">> /\ cpending[c] = "none"
            /\ cthread[c] = "get"
            /\ Leaves(c, cmain[c], "route", <<>>, "record")
  <2>1. PendingSteps(c)' = PendingSteps(c) + 2
    BY <1>10 DEF Leaves, PendingSteps
  <2>2. EventSteps(c)' = EventSteps(c) + (-4)
    BY <1>3, <1>4, <1>5, <1>10 DEF Leaves
  <2>3. ThreadSteps(c)' = ThreadSteps(c) + 1
    BY <1>10 DEF Leaves, ThreadSteps
  <2>4. Change(0, 2, -4, 1)
    BY <1>2, <1>10, <2>1, <2>2, <2>3 DEF Leaves
  <2> QED  BY <1>1, <2>4
<1>11. CASE /\ cthread[c] = "record"
            /\ Leaves(c, cmain[c], cpending[c], cevents[c], "get")
  <2>1. ThreadSteps(c)' = ThreadSteps(c) + (-1)
    BY <1>11 DEF Leaves, ThreadSteps
  <2>2. Change(0, 0, 0, -1)
    BY <1>2, <1>11, <2>1 DEF Leaves
  <2> QED  BY <1>1, <2>2
<1>12. CASE /\ \E e \in ClientEvent \ {"ADDR_RESOLVED"} : cevents[c] = <<e>>
           /\ Leaves(c, cmain[c], cpending[c], <<>>, cthread[c])
  <2>1. EventSteps(c)' = EventSteps(c) + (-1)
    BY <1>3, <1>4, <1>12 DEF Leaves
  <2>2. Change(0, 0, -1, 0)
    BY <1>2, <1>12, <2>1 DEF Leaves
  <2> QED  BY <1>1, <2>2
<1>13. CASE /\ cpending[c] = "addr" /\ cevents[c] = <<>>
            /\ Leaves(c, cmain[c], "none", <<"ADDR_RESOLVED">>, cthread[c])
  <2>1. PendingSteps(c)' = PendingSteps(c) + (-5)
    BY <1>13 DEF Leaves, PendingSteps
  <2>2. EventSteps(c)' = EventSteps(c) + 4
    BY <1>3, <1>4, <1>5, <1>13 DEF Leaves
  <2>3. Change(0, -5, 4, 0)
    BY <1>2, <1>13, <2>1, <2>2 DEF Leaves
  <2> QED  BY <1>1, <2>3
<1>14. CASE /\ cpending[c] = "route" /\ cevents[c] = <<>>
            /\ Leaves(c, cmain[c], "none", <<"ROUTE_RESOLVED">>, cthread[c])
  <2>1. PendingSteps(c)' = PendingSteps(c) + (-2)
    BY <1>14 DEF Leaves, PendingSteps
  <2>2. EventSteps(c)' = EventSteps(c) + 1
    BY <1>3, <1>4, <1>5, <1>14 DEF Leaves
  <2>3. Change(0, -2, 1, 0)
    BY <1>2, <1>14, <2>1, <2>2 DEF Leaves
  <2> QED  BY <1>1, <2>3
<1>15. CASE /\ cpending[c] = "connect"
            /\ Leaves(c, cmain[c], "requested", cevents[c], cthread[c])
  <2>1. PendingSteps(c)' = PendingSteps(c) + (-1)
    BY <1>15 DEF Leaves, PendingSteps
  <2>2. Change(0, -1, 0, 0)
    BY <1>2, <1>15, <2>1 DEF Leaves
  <2> QED  BY <1>1, <2>2
<1>16. CASE /\ cpending[c] = "requested" /\ cevents[c] = <<>>
            /\ Leaves(c, cmain[c], "replied", <<"ESTABLISHED">>, cthread[c])
  <2>1. PendingSteps(c)' = PendingSteps(c) + (-2)
    BY <1>16 DEF Leaves, PendingSteps
  <2>2. EventSteps(c)' = EventSteps(c) + 1
    BY <1>3, <1>4, <1>5, <1>16 DEF Leaves
  <2>3. Change(0, -2, 1, 0)
    BY <1>2, <1>16, <2>1, <2>2 DEF Leaves
  <2> QED  BY <1>1, <2>3
<1>17. CASE /\ cpending[c] = "replied"
            /\ Leaves(c, cmain[c], "none", cevents[c], cthread[c])
  <2>1. PendingSteps(c)' = PendingSteps(c) + (-1)
    BY <1>17 DEF Leaves, PendingSteps
  <2>2. Change(0, -1, 0, 0)
    BY <1>2, <1>17, <2>1 DEF Leaves
  <2> QED  BY <1>1, <2>2
<1>18. CASE /\ cpending[c] \in {"addr", "route", "connect", "requested"}
            /\ cevents[c] = <<>>
            /\ Leaves(c, cmain[c], "failed", <<"FAILURE">>, cthread[c])
  <2>1. EventSteps(c)' = EventSteps(c) + 1
    BY <1>3, <1>4, <1>5, <1>18 DEF Leaves
  <2>2. PICK p \in {-5, -4, -3, -2} : PendingSteps(c)' = PendingSteps(c) + p
    BY <1>18 DEF Leaves, PendingSteps
  <2>3. Change(0, p, 1, 0)
    BY <1>2, <1>18, <2>1, <2>2 DEF Leaves
  <2> QED  BY <1>1, <2>3
<1> HIDE DEF Change
<1> QED  BY <1>6, <1>7, <1>8, <1>9, <1>10, <1>11, <1>12, <1>13, <1>14, <1>15, <1>16, <1>17, <1>18 DEF Moves

\* Every step of the server's threads shortens the server's way.
LEMMA ServerShortens ==
    ASSUME TypeOK, Server \/ ServerCm
    PROVE  ServerLeft' < ServerLeft
<1> DEFINE main == [start |-> 7, waitRequest |-> 6, open |-> 5, createQp |-> 4,
                    readQp |-> 3, accept |-> 2, waitConnected |-> 1,
                    connected |-> 0, crashed |-> 0, exited |-> 0][smain]
           thread == IF sthread # Uninit THEN 1 ELSE 0
<1>1. main \in Nat /\ thread \in Nat /\ Len(sevents) \in Nat
  BY LenProperties DEF TypeOK
<1>2. ServerLeft = main + 2 * Len(sevents) + thread
  BY DEF ServerLeft
<1>3. ServerLeft' = main' + 2 * Len(sevents') + thread'
  BY DEF ServerLeft
<1>4. CASE Server
  <2>1. Len(sevents') = Len(sevents) /\ thread' = thread
    BY <1>4 DEF Server, Listen, SeeRequest, OpenDevice, CreateQp, ReadQp,
                Accept, ServerConnected
  <2>2. main' < main /\ main' \in Int
    BY <1>4 DEF Server, Listen, SeeRequest, OpenDevice, CreateQp, ReadQp,
                Accept, ServerConnected
  <2> HIDE DEF main, thread
  <2> QED  BY <1>1, <1>2, <1>3, <2>1, <2>2
<1>5. CASE StoreChild
  <2>1. main' = main /\ Len(sevents') = Len(sevents)
    BY <1>5 DEF StoreChild
  <2>2. thread = 1 /\ thread' = 0
    BY <1>5 DEF StoreChild
  <2> HIDE DEF main, thread
  <2> QED  BY <1>1, <1>2, <1>3, <2>1, <2>2
<1>6. CASE TakeRequest \/ TakeEstablished
  <2>1. main' = main /\ thread = 0 /\ thread' \in {0, 1}
    BY <1>6 DEF TakeRequest, TakeEstablished
  <2>2. Len(sevents') = Len(sevents) - 1
    <3>1. sevents # <<>> /\ sevents' = Tail(sevents)
      BY <1>6 DEF TakeRequest, TakeEstablished
    <3> QED  BY <3>1, HeadTailProperties DEF TypeOK
  <2> HIDE DEF main, thread
  <2> QED  BY <1>1, <1>2, <1>3, <2>1, <2>2
<1> QED  BY <1>4, <1>5, <1>6 DEF ServerCm

\* Setup cannot go on for ever: every step leaves one client fewer steps to
\* take and the others as many, or leaves the clients as many and the server
\* fewer.  A client that starts has at most 13, however the CM answers.
THEOREM SetupIsFinite ==
    Spec => /\ ServerLeft = 7 /\ \A c \in Client : ClientLeft(c) = 13
            /\ [](ServerLeft \in Nat /\ \A c \in Client : ClientLeft(c) \in Nat)
            /\ [][\/ \E c \in Client :
                         /\ ClientLeft(c)' < ClientLeft(c)
                         /\ \A d \in Client \ {c} :
                                ClientLeft(d)' = ClientLeft(d)
                  \/ /\ \A d \in Client : ClientLeft(d)' = ClientLeft(d)
                     /\ ServerLeft' < ServerLeft]_vars
<1>1. Init => ServerLeft = 7 /\ \A c \in Client : ClientLeft(c) = 13
  <2> SUFFICES ASSUME Init
               PROVE  ServerLeft = 7 /\ \A c \in Client : ClientLeft(c) = 13
    OBVIOUS
  <2>1. ServerLeft = 7
    BY DEF Init, ServerLeft
  <2>2. ASSUME NEW c \in Client  PROVE ClientLeft(c) = 13
    <3>1. MainSteps(c) = 13 /\ PendingSteps(c) = 0
      BY DEF Init, MainSteps, PendingSteps
    <3>2. EventSteps(c) = 0 /\ ThreadSteps(c) = 0
      BY DEF Init, EventSteps, ThreadSteps
    <3> QED  BY <3>1, <3>2 DEF ClientLeft
  <2> QED  BY <2>1, <2>2
<1>2. SetupInv => ServerLeft \in Nat /\ \A c \in Client : ClientLeft(c) \in Nat
  BY ServerStepsType, ClientStepsType DEF SetupInv
<1> DEFINE Shorter ==
        \/ \E c \in Client :
               /\ ClientLeft(c)' < ClientLeft(c)
               /\ \A d \in Client \ {c} : ClientLeft(d)' = ClientLeft(d)
        \/ /\ \A d \in Client : ClientLeft(d)' = ClientLeft(d)
           /\ ServerLeft' < ServerLeft
<1>3. SetupInv /\ [Next]_vars => [Shorter]_vars
  <2> SUFFICES ASSUME SetupInv, Next  PROVE Shorter
    OBVIOUS
  <2>1. ASSUME NEW d,
               Leaves(d, cmain[d], cpending[d], cevents[d], cthread[d])
        PROVE  ClientLeft(d)' = ClientLeft(d)
    BY <2>1 DEF Leaves, ClientLeft, MainSteps, PendingSteps, EventSteps,
                ThreadSteps
  <2>2. ASSUME NEW c \in Client, ClientStep(c)  PROVE Shorter
    <3>1. \A d \in Client \ {c} : ClientLeft(d)' = ClientLeft(d)
      BY <2>1, <2>2, StepLeavesOthers DEF SetupInv
    <3>2. ClientLeft(c)' < ClientLeft(c)
      BY <2>2, StepMoves, MovesShorten DEF SetupInv
    <3> QED  BY <3>1, <3>2
  <2>3. CASE Server \/ ServerCm
    <3>1. \A d \in Client : ClientLeft(d)' = ClientLeft(d)
      BY <2>1, <2>3, ServerLeavesClients DEF Leaves
    <3>2. ServerLeft' < ServerLeft
      BY <2>3, ServerShortens DEF SetupInv
    <3> QED  BY <3>1, <3>2
  <2> QED  BY <2>2, <2>3 DEF Next, ClientStep
<1> QED  BY <1>1, <1>2, <1>3, SetupInvariance, PTL DEF Spec

-----------------------------------------------------------------------------
(* The completion queues of the exchange.                                  *)

Entries(q) == {q[i] : i \in 1..Len(q)}

\* What enters and leaves a queue.
LEMMA QueueEntries ==
    ASSUME NEW S, NEW q \in Seq(S)
    PROVE  /\ \A e \in S : /\ Append(q, e) \in Seq(S)
                           /\ Entries(Append(q, e)) = Entries(q) \cup {e}
           /\ \A s \in Seq(S) : /\ q \o s \in Seq(S)
                                /\ Entries(q \o s) = Entries(q) \cup Entries(s)
           /\ q # <<>> => /\ Head(q) \in Entries(q) /\ Head(q) \in S
                          /\ Tail(q) \in Seq(S)
                          /\ Entries(Tail(q)) \subseteq Entries(q)
<1>1. ASSUME NEW e \in S
      PROVE  /\ Append(q, e) \in Seq(S)
             /\ Entries(Append(q, e)) = Entries(q) \cup {e}
  <2>1. /\ Append(q, e) \in Seq(S) /\ Len(Append(q, e)) = Len(q) + 1
        /\ \A i \in 1..Len(q) : Append(q, e)[i] = q[i]
        /\ Append(q, e)[Len(q) + 1] = e
    BY AppendProperties
  <2> QED  BY <2>1, LenProperties DEF Entries
<1>2. ASSUME NEW s \in Seq(S)
      PROVE  /\ q \o s \in Seq(S)
             /\ Entries(q \o s) = Entries(q) \cup Entries(s)
  <2>1. /\ q \o s \in Seq(S) /\ Len(q \o s) = Len(q) + Len(s)
        /\ \A i \in 1..Len(q) + Len(s) :
               (q \o s)[i] = IF i <= Len(q) THEN q[i] ELSE s[i - Len(q)]
    BY ConcatProperties
  <2>2. Len(q) \in Nat /\ Len(s) \in Nat
    BY LenProperties
  <2>3. Entries(q \o s) \subseteq Entries(q) \cup Entries(s)
    BY <2>1, <2>2 DEF Entries
  <2>4. ASSUME NEW i \in 1..Len(s) PROVE s[i] \in Entries(q \o s)
    <3>1. Len(q) + i \in 1..Len(q \o s) /\ (q \o s)[Len(q) + i] = s[i]
      BY <2>1, <2>2
    <3> QED  BY <3>1 DEF Entries
  <2>5. ASSUME NEW i \in 1..Len(q) PROVE q[i] \in Entries(q \o s)
    <3>1. i \in 1..Len(q \o s) /\ (q \o s)[i] = q[i]
      BY <2>1, <2>2
    <3> QED  BY <3>1 DEF Entries
  <2> QED  BY <2>1, <2>3, <2>4, <2>5 DEF Entries
<1>3. ASSUME q # <<>>
      PROVE  /\ Head(q) \in Entries(q) /\ Head(q) \in S
             /\ Tail(q) \in Seq(S) /\ Entries(Tail(q)) \subseteq Entries(q)
  <2>1. /\ Head(q) \in S /\ Head(q) = q[1] /\ Len(q) \in Nat \ {0}
        /\ Tail(q) \in Seq(S) /\ Len(Tail(q)) = Len(q) - 1
        /\ \A i \in 1..Len(Tail(q)) : Tail(q)[i] = q[i + 1]
    BY <1>3, HeadTailProperties, LenProperties
  <2>2. ASSUME NEW i \in 1..Len(Tail(q)) PROVE Tail(q)[i] \in Entries(q)
    <3>1. i + 1 \in 1..Len(q) /\ Tail(q)[i] = q[i + 1]
      BY <2>1
    <3> QED  BY <3>1 DEF Entries
  <2> QED  BY <2>1, <2>2 DEF Entries
<1> QED  BY <1>1, <1>2, <1>3

\* Completions are completions, and a flushed one has no opcode and no tag.
LEMMA SessionCompletions ==
    ASSUME NEW id \in Nat, NEW tag \in Exchange!Tag
    PROVE  /\ Exchange!Flushed(id) \in Exchange!Completion
           /\ Exchange!Flushed(id).op = "none"
           /\ Exchange!Flushed(id).tag = "none"
           /\ Exchange!Completed("SEND", "none", id) \in Exchange!Completion
           /\ Exchange!Completed("RECV", tag, id) \in Exchange!Completion
           /\ Exchange!Completed("SEND", "none", id).op = "SEND"
           /\ Exchange!Completed("SEND", "none", id).tag = "none"
           /\ Exchange!Completed("RECV", tag, id).op = "RECV"
           /\ Exchange!Completed("RECV", tag, id).tag = tag
  BY DEF Exchange!Completion, Exchange!Completed, Exchange!Flushed,
         Exchange!Opcode, Exchange!Tag

\* What a thread reads of a completion: its opcode and tag are those of the
\* completion or those it read before, or the opcode of a send.
LEMMA SessionSeen ==
    ASSUME NEW wc \in Exchange!Completion, NEW c \in Exchange!Completion,
           NEW d \in Exchange!Seen(wc, c)
    PROVE  /\ d \in Exchange!Completion
           /\ d.op \in {c.op, wc.op, "SEND"} /\ d.tag \in {c.tag, wc.tag}
<1>1. \/ d = c
      \/ d = [wc EXCEPT !.id = c.id]
      \/ d = [wc EXCEPT !.id = c.id, !.op = "SEND"]
  BY DEF Exchange!Seen
<1>2. d \in Exchange!Completion
  BY <1>1 DEF Exchange!Completion, Exchange!Opcode
<1>3. d.op \in {c.op, wc.op, "SEND"} /\ d.tag \in {c.tag, wc.tag}
  BY <1>1 DEF Exchange!Completion
<1> QED  BY <1>2, <1>3

\* What a lost link flushes.
LEMMA FlushedEntries ==
    /\ \A id \in Nat, b \in BOOLEAN :
           LET s == IF b THEN <<Exchange!Flushed(id)>> ELSE <<>>
           IN  /\ s \in Seq(Exchange!Completion)
               /\ \A e \in Entries(s) : e.op = "none" /\ e.tag = "none"
    /\ \A n \in Nat : \A f \in [1..n -> Nat] :
           LET s == [i \in 1..n |-> Exchange!Flushed(f[i])]
           IN  /\ s \in Seq(Exchange!Completion)
               /\ \A e \in Entries(s) : e.op = "none" /\ e.tag = "none"
<1>1. \A id \in Nat : /\ Exchange!Flushed(id) \in Exchange!Completion
                      /\ Exchange!Flushed(id).op = "none"
                      /\ Exchange!Flushed(id).tag = "none"
  BY SessionCompletions DEF Exchange!Tag
<1> HIDE DEF Exchange!Flushed
<1>2. ASSUME NEW id \in Nat, NEW b \in BOOLEAN
      PROVE  LET s == IF b THEN <<Exchange!Flushed(id)>> ELSE <<>>
             IN  /\ s \in Seq(Exchange!Completion)
                 /\ \A e \in Entries(s) : e.op = "none" /\ e.tag = "none"
  BY <1>1 DEF Entries
<1>3. ASSUME NEW n \in Nat, NEW f \in [1..n -> Nat]
      PROVE  LET s == [i \in 1..n |-> Exchange!Flushed(f[i])]
             IN  /\ s \in Seq(Exchange!Completion)
                 /\ \A e \in Entries(s) : e.op = "none" /\ e.tag = "none"
  <2> DEFINE s == [i \in 1..n |-> Exchange!Flushed(f[i])]
  <2>1. s \in [1..n -> Exchange!Completion]
    BY <1>1
  <2>2. s \in Seq(Exchange!Completion)
    BY <2>1, SeqDef
  <2>3. Len(s) = n
    BY <2>1, <2>2, LenProperties
  <2> QED  BY <1>1, <2>2, <2>3 DEF Entries
<1> QED  BY <1>2, <1>3

-----------------------------------------------------------------------------
(* What the exchange's messages show, and what they show after a step.     *)

HelloSign ==
    \/ hello # "none" \/ gotHello \/ spc # "waitHello" \/ swc.op = "RECV"
    \/ \E e \in Entries(scq) : e.op = "RECV"

TagSign ==
    flag["start"] \/ cwc.tag = "start" \/ \E e \in Entries(ccq) : e.tag = "start"

\* The invariant in these terms.
LEMMA SessionSigns ==
    /\ HelloMeansClient <=> (HelloSign => SomeConnected)
    /\ TagMeansSession
         <=> (TagSign => smain = "connected" /\ Linked /\ SomeConnected)
  BY DEF HelloMeansClient, TagMeansSession, HelloSign, TagSign, Entries

\* A step that posts, delivers or handles no more than it may keeps what the
\* messages show.
SignsKept ==
    /\ HelloSign' => HelloSign \/ SomeConnected
    /\ TagSign' => TagSign \/ (Linked /\ wire # <<>>)
    /\ wire' # <<>> => wire # <<>> \/ (smain = "connected" /\ HelloSign)

\* Then the invariant survives a step of the exchange.
LEMMA SignsSuffice ==
    ASSUME SessionInv, UNCHANGED setupVars, ExchangeTypes', SignsKept
    PROVE  SessionInv'
<1>1. UNCHANGED vars
  BY DEF setupVars
<1>2. SetupInv'
  BY <1>1, NextSetupInv DEF SessionInv
<1>3. /\ SomeConnected' <=> SomeConnected
      /\ Linked' <=> Linked
      /\ smain' = smain
  BY <1>1 DEF vars, clientVars, serverVars, SomeConnected, Linked
<1>4. HelloMeansClient' <=> (HelloSign' => SomeConnected')
  BY DEF HelloMeansClient, HelloSign, Entries
<1>5. TagMeansSession'
        <=> (TagSign' => smain' = "connected" /\ Linked' /\ SomeConnected')
  BY DEF TagMeansSession, TagSign, Entries
<1>6. HelloMeansClient' /\ SendsMeanServer' /\ TagMeansSession'
  BY <1>3, <1>4, <1>5, SessionSigns DEF SessionInv, SignsKept, SendsMeanServer
<1> QED  BY <1>2, <1>6 DEF SessionInv

\* A send posted by the server.
LEMMA PostInSession ==
    ASSUME ExchangeTypes, NEW tag \in Exchange!Region, NEW id \in Nat,
           Exchange!PostSend(tag, id)
    PROVE  /\ scq' \in Seq(Exchange!Completion) /\ wire' \in Seq(Exchange!Message)
           /\ \A e \in Entries(scq') : e \in Entries(scq) \/ e.op # "RECV"
<1>1. /\ Exchange!Flushed(id) \in Exchange!Completion
      /\ Exchange!Flushed(id).op # "RECV"
  BY SessionCompletions DEF Exchange!Tag
<1>2. [tag |-> tag, id |-> id] \in Exchange!Message
  BY DEF Exchange!Message
<1>3. scq \in Seq(Exchange!Completion) /\ wire \in Seq(Exchange!Message)
  BY DEF ExchangeTypes
<1> HIDE DEF Exchange!Flushed
<1>4. /\ Append(scq, Exchange!Flushed(id)) \in Seq(Exchange!Completion)
      /\ Entries(Append(scq, Exchange!Flushed(id)))
           = Entries(scq) \cup {Exchange!Flushed(id)}
      /\ Append(wire, [tag |-> tag, id |-> id]) \in Seq(Exchange!Message)
  BY <1>1, <1>2, <1>3, QueueEntries
<1> QED  BY <1>1, <1>3, <1>4 DEF Exchange!PostSend

\* The server's main thread sends nothing before the hello is there.
LEMMA ServerGoesOnKeeps ==
    ASSUME SessionInv, ServerGoesOn
    PROVE  SessionInv'
<1> USE DEF Exchange!clientVars, Exchange!linkVars, Exchange!cqVars
<1>1. smain = "connected" /\ UNCHANGED setupVars /\ ExchangeTypes
  BY DEF ServerGoesOn, SessionInv
<1>2. /\ UNCHANGED <<firstId, swc, ccq, cwc, flag, recvPosted, unacked, hello,
                     gotHello>>
      /\ spc' # "waitHello" => HelloSign
  BY DEF ServerGoesOn, Exchange!ServerMain, Exchange!AdvertiseStart,
         Exchange!AdvertiseClass, Exchange!CopyObject, Exchange!CopyData,
         Exchange!InitSketch, Exchange!AdvertiseSketch, Exchange!FinishStart,
         HelloSign
<1>3. \/ UNCHANGED <<scq, wire>>
      \/ /\ \E tag \in Exchange!Region, id \in Nat : Exchange!PostSend(tag, id)
         /\ HelloSign
  <2>1. firstId \in Nat /\ 1123 \in Nat /\ 1124 \in Nat
    BY <1>1, SessionAssumption DEF ExchangeTypes
  <2>2. {"start", "class", "sketch"} = Exchange!Region
    BY DEF Exchange!Region
  <2>3. ASSUME Exchange!AdvertiseStart \/ Exchange!AdvertiseClass
               \/ Exchange!AdvertiseSketch
        PROVE  /\ \E tag \in Exchange!Region, id \in Nat :
                      Exchange!PostSend(tag, id)
               /\ HelloSign
    <3>1. HelloSign
      BY <2>3 DEF Exchange!AdvertiseStart, Exchange!AdvertiseClass,
                  Exchange!AdvertiseSketch, HelloSign
    <3>2. \/ Exchange!PostSend("start", firstId)
          \/ Exchange!PostSend("class", 1123)
          \/ Exchange!PostSend("sketch", 1124)
      BY <2>3 DEF Exchange!AdvertiseStart, Exchange!AdvertiseClass,
                  Exchange!AdvertiseSketch
    <3>3. {"start", "class", "sketch"} \subseteq Exchange!Region
      BY <2>2
    <3> QED  BY <2>1, <3>1, <3>2, <3>3
  <2>4. ASSUME Exchange!CopyObject \/ Exchange!CopyData \/ Exchange!InitSketch
               \/ Exchange!FinishStart
        PROVE  UNCHANGED <<scq, wire>>
    BY <2>4 DEF Exchange!CopyObject, Exchange!CopyData, Exchange!InitSketch,
                Exchange!FinishStart
  <2> QED  BY <2>3, <2>4 DEF ServerGoesOn, Exchange!ServerMain
<1>4. /\ scq' \in Seq(Exchange!Completion) /\ wire' \in Seq(Exchange!Message)
      /\ \A e \in Entries(scq') : e \in Entries(scq) \/ e.op # "RECV"
  BY <1>1, <1>3, PostInSession DEF ExchangeTypes
<1>5. ExchangeTypes'
  BY <1>1, <1>2, <1>4 DEF ExchangeTypes
<1>6. SignsKept
  <2>1. HelloSign' => HelloSign
    BY <1>2, <1>4 DEF HelloSign
  <2>2. TagSign' => TagSign
    BY <1>2 DEF TagSign, Entries
  <2> QED  BY <1>1, <1>3, <2>1, <2>2 DEF SignsKept
<1> QED  BY <1>1, <1>5, <1>6, SignsSuffice

\* The client says hello when it is connected.
LEMMA ClientGoesOnKeeps ==
    ASSUME SessionInv, ClientGoesOn
    PROVE  SessionInv'
<1> USE DEF Exchange!serverVars, Exchange!linkVars, Exchange!cqVars
<1>1. SomeConnected /\ UNCHANGED setupVars /\ ExchangeTypes
  BY DEF ClientGoesOn, SessionInv, SomeConnected
<1>2. /\ UNCHANGED <<firstId, scq, swc, cwc, flag, recvPosted, wire, unacked>>
      /\ UNCHANGED ccq \/ ccq' = Append(ccq, Exchange!Flushed(0))
  BY DEF ClientGoesOn, Exchange!ClientMain, Exchange!SendHello,
         Exchange!Started
<1>3. /\ ccq' \in Seq(Exchange!Completion)
      /\ \A e \in Entries(ccq') : e \in Entries(ccq) \/ e.tag # "start"
  <2>1. /\ Exchange!Flushed(0) \in Exchange!Completion
        /\ Exchange!Flushed(0).tag # "start"
    BY SessionCompletions DEF Exchange!Tag
  <2>2. ccq \in Seq(Exchange!Completion)
    BY <1>1 DEF ExchangeTypes
  <2> HIDE DEF Exchange!Flushed
  <2>3. /\ Append(ccq, Exchange!Flushed(0)) \in Seq(Exchange!Completion)
        /\ Entries(Append(ccq, Exchange!Flushed(0)))
             = Entries(ccq) \cup {Exchange!Flushed(0)}
    BY <2>1, <2>2, QueueEntries
  <2>4. CASE UNCHANGED ccq
    BY <2>2, <2>4 DEF Entries
  <2>5. CASE ccq' = Append(ccq, Exchange!Flushed(0))
    BY <2>1, <2>3, <2>5
  <2> QED  BY <1>2, <2>4, <2>5
<1>4. ExchangeTypes'
  BY <1>1, <1>2, <1>3 DEF ExchangeTypes
<1>5. SignsKept
  <2>1. TagSign' => TagSign
    BY <1>2, <1>3 DEF TagSign
  <2> QED  BY <1>1, <1>2, <2>1 DEF SignsKept
<1> QED  BY <1>1, <1>4, <1>5, SignsSuffice

\* The completion threads only pass on what they poll.
LEMMA CompletionsKeep ==
    ASSUME SessionInv, Completions
    PROVE  SessionInv'
<1> USE DEF Exchange!serverVars, Exchange!clientVars, Exchange!linkVars,
            Exchange!cqVars
<1>1. UNCHANGED setupVars /\ ExchangeTypes
  BY DEF Completions, SessionInv
<1>2. /\ scq \in Seq(Exchange!Completion) /\ swc \in Exchange!Completion
      /\ ccq \in Seq(Exchange!Completion) /\ cwc \in Exchange!Completion
      /\ flag \in [Exchange!Region -> BOOLEAN]
  BY <1>1 DEF ExchangeTypes
<1>3. CASE Exchange!ServerPoll
  <2>1. /\ scq # <<>> /\ scq' = Tail(scq)
        /\ swc' \in Exchange!Seen(swc, Head(scq))
        /\ gotHello' = (gotHello \/ swc'.op = "RECV")
        /\ UNCHANGED <<spc, firstId, flag, recvPosted, hello, wire, unacked,
                       ccq, cwc>>
    BY <1>3 DEF Exchange!ServerPoll
  <2>2. /\ Head(scq) \in Entries(scq) /\ Head(scq) \in Exchange!Completion
        /\ scq' \in Seq(Exchange!Completion)
        /\ Entries(scq') \subseteq Entries(scq)
    BY <1>2, <2>1, QueueEntries
  <2>3. swc' \in Exchange!Completion /\ swc'.op \in {Head(scq).op, swc.op, "SEND"}
    BY <1>2, <2>1, <2>2, SessionSeen
  <2>4. ExchangeTypes'
    BY <1>1, <2>1, <2>2, <2>3 DEF ExchangeTypes
  <2>5. HelloSign' => HelloSign
    BY <2>1, <2>2, <2>3 DEF HelloSign
  <2>6. TagSign' => TagSign
    BY <2>1 DEF TagSign, Entries
  <2>7. SignsKept
    BY <2>1, <2>5, <2>6 DEF SignsKept
  <2> QED  BY <1>1, <2>4, <2>7, SignsSuffice
<1>4. CASE Exchange!ClientPoll
  <2>1. /\ ccq # <<>> /\ ccq' = Tail(ccq)
        /\ cwc' \in Exchange!Seen(cwc, Head(ccq))
        /\ UNCHANGED <<spc, firstId, flag, recvPosted, hello, wire, unacked,
                       scq, swc, gotHello>>
    BY <1>4 DEF Exchange!ClientPoll
  <2>2. /\ Head(ccq) \in Entries(ccq) /\ Head(ccq) \in Exchange!Completion
        /\ ccq' \in Seq(Exchange!Completion)
        /\ Entries(ccq') \subseteq Entries(ccq)
    BY <1>2, <2>1, QueueEntries
  <2>3. cwc' \in Exchange!Completion /\ cwc'.tag \in {Head(ccq).tag, cwc.tag}
    BY <1>2, <2>1, <2>2, SessionSeen
  <2>4. ExchangeTypes'
    BY <1>1, <2>1, <2>2, <2>3 DEF ExchangeTypes
  <2>5. HelloSign' => HelloSign
    BY <2>1 DEF HelloSign, Entries
  <2>6. TagSign' => TagSign
    BY <2>1, <2>2, <2>3 DEF TagSign
  <2>7. SignsKept
    BY <2>1, <2>5, <2>6 DEF SignsKept
  <2> QED  BY <1>1, <2>4, <2>7, SignsSuffice
<1>5. CASE Exchange!ClientHandler
  <2>1. UNCHANGED <<spc, firstId, hello, wire, unacked, scq, swc, gotHello, cwc>>
    BY <1>5 DEF Exchange!ClientHandler, Exchange!ParseField, Exchange!SetFlag,
                Exchange!Repost
  <2>2. flag' \in {flag, [flag EXCEPT ![cwc.tag] = TRUE]}
    BY <1>5 DEF Exchange!ClientHandler, Exchange!ParseField, Exchange!SetFlag,
                Exchange!Repost
  <2>3. /\ flag' \in [Exchange!Region -> BOOLEAN]
        /\ flag'["start"] => flag["start"] \/ cwc.tag = "start"
    BY <1>2, <2>2 DEF Exchange!Region
  <2>4. ccq' \in {ccq, Append(ccq, Exchange!Flushed(0))}
    BY <1>5 DEF Exchange!ClientHandler, Exchange!ParseField, Exchange!SetFlag,
                Exchange!Repost
  <2>5. recvPosted' \in Nat
    BY <1>1, <1>5 DEF Exchange!ClientHandler, Exchange!ParseField,
                      Exchange!SetFlag, Exchange!Repost, ExchangeTypes
  <2>6. /\ Exchange!Flushed(0) \in Exchange!Completion
        /\ Exchange!Flushed(0).tag # "start"
    BY SessionCompletions DEF Exchange!Tag
  <2>7. /\ Append(ccq, Exchange!Flushed(0)) \in Seq(Exchange!Completion)
        /\ Entries(Append(ccq, Exchange!Flushed(0)))
             = Entries(ccq) \cup {Exchange!Flushed(0)}
    BY <1>2, <2>6, QueueEntries
  <2>8. /\ ccq' \in Seq(Exchange!Completion)
        /\ \A e \in Entries(ccq') : e \in Entries(ccq) \/ e.tag # "start"
    <3>1. CASE ccq' = ccq
      BY <1>2, <3>1 DEF Entries
    <3>2. CASE ccq' = Append(ccq, Exchange!Flushed(0))
      BY <2>6, <2>7, <3>2
    <3> QED  BY <2>4, <3>1, <3>2
  <2>9. ExchangeTypes'
    BY <1>1, <2>1, <2>3, <2>5, <2>8 DEF ExchangeTypes
  <2>10. HelloSign' => HelloSign
    BY <2>1 DEF HelloSign, Entries
  <2>11. TagSign' => TagSign
    BY <2>1, <2>3, <2>8 DEF TagSign
  <2>12. SignsKept
    BY <2>1, <2>10, <2>11 DEF SignsKept
  <2> QED  BY <1>1, <2>9, <2>12, SignsSuffice
<1> QED  BY <1>3, <1>4, <1>5 DEF Completions

\* A message passes only between the linked queue pairs.
LEMMA TransferKeeps ==
    ASSUME SessionInv, Transfer
    PROVE  SessionInv'
<1> USE DEF Exchange!serverVars, Exchange!clientVars
<1>1. Linked /\ UNCHANGED setupVars /\ ExchangeTypes
  BY DEF Transfer, SessionInv
<1>2. /\ scq \in Seq(Exchange!Completion) /\ ccq \in Seq(Exchange!Completion)
      /\ wire \in Seq(Exchange!Message) /\ unacked \in Seq(Exchange!Message)
  BY <1>1 DEF ExchangeTypes
<1> DEFINE hi == Exchange!Completed("RECV", "none", 0)
           ok == Exchange!Completed("SEND", "none", 0)
<1>3. /\ hi \in Exchange!Completion
      /\ ok \in Exchange!Completion /\ ok.tag = "none"
  BY SessionCompletions DEF Exchange!Tag
<1>4. CASE Exchange!DeliverHello
  <2>1. /\ hello # "none" /\ hello' # "none" /\ scq' = Append(scq, hi)
        /\ UNCHANGED <<spc, firstId, flag, recvPosted, wire, unacked, ccq,
                       cwc, gotHello, swc>>
    BY <1>4 DEF Exchange!DeliverHello
  <2> HIDE DEF hi
  <2>2. scq' \in Seq(Exchange!Completion)
    BY <1>2, <1>3, <2>1, QueueEntries
  <2>3. ExchangeTypes'
    BY <1>1, <2>1, <2>2 DEF ExchangeTypes
  <2>4. HelloSign /\ (TagSign' => TagSign)
    BY <2>1 DEF HelloSign, TagSign, Entries
  <2>5. SignsKept
    BY <2>1, <2>4 DEF SignsKept
  <2> QED  BY <1>1, <2>3, <2>5, SignsSuffice
<1>5. CASE Exchange!AckHello
  <2>1. /\ hello # "none" /\ hello' # "none" /\ ccq' = Append(ccq, ok)
        /\ UNCHANGED <<spc, firstId, flag, recvPosted, wire, unacked, scq,
                       cwc, gotHello, swc>>
    BY <1>5 DEF Exchange!AckHello
  <2> HIDE DEF ok
  <2>2. /\ ccq' \in Seq(Exchange!Completion)
        /\ Entries(ccq') = Entries(ccq) \cup {ok}
    BY <1>2, <1>3, <2>1, QueueEntries
  <2>3. ExchangeTypes'
    BY <1>1, <2>1, <2>2 DEF ExchangeTypes
  <2>4. HelloSign /\ (TagSign' => TagSign)
    BY <1>3, <2>1, <2>2 DEF HelloSign, TagSign
  <2>5. SignsKept
    BY <2>1, <2>4 DEF SignsKept
  <2> QED  BY <1>1, <2>3, <2>5, SignsSuffice
<1>6. CASE Exchange!Deliver
  <2> DEFINE got == Exchange!Completed("RECV", Head(wire).tag, 0)
  <2>1. /\ wire # <<>> /\ recvPosted > 0 /\ recvPosted' = recvPosted - 1
        /\ ccq' = Append(ccq, got)
        /\ wire' = Tail(wire) /\ unacked' = Append(unacked, Head(wire))
        /\ UNCHANGED <<spc, firstId, flag, hello, scq, cwc, gotHello, swc>>
    BY <1>6 DEF Exchange!Deliver
  <2>2. /\ Head(wire) \in Exchange!Message
        /\ wire' \in Seq(Exchange!Message) /\ unacked' \in Seq(Exchange!Message)
    BY <1>2, <2>1, QueueEntries
  <2>3. got \in Exchange!Completion
    BY <2>2, SessionCompletions DEF Exchange!Message, Exchange!Tag
  <2> HIDE DEF got
  <2>4. ccq' \in Seq(Exchange!Completion)
    BY <1>2, <2>1, <2>3, QueueEntries
  <2>5. recvPosted' \in Nat
    BY <1>1, <2>1 DEF ExchangeTypes
  <2>6. ExchangeTypes'
    BY <1>1, <2>1, <2>2, <2>4, <2>5 DEF ExchangeTypes
  <2>7. HelloSign' => HelloSign
    BY <2>1 DEF HelloSign, Entries
  <2>8. SignsKept
    BY <1>1, <2>1, <2>7 DEF SignsKept
  <2> QED  BY <1>1, <2>6, <2>8, SignsSuffice
<1>7. CASE Exchange!Ack
  <2> DEFINE sent == Exchange!Completed("SEND", "none", Head(unacked).id)
  <2>1. /\ unacked # <<>> /\ unacked' = Tail(unacked)
        /\ scq' = Append(scq, sent)
        /\ UNCHANGED <<spc, firstId, flag, recvPosted, hello, wire, ccq, cwc,
                       gotHello, swc>>
    BY <1>7 DEF Exchange!Ack
  <2>2. Head(unacked) \in Exchange!Message /\ unacked' \in Seq(Exchange!Message)
    BY <1>2, <2>1, QueueEntries
  <2>3. sent \in Exchange!Completion /\ sent.op = "SEND"
    BY <2>2, SessionCompletions DEF Exchange!Message, Exchange!Tag
  <2> HIDE DEF sent
  <2>4. /\ scq' \in Seq(Exchange!Completion)
        /\ Entries(scq') = Entries(scq) \cup {sent}
    BY <1>2, <2>1, <2>3, QueueEntries
  <2>5. ExchangeTypes'
    BY <1>1, <2>1, <2>2, <2>4 DEF ExchangeTypes
  <2>6. HelloSign' => HelloSign
    BY <2>1, <2>3, <2>4 DEF HelloSign
  <2>7. TagSign' => TagSign
    BY <2>1 DEF TagSign, Entries
  <2>8. SignsKept
    BY <2>1, <2>6, <2>7 DEF SignsKept
  <2> QED  BY <1>1, <2>5, <2>8, SignsSuffice
<1> QED  BY <1>4, <1>5, <1>6, <1>7 DEF Transfer, Exchange!Link

\* A lost link flushes; what it flushes shows nothing.
LEMMA LinkBreaksKeeps ==
    ASSUME SessionInv, LinkBreaks
    PROVE  SessionInv'
<1> USE DEF Exchange!serverVars
<1>1. UNCHANGED setupVars /\ ExchangeTypes
  BY DEF LinkBreaks, SessionInv
<1>2. /\ scq \in Seq(Exchange!Completion) /\ ccq \in Seq(Exchange!Completion)
      /\ wire \in Seq(Exchange!Message) /\ unacked \in Seq(Exchange!Message)
      /\ recvPosted \in Nat
  BY <1>1 DEF ExchangeTypes
<1>3. /\ UNCHANGED <<spc, firstId, flag, hello, cwc, gotHello, swc>>
      /\ wire' = <<>> /\ unacked' = <<>> /\ recvPosted' = 0
  BY DEF LinkBreaks, Exchange!LinkBreaks
<1>4. /\ scq' \in Seq(Exchange!Completion)
      /\ \A e \in Entries(scq') : e \in Entries(scq) \/ e.op = "none"
  <2>1. PICK id \in WrIds :
            scq' = scq \o (IF hello \in {"none", "sent"}
                           THEN <<Exchange!Flushed(id)>> ELSE <<>>)
                       \o [i \in 1..Len(unacked \o wire) |->
                              Exchange!Flushed((unacked \o wire)[i].id)]
    BY DEF LinkBreaks, Exchange!LinkBreaks
  <2> DEFINE b == hello \in {"none", "sent"}
             h == IF b THEN <<Exchange!Flushed(id)>> ELSE <<>>
             q == unacked \o wire
             f == [i \in 1..Len(q) |-> q[i].id]
             s == [i \in 1..Len(q) |-> Exchange!Flushed(f[i])]
  <2>2. /\ h \in Seq(Exchange!Completion)
        /\ \A e \in Entries(h) : e.op = "none" /\ e.tag = "none"
    <3>1. id \in Nat /\ b \in BOOLEAN
      BY SessionAssumption
    <3> HIDE DEF b
    <3> QED  BY <3>1, FlushedEntries
  <2>3. q \in Seq(Exchange!Message)
    BY <1>2, ConcatProperties
  <2>4. s = [i \in 1..Len(q) |-> Exchange!Flushed(q[i].id)]
    OBVIOUS
  <2>5. scq' = (scq \o h) \o s
    BY <2>1, <2>4
  <2> HIDE DEF h, q
  <2>6. Len(q) \in Nat /\ f \in [1..Len(q) -> Nat]
    <3>1. Len(q) \in Nat /\ \A i \in 1..Len(q) : q[i] \in Exchange!Message
      BY <2>3, LenProperties, ElementOfSeq
    <3>2. \A i \in 1..Len(q) : q[i].id \in Nat
      BY <3>1 DEF Exchange!Message
    <3> QED  BY <3>1, <3>2
  <2>7. /\ s \in Seq(Exchange!Completion)
        /\ \A e \in Entries(s) : e.op = "none" /\ e.tag = "none"
    <3> HIDE DEF f
    <3> QED  BY <2>6, FlushedEntries
  <2> HIDE DEF s
  <2> DEFINE g == scq \o h
  <2>8. /\ g \in Seq(Exchange!Completion)
        /\ Entries(g) = Entries(scq) \cup Entries(h)
    BY <1>2, <2>2, QueueEntries
  <2> HIDE DEF g
  <2>9. g \o s \in Seq(Exchange!Completion)
        /\ Entries(g \o s) = Entries(g) \cup Entries(s)
    BY <2>7, <2>8, QueueEntries
  <2>10. scq' = g \o s
    BY <2>5 DEF g
  <2> QED  BY <2>2, <2>7, <2>8, <2>9, <2>10
<1>5. /\ ccq' \in Seq(Exchange!Completion)
      /\ \A e \in Entries(ccq') : e \in Entries(ccq) \/ e.tag = "none"
  <2> DEFINE b == hello \in {"sent", "delivered"}
             h == IF b THEN <<Exchange!Flushed(0)>> ELSE <<>>
             f == [i \in 1..recvPosted |-> 0]
             s == [i \in 1..recvPosted |-> Exchange!Flushed(f[i])]
  <2>1. /\ h \in Seq(Exchange!Completion)
        /\ \A e \in Entries(h) : e.op = "none" /\ e.tag = "none"
    <3>1. b \in BOOLEAN
      OBVIOUS
    <3> HIDE DEF b
    <3> QED  BY <3>1, FlushedEntries
  <2>2. s = [i \in 1..recvPosted |-> Exchange!Flushed(0)]
    OBVIOUS
  <2>3. ccq' = (ccq \o h) \o s
    BY <2>2 DEF LinkBreaks, Exchange!LinkBreaks
  <2> HIDE DEF h
  <2>4. /\ s \in Seq(Exchange!Completion)
        /\ \A e \in Entries(s) : e.op = "none" /\ e.tag = "none"
    <3>1. f \in [1..recvPosted -> Nat]
      OBVIOUS
    <3> HIDE DEF f
    <3> QED  BY <1>2, <3>1, FlushedEntries
  <2> HIDE DEF s
  <2> DEFINE g == ccq \o h
  <2>5. /\ g \in Seq(Exchange!Completion)
        /\ Entries(g) = Entries(ccq) \cup Entries(h)
    BY <1>2, <2>1, QueueEntries
  <2> HIDE DEF g
  <2>6. /\ g \o s \in Seq(Exchange!Completion)
        /\ Entries(g \o s) = Entries(g) \cup Entries(s)
    BY <2>4, <2>5, QueueEntries
  <2>7. ccq' = g \o s
    BY <2>3 DEF g
  <2> QED  BY <2>1, <2>4, <2>5, <2>6, <2>7
<1>6. ExchangeTypes'
  BY <1>1, <1>3, <1>4, <1>5 DEF ExchangeTypes
<1>7. (HelloSign' => HelloSign) /\ (TagSign' => TagSign)
  BY <1>3, <1>4, <1>5 DEF HelloSign, TagSign
<1>8. SignsKept
  BY <1>3, <1>7 DEF SignsKept
<1> QED  BY <1>1, <1>6, <1>8, SignsSuffice

\* Setup goes on beside the exchange and takes nothing back: a connected
\* thread stays connected, with its queue pair.
LEMMA ConnectedStays ==
    ASSUME SetupInv, Next
    PROVE  /\ SomeConnected => SomeConnected'
           /\ smain = "connected" =>
                  smain' = "connected" /\ accepted' = accepted /\ qpOn' = qpOn
<1>1. TypeOK
  BY DEF SetupInv
<1>2. CASE Server \/ ServerCm
  BY <1>2 DEF Server, Listen, SeeRequest, OpenDevice, CreateQp, ReadQp,
              Accept, ServerConnected, ServerCm, TakeRequest, StoreChild,
              TakeEstablished,
       clientVars, SomeConnected
<1>3. ASSUME NEW c \in Client,
             ResolveAddr(c) \/ ClientMain(c) \/ ClientCm(c) \/ Cm(c) \/ CmFails(c)
      PROVE  /\ UNCHANGED <<smain, accepted, qpOn>>
             /\ SomeConnected => SomeConnected'
  <2>1. UNCHANGED <<smain, accepted, qpOn>>
    BY <1>3 DEF ResolveAddr, ClientMain, CreateQueues, Connect,
         ClientConnected, ClientCm, TakeAddrResolved, RecordAddr, TakeEvent,
         Cm, Resolved, DeliverRequest, DeliverReply, DeliverConfirmation,
         CmFails, ClientEventOf, ServerEventOf, serverVars
  <2>2. \A d \in Client : cmain[d] = "connected" => cmain'[d] = "connected"
    BY <1>1, <1>3 DEF ResolveAddr, ClientMain, CreateQueues, Connect,
         ClientConnected, ClientCm, TakeAddrResolved, RecordAddr, TakeEvent,
         Cm, Resolved, DeliverRequest, DeliverReply, DeliverConfirmation,
         CmFails, ClientEventOf, ServerEventOf, serverVars, TypeOK
  <2> QED  BY <2>1, <2>2 DEF SomeConnected
<1> QED  BY <1>2, <1>3 DEF Next

\* A step of the setup.
LEMMA SetupStepKeeps ==
    ASSUME SessionInv, SetupStep
    PROVE  SessionInv'
<1>1. SetupInv /\ Next /\ UNCHANGED exchangeVars
  BY DEF SessionInv, SetupStep
<1>2. SetupInv'
  BY <1>1, NextSetupInv
<1>3. ExchangeTypes'
  BY <1>1 DEF SessionInv, ExchangeTypes, exchangeVars
<1>4. /\ SomeConnected => SomeConnected'
      /\ smain = "connected" /\ Linked => smain' = "connected" /\ Linked'
      /\ smain = "connected" => smain' = "connected"
  BY <1>1, ConnectedStays DEF Linked
<1>5. HelloMeansClient' /\ SendsMeanServer' /\ TagMeansSession'
  BY <1>1, <1>4 DEF SessionInv, HelloMeansClient, SendsMeanServer,
                    TagMeansSession, exchangeVars
<1> QED  BY <1>2, <1>3, <1>5 DEF SessionInv

\* Before the connection there is no message.
LEMMA InitSessionInv == SessionInit => SessionInv
<1> SUFFICES ASSUME SessionInit PROVE SessionInv
  OBVIOUS
<1>1. SetupInv
  BY InitSetupInv DEF SessionInit
<1>2. Exchange!Flushed(0) \in Exchange!Completion
      /\ Exchange!Flushed(0).op = "none" /\ Exchange!Flushed(0).tag = "none"
  BY SessionCompletions DEF Exchange!Tag
<1> HIDE DEF Exchange!Flushed
<1>3. ExchangeTypes
  BY <1>2 DEF SessionInit, Exchange!Init, ExchangeTypes
<1>4. HelloMeansClient /\ SendsMeanServer /\ TagMeansSession
  BY <1>2 DEF SessionInit, Exchange!Init, HelloMeansClient, SendsMeanServer,
              TagMeansSession, Exchange!Region
<1> QED  BY <1>1, <1>3, <1>4 DEF SessionInv

\* Every step of the session preserves its invariant.
LEMMA NextSessionInv == SessionInv /\ [SessionNext]_sessionVars => SessionInv'
<1> SUFFICES ASSUME SessionInv, [SessionNext]_sessionVars PROVE SessionInv'
  OBVIOUS
<1>1. CASE UNCHANGED sessionVars
  <2>1. UNCHANGED setupVars /\ UNCHANGED exchangeVars
    BY <1>1 DEF sessionVars
  <2>2. ExchangeTypes'
    BY <2>1 DEF SessionInv, ExchangeTypes, exchangeVars
  <2>3. SignsKept
    BY <2>1 DEF SignsKept, HelloSign, TagSign, Entries, exchangeVars
  <2> QED  BY <2>1, <2>2, <2>3, SignsSuffice
<1> QED  BY <1>1, SetupStepKeeps, ServerGoesOnKeeps, ClientGoesOnKeeps,
            CompletionsKeep, TransferKeeps, LinkBreaksKeeps DEF SessionNext

\* The invariant of the session, for any set of clients and any wr_id.
THEOREM SessionInvariance == SessionSpec => []SessionInv
  BY InitSessionInv, NextSessionInv, PTL DEF SessionSpec

\* A client that has learnt the start buffer's address talks to a server which
\* has left its wait for the connection, with this client.
THEOREM AddressesMeanConnectionHolds == SessionSpec => []AddressesMeanConnection
<1>1. ASSUME SessionInv PROVE AddressesMeanConnection
  <2>1. SUFFICES ASSUME flag["start"]
                 PROVE  /\ smain = "connected"
                        /\ accepted \in Client /\ qpOn = accepted
                        /\ cmain[accepted] = "connected"
    BY DEF AddressesMeanConnection
  <2>2. smain = "connected" /\ Linked /\ SomeConnected /\ SetupInv
    BY <1>1, <2>1 DEF SessionInv, TagMeansSession
  <2>3. PICK c \in Client : cmain[c] = "connected"
    BY <2>2 DEF SomeConnected
  <2>4. cstate[c] = CONNECTED
    BY <2>2, <2>3, MainAfterState
  <2>5. accepted = c
    BY <2>2, <2>4 DEF SetupInv, RepliesAreAccepted, Replied
  <2> QED  BY <2>2, <2>3, <2>5 DEF Linked
<1> QED  BY <1>1, SessionInvariance, PTL

-----------------------------------------------------------------------------
(* A session is a connection setup and an exchange.                        *)

\* The exchange takes nothing from the setup: every session is a behaviour of
\* Connection, with its fairness.
THEOREM SessionSetsUp == SessionSpec => Spec
<1>1. SessionInit => Init
  BY DEF SessionInit
<1>2. [SessionNext]_sessionVars => [Next]_vars
  BY DEF SessionNext, SetupStep, ServerGoesOn, ClientGoesOn, Completions,
         Transfer, LinkBreaks, sessionVars, setupVars
<1> QED  BY <1>1, <1>2, PTL DEF SessionSpec, SessionFairness, Spec

\* The setup, the other clients and their late requests take nothing from the
\* exchange: every session starts and steps as AddrExchange does.
THEOREM SessionExchanges ==
    SessionSpec => Exchange!Init /\ [][Exchange!Next]_(Exchange!vars)
<1>1. SessionInit => Exchange!Init
  BY DEF SessionInit
<1>2. [SessionNext]_sessionVars => [Exchange!Next]_(Exchange!vars)
  <2>1. SetupStep \/ UNCHANGED sessionVars => UNCHANGED Exchange!vars
    BY DEF SetupStep, sessionVars, exchangeVars, Exchange!vars,
           Exchange!serverVars, Exchange!clientVars, Exchange!linkVars,
           Exchange!cqVars
  <2>2. ServerGoesOn \/ ClientGoesOn \/ Completions \/ Transfer \/ LinkBreaks
          => Exchange!Next
    BY DEF ServerGoesOn, ClientGoesOn, Completions, Transfer, LinkBreaks,
           Exchange!Next
  <2> QED  BY <2>1, <2>2 DEF SessionNext
<1> QED  BY <1>1, <1>2, PTL DEF SessionSpec

=============================================================================

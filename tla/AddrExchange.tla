---------------------------- MODULE AddrExchange ----------------------------
(***************************************************************************)
(* After the connection is up, the client sends its buffer's address to    *)
(* the server (the hello), and the server answers with three              *)
(* advertisements, each a send with immediate of (address, length, rkey):  *)
(*                                                                         *)
(*     1122 its start buffer, 1123 the class object, 1124 the sketch.      *)
(*                                                                         *)
(* The server fills one send buffer for all three, so each advertisement   *)
(* waits for the completion of the one before; the client receives all     *)
(* three in one receive buffer, which it posts again at the end of its     *)
(* handler (simplest_server.cpp start, init_class_recv, init_sketch_rdma;  *)
(* simplest_client.cpp start, recv_handler; both cq_threads).              *)
(*                                                                         *)
(* Completions reach the handlers as CompletionService promises.           *)
(***************************************************************************)
EXTENDS Integers, Sequences

CONSTANT WrIds    \* values an uninitialised wr_id may hold, zero among them

ASSUME WrIdsAssumption == 0 \in WrIds /\ WrIds \subseteq Nat

Region == {"start", "class", "sketch"}     \* what is advertised
Field  == {"addr", "len", "rkey"}          \* struct rdma_info

VARIABLES
    spc,          \* the server's main thread
    sendBuf,      \* the server's send_buf: the region it describes
    staged,       \* what class_send_buf holds: nothing, the object, all
    sketchReady,  \* the sketch's data_buf is initialised
    gotHello,     \* SERVER_GET_REMOTE_ADDR
    sendDone,     \* rdma_, class_ and sketch_addr_send_complete
    firstId,      \* sq_wr.wr_id of the server, never assigned
    scq, swc,     \* the server's completion queue and its ibv_wc
    cmain,        \* the client's main thread
    cpc,          \* the client's cq_thread: polling, or in recv_handler
    recvBuf,      \* the client's recv_buf
    recvPosted,   \* receives the client has posted
    info, flag,   \* remote_addr, _len, _rkey of each region and its GET_ flag
    ccq, cwc,     \* the client's completion queue and its ibv_wc
    hello,        \* the client's send
    wire,         \* the server's sends: not delivered
    unacked,      \* the server's sends: delivered, not acknowledged
    broken        \* the queue pairs are in the error state

serverVars == <<spc, sendBuf, staged, sketchReady, gotHello, sendDone, firstId>>
clientVars == <<cmain, cpc, recvBuf, recvPosted, info, flag>>
linkVars   == <<hello, wire, unacked, broken>>
cqVars     == <<scq, swc, ccq, cwc>>
vars       == <<serverVars, clientVars, linkVars, cqVars>>

Message    == [tag : Region, id : Nat]
\* A completion: of a send (id is its wr_id) or a receive (tag is its
\* immediate), successful or flushed.
Opcode     == {"none", "SEND", "RECV"}
Tag        == Region \cup {"none"}
Completion == [ok : BOOLEAN, op : Opcode, tag : Tag, id : Nat]

Completed(op, tag, id) == [ok |-> TRUE, op |-> op, tag |-> tag, id |-> id]
Flushed(id) == [ok |-> FALSE, op |-> "none", tag |-> "none", id |-> id]

TypeOK ==
    /\ spc \in {"waitHello", "waitStart", "copyObject", "copyData",
                "waitClass", "postSketch", "waitSketch", "done"}
    /\ sendBuf \in Tag
    /\ staged \in {"nothing", "object", "all"}
    /\ sketchReady \in BOOLEAN /\ gotHello \in BOOLEAN /\ broken \in BOOLEAN
    /\ sendDone \in [Region -> BOOLEAN]
    /\ firstId \in WrIds
    /\ scq \in Seq(Completion) /\ swc \in Completion
    /\ ccq \in Seq(Completion) /\ cwc \in Completion
    /\ cmain \in {"connected", "waitStart", "started"}
    /\ cpc \in {"poll", "addr", "len", "rkey", "flag", "repost"}
    /\ recvBuf \in Tag
    /\ recvPosted \in 0..2                 \* max_recv_wr
    /\ info \in [Region -> [Field -> Tag]]
    /\ flag \in [Region -> BOOLEAN]
    /\ hello \in {"none", "sent", "delivered", "acked"}
    /\ wire \in Seq(Message) /\ unacked \in Seq(Message)

Init ==
    /\ spc = "waitHello"
    /\ sendBuf = "none"
    /\ staged = "nothing" /\ sketchReady = FALSE
    /\ gotHello = FALSE /\ sendDone = [r \in Region |-> FALSE]
    /\ firstId \in WrIds
    /\ cmain = "connected" /\ cpc = "poll"
    /\ recvBuf = "none" /\ recvPosted = 1
    /\ info = [r \in Region |-> [f \in Field |-> "none"]]
    /\ flag = [r \in Region |-> FALSE]
    /\ hello = "none" /\ wire = <<>> /\ unacked = <<>> /\ broken = FALSE
    /\ scq = <<>> /\ ccq = <<>>
    /\ swc = Flushed(0) /\ cwc = Flushed(0)

-----------------------------------------------------------------------------
(* The server's main thread, start() from the wait for the client on.      *)

\* ibv_post_send of the send buffer; a queue pair in the error state flushes
\* it at once.
PostSend(tag, id) ==
    IF broken
    THEN scq' = Append(scq, Flushed(id)) /\ UNCHANGED wire
    ELSE wire' = Append(wire, [tag |-> tag, id |-> id]) /\ UNCHANGED scq

\* The advertisement of the start buffer, once the client's hello is there.
AdvertiseStart ==
    /\ spc = "waitHello" /\ gotHello
    /\ sendBuf' = "start"
    /\ PostSend("start", firstId)
    /\ spc' = "waitStart"
    /\ UNCHANGED <<staged, sketchReady, gotHello, sendDone, firstId,
                   clientVars, hello, unacked, broken, swc, ccq, cwc>>

\* Mutant: start() does not wait for the completion of the first send.
AdvertiseClass_NoWait ==
    /\ spc = "waitStart"
    /\ sendBuf' = "class"
    /\ PostSend("class", 1123)
    /\ spc' = "copyObject"
    /\ UNCHANGED <<staged, sketchReady, gotHello, sendDone, firstId,
                   clientVars, hello, unacked, broken, swc, ccq, cwc>>

\* init_class_recv advertises the class object, then copies it.
AdvertiseClass ==
    /\ spc = "waitStart" /\ sendDone["start"]
    /\ sendBuf' = "class"
    /\ PostSend("class", 1123)
    /\ spc' = "copyObject"
    /\ UNCHANGED <<staged, sketchReady, gotHello, sendDone, firstId,
                   clientVars, hello, unacked, broken, swc, ccq, cwc>>

CopyObject ==
    /\ spc = "copyObject"
    /\ staged' = "object"
    /\ spc' = "copyData"
    /\ UNCHANGED <<sendBuf, sketchReady, gotHello, sendDone, firstId,
                   clientVars, linkVars, cqVars>>

CopyData ==
    /\ spc = "copyData"
    /\ staged' = "all"
    /\ spc' = "waitClass"
    /\ UNCHANGED <<sendBuf, sketchReady, gotHello, sendDone, firstId,
                   clientVars, linkVars, cqVars>>

\* Mutant: init_sketch_rdma advertises the sketch before it initialises it.
InitSketch_Late ==
    /\ spc = "waitClass" /\ sendDone["class"]
    /\ sendBuf' = "sketch"
    /\ spc' = "postSketch"
    /\ UNCHANGED <<staged, sketchReady, gotHello, sendDone, firstId,
                   clientVars, linkVars, cqVars>>

\* init_sketch_rdma initialises the sketch, then advertises it.
InitSketch ==
    /\ spc = "waitClass" /\ sendDone["class"]
    /\ sendBuf' = "sketch"
    /\ sketchReady' = TRUE
    /\ spc' = "postSketch"
    /\ UNCHANGED <<staged, gotHello, sendDone, firstId,
                   clientVars, linkVars, cqVars>>

AdvertiseSketch ==
    /\ spc = "postSketch"
    /\ PostSend("sketch", 1124)
    /\ spc' = "waitSketch"
    /\ UNCHANGED <<sendBuf, staged, sketchReady, gotHello, sendDone, firstId,
                   clientVars, hello, unacked, broken, swc, ccq, cwc>>

FinishStart ==
    /\ spc = "waitSketch" /\ sendDone["sketch"]
    /\ spc' = "done"
    /\ UNCHANGED <<sendBuf, staged, sketchReady, gotHello, sendDone, firstId,
                   clientVars, linkVars, cqVars>>

ServerMain ==
    \/ AdvertiseStart \/ AdvertiseClass \/ CopyObject \/ CopyData
    \/ InitSketch \/ AdvertiseSketch \/ FinishStart

-----------------------------------------------------------------------------
(* The completion threads.  Neither looks at wc.status: of a flushed       *)
(* completion only wr_id is valid, and the opcode that the switch reads is *)
(* the one ibv_wc held before, or zero (a send) if the provider clears it. *)

Seen(wc, c) ==
    IF c.ok THEN {c}
    ELSE {[wc EXCEPT !.id = c.id],
          [wc EXCEPT !.id = c.id, !.op = "SEND"]}

\* Mutant: the test for the class is copied and not changed.
WrId_Copied == [start |-> 0, class |-> 1123, sketch |-> 1123]

\* The server tells its sends apart by the wr_id of the completion.
WrId == [start |-> 0, class |-> 1123, sketch |-> 1124]

ServerPoll ==
    /\ scq # <<>>
    /\ scq' = Tail(scq)
    /\ swc' \in Seen(swc, Head(scq))
    /\ gotHello' = (gotHello \/ swc'.op = "RECV")
    /\ sendDone' = [r \in Region |->
           sendDone[r] \/ (swc'.op = "SEND" /\ swc'.id = WrId[r])]
    /\ UNCHANGED <<spc, sendBuf, staged, sketchReady, firstId,
                   clientVars, linkVars, ccq, cwc>>

\* Mutant: recv_handler posts the receive again before it reads the buffer.
ClientPoll_RepostFirst ==
    /\ cpc = "poll" /\ ccq # <<>>
    /\ ccq' = Tail(ccq)
    /\ cwc' \in Seen(cwc, Head(ccq))
    /\ cpc' = IF cwc'.op = "RECV" THEN "addr" ELSE "poll"
    /\ recvPosted' = IF cwc'.op = "RECV" THEN recvPosted + 1 ELSE recvPosted
    /\ UNCHANGED <<serverVars, cmain, recvBuf, info, flag,
                   linkVars, scq, swc>>

\* Only a receive, with its immediate, moves the client: recv_handler.
ClientPoll ==
    /\ cpc = "poll" /\ ccq # <<>>
    /\ ccq' = Tail(ccq)
    /\ cwc' \in Seen(cwc, Head(ccq))
    /\ cpc' = IF cwc'.op = "RECV" THEN "addr" ELSE "poll"
    /\ UNCHANGED <<serverVars, cmain, recvBuf, recvPosted, info, flag,
                   linkVars, scq, swc>>

\* recv_handler takes the fields over one by one.
ParseField ==
    /\ cpc \in Field
    /\ info' = [info EXCEPT ![cwc.tag][cpc] = recvBuf]
    /\ cpc' = CASE cpc = "addr" -> "len"
                [] cpc = "len"  -> "rkey"
                [] cpc = "rkey" -> "flag"
    /\ UNCHANGED <<serverVars, cmain, recvBuf, recvPosted, flag,
                   linkVars, cqVars>>

SetFlag ==
    /\ cpc = "flag"
    /\ flag' = [flag EXCEPT ![cwc.tag] = TRUE]
    /\ cpc' = "repost"
    /\ UNCHANGED <<serverVars, cmain, recvBuf, recvPosted, info,
                   linkVars, cqVars>>

\* Mutant: recv_handler posts no further receive.
Repost_Missing ==
    /\ cpc = "repost"
    /\ cpc' = "poll"
    /\ UNCHANGED <<serverVars, cmain, recvBuf, recvPosted, info, flag,
                   linkVars, cqVars>>

Repost ==
    /\ cpc = "repost"
    /\ IF broken
       THEN ccq' = Append(ccq, Flushed(0)) /\ UNCHANGED recvPosted
       ELSE recvPosted' = recvPosted + 1 /\ UNCHANGED ccq
    /\ cpc' = "poll"
    /\ UNCHANGED <<serverVars, cmain, recvBuf, info, flag,
                   linkVars, scq, swc, cwc>>

ClientHandler == ParseField \/ SetFlag \/ Repost

-----------------------------------------------------------------------------
(* The client's main thread: start() from the connection on.               *)

SendHello ==
    /\ cmain = "connected"
    /\ cmain' = "waitStart"
    /\ IF broken
       THEN ccq' = Append(ccq, Flushed(0)) /\ UNCHANGED hello
       ELSE hello' = "sent" /\ UNCHANGED ccq
    /\ UNCHANGED <<serverVars, cpc, recvBuf, recvPosted, info, flag,
                   wire, unacked, broken, scq, swc, cwc>>

Started ==
    /\ cmain = "waitStart" /\ flag["start"]
    /\ cmain' = "started"
    /\ UNCHANGED <<serverVars, cpc, recvBuf, recvPosted, info, flag,
                   linkVars, cqVars>>

ClientMain == SendHello \/ Started

-----------------------------------------------------------------------------
(* The reliable connection between the two adapters.                       *)

DeliverHello ==
    /\ hello = "sent" /\ ~broken
    /\ hello' = "delivered"
    /\ scq' = Append(scq, Completed("RECV", "none", 0))
    /\ UNCHANGED <<serverVars, clientVars, wire, unacked, broken,
                   swc, ccq, cwc>>

AckHello ==
    /\ hello = "delivered" /\ ~broken
    /\ hello' = "acked"
    /\ ccq' = Append(ccq, Completed("SEND", "none", 0))
    /\ UNCHANGED <<serverVars, clientVars, wire, unacked, broken,
                   scq, swc, cwc>>

\* The send buffer is read when the message goes out; with no receive posted
\* the sender retries (rnr_retry_count 7: for ever).
Deliver ==
    /\ wire # <<>> /\ recvPosted > 0 /\ ~broken
    /\ recvBuf' = sendBuf
    /\ recvPosted' = recvPosted - 1
    /\ ccq' = Append(ccq, Completed("RECV", Head(wire).tag, 0))
    /\ wire' = Tail(wire)
    /\ unacked' = Append(unacked, Head(wire))
    /\ UNCHANGED <<serverVars, cmain, cpc, info, flag, hello, broken,
                   scq, swc, cwc>>

Ack ==
    /\ unacked # <<>> /\ ~broken
    /\ scq' = Append(scq, Completed("SEND", "none", Head(unacked).id))
    /\ unacked' = Tail(unacked)
    /\ UNCHANGED <<serverVars, clientVars, hello, wire, broken, swc, ccq, cwc>>

\* Retries are exhausted: everything posted on either side is flushed.  The
\* wr_id of a receive is not initialised either.
LinkBreaks ==
    /\ ~broken
    /\ broken' = TRUE
    /\ \E id \in WrIds :
           scq' = scq \o (IF hello \in {"none", "sent"}
                          THEN <<Flushed(id)>> ELSE <<>>)
                      \o [i \in 1..Len(unacked \o wire) |->
                             Flushed((unacked \o wire)[i].id)]
    /\ ccq' = ccq \o (IF hello \in {"sent", "delivered"}
                      THEN <<Flushed(0)>> ELSE <<>>)
                  \o [i \in 1..recvPosted |-> Flushed(0)]
    /\ wire' = <<>> /\ unacked' = <<>> /\ recvPosted' = 0
    /\ UNCHANGED <<serverVars, cmain, cpc, recvBuf, info, flag, hello,
                   swc, cwc>>

Link == DeliverHello \/ AckHello \/ Deliver \/ Ack

Next ==
    \/ ServerMain \/ ServerPoll
    \/ ClientMain \/ ClientPoll \/ ClientHandler
    \/ Link \/ LinkBreaks

\* Threads are scheduled, completions are handled (CompletionService), and
\* the adapters retry; the connection need not break.
Fairness ==
    /\ WF_vars(ServerMain) /\ WF_vars(ServerPoll)
    /\ WF_vars(ClientMain) /\ WF_vars(ClientPoll \/ ClientHandler)
    /\ WF_vars(DeliverHello) /\ WF_vars(AckHello)
    /\ WF_vars(Deliver) /\ WF_vars(Ack)

Spec == Init /\ [][Next]_vars /\ Fairness

-----------------------------------------------------------------------------
(* Properties.                                                             *)

\* A region whose GET_ flag is set is described by its own address, length
\* and rkey: no field is left over from another advertisement, although all
\* three come through one send buffer and one receive buffer, and even when
\* a flushed receive makes recv_handler run again on old contents.
InfoMatchesTag ==
    \A r \in Region : flag[r] => \A f \in Field : info[r][f] = r

\* The adapter reads send_buf when it sends, not when the send is posted: as
\* long as a send is outstanding the buffer describes its region.
SendBufStable ==
    \A i \in 1..Len(wire) : sendBuf = wire[i].tag

\* The adapter does not write recv_buf while recv_handler reads it: the
\* receive is posted again only at the end of the handler.
RecvBufStable ==
    cpc \in Field => recvBuf = cwc.tag

\* A client that knows the sketch's address finds it initialised.
SketchReadyWhenKnown == flag["sketch"] => sketchReady

\* The regions whose advertisement is posted.
Advertised ==
    CASE spc = "waitHello" -> {}
      [] spc = "waitStart" -> {"start"}
      [] spc \in {"waitSketch", "done"} -> Region
      [] OTHER -> {"start", "class"}

\* The regions whose send start() has taken for complete.
Passed ==
    CASE spc \in {"waitHello", "waitStart"}                 -> {}
      [] spc \in {"copyObject", "copyData", "waitClass"}    -> {"start"}
      [] spc \in {"postSketch", "waitSketch"}               -> {"start", "class"}
      [] spc = "done"                                       -> Region

\* While the connection is up, start() goes on only when what it has sent was
\* delivered and acknowledged: it takes the completion of no other send for
\* that of its own, although the first one has whatever wr_id the memory held.
DoneMeansDelivered ==
    ~broken =>
        \A r \in Passed :
            /\ \A i \in 1..Len(wire) : wire[i].tag # r
            /\ \A i \in 1..Len(unacked) : unacked[i].tag # r

\* A class object whose address the client knows is in class_send_buf, where
\* the sender stages it.
ClassStagedWhenKnown == flag["class"] => staged = "all"

\* With wr_id zero and a connection that holds, both programs leave start()
\* and the client learns all three addresses.
HandshakeCompletes ==
    firstId = WrId["start"] /\ []~broken =>
        <>(spc = "done" /\ cmain = "started" /\ \A r \in Region : flag[r])

\* The exchange publishes the three regions in order, each described by its
\* own fields, at most two ahead of the client, and the client learns what was
\* sent while the connection holds.
Publish == INSTANCE Publication WITH
               Order   <- <<"start", "class", "sketch">>,
               offered <- Advertised,
               known   <- [r \in Region |-> IF flag[r]
                              THEN {info[r][f] : f \in Field} ELSE {}]

ImplementsPublication == Publish!Spec

-----------------------------------------------------------------------------
(* The inductive invariant behind them.                                    *)

\* What the client received last before a region, and all it received before.
Previous == [start |-> "none", class |-> "start", sketch |-> "class"]
Before == [start |-> {}, class |-> {"start"}, sketch |-> {"start", "class"}]

\* The advertisement of a region is complete, and nothing else is under way.
Quiet(tag) ==
    wire = <<>> /\ unacked = <<>> /\ scq = <<>> /\ recvBuf = tag

\* It is in one of the places that a send passes through.
UnderWay(tag, id) ==
    \/ /\ wire = <<[tag |-> tag, id |-> id]>> /\ unacked = <<>>
       /\ scq = <<>> /\ recvBuf = Previous[tag]
    \/ /\ wire = <<>> /\ unacked = <<[tag |-> tag, id |-> id]>>
       /\ scq = <<>> /\ recvBuf = tag
    \/ /\ wire = <<>> /\ unacked = <<>>
       /\ scq = <<Completed("SEND", "none", id)>> /\ recvBuf = tag
    \/ Quiet(tag)

AwaitsHello ==
    /\ wire = <<>> /\ unacked = <<>> /\ recvBuf = "none"
    /\ scq = <<>> \/ scq = <<Completed("RECV", "none", 0)>>
    /\ \A r \in Region : ~sendDone[r]
    /\ hello \in {"none", "sent"} => scq = <<>> /\ ~gotHello
    /\ hello \in {"delivered", "acked"} => (gotHello <=> scq = <<>>)

\* While the connection holds, the server's place in start() tells what is
\* under way, and no more than one advertisement is.
OneSendUnderWay ==
    ~broken =>
      /\ spc = "waitHello" => AwaitsHello
      /\ spc # "waitHello" => gotHello /\ hello \in {"delivered", "acked"}
      /\ spc = "waitStart" =>
             /\ UnderWay("start", firstId) /\ sendBuf = "start"
             /\ \A r \in Region :
                    sendDone[r] => WrId[r] = firstId /\ Quiet("start")
      /\ spc \in {"copyObject", "copyData", "waitClass"} =>
             /\ UnderWay("class", 1123) /\ sendBuf = "class"
             /\ ~sendDone["sketch"] /\ (sendDone["class"] => Quiet("class"))
      /\ spc = "postSketch" =>
             Quiet("class") /\ ~sendDone["sketch"] /\ sendBuf = "sketch"
      /\ spc = "waitSketch" =>
             /\ UnderWay("sketch", 1124) /\ sendBuf = "sketch"
             /\ sendDone["sketch"] => Quiet("sketch")
      /\ spc = "done" => Quiet("sketch")

\* A broken link delivers no more, and the sketch is initialised in time.
NothingAfterBreak ==
    /\ broken => wire = <<>> /\ unacked = <<>> /\ recvPosted = 0
    /\ sketchReady <=> spc \in {"postSketch", "waitSketch", "done"}

\* The hello is sent once.
HelloSentOnce == cmain = "connected" => hello = "none"

NoReceive == \A i \in 1..Len(ccq) : ccq[i].op # "RECV"

\* The receive buffer is posted, or in a completion, or with recv_handler;
\* flushed completions come after the successful ones.
OneReceiveBuffer ==
    /\ \A i \in 1..Len(ccq) :
           /\ ~ccq[i].ok => broken /\ ccq[i].op = "none"
           /\ ccq[i].op = "RECV" =>
                  /\ ccq[i].tag = recvBuf /\ recvBuf \in Region
                  /\ cpc = "poll" /\ recvPosted = 0
                  /\ \A j \in 1..Len(ccq) :
                         /\ j < i => ccq[j].ok
                         /\ ccq[j].op = "RECV" => j = i
    /\ recvPosted > 0 => recvPosted = 1 /\ cpc = "poll" /\ NoReceive
    /\ cpc # "poll" => cwc.op = "RECV"
    /\ cwc.op = "RECV" /\ NoReceive => cwc.tag = recvBuf
    /\ cwc.op = "RECV" => recvBuf \in Region

Known == {r \in Region : flag[r]}

\* The client knows the regions received before the last, and the last unless
\* its completion, or recv_handler on it, is still ahead.
KnownInOrder ==
    /\ recvBuf = "none" => Known = {}
    /\ recvBuf \in Region =>
           /\ recvBuf \in Advertised
           /\ Known \ {recvBuf} = Before[recvBuf]
           /\ recvBuf \notin Known =>
                  ~NoReceive \/ cpc \in Field \cup {"flag"}

\* recv_handler has taken over the fields before its place.
ParsedSoFar ==
    /\ cpc \in {"len", "rkey", "flag"} => info[recvBuf]["addr"] = recvBuf
    /\ cpc \in {"rkey", "flag"} => info[recvBuf]["len"] = recvBuf
    /\ cpc = "flag" => info[recvBuf]["rkey"] = recvBuf

IInv ==
    /\ TypeOK /\ OneSendUnderWay /\ NothingAfterBreak /\ HelloSentOnce
    /\ OneReceiveBuffer /\ KnownInOrder /\ ParsedSoFar /\ InfoMatchesTag

=============================================================================

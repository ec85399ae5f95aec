------------------------- MODULE AddrExchangeProofs -------------------------
(***************************************************************************)
(* Proofs about AddrExchange, for every value that the uninitialised wr_id *)
(* may hold: its invariant is inductive and implies the safety properties  *)
(* of the exchange, and every step is a step of Publication or leaves it   *)
(* unchanged.                                                              *)
(***************************************************************************)
EXTENDS AddrExchange, TLAPS, SequenceTheorems

-----------------------------------------------------------------------------
(* Completions and the sequences of them.                                  *)

\* A function on 1..n is a sequence of length n.
LEMMA FunctionIsSequence ==
    ASSUME NEW S, NEW n \in Nat, NEW f \in [1..n -> S]
    PROVE  f \in Seq(S) /\ Len(f) = n
<1>1. f \in Seq(S)
  BY SeqDef
<1>2. DOMAIN f = 1..n /\ DOMAIN f = 1..Len(f) /\ Len(f) \in Nat
  BY <1>1, LenProperties
<1> QED  BY <1>1, <1>2

\* A sequence of one element.
LEMMA OneElement ==
    ASSUME NEW S, NEW x \in S
    PROVE  /\ <<x>> \in Seq(S) /\ Len(<<x>>) = 1 /\ <<x>> # <<>>
           /\ Append(<<>>, x) = <<x>>
           /\ Head(<<x>>) = x /\ Tail(<<x>>) = <<>>
           /\ <<x>>[1] = x
  OBVIOUS

\* Completions of a send and of a receive, and flushed ones, are completions.
LEMMA CompletionType ==
    ASSUME NEW id \in Nat, NEW tag \in Tag
    PROVE  /\ Flushed(id) \in Completion
           /\ Completed("SEND", "none", id) \in Completion
           /\ Completed("RECV", tag, id) \in Completion
           /\ [tag |-> tag, id |-> id].id = id
           /\ tag \in Region => [tag |-> tag, id |-> id] \in Message
  BY DEF Completion, Completed, Flushed, Opcode, Tag, Message

\* What a thread reads of a completion is a completion.
LEMMA SeenType ==
    ASSUME NEW wc \in Completion, NEW c \in Completion, NEW d \in Seen(wc, c)
    PROVE  d \in Completion
  BY DEF Seen, Completion, Opcode

\* One flushed completion, and none.
LEMMA FlushedElement ==
    ASSUME NEW id \in Nat
    PROVE  /\ <<Flushed(id)>> \in Seq(Completion)
           /\ \A i \in 1..Len(<<Flushed(id)>>) : <<Flushed(id)>>[i] = Flushed(id)
           /\ <<>> \in Seq(Completion)
           /\ \A i \in 1..Len(<<>>) : <<>>[i] = Flushed(id)
<1>1. Flushed(id) \in Completion
  BY CompletionType DEF Tag
<1> HIDE DEF Flushed
<1> QED  BY <1>1

\* The receives that a lost link flushes.
LEMMA FlushedReceives ==
    ASSUME NEW n \in Nat
    PROVE  LET s == [i \in 1..n |-> Flushed(0)]
           IN  /\ s \in Seq(Completion) /\ Len(s) = n
               /\ \A i \in 1..Len(s) : s[i] = Flushed(0)
<1> DEFINE s == [i \in 1..n |-> Flushed(0)]
<1>1. Flushed(0) \in Completion
  BY CompletionType DEF Tag
<1>2. s \in [1..n -> Completion]
  BY <1>1
<1>3. s \in Seq(Completion) /\ Len(s) = n
  BY <1>2, FunctionIsSequence
<1> QED  BY <1>3

\* The sends that it flushes.
LEMMA FlushedSends ==
    ASSUME NEW q \in Seq(Message)
    PROVE  [i \in 1..Len(q) |-> Flushed(q[i].id)] \in Seq(Completion)
<1>1. Len(q) \in Nat /\ \A i \in 1..Len(q) : q[i] \in Message
  BY LenProperties
<1>2. \A i \in 1..Len(q) : Flushed(q[i].id) \in Completion
  BY <1>1 DEF Message, Flushed, Completion, Opcode, Tag
<1>3. [i \in 1..Len(q) |-> Flushed(q[i].id)] \in [1..Len(q) -> Completion]
  BY <1>2
<1> QED  BY <1>1, <1>3, FunctionIsSequence

-----------------------------------------------------------------------------
(* Type correctness.                                                       *)

\* ibv_post_send posts a send or has it flushed.
LEMMA PostSendType ==
    ASSUME TypeOK, NEW tag \in Region, NEW id \in Nat, PostSend(tag, id)
    PROVE  scq' \in Seq(Completion) /\ wire' \in Seq(Message)
<1>1. [tag |-> tag, id |-> id] \in Message /\ Flushed(id) \in Completion
  BY CompletionType DEF Tag
<1>2. scq \in Seq(Completion) /\ wire \in Seq(Message)
  BY DEF TypeOK
<1>3. /\ Append(scq, Flushed(id)) \in Seq(Completion)
      /\ Append(wire, [tag |-> tag, id |-> id]) \in Seq(Message)
  BY <1>1, <1>2, AppendProperties
<1> QED  BY <1>2, <1>3 DEF PostSend

\* A step of the server's main thread.
LEMMA ServerMainType ==
    ASSUME TypeOK, ServerMain
    PROVE  TypeOK'
<1> USE DEF clientVars, linkVars, cqVars
<1>1. firstId \in Nat /\ 1123 \in Nat /\ 1124 \in Nat
  BY WrIdsAssumption DEF TypeOK
<1>2. CASE AdvertiseStart
  <2>1. scq' \in Seq(Completion) /\ wire' \in Seq(Message)
    BY <1>1, <1>2, PostSendType DEF AdvertiseStart, Region
  <2> QED  BY <1>2, <2>1 DEF AdvertiseStart, TypeOK, Tag, Region
<1>3. CASE AdvertiseClass
  <2>1. scq' \in Seq(Completion) /\ wire' \in Seq(Message)
    BY <1>1, <1>3, PostSendType DEF AdvertiseClass, Region
  <2> QED  BY <1>3, <2>1 DEF AdvertiseClass, TypeOK, Tag, Region
<1>4. CASE CopyObject
  BY <1>4 DEF CopyObject, TypeOK
<1>5. CASE CopyData
  BY <1>5 DEF CopyData, TypeOK
<1>6. CASE InitSketch
  BY <1>6 DEF InitSketch, TypeOK, Tag, Region
<1>7. CASE AdvertiseSketch
  <2>1. scq' \in Seq(Completion) /\ wire' \in Seq(Message)
    BY <1>1, <1>7, PostSendType DEF AdvertiseSketch, Region
  <2> QED  BY <1>7, <2>1 DEF AdvertiseSketch, TypeOK
<1>8. CASE FinishStart
  BY <1>8 DEF FinishStart, TypeOK
<1> QED  BY <1>2, <1>3, <1>4, <1>5, <1>6, <1>7, <1>8 DEF ServerMain

\* A completion polled by either thread.
LEMMA PollType ==
    ASSUME TypeOK, ServerPoll \/ ClientPoll
    PROVE  TypeOK'
<1> USE DEF serverVars, clientVars, linkVars
<1>1. CASE ServerPoll
  <2>1. scq' \in Seq(Completion) /\ Head(scq) \in Completion
    BY <1>1, HeadTailProperties DEF ServerPoll, TypeOK
  <2>2. swc' \in Completion
    BY <1>1, <2>1, SeenType DEF ServerPoll, TypeOK
  <2>3. gotHello' \in BOOLEAN /\ sendDone' \in [Region -> BOOLEAN]
    BY <1>1 DEF ServerPoll, TypeOK
  <2> QED  BY <1>1, <2>1, <2>2, <2>3 DEF ServerPoll, TypeOK
<1>2. CASE ClientPoll
  <2>1. ccq' \in Seq(Completion) /\ Head(ccq) \in Completion
    BY <1>2, HeadTailProperties DEF ClientPoll, TypeOK
  <2>2. cwc' \in Completion
    BY <1>2, <2>1, SeenType DEF ClientPoll, TypeOK
  <2> QED  BY <1>2, <2>1, <2>2 DEF ClientPoll, TypeOK
<1> QED  BY <1>1, <1>2

\* A completion, or a flushed one, added to the client's queue.
LEMMA ClientQueueType ==
    ASSUME TypeOK, NEW e \in Completion
    PROVE  Append(ccq, e) \in Seq(Completion)
<1>1. ccq \in Seq(Completion)
  BY DEF TypeOK
<1> QED  BY <1>1, AppendProperties

\* A step of the client's main thread, or of recv_handler.
LEMMA ClientType ==
    ASSUME IInv, ClientMain \/ ClientHandler
    PROVE  TypeOK'
<1> USE DEF serverVars, linkVars, cqVars
<1>0. TypeOK /\ OneReceiveBuffer
  BY DEF IInv
<1>1. Append(ccq, Flushed(0)) \in Seq(Completion)
  BY <1>0, CompletionType, ClientQueueType DEF Tag
<1>2. CASE SendHello
  <2>1. ccq' \in Seq(Completion)
    BY <1>0, <1>1, <1>2 DEF SendHello, TypeOK
  <2> QED  BY <1>0, <1>2, <2>1 DEF SendHello, TypeOK
<1>3. CASE Started
  BY <1>0, <1>3 DEF Started, TypeOK
<1>4. CASE ParseField
  <2>1. cpc' \in {"len", "rkey", "flag"}
    BY <1>4 DEF ParseField, Field
  <2>2. info' \in [Region -> [Field -> Tag]]
    BY <1>0, <1>4 DEF ParseField, TypeOK
  <2>3. UNCHANGED <<spc, sendBuf, staged, sketchReady, gotHello, sendDone,
                    firstId, cmain, recvBuf, recvPosted, flag, hello, wire,
                    unacked, broken, scq, swc, ccq, cwc>>
    BY <1>4 DEF ParseField
  <2> QED  BY <1>0, <2>1, <2>2, <2>3 DEF TypeOK
<1>5. CASE SetFlag
  <2>1. cpc' \in {"repost"} /\ flag' \in [Region -> BOOLEAN]
    BY <1>0, <1>5 DEF SetFlag, TypeOK
  <2>2. UNCHANGED <<spc, sendBuf, staged, sketchReady, gotHello, sendDone,
                    firstId, cmain, recvBuf, recvPosted, info, hello, wire,
                    unacked, broken, scq, swc, ccq, cwc>>
    BY <1>5 DEF SetFlag
  <2> QED  BY <1>0, <2>1, <2>2 DEF TypeOK
<1>6. CASE Repost
  <2>1. ccq' \in Seq(Completion)
    BY <1>0, <1>1, <1>6 DEF Repost, TypeOK
  <2>2. recvPosted' \in 0..2
    BY <1>0, <1>6 DEF Repost, TypeOK, OneReceiveBuffer
  <2> QED  BY <1>0, <1>6, <2>1, <2>2 DEF Repost, TypeOK
<1> QED  BY <1>2, <1>3, <1>4, <1>5, <1>6 DEF ClientMain, ClientHandler

\* A step of the adapters.
LEMMA LinkType ==
    ASSUME TypeOK, Link
    PROVE  TypeOK'
<1> USE DEF serverVars, clientVars
<1>1. /\ scq \in Seq(Completion) /\ ccq \in Seq(Completion)
      /\ wire \in Seq(Message) /\ unacked \in Seq(Message)
  BY DEF TypeOK
<1>2. CASE DeliverHello
  <2>1. scq' \in Seq(Completion)
    BY <1>1, <1>2, CompletionType, AppendProperties DEF DeliverHello, Tag
  <2> QED  BY <1>2, <2>1 DEF DeliverHello, TypeOK
<1>3. CASE AckHello
  <2>1. ccq' \in Seq(Completion)
    BY <1>3, CompletionType, ClientQueueType DEF AckHello, Tag
  <2> QED  BY <1>3, <2>1 DEF AckHello, TypeOK
<1>4. CASE Deliver
  <2>1. Head(wire) \in Message /\ Tail(wire) \in Seq(Message)
    BY <1>1, <1>4, HeadTailProperties DEF Deliver
  <2>2. Head(wire).tag \in Tag
    BY <2>1 DEF Message, Tag
  <2>3. ccq' \in Seq(Completion)
    BY <1>4, <2>2, CompletionType, ClientQueueType DEF Deliver
  <2>4. unacked' \in Seq(Message)
    BY <1>1, <1>4, <2>1, AppendProperties DEF Deliver
  <2>5. recvPosted' \in 0..2
    BY <1>4 DEF Deliver, TypeOK
  <2> QED  BY <1>4, <2>1, <2>3, <2>4, <2>5 DEF Deliver, TypeOK
<1>5. CASE Ack
  <2>1. Head(unacked) \in Message /\ Tail(unacked) \in Seq(Message)
    BY <1>1, <1>5, HeadTailProperties DEF Ack
  <2>2. Head(unacked).id \in Nat
    BY <2>1 DEF Message
  <2>3. scq' \in Seq(Completion)
    BY <1>1, <1>5, <2>2, CompletionType, AppendProperties DEF Ack, Tag
  <2> QED  BY <1>5, <2>1, <2>3 DEF Ack, TypeOK
<1> QED  BY <1>2, <1>3, <1>4, <1>5 DEF Link

\* What a lost link appends to the client's queue: the flushed hello, if it
\* was outstanding, and the flushed receives.
LEMMA ClientFlush ==
    ASSUME TypeOK, LinkBreaks
    PROVE  \E s \in Seq(Completion) :
               /\ ccq' = ccq \o s
               /\ \A i \in 1..Len(s) : s[i] = Flushed(0)
<1> DEFINE h == IF hello \in {"sent", "delivered"} THEN <<Flushed(0)>>
                                                  ELSE <<>>
           f == [i \in 1..recvPosted |-> Flushed(0)]
<1>1. recvPosted \in Nat /\ ccq \in Seq(Completion)
  BY DEF TypeOK
<1>2. f \in Seq(Completion) /\ \A i \in 1..Len(f) : f[i] = Flushed(0)
  BY <1>1, FlushedReceives
<1>3. h \in Seq(Completion) /\ \A i \in 1..Len(h) : h[i] = Flushed(0)
  BY FlushedElement
<1>4. ccq' = (ccq \o h) \o f
  BY DEF LinkBreaks
<1> HIDE DEF h, f
<1>5. ccq' = ccq \o (h \o f)
  <2>1. (ccq \o h) \o f = ccq \o (h \o f)
    <3>1. /\ ccq \in Seq(Completion)
          /\ h \in Seq(Completion)
          /\ f \in Seq(Completion)
      BY <1>1, <1>2, <1>3
    <3>2. \A s, t, u \in Seq(Completion) : (s \o t) \o u = s \o (t \o u)
      BY ConcatAssociative
    <3> QED  BY <3>1, <3>2, Zenon
  <2> QED  BY <1>4, <2>1
<1>6. h \o f \in Seq(Completion)
  BY <1>2, <1>3, ConcatProperties
<1>7. \A i \in 1..Len(h \o f) : (h \o f)[i] = Flushed(0)
  BY <1>2, <1>3
<1> QED  BY <1>5, <1>6, <1>7

\* The loss of the link.
LEMMA LinkBreaksType ==
    ASSUME TypeOK, LinkBreaks
    PROVE  TypeOK'
<1> USE DEF serverVars
<1>1. ccq' \in Seq(Completion)
  <2>1. PICK s \in Seq(Completion) : ccq' = ccq \o s
    BY ClientFlush
  <2>2. ccq \in Seq(Completion)
    BY DEF TypeOK
  <2> QED  BY <2>1, <2>2, ConcatProperties
<1>2. scq' \in Seq(Completion)
  <2>1. PICK id \in WrIds :
            scq' = scq \o (IF hello \in {"none", "sent"}
                           THEN <<Flushed(id)>> ELSE <<>>)
                       \o [i \in 1..Len(unacked \o wire) |->
                              Flushed((unacked \o wire)[i].id)]
    BY DEF LinkBreaks
  <2> DEFINE h == IF hello \in {"none", "sent"} THEN <<Flushed(id)>> ELSE <<>>
             q == unacked \o wire
             f == [i \in 1..Len(q) |-> Flushed(q[i].id)]
  <2>2. h \in Seq(Completion)
    <3>1. id \in Nat
      BY WrIdsAssumption
    <3> QED  BY <3>1, FlushedElement
  <2>3. q \in Seq(Message)
    BY ConcatProperties DEF TypeOK
  <2>4. scq' = (scq \o h) \o f
    BY <2>1
  <2> HIDE DEF q, h
  <2>5. f \in Seq(Completion)
    BY <2>3, FlushedSends
  <2>6. scq \in Seq(Completion)
    BY DEF TypeOK
  <2> HIDE DEF f
  <2>7. scq \o h \in Seq(Completion)
    BY <2>2, <2>6, ConcatProperties
  <2> QED  BY <2>4, <2>5, <2>7, ConcatProperties
<1>3. wire' \in Seq(Message) /\ unacked' \in Seq(Message)
  BY DEF LinkBreaks
<1>4. /\ broken' \in BOOLEAN /\ recvPosted' \in 0..2
      /\ UNCHANGED <<spc, sendBuf, staged, sketchReady, gotHello, sendDone,
                     firstId, cmain, cpc, recvBuf, info, flag, hello, swc,
                     cwc>>
  BY DEF LinkBreaks
<1> QED  BY <1>1, <1>2, <1>3, <1>4 DEF TypeOK

-----------------------------------------------------------------------------
(* What is on the wire.                                                    *)

\* The regions whose advertisement is posted include those before.
LEMMA AdvertisedInOrder ==
    ASSUME NEW r \in Advertised
    PROVE  r \in Region /\ Before[r] \subseteq Advertised
  BY DEF Advertised, Before, Region

\* A message on the wire is the only one, the send buffer describes its region
\* and the client has received the region before.
LEMMA OnTheWire ==
    ASSUME TypeOK, OneSendUnderWay, ~broken, wire # <<>>
    PROVE  \E id \in Nat : /\ wire = <<[tag |-> sendBuf, id |-> id]>>
                          /\ sendBuf \in Advertised
                          /\ recvBuf = Previous[sendBuf]
<1> firstId \in Nat /\ 1123 \in Nat /\ 1124 \in Nat
  BY WrIdsAssumption DEF TypeOK
<1>1. CASE spc \in {"waitHello", "postSketch", "done"}
  BY <1>1 DEF OneSendUnderWay, AwaitsHello, Quiet
<1>2. CASE spc = "waitStart"
  BY <1>2 DEF OneSendUnderWay, UnderWay, Quiet, Advertised
<1>3. CASE spc \in {"copyObject", "copyData", "waitClass"}
  BY <1>3 DEF OneSendUnderWay, UnderWay, Quiet, Advertised
<1>4. CASE spc = "waitSketch"
  BY <1>4 DEF OneSendUnderWay, UnderWay, Quiet, Advertised, Region
<1> QED  BY <1>1, <1>2, <1>3, <1>4 DEF TypeOK

-----------------------------------------------------------------------------
(* The client's half of the invariant.                                     *)

ClientSide == OneReceiveBuffer /\ KnownInOrder /\ ParsedSoFar /\ InfoMatchesTag

clientSide == <<cpc, recvBuf, recvPosted, info, flag, ccq, cwc, broken>>

\* A step that the client does not see.
LEMMA ClientSideUnchanged ==
    ASSUME IInv, UNCHANGED clientSide, Advertised \subseteq Advertised'
    PROVE  ClientSide'
<1> USE DEF clientSide
<1>1. OneReceiveBuffer'
  BY DEF IInv, OneReceiveBuffer, NoReceive
<1>2. KnownInOrder'
  BY DEF IInv, KnownInOrder, NoReceive, Known
<1>3. ParsedSoFar' /\ InfoMatchesTag'
  BY DEF IInv, ParsedSoFar, InfoMatchesTag
<1> QED  BY <1>1, <1>2, <1>3 DEF ClientSide

\* Completions other than receives, added to the client's queue.
LEMMA OthersAppended ==
    ASSUME IInv,
           NEW s \in Seq(Completion), ccq' = ccq \o s,
           \A i \in 1..Len(s) : /\ s[i].op # "RECV"
                                /\ ~s[i].ok => broken' /\ s[i].op = "none",
           broken => broken',
           recvPosted' \in {0, recvPosted},
           UNCHANGED <<cpc, recvBuf, info, flag, cwc>>,
           Advertised' = Advertised
    PROVE  ClientSide'
<1>1. ccq \in Seq(Completion) /\ recvPosted \in Nat
  BY DEF IInv, TypeOK
<1>2. /\ Len(ccq) \in Nat /\ Len(s) \in Nat
      /\ Len(ccq') = Len(ccq) + Len(s)
      /\ \A i \in 1..Len(ccq') :
             ccq'[i] = IF i <= Len(ccq) THEN ccq[i] ELSE s[i - Len(ccq)]
  BY <1>1, ConcatProperties, LenProperties
<1>3. \A i \in 1..Len(ccq') :
          \/ i \in 1..Len(ccq) /\ ccq'[i] = ccq[i]
          \/ /\ i \notin 1..Len(ccq) /\ ccq'[i].op # "RECV"
             /\ ~ccq'[i].ok => broken' /\ ccq'[i].op = "none"
  <2> TAKE i \in 1..Len(ccq')
  <2>1. CASE i <= Len(ccq)
    BY <1>2, <2>1
  <2>2. CASE i > Len(ccq)
    <3>1. i - Len(ccq) \in 1..Len(s)
      BY <1>2, <2>2
    <3> QED  BY <1>2, <2>2, <3>1
  <2> QED  BY <1>2, <2>1, <2>2
<1>4. \A i \in 1..Len(ccq) : i \in 1..Len(ccq') /\ ccq'[i] = ccq[i]
  BY <1>2
<1>5. NoReceive' <=> NoReceive
  BY <1>3, <1>4 DEF NoReceive
<1>6. OneReceiveBuffer
  BY DEF IInv
<1>7. OneReceiveBuffer'
  <2>1. ASSUME NEW i \in 1..Len(ccq')
        PROVE  /\ ~ccq'[i].ok => broken' /\ ccq'[i].op = "none"
               /\ ccq'[i].op = "RECV" =>
                      /\ ccq'[i].tag = recvBuf' /\ recvBuf' \in Region
                      /\ cpc' = "poll" /\ recvPosted' = 0
                      /\ \A j \in 1..Len(ccq') :
                             /\ j < i => ccq'[j].ok
                             /\ ccq'[j].op = "RECV" => j = i
    <3>1. CASE i \notin 1..Len(ccq)
      BY <1>3, <2>1, <3>1
    <3>2. CASE i \in 1..Len(ccq)
      <4>1. ccq'[i] = ccq[i]
        BY <1>4, <3>2
      <4>2. ~ccq[i].ok => broken' /\ ccq[i].op = "none"
        BY <1>6, <3>2 DEF OneReceiveBuffer
      <4>3. ASSUME ccq[i].op = "RECV"
            PROVE  /\ ccq[i].tag = recvBuf' /\ recvBuf' \in Region
                   /\ cpc' = "poll" /\ recvPosted' = 0
        BY <1>6, <3>2, <4>3 DEF OneReceiveBuffer
      <4>4. ASSUME ccq[i].op = "RECV", NEW j \in 1..Len(ccq')
            PROVE  /\ j < i => ccq'[j].ok
                   /\ ccq'[j].op = "RECV" => j = i
        <5>1. CASE j \in 1..Len(ccq)
          BY <1>4, <1>6, <3>2, <4>4, <5>1 DEF OneReceiveBuffer
        <5>2. CASE j \notin 1..Len(ccq)
          BY <1>2, <1>3, <3>2, <5>2
        <5> QED  BY <5>1, <5>2
      <4> QED  BY <4>1, <4>2, <4>3, <4>4
    <3> QED  BY <3>1, <3>2
  <2>2. recvPosted' > 0 => recvPosted' = 1 /\ cpc' = "poll" /\ NoReceive'
    BY <1>1, <1>5, <1>6 DEF OneReceiveBuffer
  <2>3. /\ cpc' # "poll" => cwc'.op = "RECV"
        /\ cwc'.op = "RECV" /\ NoReceive' => cwc'.tag = recvBuf'
        /\ cwc'.op = "RECV" => recvBuf' \in Region
    BY <1>5, <1>6 DEF OneReceiveBuffer
  <2> QED  BY <2>1, <2>2, <2>3 DEF OneReceiveBuffer
<1>8. KnownInOrder'
  <2>1. Known' = Known
    BY DEF Known
  <2> QED  BY <1>5, <2>1 DEF IInv, KnownInOrder
<1>9. ParsedSoFar' /\ InfoMatchesTag'
  BY DEF IInv, ParsedSoFar, InfoMatchesTag
<1> QED  BY <1>7, <1>8, <1>9 DEF ClientSide

\* One completion other than a receive.
LEMMA OtherAppended ==
    ASSUME IInv,
           NEW e \in Completion, ccq' = Append(ccq, e),
           e.op # "RECV", ~e.ok => broken' /\ e.op = "none",
           UNCHANGED <<cpc, recvBuf, recvPosted, info, flag, cwc, broken>>,
           Advertised' = Advertised
    PROVE  ClientSide'
<1>1. <<e>> \in Seq(Completion) /\ ccq \in Seq(Completion)
  BY DEF IInv, TypeOK
<1>2. ccq' = ccq \o <<e>>
  BY <1>1, AppendIsConcat
<1>3. \A i \in 1..Len(<<e>>) : <<e>>[i] = e
  OBVIOUS
<1>4. recvPosted' \in {0, recvPosted}
  OBVIOUS
<1> QED  BY <1>1, <1>2, <1>3, <1>4, OthersAppended

\* A message arrives in the receive buffer, which nobody reads: the client
\* has handled the message before.
LEMMA DeliverClientSide ==
    ASSUME IInv, Deliver
    PROVE  ClientSide'
<1>1. /\ OneReceiveBuffer /\ OneSendUnderWay /\ KnownInOrder
      /\ ccq \in Seq(Completion) /\ wire # <<>> /\ ~broken /\ recvPosted > 0
  BY DEF IInv, TypeOK, Deliver
<1>2. PICK tag \in Region, id \in Nat :
          /\ wire = <<[tag |-> tag, id |-> id]>> /\ recvBuf = Previous[tag]
          /\ sendBuf = tag /\ tag \in Advertised
  BY <1>1, OnTheWire, AdvertisedInOrder DEF IInv
<1>3. Head(wire).tag = tag
  BY <1>2
<1> DEFINE e == Completed("RECV", tag, 0)
<1>4. e \in Completion /\ e.ok /\ e.op = "RECV" /\ e.tag = tag
  BY CompletionType DEF Completed, Tag
<1>5. ccq' = Append(ccq, e) /\ recvBuf' = tag /\ recvPosted' = 0
  BY <1>1, <1>2, <1>3 DEF Deliver, OneReceiveBuffer
<1>6. /\ UNCHANGED <<cpc, info, flag, cwc, broken>> /\ Advertised' = Advertised
      /\ cpc = "poll" /\ NoReceive
  BY <1>1 DEF Deliver, OneReceiveBuffer, serverVars, Advertised
<1> HIDE DEF e
<1>7. /\ Len(ccq) \in Nat /\ Len(ccq') = Len(ccq) + 1
      /\ ccq'[Len(ccq')] = e
      /\ \A i \in 1..Len(ccq) : ccq'[i] = ccq[i]
  BY <1>1, <1>4, <1>5, AppendProperties
<1>8. \A i \in 1..Len(ccq') :
          \/ i = Len(ccq') /\ ccq'[i] = e
          \/ i < Len(ccq') /\ i \in 1..Len(ccq) /\ ccq'[i] = ccq[i]
  BY <1>7
<1>9. \A i \in 1..Len(ccq) : ccq[i].op # "RECV" /\ ccq[i].ok
  BY <1>1, <1>6 DEF NoReceive, OneReceiveBuffer, IInv, TypeOK, Completion
<1>10. ~NoReceive'
  <2>1. Len(ccq') \in 1..Len(ccq')
    BY <1>7
  <2> QED  BY <1>4, <1>7, <2>1 DEF NoReceive
<1>11. OneReceiveBuffer'
  <2>1. \A i \in 1..Len(ccq') : ccq'[i].ok
    BY <1>4, <1>8, <1>9
  <2>2. \A i \in 1..Len(ccq') :
            ccq'[i].op = "RECV" => i = Len(ccq') /\ ccq'[i].tag = tag
    BY <1>4, <1>8, <1>9
  <2> QED  BY <1>1, <1>2, <1>5, <1>6, <1>10, <2>1, <2>2 DEF OneReceiveBuffer
<1>12. KnownInOrder'
  <2>1. Known' = Known /\ Known \subseteq Region
    BY <1>6 DEF Known
  <2>2. recvBuf \in Region => recvBuf \in Known
    BY <1>1, <1>6 DEF KnownInOrder, Field
  <2>3. Known = Before[tag]
    <3>1. CASE tag = "start"
      BY <1>1, <1>2, <3>1 DEF KnownInOrder, Previous, Before
    <3>2. CASE tag = "class"
      <4>1. recvBuf = "start" /\ recvBuf \in Region /\ Before["start"] = {}
        BY <1>2, <3>2 DEF Previous, Before, Region
      <4>2. Known \ {"start"} = {} /\ "start" \in Known
        BY <1>1, <2>2, <4>1 DEF KnownInOrder
      <4>3. Known = {"start"}
        BY <4>2
      <4> QED  BY <3>2, <4>3 DEF Before
    <3>3. CASE tag = "sketch"
      <4>1. /\ recvBuf = "class" /\ recvBuf \in Region
            /\ Before["class"] = {"start"}
        BY <1>2, <3>3 DEF Previous, Before, Region
      <4>2. Known \ {"class"} = {"start"} /\ "class" \in Known
        BY <1>1, <2>2, <4>1 DEF KnownInOrder
      <4>3. Known = {"start", "class"}
        BY <4>2
      <4> QED  BY <3>3, <4>3 DEF Before
    <3> QED  BY <3>1, <3>2, <3>3 DEF Region
  <2>4. tag \notin Before[tag] /\ tag # "none"
    BY <1>2 DEF Before, Region
  <2> QED  BY <1>2, <1>5, <1>6, <1>10, <2>1, <2>3, <2>4 DEF KnownInOrder
<1>13. ParsedSoFar' /\ InfoMatchesTag'
  BY <1>6 DEF IInv, ParsedSoFar, InfoMatchesTag
<1> QED  BY <1>11, <1>12, <1>13 DEF ClientSide

\* The client's thread polls: with a receive, recv_handler begins; with a
\* flushed one it may begin again, on the contents that it has handled.
LEMMA ClientPollClientSide ==
    ASSUME IInv, ClientPoll
    PROVE  ClientSide'
<1>1. /\ OneReceiveBuffer /\ KnownInOrder /\ cwc \in Completion
      /\ ccq \in Seq(Completion) /\ ccq # <<>> /\ cpc = "poll"
  BY DEF IInv, TypeOK, ClientPoll
<1>2. UNCHANGED <<recvBuf, recvPosted, info, flag, broken>>
      /\ Advertised' = Advertised
  BY DEF ClientPoll, serverVars, linkVars, Advertised
<1>3. /\ Len(ccq) \in Nat \ {0} /\ Len(ccq') = Len(ccq) - 1
      /\ Head(ccq) = ccq[1] /\ ccq[1] \in Completion
      /\ \A i \in 1..Len(ccq') : ccq'[i] = ccq[i + 1]
  BY <1>1, HeadTailProperties, EmptySeq DEF ClientPoll
<1>4. \A i \in 1..Len(ccq') : i + 1 \in 1..Len(ccq) /\ ccq'[i] = ccq[i + 1]
  BY <1>3
<1>5. 1 \in 1..Len(ccq)
  BY <1>3
<1>6. CASE ccq[1].op = "RECV"
  <2>1. /\ cwc' = ccq[1] /\ cpc' = "addr"
        /\ ccq[1].tag = recvBuf /\ recvBuf \in Region /\ recvPosted = 0
    BY <1>1, <1>3, <1>5, <1>6 DEF ClientPoll, Seen, OneReceiveBuffer
  <2>2. NoReceive'
    BY <1>1, <1>3, <1>4, <1>5, <1>6 DEF OneReceiveBuffer, NoReceive
  <2>3. OneReceiveBuffer'
    BY <1>1, <1>2, <1>4, <1>6, <2>1, <2>2 DEF OneReceiveBuffer, NoReceive
  <2>4. KnownInOrder'
    BY <1>1, <1>2, <2>1 DEF KnownInOrder, Known, Field
  <2>5. ParsedSoFar' /\ InfoMatchesTag'
    BY <1>2, <2>1 DEF IInv, ParsedSoFar, InfoMatchesTag
  <2> QED  BY <2>3, <2>4, <2>5 DEF ClientSide
<1>7. CASE ccq[1].op # "RECV"
  <2>1. NoReceive' <=> NoReceive
    <3>1. ASSUME NoReceive PROVE NoReceive'
      BY <1>4, <3>1 DEF NoReceive
    <3>2. ASSUME NEW i \in 1..Len(ccq), ccq[i].op = "RECV"
          PROVE  i - 1 \in 1..Len(ccq') /\ ccq'[i - 1] = ccq[i]
      BY <1>3, <1>7, <3>2
    <3>3. ASSUME NoReceive' PROVE NoReceive
      BY <3>2, <3>3 DEF NoReceive
    <3> QED  BY <3>1, <3>3
  <2>2. cwc'.op = "RECV" =>
            /\ cwc.op = "RECV" /\ cwc'.tag = cwc.tag
            /\ NoReceive /\ recvPosted = 0
    <3>1. CASE ccq[1].ok
      BY <1>3, <1>7, <3>1 DEF ClientPoll, Seen
    <3>2. CASE ~ccq[1].ok
      <4>1. cwc'.op = "RECV" => cwc.op = "RECV" /\ cwc'.tag = cwc.tag
        BY <1>1, <1>3, <3>2 DEF ClientPoll, Seen, Completion
      <4>2. \A i \in 1..Len(ccq) : i > 1 \/ i = 1
        BY <1>3
      <4>3. NoReceive
        BY <1>1, <1>5, <1>7, <3>2, <4>2 DEF OneReceiveBuffer, NoReceive
      <4>4. recvPosted = 0
        BY <1>1, <1>5, <3>2 DEF OneReceiveBuffer, IInv, NothingAfterBreak
      <4> QED  BY <4>1, <4>3, <4>4
    <3> QED  BY <3>1, <3>2
  <2>3. cpc' \in {"poll", "addr"} /\ (cpc' # "poll" => cwc'.op = "RECV")
    BY DEF ClientPoll
  <2>4. OneReceiveBuffer'
    <3>1. ASSUME NEW i \in 1..Len(ccq')
          PROVE  ~ccq'[i].ok => broken' /\ ccq'[i].op = "none"
      BY <1>1, <1>2, <1>4 DEF OneReceiveBuffer
    <3>2. ASSUME NEW i \in 1..Len(ccq'), ccq'[i].op = "RECV"
          PROVE  /\ ccq'[i].tag = recvBuf' /\ recvBuf' \in Region
                 /\ cpc' = "poll" /\ recvPosted' = 0
                 /\ \A j \in 1..Len(ccq') :
                        /\ j < i => ccq'[j].ok
                        /\ ccq'[j].op = "RECV" => j = i
      <4>1. /\ ccq'[i].tag = recvBuf' /\ recvBuf' \in Region /\ recvPosted' = 0
        BY <1>1, <1>2, <1>4, <3>2 DEF OneReceiveBuffer
      <4>2. ~NoReceive
        BY <1>4, <3>2 DEF NoReceive
      <4>3. cpc' = "poll"
        BY <2>2, <2>3, <4>2
      <4>4. ASSUME NEW j \in 1..Len(ccq')
            PROVE  /\ j < i => ccq'[j].ok
                   /\ ccq'[j].op = "RECV" => j = i
        <5>1. ccq[i + 1].op = "RECV"
          BY <1>4, <3>2
        <5>2. /\ j + 1 < i + 1 => ccq[j + 1].ok
              /\ ccq[j + 1].op = "RECV" => j + 1 = i + 1
          BY <1>1, <1>4, <5>1 DEF OneReceiveBuffer
        <5> QED  BY <1>4, <5>2
      <4> QED  BY <4>1, <4>3, <4>4
    <3>3. recvPosted' > 0 => recvPosted' = 1 /\ cpc' = "poll" /\ NoReceive'
      BY <1>1, <1>2, <2>1, <2>3, <2>2 DEF OneReceiveBuffer
    <3>4. /\ cpc' # "poll" => cwc'.op = "RECV"
          /\ cwc'.op = "RECV" /\ NoReceive' => cwc'.tag = recvBuf'
          /\ cwc'.op = "RECV" => recvBuf' \in Region
      BY <1>1, <1>2, <2>1, <2>2, <2>3 DEF OneReceiveBuffer
    <3> QED  BY <3>1, <3>2, <3>3, <3>4 DEF OneReceiveBuffer
  <2>5. KnownInOrder'
    BY <1>1, <1>2, <2>1, <2>3 DEF KnownInOrder, Known, Field
  <2>6. ParsedSoFar' /\ InfoMatchesTag'
    BY <1>2, <2>3 DEF IInv, ParsedSoFar, InfoMatchesTag
  <2> QED  BY <2>4, <2>5, <2>6 DEF ClientSide
<1> QED  BY <1>6, <1>7

\* recv_handler takes over a field, of the region that its completion names.
LEMMA ParseFieldClientSide ==
    ASSUME IInv, ParseField
    PROVE  ClientSide'
<1>1. /\ OneReceiveBuffer /\ KnownInOrder /\ ParsedSoFar /\ InfoMatchesTag
      /\ cpc \in Field /\ info \in [Region -> [Field -> Tag]]
  BY DEF IInv, TypeOK, ParseField
<1>2. /\ UNCHANGED <<recvBuf, recvPosted, flag, broken, ccq, cwc>>
      /\ Advertised' = Advertised
  BY DEF ParseField, serverVars, linkVars, cqVars, Advertised
<1>3. /\ NoReceive /\ recvPosted = 0 /\ cwc.tag = recvBuf /\ recvBuf \in Region
  BY <1>1 DEF OneReceiveBuffer, NoReceive, Field, IInv, TypeOK
<1>4. info' = [info EXCEPT ![recvBuf][cpc] = recvBuf]
  BY <1>3 DEF ParseField
<1>5. /\ cpc = "addr" => cpc' = "len"
      /\ cpc = "len" => cpc' = "rkey"
      /\ cpc = "rkey" => cpc' = "flag"
  BY DEF ParseField
<1>6. cpc' \in {"len", "rkey", "flag"}
  BY <1>1, <1>5 DEF Field
<1>7. OneReceiveBuffer'
  BY <1>1, <1>2, <1>3, <1>6 DEF OneReceiveBuffer, NoReceive, Field
<1>8. KnownInOrder'
  <2>1. Known' = Known
    BY <1>2 DEF Known
  <2> QED  BY <1>1, <1>2, <1>6, <2>1 DEF KnownInOrder, Field
<1>9. /\ info'[recvBuf][cpc] = recvBuf
      /\ \A f \in Field : f # cpc => info'[recvBuf][f] = info[recvBuf][f]
      /\ \A r \in Region : r # recvBuf => info'[r] = info[r]
  BY <1>1, <1>3, <1>4
<1>10. ParsedSoFar'
  BY <1>1, <1>2, <1>5, <1>9 DEF ParsedSoFar, Field
<1>11. InfoMatchesTag'
  BY <1>1, <1>2, <1>9 DEF InfoMatchesTag
<1> QED  BY <1>7, <1>8, <1>10, <1>11 DEF ClientSide

\* It sets the flag of the region whose fields it has taken over.
LEMMA SetFlagClientSide ==
    ASSUME IInv, SetFlag
    PROVE  ClientSide'
<1>1. /\ OneReceiveBuffer /\ KnownInOrder /\ ParsedSoFar /\ InfoMatchesTag
      /\ cpc = "flag" /\ flag \in [Region -> BOOLEAN]
  BY DEF IInv, TypeOK, SetFlag
<1>2. /\ UNCHANGED <<recvBuf, recvPosted, info, broken, ccq, cwc>>
      /\ Advertised' = Advertised /\ cpc' = "repost"
  BY DEF SetFlag, serverVars, linkVars, cqVars, Advertised
<1>3. /\ NoReceive /\ recvPosted = 0 /\ cwc.tag = recvBuf /\ recvBuf \in Region
  BY <1>1 DEF OneReceiveBuffer, NoReceive, IInv, TypeOK
<1>4. flag' = [flag EXCEPT ![recvBuf] = TRUE]
  BY <1>3 DEF SetFlag
<1>5. Known' = Known \cup {recvBuf}
  BY <1>1, <1>3, <1>4 DEF Known
<1>6. OneReceiveBuffer'
  BY <1>1, <1>2, <1>3 DEF OneReceiveBuffer, NoReceive
<1>7. KnownInOrder'
  BY <1>1, <1>2, <1>3, <1>5 DEF KnownInOrder, Region
<1>8. \A f \in Field : info[recvBuf][f] = recvBuf
  BY <1>1 DEF ParsedSoFar, Field
<1>9. InfoMatchesTag' /\ ParsedSoFar'
  BY <1>1, <1>2, <1>3, <1>4, <1>8 DEF InfoMatchesTag, ParsedSoFar
<1> QED  BY <1>6, <1>7, <1>9 DEF ClientSide

\* recv_handler posts the receive again: the message is handled.
LEMMA RepostClientSide ==
    ASSUME IInv, Repost
    PROVE  ClientSide'
<1>1. /\ OneReceiveBuffer /\ KnownInOrder /\ cpc = "repost"
      /\ ccq \in Seq(Completion)
  BY DEF IInv, TypeOK, Repost
<1>2. /\ UNCHANGED <<recvBuf, info, flag, broken, cwc>>
      /\ Advertised' = Advertised /\ cpc' = "poll"
  BY DEF Repost, serverVars, linkVars, Advertised
<1>3. NoReceive /\ recvPosted = 0 /\ cwc.op = "RECV"
  BY <1>1 DEF OneReceiveBuffer, NoReceive, IInv, TypeOK
<1>4. CASE broken
  <2>1. ccq' = Append(ccq, Flushed(0)) /\ recvPosted' = 0
    BY <1>3, <1>4 DEF Repost
  <2>2. Len(ccq) \in Nat /\ Len(ccq') = Len(ccq) + 1
        /\ ccq'[Len(ccq) + 1] = Flushed(0)
        /\ \A i \in 1..Len(ccq) : ccq'[i] = ccq[i]
    BY <1>1, <2>1, CompletionType, AppendProperties DEF Tag
  <2>3. \A i \in 1..Len(ccq') :
            ccq'[i] = Flushed(0) \/ (i \in 1..Len(ccq) /\ ccq'[i] = ccq[i])
    BY <2>2
  <2>4. NoReceive' /\ \A i \in 1..Len(ccq') : ~ccq'[i].ok => ccq'[i].op = "none"
    <3>1. Flushed(0).op = "none"
      BY DEF Flushed
    <3>2. \A i \in 1..Len(ccq) :
              ccq[i].op # "RECV" /\ (~ccq[i].ok => ccq[i].op = "none")
      BY <1>1, <1>3 DEF NoReceive, OneReceiveBuffer
    <3>3. \A i \in 1..Len(ccq') :
              ccq'[i].op # "RECV" /\ (~ccq'[i].ok => ccq'[i].op = "none")
      BY <2>3, <3>1, <3>2
    <3> QED  BY <3>3 DEF NoReceive
  <2>5. OneReceiveBuffer'
    BY <1>1, <1>2, <1>3, <1>4, <2>1, <2>4 DEF OneReceiveBuffer, NoReceive
  <2>6. KnownInOrder'
    BY <1>1, <1>2, <1>3 DEF KnownInOrder, Known, Field
  <2>7. ParsedSoFar' /\ InfoMatchesTag'
    BY <1>2 DEF IInv, ParsedSoFar, InfoMatchesTag
  <2> QED  BY <2>5, <2>6, <2>7 DEF ClientSide
<1>5. CASE ~broken
  <2>1. UNCHANGED ccq /\ recvPosted' = 1
    BY <1>3, <1>5 DEF Repost
  <2>2. OneReceiveBuffer'
    BY <1>1, <1>2, <1>3, <2>1 DEF OneReceiveBuffer, NoReceive
  <2>3. KnownInOrder'
    BY <1>1, <1>2, <1>3 DEF KnownInOrder, Known, Field
  <2>4. ParsedSoFar' /\ InfoMatchesTag'
    BY <1>2 DEF IInv, ParsedSoFar, InfoMatchesTag
  <2> QED  BY <2>2, <2>3, <2>4 DEF ClientSide
<1> QED  BY <1>4, <1>5

-----------------------------------------------------------------------------
(* The server's half of the invariant.                                     *)

ServerSide == OneSendUnderWay /\ NothingAfterBreak /\ HelloSentOnce

serverSide == <<spc, sendBuf, sketchReady, gotHello, sendDone, firstId,
                scq, wire, unacked, recvBuf, broken>>

\* A step of the client, or the acknowledgement of its hello.
LEMMA ServerSideUnchanged ==
    ASSUME IInv, UNCHANGED serverSide,
           broken => recvPosted' = 0,
           UNCHANGED <<hello, cmain>> \/ AckHello \/ SendHello \/ Started
    PROVE  ServerSide'
<1> USE DEF serverSide
<1>1. OneSendUnderWay /\ NothingAfterBreak /\ HelloSentOnce
  BY DEF IInv
<1>2. NothingAfterBreak'
  BY <1>1 DEF NothingAfterBreak
<1>3. /\ HelloSentOnce'
      /\ ~broken => /\ hello' = hello \/ (hello = "none" /\ hello' = "sent")
                                     \/ (hello = "delivered" /\ hello' = "acked")
  BY <1>1 DEF HelloSentOnce, AckHello, SendHello, Started, clientVars, linkVars
<1>4. ASSUME ~broken, spc = "waitHello" PROVE AwaitsHello'
  BY <1>1, <1>3, <1>4 DEF OneSendUnderWay, AwaitsHello
<1>5. ASSUME ~broken, spc # "waitHello"
      PROVE  gotHello' /\ hello' \in {"delivered", "acked"}
  BY <1>1, <1>3, <1>5 DEF OneSendUnderWay
<1>6. OneSendUnderWay'
  BY <1>1, <1>4, <1>5 DEF OneSendUnderWay, UnderWay, Quiet
<1> QED  BY <1>2, <1>3, <1>6 DEF ServerSide

\* While the link holds, a send is posted with nothing else under way.
LEMMA PostSendUnderWay ==
    ASSUME TypeOK, ~broken, NEW tag \in Region, NEW id \in Nat,
           PostSend(tag, id), Quiet(Previous[tag]),
           UNCHANGED <<unacked, recvBuf>>
    PROVE  /\ wire' = <<[tag |-> tag, id |-> id]>> /\ unacked' = <<>>
           /\ scq' = <<>> /\ recvBuf' = Previous[tag]
<1>1. wire' = Append(<<>>, [tag |-> tag, id |-> id]) /\ scq' = <<>>
  BY DEF PostSend, Quiet
<1>2. [tag |-> tag, id |-> id] \in Message
  BY CompletionType DEF Tag
<1>3. wire' = <<[tag |-> tag, id |-> id]>>
  BY <1>1, <1>2, OneElement
<1> QED  BY <1>1, <1>3 DEF Quiet

\* A step of the server's main thread.
LEMMA ServerMainServerSide ==
    ASSUME IInv, ServerMain
    PROVE  ServerSide'
<1> USE DEF serverVars, clientVars, linkVars, cqVars
<1>1. /\ TypeOK /\ OneSendUnderWay /\ NothingAfterBreak /\ HelloSentOnce
      /\ firstId \in Nat /\ 1123 \in Nat /\ 1124 \in Nat
  BY WrIdsAssumption DEF IInv, TypeOK
<1>2. HelloSentOnce'
  BY <1>1 DEF HelloSentOnce, ServerMain, AdvertiseStart, AdvertiseClass,
              CopyObject, CopyData, InitSketch, AdvertiseSketch, FinishStart
<1>3. /\ UNCHANGED <<gotHello, hello, broken, unacked, recvBuf, recvPosted,
                     sendDone, firstId>>
  BY DEF ServerMain, AdvertiseStart, AdvertiseClass,
         CopyObject, CopyData, InitSketch, AdvertiseSketch, FinishStart
<1>4. CASE AdvertiseStart
  <2>1. NothingAfterBreak'
    BY <1>1, <1>3, <1>4 DEF NothingAfterBreak, AdvertiseStart, PostSend
  <2>2. ASSUME ~broken PROVE UnderWay("start", firstId)'
    <3>1. Quiet(Previous["start"])
      BY <1>1, <1>4, <2>2 DEF AdvertiseStart, OneSendUnderWay, AwaitsHello,
                              Quiet, Previous, TypeOK
    <3> QED  BY <1>1, <1>3, <1>4, <2>2, <3>1, PostSendUnderWay
             DEF UnderWay, AdvertiseStart, Region
  <2>3. ASSUME ~broken
        PROVE  /\ hello \in {"delivered", "acked"}
               /\ \A r \in Region : ~sendDone[r]
    BY <1>1, <1>4, <2>3 DEF AdvertiseStart, OneSendUnderWay, AwaitsHello, TypeOK
  <2>4. OneSendUnderWay'
    BY <1>3, <1>4, <2>2, <2>3 DEF AdvertiseStart, OneSendUnderWay
  <2> QED  BY <1>2, <2>1, <2>4 DEF ServerSide
<1>5. CASE AdvertiseClass
  <2>1. NothingAfterBreak'
    BY <1>1, <1>3, <1>5 DEF NothingAfterBreak, AdvertiseClass, PostSend
  <2>2. ASSUME ~broken
        PROVE /\ firstId = 0 /\ Quiet("start")
              /\ ~sendDone["class"] /\ ~sendDone["sketch"]
    BY <1>1, <1>5, <2>2 DEF AdvertiseClass, OneSendUnderWay, WrId, Region
  <2>3. ASSUME ~broken PROVE UnderWay("class", 1123)'
    <3>1. Quiet(Previous["class"])
      BY <2>2, <2>3 DEF Previous
    <3> QED  BY <1>1, <1>3, <1>5, <2>3, <3>1, PostSendUnderWay
             DEF UnderWay, AdvertiseClass, Region
  <2>4. OneSendUnderWay'
    BY <1>1, <1>3, <1>5, <2>2, <2>3 DEF AdvertiseClass, OneSendUnderWay
  <2> QED  BY <1>2, <2>1, <2>4 DEF ServerSide
<1>6. CASE CopyObject \/ CopyData
  <2>1. NothingAfterBreak'
    BY <1>1, <1>6 DEF NothingAfterBreak, CopyObject, CopyData
  <2>2. OneSendUnderWay'
    BY <1>1, <1>6 DEF CopyObject, CopyData, OneSendUnderWay, UnderWay, Quiet
  <2> QED  BY <1>2, <2>1, <2>2 DEF ServerSide
<1>7. CASE InitSketch
  <2>1. NothingAfterBreak'
    BY <1>1, <1>7 DEF NothingAfterBreak, InitSketch
  <2>2. OneSendUnderWay'
    BY <1>1, <1>7 DEF InitSketch, OneSendUnderWay, Quiet
  <2> QED  BY <1>2, <2>1, <2>2 DEF ServerSide
<1>8. CASE AdvertiseSketch
  <2>1. NothingAfterBreak'
    BY <1>1, <1>3, <1>8 DEF NothingAfterBreak, AdvertiseSketch, PostSend
  <2>2. ASSUME ~broken PROVE UnderWay("sketch", 1124)'
    <3>1. Quiet(Previous["sketch"])
      BY <1>1, <1>8, <2>2 DEF AdvertiseSketch, OneSendUnderWay, Previous
    <3> QED  BY <1>1, <1>3, <1>8, <2>2, <3>1, PostSendUnderWay
             DEF UnderWay, AdvertiseSketch, Region
  <2>3. OneSendUnderWay'
    BY <1>1, <1>3, <1>8, <2>2 DEF AdvertiseSketch, OneSendUnderWay
  <2> QED  BY <1>2, <2>1, <2>3 DEF ServerSide
<1>9. CASE FinishStart
  <2>1. NothingAfterBreak'
    BY <1>1, <1>9 DEF NothingAfterBreak, FinishStart
  <2>2. OneSendUnderWay'
    BY <1>1, <1>9 DEF FinishStart, OneSendUnderWay, Quiet
  <2> QED  BY <1>2, <2>1, <2>2 DEF ServerSide
<1> QED  BY <1>4, <1>5, <1>6, <1>7, <1>8, <1>9 DEF ServerMain

\* The server's thread polls: while the link holds it finds the client's
\* hello, or the completion of the one send under way.
LEMMA ServerPollServerSide ==
    ASSUME IInv, ServerPoll
    PROVE  ServerSide'
<1> USE DEF clientVars, linkVars
<1>1. /\ TypeOK /\ OneSendUnderWay /\ NothingAfterBreak /\ HelloSentOnce
      /\ scq # <<>>
  BY DEF IInv, ServerPoll
<1>2. NothingAfterBreak' /\ HelloSentOnce'
  BY <1>1 DEF NothingAfterBreak, HelloSentOnce, ServerPoll
<1>3. SUFFICES ASSUME ~broken PROVE OneSendUnderWay'
  <2>1. broken' = broken
    BY DEF ServerPoll
  <2>2. broken => OneSendUnderWay'
    BY <2>1 DEF OneSendUnderWay
  <2> QED  BY <1>2, <2>2 DEF ServerSide
<1>4. UNCHANGED <<spc, sendBuf, firstId, hello, wire, unacked, recvBuf, broken>>
  BY DEF ServerPoll
<1>5. CASE spc = "waitHello"
  <2>1. /\ scq = <<Completed("RECV", "none", 0)>> /\ wire = <<>> /\ unacked = <<>>
        /\ recvBuf = "none" /\ hello \in {"delivered", "acked"}
        /\ \A r \in Region : ~sendDone[r]
    BY <1>1, <1>3, <1>5 DEF OneSendUnderWay, AwaitsHello, TypeOK
  <2>2. scq' = <<>> /\ swc' = Completed("RECV", "none", 0)
    BY <2>1, CompletionType, OneElement DEF ServerPoll, Seen, Completed, Tag
  <2>3. gotHello' /\ \A r \in Region : ~sendDone'[r]
    BY <2>1, <2>2 DEF ServerPoll, Completed
  <2> QED  BY <1>4, <1>5, <2>1, <2>2, <2>3 DEF OneSendUnderWay, AwaitsHello
<1>6. ASSUME NEW tag \in Region, NEW id, UnderWay(tag, id)
      PROVE  /\ wire' = <<>> /\ unacked' = <<>> /\ scq' = <<>> /\ recvBuf' = tag
             /\ \A r \in Region : sendDone'[r] <=> sendDone[r] \/ id = WrId[r]
  <2>1. /\ wire = <<>> /\ unacked = <<>> /\ recvBuf = tag
        /\ scq = <<Completed("SEND", "none", id)>>
    BY <1>1, <1>6 DEF UnderWay, Quiet
  <2>2. scq' = <<>> /\ swc' = Completed("SEND", "none", id)
    <3> DEFINE c == Completed("SEND", "none", id)
    <3>1. Head(scq) = c /\ Tail(scq) = <<>>
      BY <2>1
    <3>2. c.ok
      BY DEF Completed
    <3> QED  BY <3>1, <3>2 DEF ServerPoll, Seen
  <2>3. \A r \in Region : sendDone'[r] <=> sendDone[r] \/ id = WrId[r]
    BY <1>1, <2>2 DEF ServerPoll, Completed, TypeOK
  <2> QED  BY <1>4, <2>1, <2>2, <2>3
<1>7. CASE spc # "waitHello"
  <2>1. gotHello' /\ hello' \in {"delivered", "acked"} /\ spc' # "waitHello"
    <3>1. gotHello /\ hello \in {"delivered", "acked"}
      BY <1>1, <1>3, <1>7 DEF OneSendUnderWay
    <3>2. gotHello' = (gotHello \/ swc'.op = "RECV")
      BY DEF ServerPoll
    <3>3. gotHello'
      BY <3>1, <3>2
    <3> QED  BY <1>4, <1>7, <3>1, <3>3
  <2>2. CASE spc = "waitStart"
    <3>1. UnderWay("start", firstId) /\ sendBuf = "start"
          /\ \A r \in Region : sendDone[r] => WrId[r] = firstId
      BY <1>1, <1>3, <2>2 DEF OneSendUnderWay
    <3>2. /\ wire' = <<>> /\ unacked' = <<>> /\ scq' = <<>> /\ recvBuf' = "start"
          /\ \A r \in Region : sendDone'[r] <=> sendDone[r] \/ firstId = WrId[r]
      BY <1>6, <3>1 DEF Region
    <3> QED  BY <1>4, <2>1, <2>2, <3>1, <3>2 DEF OneSendUnderWay, UnderWay, Quiet
  <2>3. CASE spc \in {"copyObject", "copyData", "waitClass"}
    <3>1. UnderWay("class", 1123) /\ sendBuf = "class" /\ ~sendDone["sketch"]
      BY <1>1, <1>3, <2>3 DEF OneSendUnderWay
    <3>2. /\ wire' = <<>> /\ unacked' = <<>> /\ scq' = <<>> /\ recvBuf' = "class"
          /\ ~sendDone'["sketch"]
      BY <1>6, <3>1 DEF Region, WrId
    <3> QED  BY <1>4, <2>1, <2>3, <3>1, <3>2 DEF OneSendUnderWay, UnderWay, Quiet
  <2>4. CASE spc = "waitSketch"
    <3>1. UnderWay("sketch", 1124) /\ sendBuf = "sketch"
      BY <1>1, <1>3, <2>4 DEF OneSendUnderWay
    <3>2. wire' = <<>> /\ unacked' = <<>> /\ scq' = <<>> /\ recvBuf' = "sketch"
      BY <1>6, <3>1 DEF Region
    <3> QED  BY <1>4, <2>1, <2>4, <3>1, <3>2 DEF OneSendUnderWay, UnderWay, Quiet
  <2>5. CASE spc \in {"postSketch", "done"}
    BY <1>1, <1>3, <2>5 DEF OneSendUnderWay, Quiet
  <2> QED  BY <1>1, <1>7, <2>2, <2>3, <2>4, <2>5 DEF TypeOK
<1> QED  BY <1>5, <1>7

\* The adapters deliver the hello, deliver a message, and acknowledge it.
LEMMA LinkServerSide ==
    ASSUME IInv, DeliverHello \/ Deliver \/ Ack
    PROVE  ServerSide'
<1> USE DEF serverVars, clientVars
<1>1. /\ TypeOK /\ OneSendUnderWay /\ NothingAfterBreak /\ HelloSentOnce
      /\ ~broken /\ ~broken'
  BY DEF IInv, DeliverHello, Deliver, Ack
<1>2. NothingAfterBreak' /\ HelloSentOnce'
  BY <1>1 DEF NothingAfterBreak, HelloSentOnce, DeliverHello, Deliver, Ack
<1>3. UNCHANGED <<spc, sendBuf, gotHello, sendDone, firstId>>
  BY DEF DeliverHello, Deliver, Ack
<1>4. CASE DeliverHello
  <2>1. spc = "waitHello" /\ AwaitsHello /\ hello = "sent" /\ scq = <<>>
    BY <1>1, <1>4 DEF DeliverHello, OneSendUnderWay, AwaitsHello
  <2>2. scq' = <<Completed("RECV", "none", 0)>>
    BY <1>4, <2>1, CompletionType, OneElement DEF DeliverHello, Tag
  <2>3. AwaitsHello'
    BY <1>3, <1>4, <2>1, <2>2 DEF DeliverHello, AwaitsHello
  <2> QED  BY <1>2, <1>3, <2>1, <2>3 DEF ServerSide, OneSendUnderWay
<1>5. ASSUME Deliver \/ Ack, NEW tag \in Region, NEW id, UnderWay(tag, id)
      PROVE  /\ wire' = <<>> /\ recvBuf' = tag
             /\ \/ /\ unacked' = <<[tag |-> tag, id |-> id]>> /\ scq' = <<>>
                \/ /\ unacked' = <<>>
                   /\ scq' = <<Completed("SEND", "none", id)>>
  <2>1. CASE Deliver
    <3>1. /\ wire = <<[tag |-> tag, id |-> id]>> /\ unacked = <<>> /\ scq = <<>>
      BY <1>5, <2>1 DEF Deliver, UnderWay, Quiet
    <3>2. wire' = <<>> /\ unacked' = <<[tag |-> tag, id |-> id]>>
      BY <2>1, <3>1 DEF Deliver
    <3>3. sendBuf = tag
      <4>1. PICK i : wire = <<[tag |-> sendBuf, id |-> i]>>
        BY <1>1, <3>1, OnTheWire
      <4>2. wire[1].tag = tag /\ wire[1].tag = sendBuf
        BY <3>1, <4>1
      <4> QED  BY <4>2
    <3> QED  BY <2>1, <3>1, <3>2, <3>3 DEF Deliver
  <2>2. CASE Ack
    <3>1. /\ wire = <<>> /\ unacked = <<[tag |-> tag, id |-> id]>>
          /\ scq = <<>> /\ recvBuf = tag
      BY <1>5, <2>2 DEF Ack, UnderWay, Quiet
    <3>2. unacked' = <<>> /\ scq' = <<Completed("SEND", "none", id)>>
      BY <2>2, <3>1 DEF Ack
    <3> QED  BY <2>2, <3>1, <3>2 DEF Ack
  <2> QED  BY <1>5, <2>1, <2>2
<1>6. CASE Deliver \/ Ack
  <2>1. wire # <<>> \/ unacked # <<>>
    BY <1>6 DEF Deliver, Ack
  <2>2. spc # "waitHello" /\ gotHello /\ hello' \in {"delivered", "acked"}
    BY <1>1, <1>6, <2>1 DEF OneSendUnderWay, AwaitsHello, Deliver, Ack
  <2>3. CASE spc = "waitStart"
    <3>1. UnderWay("start", firstId) /\ sendBuf = "start"
          /\ \A r \in Region : ~sendDone[r]
      BY <1>1, <2>1, <2>3 DEF OneSendUnderWay, Quiet
    <3>2. /\ wire' = <<>> /\ recvBuf' = "start"
          /\ \/ /\ unacked' = <<[tag |-> "start", id |-> firstId]>>
                /\ scq' = <<>>
             \/ /\ unacked' = <<>>
                /\ scq' = <<Completed("SEND", "none", firstId)>>
      BY <1>5, <1>6, <3>1 DEF Region
    <3> QED  BY <1>2, <1>3, <2>2, <2>3, <3>1, <3>2
             DEF ServerSide, OneSendUnderWay, UnderWay
  <2>4. CASE spc \in {"copyObject", "copyData", "waitClass"}
    <3>1. UnderWay("class", 1123) /\ sendBuf = "class" /\ ~sendDone["sketch"]
          /\ ~sendDone["class"]
      BY <1>1, <2>1, <2>4 DEF OneSendUnderWay, Quiet
    <3>2. /\ wire' = <<>> /\ recvBuf' = "class"
          /\ \/ /\ unacked' = <<[tag |-> "class", id |-> 1123]>>
                /\ scq' = <<>>
             \/ /\ unacked' = <<>>
                /\ scq' = <<Completed("SEND", "none", 1123)>>
      BY <1>5, <1>6, <3>1 DEF Region
    <3> QED  BY <1>2, <1>3, <2>2, <2>4, <3>1, <3>2
             DEF ServerSide, OneSendUnderWay, UnderWay
  <2>5. CASE spc = "waitSketch"
    <3>1. UnderWay("sketch", 1124) /\ sendBuf = "sketch" /\ ~sendDone["sketch"]
      BY <1>1, <2>1, <2>5 DEF OneSendUnderWay, Quiet
    <3>2. /\ wire' = <<>> /\ recvBuf' = "sketch"
          /\ \/ /\ unacked' = <<[tag |-> "sketch", id |-> 1124]>>
                /\ scq' = <<>>
             \/ /\ unacked' = <<>>
                /\ scq' = <<Completed("SEND", "none", 1124)>>
      BY <1>5, <1>6, <3>1 DEF Region
    <3> QED  BY <1>2, <1>3, <2>2, <2>5, <3>1, <3>2
             DEF ServerSide, OneSendUnderWay, UnderWay
  <2>6. CASE spc \in {"postSketch", "done"}
    BY <1>1, <2>1, <2>6 DEF OneSendUnderWay, Quiet
  <2> QED  BY <1>1, <2>2, <2>3, <2>4, <2>5, <2>6 DEF TypeOK
<1> QED  BY <1>4, <1>6

\* The loss of the link.
LEMMA LinkBreaksServerSide ==
    ASSUME IInv, LinkBreaks
    PROVE  ServerSide'
<1>1. /\ broken' = TRUE /\ wire' = <<>> /\ unacked' = <<>> /\ recvPosted' = 0
      /\ UNCHANGED <<spc, sketchReady, cmain, hello>>
  BY DEF LinkBreaks, serverVars
<1>2. OneSendUnderWay'
  BY <1>1 DEF OneSendUnderWay
<1>3. NothingAfterBreak' /\ HelloSentOnce'
  BY <1>1 DEF IInv, NothingAfterBreak, HelloSentOnce
<1> QED  BY <1>2, <1>3 DEF ServerSide

-----------------------------------------------------------------------------
(* The invariant.                                                          *)

\* Both programs are connected; the client has posted one receive.
LEMMA InitIInv == Init => IInv
<1> SUFFICES ASSUME Init PROVE IInv
  OBVIOUS
<1>1. TypeOK
  <2>1. Flushed(0) \in Completion
    BY CompletionType DEF Tag
  <2>2. scq \in Seq(Completion) /\ ccq \in Seq(Completion)
        /\ wire \in Seq(Message) /\ unacked \in Seq(Message)
    BY DEF Init
  <2>3. /\ info \in [Region -> [Field -> Tag]] /\ flag \in [Region -> BOOLEAN]
        /\ sendDone \in [Region -> BOOLEAN]
    BY DEF Init, Tag
  <2>4. swc \in Completion /\ cwc \in Completion
    BY <2>1 DEF Init
  <2>5. recvPosted \in 0..2 /\ sendBuf \in Tag /\ recvBuf \in Tag
    BY DEF Init, Tag
  <2> QED  BY <2>2, <2>3, <2>4, <2>5 DEF Init, TypeOK
<1>2. OneSendUnderWay /\ NothingAfterBreak /\ HelloSentOnce
  BY DEF Init, OneSendUnderWay, NothingAfterBreak, HelloSentOnce, AwaitsHello
<1>3. NoReceive
  BY DEF Init, NoReceive
<1>4. OneReceiveBuffer
  BY <1>3 DEF Init, OneReceiveBuffer, Flushed
<1>5. KnownInOrder /\ ParsedSoFar /\ InfoMatchesTag
  BY DEF Init, KnownInOrder, Known, ParsedSoFar, InfoMatchesTag, Region
<1> QED  BY <1>1, <1>2, <1>4, <1>5 DEF IInv

\* Posting only adds to what is advertised.
LEMMA AdvertisedGrows ==
    ASSUME TypeOK, ServerMain
    PROVE  Advertised \subseteq Advertised'
  BY DEF ServerMain, AdvertiseStart, AdvertiseClass, CopyObject, CopyData,
         InitSketch, AdvertiseSketch, FinishStart, Advertised, Region, TypeOK

\* Every step preserves the invariant.
LEMMA NextIInv == IInv /\ [Next]_vars => IInv'
<1> SUFFICES ASSUME IInv, [Next]_vars PROVE IInv'
  OBVIOUS
<1>1. TypeOK /\ (broken => recvPosted = 0)
  BY DEF IInv, NothingAfterBreak
<1>2. ASSUME TypeOK', ServerSide', ClientSide' PROVE IInv'
  BY <1>2 DEF IInv, ServerSide, ClientSide
<1>3. CASE ServerMain
  <2>1. UNCHANGED clientSide
    BY <1>3 DEF ServerMain, AdvertiseStart, AdvertiseClass, CopyObject,
                CopyData, InitSketch, AdvertiseSketch, FinishStart,
                clientSide, clientVars, linkVars, cqVars
  <2>2. ClientSide'
    BY <1>1, <1>3, <2>1, ClientSideUnchanged, AdvertisedGrows
  <2> QED  BY <1>1, <1>2, <1>3, <2>2, ServerMainType, ServerMainServerSide
<1>4. CASE ServerPoll
  <2>1. UNCHANGED clientSide /\ Advertised' = Advertised
    BY <1>4 DEF ServerPoll, clientSide, clientVars, linkVars, Advertised
  <2> QED  BY <1>1, <1>2, <1>4, <2>1, PollType, ClientSideUnchanged,
              ServerPollServerSide
<1>5. CASE ClientMain
  <2>1. ServerSide'
    BY <1>1, <1>5, ServerSideUnchanged
       DEF ClientMain, SendHello, Started, serverSide, serverVars, linkVars, cqVars
  <2>2. ClientSide'
    <3>1. Advertised' = Advertised
      BY <1>5 DEF ClientMain, SendHello, Started, serverVars, Advertised
    <3>2. CASE UNCHANGED ccq
      <4>1. UNCHANGED clientSide
        BY <1>5, <3>2 DEF ClientMain, SendHello, Started, clientSide, linkVars, cqVars
      <4> QED  BY <3>1, <4>1, ClientSideUnchanged
    <3>3. CASE SendHello /\ broken
      <4>1. Flushed(0) \in Completion /\ Flushed(0).op = "none"
        BY CompletionType DEF Tag, Flushed
      <4>2. /\ ccq' = Append(ccq, Flushed(0)) /\ broken'
            /\ UNCHANGED <<cpc, recvBuf, recvPosted, info, flag, cwc, broken>>
        BY <3>3 DEF SendHello
      <4> QED  BY <3>1, <4>1, <4>2, OtherAppended
    <3> QED  BY <1>5, <3>2, <3>3 DEF ClientMain, SendHello, Started, cqVars
  <2> QED  BY <1>2, <1>5, <2>1, <2>2, ClientType
<1>6. CASE ClientPoll
  <2>1. ServerSide'
    BY <1>1, <1>6, ServerSideUnchanged
       DEF ClientPoll, serverSide, serverVars, linkVars
  <2> QED  BY <1>1, <1>2, <1>6, <2>1, PollType, ClientPollClientSide
<1>7. CASE ClientHandler
  <2>1. broken => recvPosted' = 0
    BY <1>1, <1>7 DEF ClientHandler, ParseField, SetFlag, Repost
  <2>2. UNCHANGED <<serverSide, hello, cmain>>
    BY <1>7 DEF ClientHandler, ParseField, SetFlag, Repost, serverSide,
                serverVars, linkVars, cqVars
  <2>3. ServerSide'
    BY <2>1, <2>2, ServerSideUnchanged
  <2> QED  BY <1>2, <1>7, <2>3, ClientType, ParseFieldClientSide,
              SetFlagClientSide, RepostClientSide DEF ClientHandler
<1>8. CASE Link
  <2>1. TypeOK'
    BY <1>1, <1>8, LinkType
  <2>2. Advertised' = Advertised
    BY <1>8 DEF Link, DeliverHello, AckHello, Deliver, Ack, serverVars, Advertised
  <2>3. CASE DeliverHello \/ Ack
    <3>1. UNCHANGED clientSide
      BY <2>3 DEF DeliverHello, Ack, clientSide, clientVars
    <3> QED  BY <1>2, <2>1, <2>2, <2>3, <3>1, ClientSideUnchanged, LinkServerSide
  <2>4. CASE AckHello
    <3>1. ServerSide'
      BY <1>1, <2>4, ServerSideUnchanged
         DEF AckHello, serverSide, serverVars, clientVars
    <3>2. /\ Completed("SEND", "none", 0) \in Completion
          /\ Completed("SEND", "none", 0).op # "RECV"
          /\ Completed("SEND", "none", 0).ok
      BY CompletionType DEF Completed, Tag
    <3>3. /\ ccq' = Append(ccq, Completed("SEND", "none", 0))
          /\ UNCHANGED <<cpc, recvBuf, recvPosted, info, flag, cwc, broken>>
      BY <2>4 DEF AckHello, clientVars
    <3> QED  BY <1>2, <2>1, <2>2, <3>1, <3>2, <3>3, OtherAppended
  <2>5. CASE Deliver
    BY <1>2, <2>1, <2>5, DeliverClientSide, LinkServerSide
  <2> QED  BY <1>8, <2>3, <2>4, <2>5 DEF Link
<1>9. CASE LinkBreaks
  <2>1. PICK s \in Seq(Completion) :
            ccq' = ccq \o s /\ \A i \in 1..Len(s) : s[i] = Flushed(0)
    BY <1>1, <1>9, ClientFlush
  <2>2. \A i \in 1..Len(s) : s[i].op # "RECV" /\ s[i].op = "none"
    BY <2>1 DEF Flushed
  <2>3. /\ broken' /\ recvPosted' \in {0, recvPosted}
        /\ UNCHANGED <<cpc, recvBuf, info, flag, cwc>>
        /\ Advertised' = Advertised
    BY <1>9 DEF LinkBreaks, serverVars, Advertised
  <2>4. ClientSide'
    BY <2>1, <2>2, <2>3, OthersAppended
  <2> QED  BY <1>1, <1>2, <1>9, <2>4, LinkBreaksType, LinkBreaksServerSide
<1>10. CASE UNCHANGED vars
  <2>1. TypeOK'
    BY <1>1, <1>10 DEF TypeOK, vars, serverVars, clientVars, linkVars, cqVars
  <2>2. UNCHANGED clientSide /\ Advertised' = Advertised
    BY <1>10 DEF vars, serverVars, clientVars, linkVars, cqVars, clientSide, Advertised
  <2>3. UNCHANGED <<serverSide, hello, cmain>> /\ recvPosted' = recvPosted
    BY <1>10 DEF vars, serverVars, clientVars, linkVars, cqVars, serverSide
  <2>4. ServerSide'
    BY <1>1, <2>3, ServerSideUnchanged
  <2> QED  BY <1>2, <2>1, <2>2, <2>4, ClientSideUnchanged
<1> QED  BY <1>3, <1>4, <1>5, <1>6, <1>7, <1>8, <1>9, <1>10 DEF Next

-----------------------------------------------------------------------------
(* What the runs check, for every value of the uninitialised wr_id.        *)

\* The invariant holds in every state of the exchange: while the connection
\* holds one advertisement is under way, and the place of the server's main
\* thread in start() says which.
THEOREM Invariance == Spec => []IInv
<1>1. Init => IInv
  BY InitIInv
<1>2. IInv /\ [Next]_vars => IInv'
  BY NextIInv
<1> QED  BY <1>1, <1>2, PTL DEF Spec

\* No field of a region that the client uses is left over from another
\* advertisement, although recv_handler parses one receive buffer.
THEOREM InfoMatchesTagHolds == Spec => []InfoMatchesTag
<1>1. IInv => InfoMatchesTag
  BY DEF IInv
<1> QED  BY <1>1, Invariance, PTL

\* The server fills its send buffer again only when nothing is on the wire.
THEOREM SendBufStableHolds == Spec => []SendBufStable
<1>1. ASSUME IInv PROVE SendBufStable
  <2>1. CASE wire = <<>>
    BY <2>1 DEF SendBufStable
  <2>2. CASE wire # <<>>
    <3>1. ~broken
      BY <1>1, <2>2 DEF IInv, NothingAfterBreak
    <3>2. PICK id : wire = <<[tag |-> sendBuf, id |-> id]>>
      BY <1>1, <2>2, <3>1, OnTheWire DEF IInv
    <3>3. Len(wire) = 1 /\ wire[1].tag = sendBuf
      BY <3>2
    <3> QED  BY <3>3 DEF SendBufStable
  <2> QED  BY <2>1, <2>2
<1> QED  BY <1>1, Invariance, PTL

\* recv_handler reads the contents that its completion announced.
THEOREM RecvBufStableHolds == Spec => []RecvBufStable
<1>1. ASSUME IInv PROVE RecvBufStable
  <2>1. SUFFICES ASSUME cpc \in Field PROVE recvBuf = cwc.tag
    BY DEF RecvBufStable
  <2>2. cpc # "poll"
    BY <2>1 DEF Field
  <2>3. cwc.op = "RECV" /\ NoReceive
    BY <1>1, <2>2 DEF IInv, OneReceiveBuffer, NoReceive
  <2> QED  BY <1>1, <2>3 DEF IInv, OneReceiveBuffer
<1> QED  BY <1>1, Invariance, PTL

\* A client that knows a region was sent it.
LEMMA KnownIsAdvertised == IInv => Known \subseteq Advertised
<1> SUFFICES ASSUME IInv PROVE Known \subseteq Advertised
  OBVIOUS
<1>1. CASE recvBuf = "none"
  BY <1>1 DEF IInv, KnownInOrder
<1>2. CASE recvBuf \in Region
  <2>1. recvBuf \in Advertised /\ Before[recvBuf] \subseteq Advertised
    BY <1>2, AdvertisedInOrder DEF IInv, KnownInOrder
  <2>2. Known \ {recvBuf} = Before[recvBuf]
    BY <1>2 DEF IInv, KnownInOrder
  <2> QED  BY <2>1, <2>2
<1> QED  BY <1>1, <1>2 DEF IInv, TypeOK, Tag

\* init_sketch_rdma initialises the sketch before the client can know it.
THEOREM SketchReadyWhenKnownHolds == Spec => []SketchReadyWhenKnown
<1>1. ASSUME IInv PROVE SketchReadyWhenKnown
  <2>1. SUFFICES ASSUME flag["sketch"] PROVE sketchReady
    BY DEF SketchReadyWhenKnown
  <2>2. "sketch" \in Advertised
    BY <1>1, <2>1, KnownIsAdvertised DEF Known, Region
  <2>3. spc \in {"waitSketch", "done"}
    BY <2>2 DEF Advertised
  <2> QED  BY <1>1, <2>3 DEF IInv, NothingAfterBreak
<1> QED  BY <1>1, Invariance, PTL

\* start() never takes the completion of one send for that of another while
\* the connection holds, whatever the uninitialised wr_id is.
THEOREM DoneMeansDeliveredHolds == Spec => []DoneMeansDelivered
<1>1. ASSUME IInv PROVE DoneMeansDelivered
  <2>1. OneSendUnderWay /\ TypeOK
    BY <1>1 DEF IInv
  <2>2. SUFFICES ASSUME ~broken, NEW r \in Passed
                 PROVE  /\ \A i \in 1..Len(wire) : wire[i].tag # r
                        /\ \A i \in 1..Len(unacked) : unacked[i].tag # r
    BY DEF DoneMeansDelivered
  <2>3. ASSUME NEW tag \in Region, NEW id, UnderWay(tag, id) \/ Quiet(tag),
               r # tag
        PROVE  /\ \A i \in 1..Len(wire) : wire[i].tag # r
               /\ \A i \in 1..Len(unacked) : unacked[i].tag # r
    BY <2>3 DEF UnderWay, Quiet
  <2>4. CASE spc \in {"copyObject", "copyData", "waitClass"}
    <3>1. UnderWay("class", 1123) /\ r = "start"
      BY <2>1, <2>2, <2>4 DEF OneSendUnderWay, Passed
    <3> QED  BY <2>3, <3>1 DEF Region
  <2>5. CASE spc \in {"postSketch", "done"}
    <3>1. wire = <<>> /\ unacked = <<>>
      BY <2>1, <2>2, <2>5 DEF OneSendUnderWay, Quiet
    <3> QED  BY <3>1
  <2>6. CASE spc = "waitSketch"
    <3>1. UnderWay("sketch", 1124) /\ r \in {"start", "class"}
      BY <2>1, <2>2, <2>6 DEF OneSendUnderWay, Passed
    <3> QED  BY <2>3, <3>1 DEF Region
  <2>7. CASE spc \in {"waitHello", "waitStart"}
    BY <2>2, <2>7 DEF Passed
  <2> QED  BY <2>1, <2>4, <2>5, <2>6, <2>7 DEF TypeOK
<1> QED  BY <1>1, Invariance, PTL

-----------------------------------------------------------------------------
(* The exchange implements Publication, step by step.                      *)

\* The first regions in the order in which they are offered.
LEMMA Prefixes ==
    /\ Publish!Prefix(-1) = {} /\ Publish!Prefix(0) = {}
    /\ Publish!Prefix(1) = {"start"}
    /\ Publish!Prefix(2) = {"start", "class"}
    /\ Publish!Prefix(3) = Region
<1> DEFINE order == <<"start", "class", "sketch">>
<1>1. order[1] = "start" /\ order[2] = "class" /\ order[3] = "sketch"
  OBVIOUS
<1>2. 1..(-1) = {} /\ 1..0 = {} /\ 1..1 = {1} /\ 1..2 = {1, 2} /\ 1..3 = {1, 2, 3}
  OBVIOUS
<1> QED  BY <1>1, <1>2 DEF Publish!Prefix, Region

\* The places of the three regions in that order.
LEMMA Places ==
    /\ Len(<<"start", "class", "sketch">>) = 3
    /\ <<"start", "class", "sketch">>[1] = "start"
    /\ <<"start", "class", "sketch">>[2] = "class"
    /\ <<"start", "class", "sketch">>[3] = "sketch"
  OBVIOUS

\* What the abstract client knows, under the refinement mapping.
Knows == [r \in Region |-> IF flag[r] THEN {info[r][f] : f \in Field} ELSE {}]

\* A client's description of a region mixes nothing.
LEMMA KnowsOwn ==
    ASSUME InfoMatchesTag, NEW r \in Region
    PROVE  Knows[r] = IF flag[r] THEN {r} ELSE {}
<1>1. "addr" \in Field
  BY DEF Field
<1>2. flag[r] => \A f \in Field : info[r][f] = r
  BY DEF InfoMatchesTag
<1> QED  BY <1>1, <1>2 DEF Knows

\* The abstract client has learned the regions whose flag is set.
LEMMA LearnedIsKnown == InfoMatchesTag => Publish!Learned = Known
<1> SUFFICES ASSUME InfoMatchesTag PROVE Publish!Learned = Known
  OBVIOUS
<1>1. \A r \in Region : Knows[r] # {} <=> flag[r]
  BY KnowsOwn
<1>2. Publish!Learned = {r \in Region : Knows[r] # {}}
  BY DEF Publish!Learned, Knows
<1> QED  BY <1>1, <1>2 DEF Known

\* Nothing is offered or known at first.
LEMMA InitPublishes == Init => Publish!Init
  BY DEF Init, Publish!Init, Advertised, Region

\* What is offered grows by the next region.
LEMMA OfferStep ==
    ASSUME NEW n \in 1..3,
           Advertised = Publish!Prefix(n - 1),
           Advertised' = Publish!Prefix(n),
           broken \/ Publish!Prefix(n - 2) \subseteq Publish!Learned,
           UNCHANGED <<info, flag, broken>>
    PROVE  Publish!Next
<1>1. Publish!Offer(n)
  BY DEF Publish!Offer
<1> QED  BY <1>1, Places DEF Publish!Next

\* A step that neither offers nor learns.
LEMMA PublicationStutters ==
    ASSUME UNCHANGED <<info, flag, broken>>, Advertised' = Advertised
    PROVE  UNCHANGED Publish!pubVars
  BY DEF Publish!pubVars

\* recv_handler's last step makes a region known: the next in the order, or
\* one that it knows already and describes as before.
LEMMA SetFlagPublishes ==
    ASSUME IInv, IInv', SetFlag
    PROVE  [Publish!Next]_(Publish!pubVars)
<1>1. /\ KnownInOrder /\ OneReceiveBuffer /\ InfoMatchesTag
      /\ InfoMatchesTag' /\ cpc = "flag" /\ flag \in [Region -> BOOLEAN]
  BY DEF IInv, TypeOK, SetFlag
<1>2. cwc.tag = recvBuf /\ recvBuf \in Region
  BY <1>1 DEF OneReceiveBuffer, NoReceive, IInv, TypeOK
<1>3. UNCHANGED <<info, broken>> /\ Advertised' = Advertised
  BY DEF SetFlag, serverVars, linkVars, Advertised
<1>4. flag' = [flag EXCEPT ![recvBuf] = TRUE]
  BY <1>2 DEF SetFlag
<1>5. CASE recvBuf \in Known
  <2>1. flag' = flag
    BY <1>1, <1>2, <1>4, <1>5 DEF Known
  <2> QED  BY <1>3, <2>1, PublicationStutters
<1>6. CASE recvBuf \notin Known
  <2>1. Publish!Learned = Before[recvBuf] /\ recvBuf \in Advertised
    BY <1>1, <1>2, <1>6, LearnedIsKnown DEF KnownInOrder
  <2>2. Knows' = [Knows EXCEPT ![recvBuf] = {recvBuf}]
    <3>1. ASSUME NEW r \in Region
          PROVE  Knows'[r] = IF flag'[r] THEN {r} ELSE {}
      <4>1. flag'[r] => \A f \in Field : info'[r][f] = r
        BY <1>1 DEF InfoMatchesTag
      <4>2. Knows'[r] = IF flag'[r] THEN {info'[r][f] : f \in Field} ELSE {}
        BY DEF Knows
      <4>3. "addr" \in Field
        BY DEF Field
      <4> QED  BY <4>1, <4>2, <4>3
    <3>2. \A r \in Region : Knows[r] = IF flag[r] THEN {r} ELSE {}
      BY <1>1, KnowsOwn
    <3>3. \A r \in Region :
              Knows'[r] = IF r = recvBuf THEN {recvBuf} ELSE Knows[r]
      BY <1>1, <1>2, <1>4, <3>1, <3>2
    <3>4. /\ Knows' = [r \in Region |-> Knows'[r]]
          /\ Knows = [r \in Region |-> Knows[r]]
      BY DEF Knows
    <3> HIDE DEF Knows
    <3> QED  BY <1>2, <3>3, <3>4
  <2>3. \E n \in 1..3 :
            /\ recvBuf = <<"start", "class", "sketch">>[n]
            /\ Before[recvBuf] = Publish!Prefix(n - 1)
    <3>1. CASE recvBuf = "start"
      <4>1. 1 \in 1..3 /\ 1 - 1 = 0
        OBVIOUS
      <4>2. Before[recvBuf] = Publish!Prefix(1 - 1)
        BY <3>1, <4>1, Prefixes DEF Before
      <4> QED  BY <3>1, <4>1, <4>2, Places
    <3>2. CASE recvBuf = "class"
      <4>1. 2 \in 1..3 /\ 2 - 1 = 1
        OBVIOUS
      <4>2. Before[recvBuf] = Publish!Prefix(2 - 1)
        BY <3>2, <4>1, Prefixes DEF Before
      <4> QED  BY <3>2, <4>1, <4>2, Places
    <3>3. CASE recvBuf = "sketch"
      <4>1. 3 \in 1..3 /\ 3 - 1 = 2
        OBVIOUS
      <4>2. Before[recvBuf] = Publish!Prefix(3 - 1)
        BY <3>3, <4>1, Prefixes DEF Before
      <4> QED  BY <3>3, <4>1, <4>2, Places
    <3> QED  BY <1>2, <3>1, <3>2, <3>3 DEF Region
  <2>4. PICK n \in 1..3 : /\ recvBuf = <<"start", "class", "sketch">>[n]
                          /\ Before[recvBuf] = Publish!Prefix(n - 1)
    BY <2>3
  <2>5. Publish!Learn(n)
    BY <1>3, <2>1, <2>2, <2>4 DEF Publish!Learn, Knows
  <2> QED  BY <2>4, <2>5, Places DEF Publish!LearnNext, Publish!Next
<1> QED  BY <1>5, <1>6

\* recv_handler parses a field: of a region that the client knows, the field
\* that it holds already.
LEMMA ParseFieldPublishes ==
    ASSUME IInv, IInv', ParseField
    PROVE  UNCHANGED Publish!pubVars
<1>1. UNCHANGED <<flag, broken>> /\ Advertised' = Advertised
  BY DEF ParseField, serverVars, linkVars, Advertised
<1>2. \A r \in Region : Knows[r] = IF flag[r] THEN {r} ELSE {}
  BY KnowsOwn DEF IInv
<1>3. \A r \in Region : Knows'[r] = IF flag'[r] THEN {r} ELSE {}
  BY DEF IInv, Knows, InfoMatchesTag, Field
<1>4. \A r \in Region : Knows'[r] = Knows[r]
  BY <1>1, <1>2, <1>3
<1>5. /\ Knows' = [r \in Region |-> Knows'[r]]
      /\ Knows = [r \in Region |-> Knows[r]]
  BY DEF Knows
<1>6. Knows' = Knows
  <2> HIDE DEF Knows
  <2> QED  BY <1>4, <1>5
<1> QED  BY <1>1, <1>6 DEF Publish!pubVars, Knows

\* The server's main thread offers the next region, or does something else.
LEMMA ServerMainPublishes ==
    ASSUME IInv, ServerMain
    PROVE  [Publish!Next]_(Publish!pubVars)
<1>1. UNCHANGED <<info, flag, broken>>
  BY DEF ServerMain, AdvertiseStart, AdvertiseClass, CopyObject, CopyData,
         InitSketch, AdvertiseSketch, FinishStart, clientVars, linkVars
<1>2. CASE AdvertiseStart
  <2>1. Advertised = {} /\ Advertised' = {"start"}
    BY <1>2 DEF AdvertiseStart, Advertised
  <2>2. 1 \in 1..3 /\ 1 - 1 = 0 /\ 1 - 2 = -1
    OBVIOUS
  <2>3. /\ Advertised = Publish!Prefix(1 - 1) /\ Advertised' = Publish!Prefix(1)
        /\ Publish!Prefix(1 - 2) \subseteq Publish!Learned
    BY <2>1, <2>2, Prefixes
  <2>4. Publish!Next
    BY <1>1, <2>2, <2>3, OfferStep
  <2> QED  BY <2>4
<1>3. CASE AdvertiseClass
  <2>1. Advertised = {"start"} /\ Advertised' = {"start", "class"}
    BY <1>3 DEF AdvertiseClass, Advertised
  <2>2. 2 \in 1..3 /\ 2 - 1 = 1 /\ 2 - 2 = 0
    OBVIOUS
  <2>3. /\ Advertised = Publish!Prefix(2 - 1) /\ Advertised' = Publish!Prefix(2)
        /\ Publish!Prefix(2 - 2) \subseteq Publish!Learned
    BY <2>1, <2>2, Prefixes
  <2>4. Publish!Next
    BY <1>1, <2>2, <2>3, OfferStep
  <2> QED  BY <2>4
<1>4. CASE AdvertiseSketch
  <2>1. Advertised = {"start", "class"} /\ Advertised' = Region
    BY <1>4 DEF AdvertiseSketch, Advertised
  <2>2. 3 \in 1..3 /\ 3 - 1 = 2 /\ 3 - 2 = 1
    OBVIOUS
  <2>3. broken \/ "start" \in Known
    <3>1. ~broken => recvBuf = "class"
      BY <1>4 DEF AdvertiseSketch, IInv, OneSendUnderWay, Quiet
    <3>2. recvBuf = "class" => Known \ {"class"} = {"start"}
      BY DEF IInv, KnownInOrder, Region, Before
    <3> QED  BY <3>1, <3>2
  <2>4. /\ Advertised = Publish!Prefix(3 - 1) /\ Advertised' = Publish!Prefix(3)
        /\ broken \/ Publish!Prefix(3 - 2) \subseteq Publish!Learned
    BY <2>1, <2>2, <2>3, Prefixes, LearnedIsKnown DEF IInv
  <2>5. Publish!Next
    BY <1>1, <2>2, <2>4, OfferStep
  <2> QED  BY <2>5
<1>5. CASE CopyObject \/ CopyData \/ InitSketch \/ FinishStart
  <2>1. Advertised' = Advertised
    BY <1>5 DEF CopyObject, CopyData, InitSketch, FinishStart, Advertised
  <2> QED  BY <1>1, <2>1, PublicationStutters
<1> QED  BY <1>2, <1>3, <1>4, <1>5 DEF ServerMain

\* Every step of the exchange is a step of Publication or leaves it unchanged.
LEMMA NextPublishes ==
    ASSUME IInv, IInv', [Next]_vars
    PROVE  [Publish!Next]_(Publish!pubVars)
<1>1. CASE ServerMain
  BY <1>1, ServerMainPublishes
<1>2. CASE SetFlag
  BY <1>2, SetFlagPublishes
<1>3. CASE ParseField
  BY <1>3, ParseFieldPublishes
<1>4. CASE LinkBreaks
  <2>1. ~broken /\ broken' /\ UNCHANGED <<info, flag>>
    BY <1>4 DEF LinkBreaks
  <2>2. Advertised' = Advertised
    BY <1>4 DEF LinkBreaks, serverVars, Advertised
  <2>3. Publish!Break
    BY <2>1, <2>2 DEF Publish!Break, IInv, TypeOK
  <2> QED  BY <2>3 DEF Publish!Next
<1>5. CASE ServerPoll \/ ClientMain \/ ClientPoll \/ Repost
  <2>1. UNCHANGED <<info, flag, broken>> /\ Advertised' = Advertised
    BY <1>5 DEF ServerPoll, ClientMain, SendHello, Started, ClientPoll, Repost,
                serverVars, clientVars, linkVars, Advertised
  <2> QED  BY <2>1, PublicationStutters
<1>6. CASE Link
  <2>1. UNCHANGED <<info, flag, broken>> /\ Advertised' = Advertised
    BY <1>6 DEF Link, DeliverHello, AckHello, Deliver, Ack,
                serverVars, clientVars, Advertised
  <2> QED  BY <2>1, PublicationStutters
<1>7. CASE UNCHANGED vars
  <2>1. UNCHANGED <<info, flag, broken>> /\ Advertised' = Advertised
    BY <1>7 DEF vars, serverVars, clientVars, linkVars, Advertised
  <2> QED  BY <2>1, PublicationStutters
<1> QED  BY <1>1, <1>2, <1>3, <1>4, <1>5, <1>6, <1>7 DEF Next, ClientHandler

\* The exchange offers the regions in order, at most two ahead of the client,
\* and the client learns them in order, each by its own fields, and never
\* forgets one: the safety half of ImplementsPublication.
THEOREM PublishesSafely ==
    Spec => Publish!Init /\ [][Publish!Next]_(Publish!pubVars)
<1>1. Init => Publish!Init
  BY InitPublishes
<1>2. IInv /\ IInv' /\ [Next]_vars => [Publish!Next]_(Publish!pubVars)
  BY NextPublishes
<1> QED  BY <1>1, <1>2, Invariance, PTL DEF Spec

-----------------------------------------------------------------------------
(* Nobody waits for ever.  HandshakeCompletes is a liveness property, which *)
(* the prover does not reach; but what makes it true is proved here for     *)
(* every wr_id: while the connection holds, some thread or adapter can go   *)
(* on until both programs are done, and it cannot do so for ever, because   *)
(* every step leaves fewer steps to take.                                   *)

\* Whether a thread or an adapter can take a step: the guards of the actions.
CanGoOn ==
    \/ spc = "waitHello" /\ gotHello
    \/ spc = "waitStart" /\ sendDone["start"]
    \/ spc = "waitClass" /\ sendDone["class"]
    \/ spc = "waitSketch" /\ sendDone["sketch"]
    \/ spc \in {"copyObject", "copyData", "postSketch"}
    \/ scq # <<>>
    \/ cmain = "connected"
    \/ cmain = "waitStart" /\ flag["start"]
    \/ cpc = "poll" /\ ccq # <<>>
    \/ cpc # "poll"
    \/ ~broken /\ hello \in {"sent", "delivered"}
    \/ ~broken /\ wire # <<>> /\ recvPosted > 0
    \/ ~broken /\ unacked # <<>>

\* No action has another guard.
LEMMA StepsAreGuarded ==
    ASSUME TypeOK, ServerMain \/ ServerPoll \/ ClientMain \/ ClientPoll
                              \/ ClientHandler \/ Link
    PROVE  CanGoOn
<1>1. ServerMain \/ ServerPoll => CanGoOn
  BY DEF ServerMain, AdvertiseStart, AdvertiseClass, CopyObject, CopyData,
         InitSketch, AdvertiseSketch, FinishStart, ServerPoll, CanGoOn
<1>2. ClientMain \/ ClientPoll \/ ClientHandler => CanGoOn
  BY DEF ClientMain, SendHello, Started, ClientPoll, ClientHandler,
         ParseField, SetFlag, Repost, Field, CanGoOn
<1>3. Link => CanGoOn
  BY DEF Link, DeliverHello, AckHello, Deliver, Ack, CanGoOn
<1> QED  BY <1>1, <1>2, <1>3

\* Both start() functions have returned and the client knows every region.
BothStarted == spc = "done" /\ cmain = "started" /\ Known = Region

\* The hello is on its way, or was, once start() has sent it.
HelloIsSent == ~broken /\ cmain # "connected" => hello # "none"

\* The client has a receive posted, or is to handle the one that it had.
ReceiveComes == ~broken => recvPosted > 0 \/ cpc # "poll" \/ ~NoReceive

\* The region whose completion the server waits for.
Awaited ==
    CASE spc = "waitStart" -> "start"
      [] spc = "waitSketch" -> "sketch"
      [] OTHER -> "class"

\* When nothing is under way any more the flag of the completion is set,
\* provided that the first wr_id is the one that cq_thread looks for.
CompletionIsSeen ==
    /\ ~broken /\ firstId = WrId["start"]
    /\ spc \in {"waitStart", "copyObject", "copyData", "waitClass",
                "waitSketch"}
    /\ Quiet(Awaited)
    => sendDone[Awaited]

ProgressInv == HelloIsSent /\ ReceiveComes /\ CompletionIsSeen

\* At the start the receive is posted and nothing has been sent.
LEMMA InitProgress == Init => ProgressInv
  BY DEF Init, ProgressInv, HelloIsSent, ReceiveComes, CompletionIsSeen

\* A step that touches neither queue pair keeps what is awaited.
LEMMA ServerKeepsAwaiting ==
    ASSUME CompletionIsSeen, broken => broken',
           UNCHANGED <<spc, sendDone, firstId, scq, wire, unacked, recvBuf>>
    PROVE  CompletionIsSeen'
<1>1. Awaited' = Awaited /\ Quiet(Awaited)' = Quiet(Awaited)
  BY DEF Awaited, Quiet
<1> QED  BY <1>1 DEF CompletionIsSeen

\* A send is on the wire once it is posted.
LEMMA PostedOnWire ==
    ASSUME TypeOK, ~broken, NEW tag \in Region, NEW id \in Nat,
           PostSend(tag, id)
    PROVE  wire' # <<>> /\ Len(wire') = Len(wire) + 1 /\ scq' = scq
<1> DEFINE m == [tag |-> tag, id |-> id]
<1>1. m \in Message /\ wire \in Seq(Message)
  BY CompletionType DEF Tag, TypeOK
<1>2. wire' = Append(wire, m) /\ scq' = scq
  BY DEF PostSend
<1> HIDE DEF m
<1>3. Len(Append(wire, m)) = Len(wire) + 1 /\ Len(wire) \in Nat
  BY <1>1, AppendProperties, LenProperties
<1>4. Append(wire, m) # <<>>
  BY <1>3
<1> QED  BY <1>2, <1>3, <1>4

\* The server's main thread: a send is under way as soon as it is awaited.
LEMMA ServerMainProgress ==
    ASSUME IInv, ProgressInv, ServerMain
    PROVE  ProgressInv'
<1> USE DEF clientVars, linkVars, cqVars
<1>1. TypeOK /\ HelloIsSent /\ ReceiveComes /\ CompletionIsSeen
  BY DEF IInv, ProgressInv
<1>2. UNCHANGED <<cmain, hello, cpc, ccq, recvPosted, broken, sendDone, firstId>>
  BY DEF ServerMain, AdvertiseStart, AdvertiseClass, CopyObject, CopyData,
         InitSketch, AdvertiseSketch, FinishStart
<1>3. HelloIsSent' /\ ReceiveComes'
  BY <1>1, <1>2 DEF HelloIsSent, ReceiveComes, NoReceive
<1>4. SUFFICES ASSUME ~broken PROVE CompletionIsSeen'
  <2>1. broken => CompletionIsSeen'
    BY <1>2 DEF CompletionIsSeen
  <2> QED  BY <1>3, <2>1 DEF ProgressInv
<1>5. CASE AdvertiseStart \/ AdvertiseClass \/ AdvertiseSketch
  <2>1. firstId \in Nat /\ 1123 \in Nat /\ 1124 \in Nat
    BY <1>1, WrIdsAssumption DEF TypeOK
  <2>2. PICK tag \in Region, id \in Nat : PostSend(tag, id)
    BY <1>5, <2>1 DEF AdvertiseStart, AdvertiseClass, AdvertiseSketch, Region
  <2>3. wire' # <<>>
    BY <1>1, <1>4, <2>2, PostedOnWire
  <2> QED  BY <2>3 DEF CompletionIsSeen, Quiet
<1>6. CASE CopyObject \/ CopyData
  <2>1. /\ spc \in {"copyObject", "copyData"}
        /\ spc' \in {"copyData", "waitClass"}
        /\ UNCHANGED <<scq, wire, unacked, recvBuf>>
    BY <1>6 DEF CopyObject, CopyData
  <2>2. Awaited' = "class" /\ Awaited = "class"
    BY <2>1 DEF Awaited
  <2> QED  BY <1>1, <1>2, <2>1, <2>2 DEF CompletionIsSeen, Quiet
<1>7. CASE InitSketch \/ FinishStart
  <2>1. spc' \in {"postSketch", "done"}
    BY <1>7 DEF InitSketch, FinishStart
  <2> QED  BY <2>1 DEF CompletionIsSeen
<1> QED  BY <1>5, <1>6, <1>7 DEF ServerMain

\* The server's thread sets the flag of the one send that was under way.
LEMMA ServerPollProgress ==
    ASSUME IInv, ProgressInv, ServerPoll
    PROVE  ProgressInv'
<1> USE DEF clientVars, linkVars
<1>1. /\ TypeOK /\ OneSendUnderWay
      /\ HelloIsSent /\ ReceiveComes
  BY DEF IInv, ProgressInv
<1>2. /\ UNCHANGED <<cmain, hello, cpc, ccq, recvPosted, broken, spc, firstId,
                     wire, unacked, recvBuf>>
      /\ scq # <<>>
  BY DEF ServerPoll
<1>3. HelloIsSent' /\ ReceiveComes'
  BY <1>1, <1>2 DEF HelloIsSent, ReceiveComes, NoReceive
<1>4. SUFFICES ASSUME ~broken, firstId = WrId["start"],
                      spc \in {"waitStart", "copyObject", "copyData",
                               "waitClass", "waitSketch"}
               PROVE  sendDone'[Awaited']
  BY <1>2, <1>3 DEF ProgressInv, CompletionIsSeen
<1>5. Awaited' = Awaited /\ Awaited \in Region
  BY <1>2 DEF Awaited, Region
<1>6. UnderWay(Awaited, WrId[Awaited]) /\ WrId[Awaited] \in Nat
  BY <1>1, <1>4 DEF OneSendUnderWay, Awaited, WrId
<1> DEFINE c == Completed("SEND", "none", WrId[Awaited])
<1>7. scq = <<c>>
  BY <1>2, <1>6 DEF UnderWay, Quiet
<1>8. c.ok /\ c.op = "SEND" /\ c.id = WrId[Awaited]
  BY DEF Completed
<1> HIDE DEF c
<1>9. swc' = c
  <2>1. Head(scq) = c
    BY <1>7
  <2> QED  BY <1>8, <2>1 DEF ServerPoll, Seen
<1> QED  BY <1>5, <1>8, <1>9 DEF ServerPoll

\* A step of the client touches neither the server nor what is on its way.
LEMMA ClientKeepsAwaiting ==
    ASSUME CompletionIsSeen, ClientMain \/ ClientPoll \/ ClientHandler
    PROVE  CompletionIsSeen' /\ broken' = broken
<1>1. UNCHANGED <<spc, sendDone, firstId, scq, wire, unacked, recvBuf, broken>>
  BY DEF ClientMain, SendHello, Started, ClientPoll, ClientHandler, ParseField,
         SetFlag, Repost, serverVars, linkVars, cqVars
<1> QED  BY <1>1, ServerKeepsAwaiting

\* The client's main thread.
LEMMA ClientMainProgress ==
    ASSUME ProgressInv, ClientMain
    PROVE  ProgressInv'
<1>1. HelloIsSent /\ ReceiveComes /\ CompletionIsSeen' /\ broken' = broken
  BY ClientKeepsAwaiting DEF ProgressInv
<1>2. UNCHANGED <<cpc, recvPosted>> /\ (~broken => UNCHANGED ccq)
  BY DEF ClientMain, SendHello, Started, cqVars
<1>3. HelloIsSent'
  BY <1>1 DEF HelloIsSent, ClientMain, SendHello, Started, linkVars
<1>4. ReceiveComes'
  BY <1>1, <1>2 DEF ReceiveComes, NoReceive
<1> QED  BY <1>1, <1>3, <1>4 DEF ProgressInv

\* The client's thread: a receive that leaves the queue is handled, and
\* posted again at the end.
LEMMA ClientThreadProgress ==
    ASSUME IInv, ProgressInv, ClientPoll \/ ClientHandler
    PROVE  ProgressInv'
<1>1. /\ HelloIsSent /\ ReceiveComes /\ CompletionIsSeen' /\ broken' = broken
      /\ ccq \in Seq(Completion) /\ recvPosted \in Nat /\ OneReceiveBuffer
  BY ClientKeepsAwaiting DEF ProgressInv, IInv, TypeOK
<1>2. UNCHANGED <<cmain, hello>>
  BY DEF ClientPoll, ClientHandler, ParseField, SetFlag, Repost, linkVars
<1>3. HelloIsSent'
  BY <1>1, <1>2 DEF HelloIsSent
<1>4. SUFFICES ASSUME ~broken PROVE ReceiveComes'
  BY <1>1, <1>3 DEF ProgressInv, ReceiveComes
<1>5. CASE ClientHandler
  BY <1>1, <1>4, <1>5 DEF ClientHandler, ParseField, SetFlag, Repost,
                          ReceiveComes, Field
<1>6. CASE ClientPoll
  <2>1. /\ cpc = "poll" /\ ccq # <<>> /\ ccq' = Tail(ccq)
        /\ recvPosted' = recvPosted
        /\ cwc' \in Seen(cwc, Head(ccq))
        /\ cpc' = IF cwc'.op = "RECV" THEN "addr" ELSE "poll"
    BY <1>6 DEF ClientPoll
  <2>2. CASE recvPosted > 0
    BY <2>1, <2>2 DEF ReceiveComes
  <2>3. CASE ~(recvPosted > 0)
    <3>1. PICK i \in 1..Len(ccq) : ccq[i].op = "RECV"
      BY <1>1, <1>4, <2>1, <2>3 DEF ReceiveComes, NoReceive
    <3>2. /\ Head(ccq) = ccq[1] /\ Len(Tail(ccq)) = Len(ccq) - 1
          /\ \A j \in 1..Len(Tail(ccq)) : Tail(ccq)[j] = ccq[j + 1]
          /\ Len(ccq) \in Nat
      BY <1>1, <2>1, HeadTailProperties, LenProperties
    <3>3. CASE i = 1
      <4>1. ccq[1].ok
        BY <1>1, <1>4, <3>1, <3>3 DEF OneReceiveBuffer
      <4>2. cwc' = ccq[1]
        BY <2>1, <3>2, <4>1 DEF Seen
      <4> QED  BY <2>1, <3>1, <3>3, <4>2 DEF ReceiveComes
    <3>4. CASE i # 1
      <4>1. i - 1 \in 1..Len(ccq') /\ ccq'[i - 1] = ccq[i]
        BY <2>1, <3>1, <3>2, <3>4
      <4> QED  BY <3>1, <4>1 DEF ReceiveComes, NoReceive
    <3> QED  BY <3>3, <3>4
  <2> QED  BY <2>2, <2>3
<1> QED  BY <1>5, <1>6

\* What an adapter reports is in a queue.
LEMMA Reported ==
    ASSUME NEW q \in Seq(Completion), NEW e \in Completion
    PROVE  /\ Append(q, e) # <<>> /\ Len(Append(q, e)) = Len(q) + 1
           /\ Append(q, e)[Len(q) + 1] = e
           /\ Len(q) \in Nat
           /\ \A i \in 1..Len(q) : Append(q, e)[i] = q[i]
<1>1. /\ Len(q) \in Nat /\ Len(Append(q, e)) = Len(q) + 1
      /\ Append(q, e)[Len(q) + 1] = e
      /\ \A i \in 1..Len(q) : Append(q, e)[i] = q[i]
  BY AppendProperties, LenProperties
<1>2. Append(q, e) # <<>>
  BY <1>1
<1> QED  BY <1>1, <1>2

\* The adapters: a message, or its report, is somewhere until it is seen.
LEMMA LinkProgress ==
    ASSUME IInv, ProgressInv, Link
    PROVE  ProgressInv'
<1> USE DEF serverVars, clientVars
<1>1. /\ TypeOK /\ HelloIsSent /\ ReceiveComes /\ CompletionIsSeen
      /\ scq \in Seq(Completion) /\ ccq \in Seq(Completion)
      /\ wire \in Seq(Message) /\ unacked \in Seq(Message)
  BY DEF IInv, ProgressInv, TypeOK
<1>2. HelloIsSent'
  BY <1>1 DEF HelloIsSent, Link, DeliverHello, AckHello, Deliver, Ack
<1>3. CASE DeliverHello
  <2>1. scq' # <<>>
    BY <1>1, <1>3, CompletionType, Reported DEF DeliverHello, Tag
  <2>2. ReceiveComes'
    BY <1>1, <1>3 DEF DeliverHello, ReceiveComes, NoReceive
  <2> QED  BY <1>2, <2>1, <2>2 DEF ProgressInv, CompletionIsSeen, Quiet
<1>4. CASE AckHello
  <2>1. UNCHANGED <<spc, sendDone, firstId, scq, wire, unacked, recvBuf,
                    broken, cpc, recvPosted>>
    BY <1>4 DEF AckHello
  <2>2. CompletionIsSeen'
    BY <1>1, <2>1, ServerKeepsAwaiting
  <2>3. \A i \in 1..Len(ccq) : i \in 1..Len(ccq') /\ ccq'[i] = ccq[i]
    <3>1. ccq' = Append(ccq, Completed("SEND", "none", 0))
      BY <1>4 DEF AckHello
    <3>2. Completed("SEND", "none", 0) \in Completion
      BY CompletionType DEF Tag
    <3> QED  BY <1>1, <3>1, <3>2, Reported
  <2>4. ReceiveComes'
    BY <1>1, <2>1, <2>3 DEF ReceiveComes, NoReceive
  <2> QED  BY <1>2, <2>2, <2>4 DEF ProgressInv
<1>5. CASE Deliver
  <2>1. Head(wire) \in Message /\ wire # <<>>
    BY <1>1, <1>5, HeadTailProperties DEF Deliver
  <2>2. unacked' # <<>>
    <3>1. Len(Append(unacked, Head(wire))) = Len(unacked) + 1
          /\ Len(unacked) \in Nat
      BY <1>1, <2>1, AppendProperties, LenProperties
    <3>2. Append(unacked, Head(wire)) # <<>>
      BY <3>1
    <3> QED  BY <1>5, <3>2 DEF Deliver
  <2> DEFINE e == Completed("RECV", Head(wire).tag, 0)
  <2>3. e \in Completion /\ e.op = "RECV"
    BY <2>1, CompletionType DEF Message, Tag, Completed
  <2>4. ccq' = Append(ccq, e)
    BY <1>5 DEF Deliver
  <2> HIDE DEF e
  <2>5. Len(ccq) + 1 \in 1..Len(ccq') /\ ccq'[Len(ccq) + 1] = e
    BY <1>1, <2>3, <2>4, Reported
  <2>6. ReceiveComes'
    BY <2>3, <2>5 DEF ReceiveComes, NoReceive
  <2> QED  BY <1>2, <2>2, <2>6 DEF ProgressInv, CompletionIsSeen, Quiet
<1>6. CASE Ack
  <2>1. Head(unacked) \in Message
    BY <1>1, <1>6, HeadTailProperties DEF Ack
  <2>2. Completed("SEND", "none", Head(unacked).id) \in Completion
    BY <2>1, CompletionType DEF Message, Tag
  <2>3. scq' # <<>>
    BY <1>1, <1>6, <2>2, Reported DEF Ack
  <2>4. ReceiveComes'
    BY <1>1, <1>6 DEF Ack, ReceiveComes, NoReceive
  <2> QED  BY <1>2, <2>3, <2>4 DEF ProgressInv, CompletionIsSeen, Quiet
<1> QED  BY <1>3, <1>4, <1>5, <1>6 DEF Link

\* Every step.
LEMMA NextProgress == IInv /\ ProgressInv /\ [Next]_vars => ProgressInv'
<1> SUFFICES ASSUME IInv, ProgressInv, [Next]_vars PROVE ProgressInv'
  OBVIOUS
<1>1. CASE LinkBreaks
  BY <1>1 DEF LinkBreaks, ProgressInv, HelloIsSent, ReceiveComes,
              CompletionIsSeen
<1>2. CASE UNCHANGED vars
  <2>1. UNCHANGED <<spc, sendDone, firstId, scq, wire, unacked, recvBuf,
                    broken>>
    BY <1>2 DEF vars, serverVars, clientVars, linkVars, cqVars
  <2>2. CompletionIsSeen'
    BY <2>1, ServerKeepsAwaiting DEF ProgressInv
  <2>3. HelloIsSent' /\ ReceiveComes'
    BY <1>2 DEF vars, clientVars, linkVars, cqVars, ProgressInv, HelloIsSent,
                ReceiveComes, NoReceive
  <2> QED  BY <2>2, <2>3 DEF ProgressInv
<1> QED  BY <1>1, <1>2, ServerMainProgress, ServerPollProgress,
            ClientMainProgress, ClientThreadProgress, LinkProgress DEF Next

\* While the connection holds, and with the wr_id that cq_thread looks for,
\* the handshake never hangs: the server's thread and the client's never wait
\* for each other, nor an adapter for a receive that nobody posts.
THEOREM HandshakeNeverHangs ==
    Spec => [](~broken /\ firstId = WrId["start"] => BothStarted \/ CanGoOn)
<1>1. ASSUME IInv, ProgressInv, ~broken, firstId = WrId["start"], ~CanGoOn
      PROVE  BothStarted
  <2>1. TypeOK /\ OneSendUnderWay /\ KnownInOrder
    BY <1>1 DEF IInv
  <2>2. /\ scq = <<>> /\ unacked = <<>> /\ ccq = <<>> /\ cpc = "poll"
        /\ cmain # "connected" /\ hello \notin {"sent", "delivered"}
        /\ ~(wire # <<>> /\ recvPosted > 0)
    BY <1>1 DEF CanGoOn
  <2>3. hello = "acked"
    BY <1>1, <2>1, <2>2 DEF ProgressInv, HelloIsSent, TypeOK
  <2>4. NoReceive
    BY <2>2 DEF NoReceive
  <2>5. wire = <<>>
    BY <1>1, <2>2, <2>4 DEF ProgressInv, ReceiveComes
  <2>6. spc # "waitHello"
    BY <1>1, <2>1, <2>2, <2>3 DEF OneSendUnderWay, AwaitsHello, CanGoOn
  <2>7. spc \notin {"waitStart", "copyObject", "copyData", "waitClass",
                    "waitSketch"}
    <3>1. SUFFICES ASSUME spc \in {"waitStart", "copyObject", "copyData",
                                   "waitClass", "waitSketch"}
                   PROVE  FALSE
      OBVIOUS
    <3>2. \E id : UnderWay(Awaited, id)
      BY <1>1, <2>1, <3>1 DEF OneSendUnderWay, Awaited
    <3>3. Quiet(Awaited)
      BY <2>2, <2>5, <3>2 DEF UnderWay
    <3>4. sendDone[Awaited]
      BY <1>1, <3>1, <3>3 DEF ProgressInv, CompletionIsSeen
    <3> QED  BY <1>1, <3>1, <3>4 DEF CanGoOn, Awaited
  <2>8. spc = "done"
    BY <1>1, <2>1, <2>6, <2>7 DEF TypeOK, CanGoOn
  <2>9. recvBuf = "sketch"
    BY <1>1, <2>1, <2>8 DEF OneSendUnderWay, Quiet
  <2>10. Known = Region
    <3>1. Known \ {"sketch"} = {"start", "class"}
      BY <2>1, <2>9 DEF KnownInOrder, Region, Before
    <3>2. "sketch" \in Known
      BY <2>1, <2>2, <2>4, <2>9 DEF KnownInOrder, Region, Field
    <3> QED  BY <3>1, <3>2 DEF Region
  <2>11. flag["start"]
    BY <2>10 DEF Known, Region
  <2> QED  BY <1>1, <2>1, <2>2, <2>8, <2>10, <2>11
           DEF BothStarted, TypeOK, CanGoOn
<1>2. IInv /\ ProgressInv =>
          (~broken /\ firstId = WrId["start"] => BothStarted \/ CanGoOn)
  BY <1>1
<1> QED  BY <1>2, Invariance, InitProgress, NextProgress, PTL DEF Spec

\* How many steps are left, counting for each message its delivery, its
\* acknowledgement, both completions and what recv_handler does.
ServerLeft ==
    [waitHello |-> 34, waitStart |-> 24, copyObject |-> 14, copyData |-> 13,
     waitClass |-> 12, postSketch |-> 11, waitSketch |-> 1, done |-> 0][spc]
MainLeft == [connected |-> 11, waitStart |-> 1, started |-> 0][cmain]
ThreadLeft ==
    [poll |-> 0, addr |-> 5, len |-> 4, rkey |-> 3, flag |-> 2,
     repost |-> 1][cpc]
HelloLeft == [none |-> 0, sent |-> 9, delivered |-> 7, acked |-> 0][hello]
StepsLeft ==
    ServerLeft + MainLeft + ThreadLeft + HelloLeft
        + Len(scq) + 6 * Len(ccq) + 9 * Len(wire) + 2 * Len(unacked)

\* Each part of the measure is a number.
LEMMA StepsType ==
    ASSUME TypeOK
    PROVE  /\ ServerLeft \in Nat /\ MainLeft \in Nat /\ ThreadLeft \in Nat
           /\ HelloLeft \in Nat /\ Len(scq) \in Nat /\ Len(ccq) \in Nat
           /\ Len(wire) \in Nat /\ Len(unacked) \in Nat
           /\ StepsLeft \in Nat
<1>1. ServerLeft \in Nat
  BY DEF TypeOK, ServerLeft
<1>2. MainLeft \in Nat /\ HelloLeft \in Nat
  BY DEF TypeOK, MainLeft, HelloLeft
<1>3. ThreadLeft \in Nat
  BY DEF TypeOK, ThreadLeft
<1>4. /\ Len(scq) \in Nat /\ Len(ccq) \in Nat
      /\ Len(wire) \in Nat /\ Len(unacked) \in Nat
  BY LenProperties DEF TypeOK
<1>5. 6 * Len(ccq) \in Nat /\ 9 * Len(wire) \in Nat /\ 2 * Len(unacked) \in Nat
  BY <1>4
<1> QED  BY <1>1, <1>2, <1>3, <1>4, <1>5 DEF StepsLeft

\* A step of the server's main thread.
LEMMA ServerMainShortens ==
    ASSUME TypeOK, ServerMain, ~broken
    PROVE  StepsLeft' < StepsLeft
<1> USE DEF clientVars, linkVars, cqVars
<1>0. /\ ServerLeft \in Nat /\ MainLeft \in Nat /\ ThreadLeft \in Nat
      /\ HelloLeft \in Nat /\ Len(scq) \in Nat /\ Len(ccq) \in Nat
      /\ Len(wire) \in Nat /\ Len(unacked) \in Nat
  BY StepsType
<1>1. /\ UNCHANGED <<cmain, cpc, hello, ccq, unacked>>
      /\ firstId \in Nat /\ 1123 \in Nat /\ 1124 \in Nat
  BY WrIdsAssumption
     DEF ServerMain, AdvertiseStart, AdvertiseClass, CopyObject, CopyData,
         InitSketch, AdvertiseSketch, FinishStart, TypeOK
<1>2. /\ MainLeft' = MainLeft /\ ThreadLeft' = ThreadLeft
      /\ HelloLeft' = HelloLeft
      /\ Len(ccq') = Len(ccq) /\ Len(unacked') = Len(unacked)
  BY <1>1 DEF MainLeft, ThreadLeft, HelloLeft
<1>3. CASE AdvertiseStart \/ AdvertiseClass \/ AdvertiseSketch
  <2>1. ServerLeft' = ServerLeft - 10
    BY <1>3 DEF AdvertiseStart, AdvertiseClass, AdvertiseSketch, ServerLeft
  <2>2. PICK tag \in Region, id \in Nat : PostSend(tag, id)
    BY <1>1, <1>3 DEF AdvertiseStart, AdvertiseClass, AdvertiseSketch, Region
  <2>3. Len(wire') = Len(wire) + 1 /\ Len(scq') = Len(scq)
    BY <2>2, PostedOnWire
  <2> QED  BY <1>0, <1>2, <2>1, <2>3 DEF StepsLeft
<1>4. CASE CopyObject \/ CopyData \/ InitSketch \/ FinishStart
  <2>1. ServerLeft' = ServerLeft - 1
    BY <1>4 DEF CopyObject, CopyData, InitSketch, FinishStart, ServerLeft
  <2>2. Len(wire') = Len(wire) /\ Len(scq') = Len(scq)
    BY <1>4 DEF CopyObject, CopyData, InitSketch, FinishStart
  <2> QED  BY <1>0, <1>2, <2>1, <2>2 DEF StepsLeft
<1> QED  BY <1>3, <1>4 DEF ServerMain

\* A step of a thread that handles completions, or of the client's main thread.
LEMMA ThreadShortens ==
    ASSUME TypeOK, ServerPoll \/ ClientMain \/ ClientPoll \/ ClientHandler,
           ~broken
    PROVE  StepsLeft' < StepsLeft
<1> USE DEF serverVars, clientVars, linkVars, cqVars
<1>0. /\ ServerLeft \in Nat /\ MainLeft \in Nat /\ ThreadLeft \in Nat
      /\ HelloLeft \in Nat /\ Len(scq) \in Nat /\ Len(ccq) \in Nat
      /\ Len(wire) \in Nat /\ Len(unacked) \in Nat
      /\ scq \in Seq(Completion) /\ ccq \in Seq(Completion)
  BY StepsType DEF TypeOK
<1>1. UNCHANGED <<spc, wire, unacked>>
  BY DEF ServerPoll, ClientMain, SendHello, Started, ClientPoll, ClientHandler,
         ParseField, SetFlag, Repost
<1>2. /\ ServerLeft' = ServerLeft
      /\ Len(wire') = Len(wire) /\ Len(unacked') = Len(unacked)
  BY <1>1 DEF ServerLeft
<1>3. CASE ServerPoll
  <2>1. /\ MainLeft' = MainLeft /\ ThreadLeft' = ThreadLeft
        /\ HelloLeft' = HelloLeft /\ Len(ccq') = Len(ccq)
    BY <1>3 DEF ServerPoll, MainLeft, ThreadLeft, HelloLeft
  <2>2. Len(scq') = Len(scq) - 1
    BY <1>0, <1>3, HeadTailProperties DEF ServerPoll
  <2> QED  BY <1>0, <1>2, <2>1, <2>2 DEF StepsLeft
<1>4. CASE ClientMain
  <2>1. /\ ThreadLeft' = ThreadLeft
        /\ Len(ccq') = Len(ccq) /\ Len(scq') = Len(scq)
    BY <1>4 DEF ClientMain, SendHello, Started, ThreadLeft
  <2>2. CASE SendHello
    <3>1. MainLeft' = MainLeft - 10
      BY <2>2 DEF SendHello, MainLeft
    <3>2. HelloLeft' = 9
      BY <2>2 DEF SendHello, HelloLeft
    <3> QED  BY <1>0, <1>2, <2>1, <3>1, <3>2 DEF StepsLeft
  <2>3. CASE Started
    <3>1. MainLeft' = MainLeft - 1 /\ HelloLeft' = HelloLeft
      BY <2>3 DEF Started, MainLeft, HelloLeft
    <3> QED  BY <1>0, <1>2, <2>1, <3>1 DEF StepsLeft
  <2> QED  BY <1>4, <2>2, <2>3 DEF ClientMain
<1>5. CASE ClientPoll \/ ClientHandler
  <2>1. /\ MainLeft' = MainLeft /\ HelloLeft' = HelloLeft
        /\ Len(scq') = Len(scq)
    BY <1>5 DEF ClientPoll, ClientHandler, ParseField, SetFlag, Repost,
                MainLeft, HelloLeft
  <2>2. CASE ClientPoll
    <3>1. Len(ccq') = Len(ccq) - 1
      BY <1>0, <2>2, HeadTailProperties DEF ClientPoll
    <3>2. ThreadLeft = 0
      BY <2>2 DEF ClientPoll, ThreadLeft
    <3>3. CASE ThreadLeft' = 0
      BY <1>0, <1>2, <2>1, <3>1, <3>2, <3>3 DEF StepsLeft
    <3>4. CASE ThreadLeft' = 5
      BY <1>0, <1>2, <2>1, <3>1, <3>2, <3>4 DEF StepsLeft
    <3> QED  BY <2>2, <3>3, <3>4 DEF ClientPoll, ThreadLeft
  <2>3. CASE ClientHandler
    <3>1. Len(ccq') = Len(ccq)
      BY <2>3 DEF ClientHandler, ParseField, SetFlag, Repost
    <3>2. ThreadLeft' = ThreadLeft - 1
      BY <2>3 DEF ClientHandler, ParseField, SetFlag, Repost, Field, ThreadLeft
    <3> QED  BY <1>0, <1>2, <2>1, <3>1, <3>2 DEF StepsLeft
  <2> QED  BY <1>5, <2>2, <2>3
<1> QED  BY <1>3, <1>4, <1>5

\* A step of the adapters.
LEMMA LinkShortens ==
    ASSUME TypeOK, Link
    PROVE  StepsLeft' < StepsLeft
<1> USE DEF serverVars, clientVars, linkVars, cqVars
<1>0. /\ ServerLeft \in Nat /\ MainLeft \in Nat /\ ThreadLeft \in Nat
      /\ HelloLeft \in Nat /\ Len(scq) \in Nat /\ Len(ccq) \in Nat
      /\ Len(wire) \in Nat /\ Len(unacked) \in Nat
      /\ scq \in Seq(Completion) /\ ccq \in Seq(Completion)
      /\ wire \in Seq(Message) /\ unacked \in Seq(Message)
  BY StepsType DEF TypeOK
<1>1. /\ ServerLeft' = ServerLeft /\ MainLeft' = MainLeft
      /\ ThreadLeft' = ThreadLeft
  BY DEF Link, DeliverHello, AckHello, Deliver, Ack, ServerLeft, MainLeft,
         ThreadLeft
<1>2. CASE DeliverHello \/ AckHello
  <2>1. Len(wire') = Len(wire) /\ Len(unacked') = Len(unacked)
    BY <1>2 DEF DeliverHello, AckHello
  <2>2. CASE DeliverHello
    <3>1. HelloLeft' = HelloLeft - 2 /\ Len(ccq') = Len(ccq)
      BY <2>2 DEF DeliverHello, HelloLeft
    <3>2. Len(scq') = Len(scq) + 1
      BY <1>0, <2>2, CompletionType, Reported DEF DeliverHello, Tag
    <3> QED  BY <1>0, <1>1, <2>1, <3>1, <3>2 DEF StepsLeft
  <2>3. CASE AckHello
    <3>1. HelloLeft' = HelloLeft - 7 /\ Len(scq') = Len(scq)
      BY <2>3 DEF AckHello, HelloLeft
    <3>2. Len(ccq') = Len(ccq) + 1
      BY <1>0, <2>3, CompletionType, Reported DEF AckHello, Tag
    <3> QED  BY <1>0, <1>1, <2>1, <3>1, <3>2 DEF StepsLeft
  <2> QED  BY <1>2, <2>2, <2>3
<1>3. CASE Deliver
  <2>1. /\ Head(wire) \in Message /\ Len(wire') = Len(wire) - 1
        /\ HelloLeft' = HelloLeft /\ Len(scq') = Len(scq)
    BY <1>0, <1>3, HeadTailProperties DEF Deliver, HelloLeft
  <2>2. Len(unacked') = Len(unacked) + 1
    BY <1>0, <1>3, <2>1, AppendProperties DEF Deliver
  <2>3. Len(ccq') = Len(ccq) + 1
    <3>1. Completed("RECV", Head(wire).tag, 0) \in Completion
      BY <2>1, CompletionType DEF Message, Tag
    <3> QED  BY <1>0, <1>3, <3>1, Reported DEF Deliver
  <2> QED  BY <1>0, <1>1, <2>1, <2>2, <2>3 DEF StepsLeft
<1>4. CASE Ack
  <2>1. /\ Head(unacked) \in Message /\ Len(unacked') = Len(unacked) - 1
        /\ HelloLeft' = HelloLeft
        /\ Len(ccq') = Len(ccq) /\ Len(wire') = Len(wire)
    BY <1>0, <1>4, HeadTailProperties DEF Ack, HelloLeft
  <2>2. Len(scq') = Len(scq) + 1
    <3>1. Completed("SEND", "none", Head(unacked).id) \in Completion
      BY <2>1, CompletionType DEF Message, Tag
    <3> QED  BY <1>0, <1>4, <3>1, Reported DEF Ack
  <2> QED  BY <1>0, <1>1, <2>1, <2>2 DEF StepsLeft
<1> QED  BY <1>2, <1>3, <1>4 DEF Link

\* The handshake is at most 45 steps long while the connection holds: no
\* thread polls, retries or repeats a message without getting further, and
\* recv_handler never runs twice for one advertisement.
THEOREM HandshakeIsFinite ==
    Spec => /\ StepsLeft = 45
            /\ [](StepsLeft \in Nat)
            /\ [][~broken' => StepsLeft' < StepsLeft]_vars
<1>1. Init => StepsLeft = 45
  BY DEF Init, StepsLeft, ServerLeft, MainLeft, ThreadLeft, HelloLeft
<1>2. IInv => StepsLeft \in Nat
  BY StepsType DEF IInv
<1>3. IInv /\ [Next]_vars => [~broken' => StepsLeft' < StepsLeft]_vars
  <2> SUFFICES ASSUME IInv, Next, ~broken'
               PROVE  StepsLeft' < StepsLeft
    OBVIOUS
  <2>1. ~LinkBreaks
    BY DEF LinkBreaks
  <2>2. TypeOK /\ ~broken
    BY <2>1 DEF IInv, Next, ServerMain, AdvertiseStart, AdvertiseClass,
                CopyObject, CopyData, InitSketch, AdvertiseSketch, FinishStart,
                ServerPoll, ClientMain, SendHello, Started, ClientPoll,
                ClientHandler, ParseField, SetFlag, Repost, Link, DeliverHello,
                AckHello, Deliver, Ack, linkVars
  <2> QED  BY <2>1, <2>2, ServerMainShortens, ThreadShortens, LinkShortens
           DEF Next
<1> QED  BY <1>1, <1>2, <1>3, Invariance, PTL DEF Spec

=============================================================================

--------------------------- MODULE ServerOpsProofs ---------------------------
(***************************************************************************)
(* Proofs about ServerOps, for every size of rdma_buf, depth of the send   *)
(* queue and number of calls: its invariant is inductive and implies that  *)
(* a read fetches what earlier writes wrote, that an undisturbed print     *)
(* shows what was read, that an undisturbed write carries its message, and *)
(* that no request waits for ever.                                         *)
(***************************************************************************)
EXTENDS ServerOps, TLAPS, SequenceTheorems

-----------------------------------------------------------------------------
(* The types.                                                              *)

\* A buffer holds what its cells hold.
LEMMA BufferType ==
    /\ Cells \in Nat /\ Cells >= 1
    /\ \A v \in Cell : All(v) \in Buffer
    /\ \A v \in Cell, c \in 1..Cells : All(v)[c] = v
    /\ "unwritten" \in Cell /\ "message" \in Cell /\ "client" \in Cell
    /\ \A b \in Buffer : b \in [1..Cells -> Cell]
  BY CellsAssumption DEF All, Buffer, Cell

\* Buffers with the same cells are the same.
LEMMA SameBuffer ==
    ASSUME NEW a \in [1..Cells -> Cell], NEW b \in [1..Cells -> Cell],
           \A c \in 1..Cells : a[c] = b[c]
    PROVE  a = b
<1>1. a = [c \in 1..Cells |-> a[c]] /\ b = [c \in 1..Cells |-> b[c]]
  OBVIOUS
<1>2. [c \in 1..Cells |-> a[c]] = [c \in 1..Cells |-> b[c]]
  OBVIOUS
<1> QED  BY <1>1, <1>2

\* A new request.
LEMMA NewRequestType ==
    ASSUME NEW op \in {"read", "write"}, NEW alone \in BOOLEAN
    PROVE  /\ NewRequest(op, alone) \in Request
           /\ NewRequest(op, alone).op = op
           /\ NewRequest(op, alone).alone = alone
           /\ NewRequest(op, alone).phase = "posted"
           /\ NewRequest(op, alone).at = 0
  BY BufferType DEF NewRequest, Request

\* The fields of a request.
LEMMA RequestType ==
    ASSUME NEW r \in Request
    PROVE  /\ r.op \in {"read", "write"} /\ r.data \in [1..Cells -> Cell]
           /\ r.phase \in {"posted", "moving", "fetched", "done"}
           /\ r.at \in 0..Cells /\ r.alone \in BOOLEAN
  BY DEF Request, Buffer

\* The queue.
LEMMA QueueType ==
    ASSUME TypeOK
    PROVE  /\ sq \in Seq(Request) /\ Len(sq) \in Nat /\ DOMAIN sq = 1..Len(sq)
           /\ \A k \in 1..Len(sq) : sq[k] \in Request
           /\ rdma_buf \in [1..Cells -> Cell] /\ remote \in [1..Cells -> Cell]
           /\ printed \subseteq Printout
           /\ quiet \in BOOLEAN /\ copied \in 0..Cells
  BY LenProperties, ElementOfSeq DEF TypeOK, Buffer

\* The queue with one request changed.
LEMMA OneChanged ==
    ASSUME TypeOK, NEW k \in 1..Len(sq), NEW r \in Request,
           sq' = [sq EXCEPT ![k] = r]
    PROVE  /\ sq' \in Seq(Request) /\ Len(sq') = Len(sq) /\ sq'[k] = r
           /\ \A i \in 1..Len(sq) : i # k => sq'[i] = sq[i]
  BY QueueType, ExceptSeq

\* The queue with a request appended.
LEMMA OneAppended ==
    ASSUME TypeOK, NEW r \in Request, sq' = Append(sq, r)
    PROVE  /\ sq' \in Seq(Request) /\ Len(sq') = Len(sq) + 1
           /\ sq'[Len(sq) + 1] = r
           /\ \A i \in 1..Len(sq) : sq'[i] = sq[i]
           /\ \A i \in 1..Len(sq') : i = Len(sq) + 1 \/ i \in 1..Len(sq)
  BY QueueType, AppendProperties

\* The initial state.
LEMMA Initially == Init => BufferInv
<1> SUFFICES ASSUME Init PROVE BufferInv
  OBVIOUS
<1>1. /\ sq = <<>> /\ Len(sq) = 0 /\ 1..Len(sq) = {} /\ printed = {}
      /\ pc = "start" /\ SERVER_GET_REMOTE_ADDR = FALSE /\ remote_addr = FALSE
      /\ copied = 0 /\ calls = 0 /\ quiet = TRUE
      /\ rdma_buf = All("unwritten") /\ remote = All("client")
  BY DEF Init
<1>2. sq \in Seq(Request) /\ Len(sq) <= SqDepth
  BY <1>1, BoundsAssumption
<1>3. rdma_buf \in Buffer /\ remote \in Buffer
  BY <1>1, BufferType
<1>4. copied \in 0..Cells /\ calls \in 0..MaxCalls
  BY <1>1, BufferType, BoundsAssumption
<1>5. TypeOK
  BY <1>1, <1>2, <1>3, <1>4 DEF TypeOK
<1>6. OnlyRead /\ CellsMoved /\ Ordered /\ PrintsWhatWasRead /\ PrintUndisturbed
  BY <1>1
     DEF OnlyRead, CellsMoved, Ordered, PrintsWhatWasRead, PrintUndisturbed,
         Read
<1>7. ReadUndisturbed /\ WriteUndisturbed /\ CopyUndisturbed
  BY <1>1 DEF ReadUndisturbed, WriteUndisturbed, CopyUndisturbed
<1> QED  BY <1>5, <1>6, <1>7 DEF BufferInv

-----------------------------------------------------------------------------
(* The calling thread.                                                     *)

\* A posted request joins the queue, or the program ends.
LEMMA PostType ==
    ASSUME TypeOK, NEW r \in Request, Post(r)
    PROVE  /\ sq' \in Seq(Request) /\ Len(sq') <= SqDepth
           /\ \/ sq' = Append(sq, r) /\ pc' = "idle"
              \/ sq' = sq /\ pc' = "full"
<1>1. /\ sq \in Seq(Request) /\ Len(sq) <= SqDepth /\ SqDepth \in Nat
      /\ Len(sq) \in Nat
  BY QueueType, BoundsAssumption DEF TypeOK
<1>2. CASE Len(sq) < SqDepth
  <2>1. sq' = Append(sq, r) /\ pc' = "idle"
    BY <1>2 DEF Post
  <2>2. sq' \in Seq(Request) /\ Len(sq') = Len(sq) + 1
    BY <2>1, OneAppended
  <2> QED  BY <1>1, <1>2, <2>1, <2>2
<1>3. CASE ~(Len(sq) < SqDepth)
  BY <1>1, <1>3 DEF Post
<1> QED  BY <1>2, <1>3

\* The only read is posted when the flag is set, which it then clears.
LEMMA RdmaReadPreserves ==
    ASSUME BufferInv, RdmaRead
    PROVE  BufferInv'
<1> DEFINE r == NewRequest("read", TRUE)
<1>1. /\ TypeOK /\ OnlyRead /\ CellsMoved /\ Ordered
      /\ ReadUndisturbed /\ PrintUndisturbed
      /\ WriteUndisturbed /\ CopyUndisturbed
      /\ PrintsWhatWasRead
  BY DEF BufferInv
<1>2. /\ UNCHANGED <<remote_addr, copied, rdma_buf, remote, printed, quiet>>
      /\ pc = "idle" /\ calls' \in 0..MaxCalls
  BY <1>1, BoundsAssumption DEF RdmaRead, Call, TypeOK
<1>3. r \in Request /\ r.op = "read" /\ r.phase = "posted" /\ r.at = 0
  BY NewRequestType
<1> HIDE DEF r
<1>4. /\ sq' \in Seq(Request) /\ Len(sq') <= SqDepth
      /\ \/ /\ sq' = Append(sq, r) /\ pc' = "idle"
            /\ SERVER_GET_REMOTE_ADDR /\ SERVER_GET_REMOTE_ADDR' = FALSE
         \/ /\ sq' = sq /\ pc' \in Stopped
            /\ \/ SERVER_GET_REMOTE_ADDR' = FALSE
               \/ SERVER_GET_REMOTE_ADDR' = SERVER_GET_REMOTE_ADDR
  <2>1. CASE SERVER_GET_REMOTE_ADDR
    <3>1. Post(r) /\ SERVER_GET_REMOTE_ADDR' = FALSE
      BY <2>1 DEF RdmaRead, r
    <3> QED  BY <1>1, <1>3, <2>1, <3>1, PostType DEF Stopped
  <2>2. CASE ~SERVER_GET_REMOTE_ADDR
    <3>1. /\ pc' = "refused" /\ sq' = sq
          /\ SERVER_GET_REMOTE_ADDR' = SERVER_GET_REMOTE_ADDR
      BY <2>2 DEF RdmaRead
    <3> QED  BY <1>1, <3>1 DEF TypeOK, Stopped
  <2> QED  BY <2>1, <2>2
<1>5. TypeOK'
  BY <1>1, <1>2, <1>4 DEF TypeOK, Stopped
<1>6. PrintsWhatWasRead' /\ PrintUndisturbed'
  BY <1>1, <1>2, <1>4 DEF PrintsWhatWasRead, PrintUndisturbed, Stopped
<1>7. CASE sq' = sq
  <2>1. pc' # "copy"
    BY <1>4 DEF Stopped
  <2>2. OnlyRead'
    BY <1>1, <1>2, <1>4, <1>7 DEF OnlyRead, Read
  <2>3. CellsMoved' /\ Ordered'
    BY <1>1, <1>7 DEF CellsMoved, Ordered, Read, Write
  <2>4. ReadUndisturbed' /\ WriteUndisturbed' /\ CopyUndisturbed'
    BY <1>1, <1>2, <1>7, <2>1 DEF ReadUndisturbed, WriteUndisturbed,
                                  CopyUndisturbed, Read, Write
  <2> QED  BY <1>5, <1>6, <2>2, <2>3, <2>4 DEF BufferInv
<1>8. CASE sq' # sq
  <2> DEFINE n == Len(sq) + 1
  <2>1. /\ SERVER_GET_REMOTE_ADDR /\ SERVER_GET_REMOTE_ADDR' = FALSE
        /\ pc' = "idle" /\ sq' = Append(sq, r)
    BY <1>4, <1>8
  <2>2. /\ Len(sq') = n /\ sq'[n] = r /\ Len(sq) \in Nat
        /\ \A i \in 1..Len(sq) : sq'[i] = sq[i]
        /\ \A i \in 1..Len(sq') : i = n \/ i \in 1..Len(sq)
    BY <1>1, <1>3, <2>1, OneAppended, QueueType
  <2>3. /\ printed = {} /\ remote_addr
        /\ \A k \in 1..Len(sq) : sq[k].op # "read"
    BY <1>1, <2>1 DEF OnlyRead, Read
  <2> HIDE DEF n
  <2>4. OnlyRead'
    BY <1>2, <2>1, <2>2, <2>3 DEF OnlyRead, Read
  <2>5. CellsMoved'
    BY <1>1, <1>3, <2>2 DEF CellsMoved, Read
  <2>6. Ordered'
    <3>1. ASSUME NEW k \in 1..Len(sq'), NEW i \in 1..Len(sq'), i < k
          PROVE  i \in 1..Len(sq)
      BY <2>2, <3>1 DEF n
    <3> QED  BY <1>1, <1>3, <2>2, <2>3, <3>1 DEF Ordered, Read, Write
  <2>7. ReadUndisturbed'
    BY <1>2, <1>3, <2>1, <2>2, <2>3 DEF ReadUndisturbed, Read
  <2>8. WriteUndisturbed' /\ CopyUndisturbed'
    BY <1>1, <1>2, <1>3, <2>1, <2>2 DEF WriteUndisturbed, CopyUndisturbed,
                                        Write
  <2> QED  BY <1>5, <1>6, <2>4, <2>5, <2>6, <2>7, <2>8 DEF BufferInv
<1> QED  BY <1>7, <1>8

\* A call of rdma_write disturbs the read, and nothing else.
LEMMA BeginWritePreserves ==
    ASSUME BufferInv, BeginWrite
    PROVE  BufferInv'
<1>1. /\ TypeOK /\ OnlyRead /\ CellsMoved /\ Ordered
      /\ ReadUndisturbed /\ PrintUndisturbed
      /\ WriteUndisturbed /\ CopyUndisturbed
      /\ PrintsWhatWasRead
  BY DEF BufferInv
<1>2. /\ UNCHANGED <<SERVER_GET_REMOTE_ADDR, remote_addr, rdma_buf, remote>>
      /\ pc' = "copy" /\ copied' = 0 /\ quiet' = ~ReadInFlight
      /\ calls' \in 0..MaxCalls
  BY <1>1, BoundsAssumption DEF BeginWrite, Call, TypeOK
<1>3. /\ sq' \in Seq(Request) /\ Len(sq') = Len(sq) /\ Len(sq) \in Nat
      /\ \A i \in 1..Len(sq) :
             /\ sq'[i].op = sq[i].op /\ sq'[i].phase = sq[i].phase
             /\ sq'[i].data = sq[i].data /\ sq'[i].at = sq[i].at
             /\ sq[i].op # "read" => sq'[i].alone = sq[i].alone
             /\ sq[i].op = "read" => ~sq'[i].alone
  <2> DEFINE reset(q) == [q EXCEPT !.alone = FALSE]
             g == [k \in 1..Len(sq) |->
                      IF sq[k].op = "read" THEN reset(sq[k]) ELSE sq[k]]
  <2>1. sq' = g
    BY DEF BeginWrite
  <2>2. \A q \in Request : /\ reset(q) \in Request /\ ~reset(q).alone
                           /\ reset(q).op = q.op /\ reset(q).phase = q.phase
                           /\ reset(q).data = q.data /\ reset(q).at = q.at
    BY DEF Request
  <2> HIDE DEF reset
  <2>3. g \in [1..Len(sq) -> Request] /\ Len(sq) \in Nat
    BY <1>1, <2>2, QueueType
  <2>4. g \in Seq(Request) /\ Len(g) = Len(sq)
    BY <2>3, SeqDef, LenProperties
  <2>5. \A i \in 1..Len(sq) :
            g[i] = IF sq[i].op = "read" THEN reset(sq[i]) ELSE sq[i]
    OBVIOUS
  <2> HIDE DEF g
  <2> QED  BY <1>1, <2>1, <2>2, <2>3, <2>4, <2>5, QueueType
<1> DEFINE kept(p) == IF p.at < Cells THEN [p EXCEPT !.alone = FALSE] ELSE p
<1>13. printed' = {kept(p) : p \in printed}
  BY DEF BeginWrite
<1>14. \A p \in Printout :
           /\ kept(p) \in Printout /\ kept(p).at = p.at
           /\ kept(p).shown = p.shown /\ kept(p).fetched = p.fetched
           /\ p.at < Cells => ~kept(p).alone
           /\ kept(p).alone => p.alone
  BY DEF Printout
<1>15. printed \subseteq Printout
  BY <1>1 DEF TypeOK
<1> HIDE DEF kept
<1>4. TypeOK'
  BY <1>1, <1>2, <1>3, <1>13, <1>14, <1>15, BufferType DEF TypeOK
<1>5. OnlyRead'
  <2>1. /\ printed = {} => printed' = {}
        /\ (\A p, q \in printed : p = q) => \A p, q \in printed' : p = q
    BY <1>13
  <2> QED  BY <1>1, <1>2, <1>3, <2>1 DEF OnlyRead, Read
<1>6. CellsMoved'
  BY <1>1, <1>3 DEF CellsMoved, Read
<1>7. Ordered'
  BY <1>1, <1>3 DEF Ordered, Read, Write
<1>8. ReadUndisturbed'
  BY <1>3 DEF ReadUndisturbed, Read
<1>9. WriteUndisturbed'
  BY <1>1, <1>2, <1>3 DEF WriteUndisturbed, Write
<1>10. CopyUndisturbed'
  <2>1. quiet' => ~ReadInFlight'
    <3>1. ASSUME ReadInFlight' PROVE ReadInFlight
      BY <1>3, <3>1 DEF ReadInFlight
    <3> QED  BY <1>2, <3>1
  <2>2. 1..copied' = {}
    BY <1>2
  <2> QED  BY <2>1, <2>2 DEF CopyUndisturbed
<1>11. PrintsWhatWasRead'
  BY <1>1, <1>13, <1>14, <1>15 DEF PrintsWhatWasRead
<1>12. PrintUndisturbed'
  BY <1>13, <1>14, <1>15 DEF PrintUndisturbed
<1> QED  BY <1>4, <1>5, <1>6, <1>7, <1>8, <1>9, <1>10, <1>11, <1>12
         DEF BufferInv

\* strcpy writes the message: no undisturbed read is there to notice, and an
\* undisturbed write takes the same message.
LEMMA CopyCellPreserves ==
    ASSUME BufferInv, CopyCell
    PROVE  BufferInv'
<1>1. /\ TypeOK /\ OnlyRead /\ CellsMoved /\ Ordered
      /\ ReadUndisturbed /\ PrintUndisturbed
      /\ WriteUndisturbed /\ CopyUndisturbed
      /\ PrintsWhatWasRead
  BY DEF BufferInv
<1>2. /\ UNCHANGED <<SERVER_GET_REMOTE_ADDR, remote_addr, pc, calls, sq,
                     remote, printed, quiet>>
      /\ pc = "copy" /\ copied < Cells /\ copied' = copied + 1
      /\ rdma_buf' = [rdma_buf EXCEPT ![copied + 1] = "message"]
  BY DEF CopyCell
<1>3. /\ copied + 1 \in 1..Cells /\ copied + 1 \in 0..Cells
      /\ copied \in Nat /\ Cells \in Nat
      /\ rdma_buf \in [1..Cells -> Cell]
  BY <1>1, <1>2, QueueType, BufferType
<1>4. /\ rdma_buf' \in [1..Cells -> Cell]
      /\ \A c \in 1..Cells : rdma_buf'[c] = IF c = copied + 1 THEN "message"
                                                              ELSE rdma_buf[c]
  BY <1>2, <1>3, BufferType
<1>5. TypeOK'
  BY <1>1, <1>2, <1>3, <1>4 DEF TypeOK, Buffer
<1>6. OnlyRead' /\ CellsMoved' /\ Ordered'
  BY <1>1, <1>2 DEF OnlyRead, CellsMoved, Ordered, Read, Write
<1>7. ReadUndisturbed'
  BY <1>1, <1>2 DEF ReadUndisturbed, Read
<1>8. rdma_buf = All("message") => rdma_buf' = All("message")
  BY <1>3, <1>4, BufferType DEF All
<1>9. WriteUndisturbed'
  BY <1>1, <1>2, <1>8 DEF WriteUndisturbed, Write
<1>10. CopyUndisturbed'
  <2>1. \A c \in 1..copied + 1 :
            c \in 1..Cells /\ (c = copied + 1 \/ c \in 1..copied)
    BY <1>3
  <2> QED  BY <1>1, <1>2, <1>4, <2>1 DEF CopyUndisturbed, ReadInFlight
<1>11. PrintsWhatWasRead' /\ PrintUndisturbed'
  BY <1>1, <1>2 DEF PrintsWhatWasRead, PrintUndisturbed
<1> QED  BY <1>5, <1>6, <1>7, <1>9, <1>10, <1>11 DEF BufferInv

\* The write that is posted when its message is complete.
LEMMA PostWritePreserves ==
    ASSUME BufferInv, PostWrite
    PROVE  BufferInv'
<1> DEFINE r == NewRequest("write", quiet)
<1>1. /\ TypeOK /\ OnlyRead /\ CellsMoved /\ Ordered
      /\ ReadUndisturbed /\ PrintUndisturbed
      /\ WriteUndisturbed /\ CopyUndisturbed
      /\ PrintsWhatWasRead
  BY DEF BufferInv
<1>2. /\ UNCHANGED <<SERVER_GET_REMOTE_ADDR, remote_addr, copied, calls,
                     rdma_buf, remote, printed, quiet>>
      /\ pc = "copy" /\ copied = Cells
  BY DEF PostWrite
<1>3. /\ r \in Request /\ r.op = "write" /\ r.phase = "posted" /\ r.at = 0
      /\ r.alone = quiet
  BY <1>1, NewRequestType, QueueType
<1>4. Post(r)
  BY DEF PostWrite
<1> HIDE DEF r
<1>5. /\ sq' \in Seq(Request) /\ Len(sq') <= SqDepth
      /\ \/ sq' = Append(sq, r) /\ pc' = "idle"
         \/ sq' = sq /\ pc' = "full"
  BY <1>1, <1>3, <1>4, PostType
<1>6. TypeOK'
  BY <1>1, <1>2, <1>5 DEF TypeOK, Stopped
<1>7. PrintsWhatWasRead' /\ PrintUndisturbed'
  BY <1>1, <1>2, <1>5 DEF PrintsWhatWasRead, PrintUndisturbed
<1>8. CopyUndisturbed'
  BY <1>5 DEF CopyUndisturbed
<1>9. CASE sq' = sq
  <2>1. OnlyRead'
    BY <1>1, <1>2, <1>9 DEF OnlyRead, Read
  <2>2. CellsMoved' /\ Ordered'
    BY <1>1, <1>9 DEF CellsMoved, Ordered, Read, Write
  <2>3. ReadUndisturbed' /\ WriteUndisturbed'
    BY <1>1, <1>2, <1>9 DEF ReadUndisturbed, WriteUndisturbed, Read, Write
  <2> QED  BY <1>6, <1>7, <1>8, <2>1, <2>2, <2>3 DEF BufferInv
<1>10. CASE sq' # sq
  <2> DEFINE n == Len(sq) + 1
  <2>1. pc' = "idle" /\ sq' = Append(sq, r)
    BY <1>5, <1>10
  <2>2. /\ Len(sq') = n /\ sq'[n] = r /\ Len(sq) \in Nat
        /\ \A i \in 1..Len(sq) : sq'[i] = sq[i]
        /\ \A i \in 1..Len(sq') : i = n \/ i \in 1..Len(sq)
        /\ \A i, k \in 1..Len(sq') : i < k => i \in 1..Len(sq)
    BY <1>1, <1>3, <2>1, OneAppended, QueueType
  <2> HIDE DEF n
  <2>3. quiet => /\ rdma_buf = All("message")
                 /\ \A i \in 1..Len(sq) : sq[i].op = "read" =>
                        sq[i].phase = "done"
    <3>1. quiet => /\ ~ReadInFlight
                   /\ \A c \in 1..Cells : rdma_buf[c] = "message"
      BY <1>1, <1>2 DEF CopyUndisturbed
    <3>2. rdma_buf \in [1..Cells -> Cell]
      BY <1>1, QueueType
    <3> QED  BY <3>1, <3>2 DEF ReadInFlight, All
  <2>4. OnlyRead'
    BY <1>1, <1>2, <1>3, <2>1, <2>2 DEF OnlyRead, Read
  <2>5. CellsMoved'
    BY <1>1, <1>3, <2>2 DEF CellsMoved, Read
  <2>6. Ordered'
    BY <1>1, <1>3, <2>2, <2>3 DEF Ordered, Read, Write
  <2>7. ReadUndisturbed'
    BY <1>1, <1>2, <1>3, <2>1, <2>2 DEF ReadUndisturbed, Read
  <2>8. WriteUndisturbed'
    BY <1>1, <1>2, <1>3, <2>1, <2>2, <2>3 DEF WriteUndisturbed, Write
  <2> QED  BY <1>6, <1>7, <1>8, <2>4, <2>5, <2>6, <2>7, <2>8 DEF BufferInv
<1> QED  BY <1>9, <1>10

-----------------------------------------------------------------------------
(* cq_thread.                                                              *)

\* The first request leaves the queue; for a read the print begins, and if the
\* read was alone all of its cells are in place.
LEMMA PollPreserves ==
    ASSUME BufferInv, Poll
    PROVE  BufferInv'
<1>1. /\ TypeOK /\ OnlyRead /\ CellsMoved /\ Ordered
      /\ ReadUndisturbed /\ PrintUndisturbed
      /\ WriteUndisturbed /\ CopyUndisturbed
      /\ PrintsWhatWasRead
  BY DEF BufferInv
<1>2. /\ UNCHANGED <<SERVER_GET_REMOTE_ADDR, remote_addr, pc, copied, calls,
                     rdma_buf, remote, quiet>>
      /\ sq # <<>> /\ Head(sq).phase = "done" /\ sq' = Tail(sq)
      /\ HandleCompletion(Head(sq))
  BY DEF Poll
<1>3. /\ sq' \in Seq(Request) /\ Len(sq') = Len(sq) - 1
      /\ Len(sq) \in Nat /\ 1 \in 1..Len(sq) /\ Head(sq) = sq[1]
      /\ sq[1] \in Request
      /\ \A i \in 1..Len(sq') :
             /\ sq'[i] = sq[i + 1] /\ i + 1 \in 1..Len(sq) /\ i + 1 # 1
             /\ \A k \in 1..Len(sq') :
                    (i < k => i + 1 < k + 1) /\ (i + 1 = k + 1 => i = k)
  <2>1. sq \in Seq(Request) /\ Len(sq) \in Nat /\ Len(sq) # 0
    BY <1>1, <1>2, QueueType, EmptySeq
  <2>2. /\ Tail(sq) \in Seq(Request) /\ Len(Tail(sq)) = Len(sq) - 1
        /\ \A i \in 1..Len(Tail(sq)) : Tail(sq)[i] = sq[i + 1]
        /\ Head(sq) = sq[1]
    BY <1>2, <2>1, HeadTailProperties
  <2> QED  BY <1>1, <1>2, <2>1, <2>2, QueueType
<1> DEFINE new == [fetched |-> sq[1].data, shown |-> All("unwritten"),
                   at |-> 0, alone |-> sq[1].alone]
<1>4. /\ \/ sq[1].op = "read" /\ printed' = printed \cup {new}
         \/ sq[1].op = "write" /\ printed' = printed
      /\ new \in Printout /\ new.fetched = sq[1].data /\ new.at = 0
      /\ new.alone = sq[1].alone
  <2>1. new \in Printout
    BY <1>3, BufferType, RequestType DEF Printout, Buffer
  <2> QED  BY <1>2, <1>3, <2>1, RequestType DEF HandleCompletion
<1> HIDE DEF new
<1>5. sq[1].op = "read" =>
          printed = {} /\ \A i \in 1..Len(sq') : sq'[i].op # "read"
  BY <1>1, <1>3 DEF OnlyRead, Read
<1>6. sq[1].op = "read" /\ sq[1].alone =>
          pc # "copy" /\ \A c \in 1..Cells : rdma_buf[c] = sq[1].data[c]
  BY <1>1, <1>2, <1>3 DEF CellsMoved, ReadUndisturbed, Read
<1>7. TypeOK'
  <2>1. printed' \subseteq Printout
    BY <1>1, <1>4 DEF TypeOK
  <2>2. Len(sq') <= SqDepth
    BY <1>1, <1>3, BoundsAssumption DEF TypeOK
  <2> QED  BY <1>1, <1>2, <1>3, <2>1, <2>2 DEF TypeOK
<1>8. OnlyRead'
  BY <1>1, <1>2, <1>3, <1>4, <1>5 DEF OnlyRead, Read
<1>9. CellsMoved'
  <2>1. ASSUME NEW k \in 1..Len(sq')
        PROVE  \E n \in 1..Len(sq) : sq'[k] = sq[n] /\ (Read(k)' <=> Read(n))
    <3>1. k + 1 \in 1..Len(sq) /\ sq'[k] = sq[k + 1]
      BY <1>3
    <3>2. Read(k)' <=> Read(k + 1)
      BY <3>1 DEF Read
    <3> QED  BY <3>1, <3>2
  <2> QED  BY <1>1, <2>1 DEF CellsMoved
<1>10. Ordered'
  <2>1. ASSUME NEW k \in 1..Len(sq'), NEW i \in 1..Len(sq'), i < k
        PROVE  /\ Read(k)' /\ sq'[k].phase \in {"fetched", "done"} /\ Write(i)'
                      => sq'[i].phase = "done"
               /\ Write(k)' /\ sq'[k].alone /\ Read(i)'
                      => sq'[i].phase = "done"
    <3> DEFINE kk == k + 1
               ii == i + 1
    <3>1. /\ kk \in 1..Len(sq) /\ ii \in 1..Len(sq) /\ ii < kk
          /\ sq'[k] = sq[kk] /\ sq'[i] = sq[ii]
      BY <1>3, <2>1
    <3> HIDE DEF kk, ii
    <3>2. /\ Read(k)' => Read(kk)
          /\ Write(k)' => Write(kk)
          /\ Read(i)' => Read(ii)
          /\ Write(i)' => Write(ii)
      BY <3>1 DEF Read, Write
    <3>3. /\ Read(kk) /\ sq[kk].phase \in {"fetched", "done"} /\ Write(ii) =>
                 sq[ii].phase = "done"
          /\ Write(kk) /\ sq[kk].alone /\ Read(ii) => sq[ii].phase = "done"
      BY <1>1, <3>1 DEF Ordered
    <3> QED  BY <3>1, <3>2, <3>3
  <2> QED  BY <2>1 DEF Ordered
<1>11. ReadUndisturbed' /\ WriteUndisturbed'
  BY <1>1, <1>2, <1>3 DEF ReadUndisturbed, WriteUndisturbed, Read, Write
<1>12. CopyUndisturbed'
  <2>1. ReadInFlight' => ReadInFlight
    BY <1>3 DEF ReadInFlight
  <2> QED  BY <1>1, <1>2, <2>1 DEF CopyUndisturbed
<1>13. PrintsWhatWasRead' /\ PrintUndisturbed'
  <2>1. 1..0 = {}
    OBVIOUS
  <2> QED
    BY <1>1, <1>2, <1>4, <1>6, <2>1 DEF PrintsWhatWasRead, PrintUndisturbed
<1> QED  BY <1>7, <1>8, <1>9, <1>10, <1>11, <1>12, <1>13 DEF BufferInv

\* A cell is shown: of a print that is alone, what the read has fetched.
LEMMA PrintCellPreserves ==
    ASSUME BufferInv, PrintCell
    PROVE  BufferInv'
<1>1. /\ TypeOK /\ OnlyRead /\ CellsMoved /\ Ordered
      /\ ReadUndisturbed /\ PrintUndisturbed
      /\ WriteUndisturbed /\ CopyUndisturbed
      /\ PrintsWhatWasRead
  BY DEF BufferInv
<1>2. UNCHANGED <<SERVER_GET_REMOTE_ADDR, remote_addr, pc, copied, calls,
                  rdma_buf, sq, remote, quiet>>
  BY DEF PrintCell
<1>3. PICK p \in printed :
          /\ p.at < Cells
          /\ printed' = (printed \ {p})
                 \cup {[p EXCEPT !.shown[p.at + 1] = rdma_buf[p.at + 1],
                                !.at = p.at + 1]}
  BY DEF PrintCell
<1> DEFINE c == p.at + 1
           next == [p EXCEPT !.shown = [@ EXCEPT ![c] = rdma_buf[c]], !.at = c]
<1>4. /\ p \in Printout /\ p.at \in 0..Cells /\ p.shown \in [1..Cells -> Cell]
      /\ rdma_buf \in [1..Cells -> Cell] /\ Cells \in Nat
  BY <1>1, QueueType, BufferType DEF Printout, Buffer
<1>5. /\ c \in 1..Cells /\ c \in 0..Cells
      /\ \A d \in 1..c : d \in 1..Cells /\ (d = c \/ d \in 1..p.at)
  BY <1>3, <1>4
<1>6. /\ next \in Printout /\ next.at = c /\ next.fetched = p.fetched
      /\ next.alone = p.alone
      /\ \A d \in 1..Cells : next.shown[d] = IF d = c THEN rdma_buf[c]
                                                    ELSE p.shown[d]
  BY <1>4, <1>5 DEF Printout, Buffer
<1>7. printed' = (printed \ {p}) \cup {next}
  BY <1>3
<1> HIDE DEF next, c
<1>8. TypeOK'
  BY <1>1, <1>2, <1>6, <1>7 DEF TypeOK
<1>9. OnlyRead'
  <2>1. \A q \in printed : q = p
    BY <1>1 DEF OnlyRead
  <2>2. printed' = {next}
    BY <1>7, <2>1
  <2> QED  BY <1>1, <1>2, <2>2 DEF OnlyRead, Read
<1>10. CellsMoved' /\ Ordered'
  BY <1>1, <1>2 DEF CellsMoved, Ordered, Read, Write
<1>11. ReadUndisturbed' /\ WriteUndisturbed' /\ CopyUndisturbed'
  BY <1>1, <1>2 DEF ReadUndisturbed, WriteUndisturbed, CopyUndisturbed,
                    ReadInFlight, Read, Write
<1>12. PrintUndisturbed'
  BY <1>1, <1>2, <1>3, <1>6, <1>7 DEF PrintUndisturbed
<1>13. PrintsWhatWasRead'
  <2>1. p.alone => \A d \in 1..Cells : rdma_buf[d] = p.fetched[d]
    BY <1>1, <1>3 DEF PrintUndisturbed
  <2>2. p.alone => \A d \in 1..p.at : p.shown[d] = p.fetched[d]
    BY <1>1 DEF PrintsWhatWasRead
  <2>3. next.alone => \A d \in 1..next.at : next.shown[d] = next.fetched[d]
    BY <1>5, <1>6, <2>1, <2>2
  <2> QED  BY <1>1, <1>7, <2>3 DEF PrintsWhatWasRead
<1> QED  BY <1>8, <1>9, <1>10, <1>11, <1>12, <1>13 DEF BufferInv

\* The steps that touch neither the queue nor the memory.
LEMMA QuietStepPreserves ==
    ASSUME BufferInv, Started \/ ReceiveHello
    PROVE  BufferInv'
<1>1. /\ UNCHANGED <<copied, calls, rdma_buf, sq, remote, printed, quiet>>
      /\ pc' = pc \/ pc' = "idle"
      /\ \/ ~remote_addr /\ remote_addr' = TRUE /\ SERVER_GET_REMOTE_ADDR' = TRUE
         \/ UNCHANGED <<SERVER_GET_REMOTE_ADDR, remote_addr>>
  BY DEF Started, ReceiveHello
<1>2. TypeOK'
  BY <1>1 DEF BufferInv, TypeOK
<1>3. OnlyRead' /\ CellsMoved' /\ Ordered' /\ PrintsWhatWasRead'
  BY <1>1 DEF BufferInv, OnlyRead, CellsMoved, Ordered, PrintsWhatWasRead, Read,
              Write
<1>4. ReadUndisturbed' /\ WriteUndisturbed' /\ CopyUndisturbed'
  BY <1>1 DEF BufferInv, ReadUndisturbed, WriteUndisturbed, CopyUndisturbed,
              ReadInFlight, Read, Write
<1>5. PrintUndisturbed'
  BY <1>1 DEF BufferInv, PrintUndisturbed
<1> QED  BY <1>2, <1>3, <1>4, <1>5 DEF BufferInv

-----------------------------------------------------------------------------
(* The adapters: each step changes one request r = sq[k].                  *)

\* What a step of the adapters leaves alone.
LEMMA AdapterFrame ==
    ASSUME BufferInv, NEW k \in 1..Len(sq), NEW r \in Request,
           sq' = [sq EXCEPT ![k] = r],
           r.op = sq[k].op, r.alone = sq[k].alone,
           sq[k].phase = "done" => r.phase = "done",
           UNCHANGED <<SERVER_GET_REMOTE_ADDR, remote_addr, pc, copied, calls,
                       printed, quiet>>,
           rdma_buf' \in Buffer, remote' \in Buffer,
           rdma_buf' = rdma_buf \/ sq[k].op = "read"
    PROVE  /\ TypeOK' /\ OnlyRead' /\ PrintsWhatWasRead' /\ PrintUndisturbed'
           /\ ReadInFlight' => ReadInFlight
           /\ Len(sq') = Len(sq) /\ sq'[k] = r
           /\ \A i \in 1..Len(sq) : i # k => sq'[i] = sq[i]
           /\ \A i \in 1..Len(sq) : sq'[i].op = sq[i].op
                                    /\ sq'[i].alone = sq[i].alone
<1>1. TypeOK
  BY DEF BufferInv
<1>2. /\ sq' \in Seq(Request) /\ Len(sq') = Len(sq) /\ sq'[k] = r
      /\ \A i \in 1..Len(sq) : i # k => sq'[i] = sq[i]
  BY <1>1, OneChanged
<1>3. \A i \in 1..Len(sq) : sq'[i].op = sq[i].op /\ sq'[i].alone = sq[i].alone
  BY <1>2
<1>4. TypeOK'
  BY <1>1, <1>2 DEF TypeOK
<1>5. OnlyRead'
  BY <1>2, <1>3 DEF BufferInv, OnlyRead, Read
<1>6. PrintsWhatWasRead' /\ PrintUndisturbed'
  BY DEF BufferInv, PrintsWhatWasRead, PrintUndisturbed, OnlyRead, Read
<1>7. ReadInFlight' => ReadInFlight
  BY <1>2, <1>3 DEF ReadInFlight
<1> QED  BY <1>2, <1>3, <1>4, <1>5, <1>6, <1>7

\* A request is started.
LEMMA StartPreserves ==
    ASSUME BufferInv, NEW k \in 1..Len(sq), Start(k),
           UNCHANGED <<SERVER_GET_REMOTE_ADDR, remote_addr, pc, copied, calls,
                       printed, quiet>>
    PROVE  BufferInv'
<1> DEFINE r == [sq[k] EXCEPT !.phase = "moving"]
<1>1. /\ TypeOK /\ OnlyRead /\ CellsMoved /\ Ordered
      /\ ReadUndisturbed /\ PrintUndisturbed
      /\ WriteUndisturbed /\ CopyUndisturbed
  BY DEF BufferInv
<1>2. /\ sq[k].phase = "posted" /\ sq' = [sq EXCEPT ![k] = r]
      /\ rdma_buf' = rdma_buf /\ remote' = remote
  BY <1>1, QueueType DEF Start
<1>3. /\ r \in Request /\ r.op = sq[k].op /\ r.alone = sq[k].alone
      /\ r.phase = "moving" /\ r.at = sq[k].at /\ r.data = sq[k].data
  BY <1>1, QueueType DEF Request
<1>4. /\ sq[k].at = 0 /\ 0 < Cells
  BY <1>1, <1>2, BufferType DEF CellsMoved
<1> HIDE DEF r
<1>5. /\ TypeOK' /\ OnlyRead' /\ PrintsWhatWasRead' /\ PrintUndisturbed'
      /\ ReadInFlight' => ReadInFlight
      /\ Len(sq') = Len(sq) /\ sq'[k] = r
      /\ \A i \in 1..Len(sq) : i # k => sq'[i] = sq[i]
      /\ \A i \in 1..Len(sq) : sq'[i].op = sq[i].op
                               /\ sq'[i].alone = sq[i].alone
  BY <1>1, <1>2, <1>3, AdapterFrame DEF TypeOK
<1>6. CellsMoved'
  BY <1>1, <1>3, <1>4, <1>5 DEF CellsMoved, Read
<1>7. Ordered'
  BY <1>1, <1>2, <1>3, <1>5 DEF Ordered, Read, Write
<1>8. ReadUndisturbed' /\ WriteUndisturbed'
  BY <1>1, <1>2, <1>3, <1>5 DEF ReadUndisturbed, WriteUndisturbed, Read, Write
<1>9. CopyUndisturbed'
  BY <1>1, <1>2, <1>5 DEF CopyUndisturbed
<1> QED  BY <1>5, <1>6, <1>7, <1>8, <1>9 DEF BufferInv

\* The client's memory is read, after the writes before the read.
LEMMA ExecuteReadPreserves ==
    ASSUME BufferInv, NEW k \in 1..Len(sq), ExecuteRead(k),
           UNCHANGED <<SERVER_GET_REMOTE_ADDR, remote_addr, pc, copied, calls,
                       printed, quiet>>
    PROVE  BufferInv'
<1> DEFINE r == [sq[k] EXCEPT !.phase = "fetched", !.data = remote]
<1>1. /\ TypeOK /\ OnlyRead /\ CellsMoved /\ Ordered
      /\ ReadUndisturbed /\ PrintUndisturbed
      /\ WriteUndisturbed /\ CopyUndisturbed
  BY DEF BufferInv
<1>2. /\ sq[k].phase = "moving" /\ sq[k].op = "read"
      /\ sq' = [sq EXCEPT ![k] = r]
      /\ rdma_buf' = rdma_buf /\ remote' = remote
      /\ \A i \in 1..k - 1 : sq[i].op = "write" => sq[i].phase = "done"
  BY <1>1, QueueType DEF ExecuteRead
<1>3. /\ r \in Request /\ r.op = sq[k].op /\ r.alone = sq[k].alone
      /\ r.phase = "fetched" /\ r.at = sq[k].at
  BY <1>1, QueueType DEF Request, Buffer
<1>4. sq[k].at = 0 /\ 0 < Cells
  BY <1>1, <1>2, BufferType DEF CellsMoved, Read
<1> HIDE DEF r
<1>5. /\ TypeOK' /\ OnlyRead' /\ PrintsWhatWasRead' /\ PrintUndisturbed'
      /\ ReadInFlight' => ReadInFlight
      /\ Len(sq') = Len(sq) /\ sq'[k] = r
      /\ \A i \in 1..Len(sq) : i # k => sq'[i] = sq[i]
      /\ \A i \in 1..Len(sq) : sq'[i].op = sq[i].op
                               /\ sq'[i].alone = sq[i].alone
  BY <1>1, <1>2, <1>3, AdapterFrame DEF TypeOK
<1>6. CellsMoved'
  BY <1>1, <1>2, <1>3, <1>4, <1>5 DEF CellsMoved, Read
<1>7. Ordered'
  <2>1. \A i \in 1..Len(sq) : i < k => i \in 1..k - 1
    OBVIOUS
  <2> QED  BY <1>1, <1>2, <1>3, <1>5, <2>1 DEF Ordered, Read, Write
<1>8. ReadUndisturbed'
  BY <1>1, <1>2, <1>3, <1>4, <1>5 DEF ReadUndisturbed, Read
<1>9. WriteUndisturbed'
  BY <1>1, <1>2, <1>3, <1>5 DEF WriteUndisturbed, Write
<1>10. CopyUndisturbed'
  BY <1>1, <1>2, <1>5 DEF CopyUndisturbed
<1> QED  BY <1>5, <1>6, <1>7, <1>8, <1>9, <1>10 DEF BufferInv

\* A cell of the answer is stored in rdma_buf.  No write that is alone minds:
\* one before the read has been executed, one after it would have waited.
LEMMA LandPreserves ==
    ASSUME BufferInv, NEW k \in 1..Len(sq), Land(k),
           UNCHANGED <<SERVER_GET_REMOTE_ADDR, remote_addr, pc, copied, calls,
                       printed, quiet>>
    PROVE  BufferInv'
<1> DEFINE c == sq[k].at + 1
           r == [sq[k] EXCEPT !.at = c,
                              !.phase = IF c = Cells THEN "done" ELSE @]
<1>1. /\ TypeOK /\ OnlyRead /\ CellsMoved /\ Ordered
      /\ ReadUndisturbed /\ PrintUndisturbed
      /\ WriteUndisturbed /\ CopyUndisturbed
  BY DEF BufferInv
<1>2. /\ sq[k].phase = "fetched" /\ sq[k].op = "read"
      /\ sq' = [sq EXCEPT ![k] = r]
      /\ rdma_buf' = [rdma_buf EXCEPT ![c] = sq[k].data[c]]
      /\ remote' = remote
  BY <1>1, QueueType DEF Land
<1>3. /\ sq[k] \in Request /\ sq[k].data \in [1..Cells -> Cell]
      /\ sq[k].at \in 0..Cells /\ sq[k].at < Cells /\ Cells \in Nat
      /\ rdma_buf \in [1..Cells -> Cell]
  BY <1>1, <1>2, QueueType, RequestType, BufferType DEF CellsMoved, Read
<1>4. c \in 1..Cells /\ c \in 0..Cells
  BY <1>3
<1>5. /\ r \in Request /\ r.op = sq[k].op /\ r.alone = sq[k].alone
      /\ r.at = c /\ r.data = sq[k].data
      /\ r.phase = IF c = Cells THEN "done" ELSE "fetched"
  BY <1>2, <1>3, <1>4 DEF Request
<1>6. /\ \A i \in 1..c : i \in 1..Cells /\ (i = c \/ i \in 1..sq[k].at)
      /\ c # Cells => c < Cells
  BY <1>3
<1> HIDE DEF r, c
<1>7. /\ rdma_buf' \in [1..Cells -> Cell]
      /\ \A i \in 1..Cells : rdma_buf'[i] = IF i = c THEN sq[k].data[c]
                                                     ELSE rdma_buf[i]
  BY <1>2, <1>3, <1>4
<1>8. /\ TypeOK' /\ OnlyRead' /\ PrintsWhatWasRead' /\ PrintUndisturbed'
      /\ ReadInFlight' => ReadInFlight
      /\ Len(sq') = Len(sq) /\ sq'[k] = r
      /\ \A i \in 1..Len(sq) : i # k => sq'[i] = sq[i]
      /\ \A i \in 1..Len(sq) : sq'[i].op = sq[i].op
                               /\ sq'[i].alone = sq[i].alone
  BY <1>1, <1>2, <1>5, <1>7, AdapterFrame DEF TypeOK, Buffer
<1>9. CellsMoved'
  BY <1>1, <1>2, <1>5, <1>6, <1>8 DEF CellsMoved, Read
<1>10. Ordered'
  BY <1>1, <1>2, <1>5, <1>8 DEF Ordered, Read, Write
<1>11. ReadUndisturbed'
  <2> SUFFICES ASSUME NEW i \in 1..Len(sq), sq'[i].op = "read", sq'[i].alone
               PROVE  /\ pc' # "copy"
                      /\ \A d \in 1..sq'[i].at : rdma_buf'[d] = sq'[i].data[d]
    BY <1>8 DEF ReadUndisturbed, Read
  <2>1. i = k /\ sq[k].alone
    BY <1>1, <1>2, <1>8 DEF OnlyRead, Read
  <2>2. pc # "copy" /\ \A d \in 1..sq[k].at : rdma_buf[d] = sq[k].data[d]
    BY <1>1, <1>2, <2>1 DEF ReadUndisturbed, Read
  <2> QED  BY <1>5, <1>6, <1>7, <1>8, <2>1, <2>2
<1>12. WriteUndisturbed'
  <2> SUFFICES ASSUME NEW i \in 1..Len(sq), sq'[i].op = "write", sq'[i].alone
               PROVE  /\ sq'[i].phase \notin {"posted", "moving"}
                      /\ \A d \in 1..sq'[i].at : sq'[i].data[d] = "message"
    BY <1>8 DEF WriteUndisturbed, Write
  <2>1. i # k /\ sq'[i] = sq[i] /\ sq[i].op = "write" /\ sq[i].alone
    BY <1>2, <1>8
  <2>2. sq[i].phase = "done"
    BY <1>1, <1>2, <2>1 DEF Ordered, Read, Write
  <2> QED  BY <1>1, <2>1, <2>2 DEF WriteUndisturbed, Write
<1>13. CopyUndisturbed'
  BY <1>1, <1>2 DEF CopyUndisturbed, ReadInFlight
<1> QED  BY <1>8, <1>9, <1>10, <1>11, <1>12, <1>13 DEF BufferInv

\* A cell is taken for a write; one that is alone takes the message.
LEMMA GatherPreserves ==
    ASSUME BufferInv, NEW k \in 1..Len(sq), Gather(k),
           UNCHANGED <<SERVER_GET_REMOTE_ADDR, remote_addr, pc, copied, calls,
                       printed, quiet>>
    PROVE  BufferInv'
<1> DEFINE c == sq[k].at + 1
           r == [sq[k] EXCEPT !.data = [@ EXCEPT ![c] = rdma_buf[c]], !.at = c,
                              !.phase = IF c = Cells THEN "fetched" ELSE @]
<1>1. /\ TypeOK /\ OnlyRead /\ CellsMoved /\ Ordered
      /\ ReadUndisturbed /\ PrintUndisturbed
      /\ WriteUndisturbed /\ CopyUndisturbed
  BY DEF BufferInv
<1>2. /\ sq[k].phase = "moving" /\ sq[k].op = "write"
      /\ sq' = [sq EXCEPT ![k] = r]
      /\ rdma_buf' = rdma_buf /\ remote' = remote
  BY <1>1, QueueType DEF Gather
<1>3. /\ sq[k] \in Request /\ sq[k].data \in [1..Cells -> Cell]
      /\ sq[k].at \in 0..Cells /\ sq[k].at < Cells /\ Cells \in Nat
      /\ rdma_buf \in [1..Cells -> Cell]
  BY <1>1, <1>2, QueueType, RequestType, BufferType DEF CellsMoved
<1>4. c \in 1..Cells /\ c \in 0..Cells
  BY <1>3
<1> DEFINE taken == [sq[k].data EXCEPT ![c] = rdma_buf[c]]
<1>5. /\ taken \in [1..Cells -> Cell]
      /\ \A i \in 1..Cells : taken[i] = IF i = c THEN rdma_buf[c]
                                                 ELSE sq[k].data[i]
  BY <1>3, <1>4
<1>6. /\ r \in Request /\ r.op = sq[k].op /\ r.alone = sq[k].alone
      /\ r.at = c /\ r.data = taken
      /\ r.phase = IF c = Cells THEN "fetched" ELSE "moving"
  BY <1>2, <1>3, <1>4, <1>5 DEF Request, Buffer
<1>7. /\ \A i \in 1..c : i \in 1..Cells /\ (i = c \/ i \in 1..sq[k].at)
      /\ c # Cells => c < Cells
  BY <1>3
<1> HIDE DEF r, c, taken
<1>8. /\ TypeOK' /\ OnlyRead' /\ PrintsWhatWasRead' /\ PrintUndisturbed'
      /\ ReadInFlight' => ReadInFlight
      /\ Len(sq') = Len(sq) /\ sq'[k] = r
      /\ \A i \in 1..Len(sq) : i # k => sq'[i] = sq[i]
      /\ \A i \in 1..Len(sq) : sq'[i].op = sq[i].op
                               /\ sq'[i].alone = sq[i].alone
  BY <1>1, <1>2, <1>6, AdapterFrame DEF TypeOK
<1>9. CellsMoved'
  BY <1>1, <1>2, <1>6, <1>7, <1>8 DEF CellsMoved, Read
<1>10. Ordered'
  BY <1>1, <1>2, <1>6, <1>8 DEF Ordered, Read, Write
<1>11. ReadUndisturbed'
  BY <1>1, <1>2, <1>8 DEF ReadUndisturbed, Read
<1>12. WriteUndisturbed'
  <2> SUFFICES ASSUME NEW i \in 1..Len(sq), sq'[i].op = "write", sq'[i].alone
               PROVE  /\ sq'[i].phase \in {"posted", "moving"} =>
                             rdma_buf' = All("message")
                      /\ \A d \in 1..sq'[i].at : sq'[i].data[d] = "message"
    BY <1>8 DEF WriteUndisturbed, Write
  <2>1. CASE i # k
    BY <1>1, <1>2, <1>8, <2>1 DEF WriteUndisturbed, Write
  <2>2. CASE i = k
    <3>1. /\ rdma_buf = All("message")
          /\ \A d \in 1..sq[k].at : sq[k].data[d] = "message"
      BY <1>1, <1>2, <1>8, <2>2 DEF WriteUndisturbed, Write
    <3>2. rdma_buf[c] = "message"
      BY <1>4, <3>1, BufferType
    <3>3. \A d \in 1..c : taken[d] = "message"
      BY <1>5, <1>7, <3>1, <3>2
    <3>4. sq'[i].at = c /\ sq'[i].data = taken
      BY <1>6, <1>8, <2>2
    <3> QED  BY <1>2, <3>1, <3>3, <3>4
  <2> QED  BY <2>1, <2>2
<1>13. CopyUndisturbed'
  BY <1>1, <1>2, <1>8 DEF CopyUndisturbed
<1> QED  BY <1>8, <1>9, <1>10, <1>11, <1>12, <1>13 DEF BufferInv

\* A write is executed.
LEMMA ExecuteWritePreserves ==
    ASSUME BufferInv, NEW k \in 1..Len(sq), ExecuteWrite(k),
           UNCHANGED <<SERVER_GET_REMOTE_ADDR, remote_addr, pc, copied, calls,
                       printed, quiet>>
    PROVE  BufferInv'
<1> DEFINE r == [sq[k] EXCEPT !.phase = "done"]
<1>1. /\ TypeOK /\ OnlyRead /\ CellsMoved /\ Ordered
      /\ ReadUndisturbed /\ PrintUndisturbed
      /\ WriteUndisturbed /\ CopyUndisturbed
  BY DEF BufferInv
<1>2. /\ sq[k].phase = "fetched" /\ sq[k].op = "write"
      /\ sq' = [sq EXCEPT ![k] = r]
      /\ rdma_buf' = rdma_buf /\ remote' = sq[k].data
      /\ sq[k] \in Request
  BY <1>1, QueueType DEF ExecuteWrite
<1>3. /\ r \in Request /\ r.op = sq[k].op /\ r.alone = sq[k].alone
      /\ r.phase = "done" /\ r.at = sq[k].at /\ r.data = sq[k].data
  BY <1>2 DEF Request
<1>4. sq[k].at = Cells
  BY <1>1, <1>2 DEF CellsMoved, Read
<1> HIDE DEF r
<1>5. /\ TypeOK' /\ OnlyRead' /\ PrintsWhatWasRead' /\ PrintUndisturbed'
      /\ ReadInFlight' => ReadInFlight
      /\ Len(sq') = Len(sq) /\ sq'[k] = r
      /\ \A i \in 1..Len(sq) : i # k => sq'[i] = sq[i]
      /\ \A i \in 1..Len(sq) : sq'[i].op = sq[i].op
                               /\ sq'[i].alone = sq[i].alone
  BY <1>1, <1>2, <1>3, AdapterFrame, RequestType DEF TypeOK, Buffer
<1>6. CellsMoved'
  BY <1>1, <1>2, <1>3, <1>4, <1>5 DEF CellsMoved, Read
<1>7. Ordered'
  BY <1>1, <1>2, <1>3, <1>5 DEF Ordered, Read, Write
<1>8. ReadUndisturbed' /\ WriteUndisturbed'
  BY <1>1, <1>2, <1>3, <1>5 DEF ReadUndisturbed, WriteUndisturbed, Read, Write
<1>9. CopyUndisturbed'
  BY <1>1, <1>2, <1>5 DEF CopyUndisturbed
<1> QED  BY <1>5, <1>6, <1>7, <1>8, <1>9 DEF BufferInv

-----------------------------------------------------------------------------
(* The buffer.                                                             *)

\* The only read is followed from its call to its print, and what shares
\* rdma_buf with an undisturbed request is ordered with it.
LEMMA BufferInvNext == BufferInv /\ [Next]_vars => BufferInv'
<1> SUFFICES ASSUME BufferInv, [Next]_vars PROVE BufferInv'
  OBVIOUS
<1>1. CASE UNCHANGED vars
  <2>1. TypeOK' /\ PrintsWhatWasRead' /\ PrintUndisturbed'
    BY <1>1
       DEF vars, BufferInv, TypeOK, PrintsWhatWasRead, PrintUndisturbed
  <2>2. OnlyRead' /\ CellsMoved'
    BY <1>1 DEF vars, BufferInv, OnlyRead, CellsMoved, Read
  <2>3. Ordered'
    BY <1>1 DEF vars, BufferInv, Ordered, Read, Write
  <2>4. ReadUndisturbed' /\ WriteUndisturbed'
    BY <1>1 DEF vars, BufferInv, ReadUndisturbed, WriteUndisturbed, Read, Write
  <2>5. CopyUndisturbed'
    BY <1>1 DEF vars, BufferInv, CopyUndisturbed, ReadInFlight
  <2> QED  BY <2>1, <2>2, <2>3, <2>4, <2>5 DEF BufferInv
<1>2. CASE Caller
  BY <1>2, QuietStepPreserves, RdmaReadPreserves, BeginWritePreserves,
     CopyCellPreserves, PostWritePreserves DEF Caller
<1>3. CASE CqThread
  BY <1>3, QuietStepPreserves, PollPreserves, PrintCellPreserves DEF CqThread
<1>4. CASE Adapters
  <2>1. UNCHANGED <<SERVER_GET_REMOTE_ADDR, remote_addr, pc, copied, calls,
                    printed, quiet>>
    BY <1>4 DEF Adapters
  <2>2. PICK k \in 1..Len(sq) :
            \/ Start(k) \/ ExecuteRead(k) \/ Land(k) \/ Gather(k)
            \/ ExecuteWrite(k)
    BY <1>4 DEF Adapters
  <2> QED  BY <2>1, <2>2, StartPreserves, ExecuteReadPreserves,
              LandPreserves, GatherPreserves, ExecuteWritePreserves
<1> QED  BY <1>1, <1>2, <1>3, <1>4 DEF Next

-----------------------------------------------------------------------------
(* The messages: what reaches the client before a read has been executed,  *)
(* and what the read then fetches.                                         *)

MessageInv == MessagesFirst /\ ReadsItsWrites

\* Once something is fetched it stays so.
LEMMA FetchedStays ==
    ASSUME BufferInv,
           /\ \A k \in 1..Len(sq) :
                 Read(k) /\ sq[k].phase \notin {"posted", "moving"} =>
                     /\ k \in 1..Len(sq') /\ sq'[k].op = "read"
                     /\ sq'[k].phase \notin {"posted", "moving"}
           /\ printed # {} => printed' # {}
    PROVE  NothingFetched' => NothingFetched
  BY DEF NothingFetched, Read

\* A request that is posted is new: nothing is fetched for it yet, and a write
\* has the message in rdma_buf if nothing is fetched for others.
LEMMA PostKeepsMessages ==
    ASSUME BufferInv, MessageInv, NEW r \in Request, Post(r),
           r.phase = "posted", r.at = 0,
           r.op = "write" =>
               (NothingFetched => \A c \in 1..Cells : rdma_buf[c] = "message"),
           UNCHANGED <<rdma_buf, remote, printed>>
    PROVE  MessageInv'
<1>1. /\ sq' = Append(sq, r) \/ sq' = sq
      /\ pc' # "copy"
  BY DEF Post
<1>2. TypeOK
  BY DEF BufferInv
<1>3. r.op \in {"read", "write"}
  BY RequestType
<1>4. CASE sq' = sq
  BY <1>1, <1>4
     DEF MessageInv, MessagesFirst, ReadsItsWrites, NothingFetched, Read, Write
<1>5. CASE sq' = Append(sq, r)
  <2> DEFINE n == Len(sq) + 1
  <2>1. /\ Len(sq') = n /\ sq'[n] = r /\ Len(sq) \in Nat
        /\ \A i \in 1..Len(sq) : sq'[i] = sq[i] /\ i \in 1..n
        /\ \A i \in 1..n : i = n \/ i \in 1..Len(sq)
        /\ \A i, k \in 1..n : i < k => i \in 1..Len(sq)
        /\ n \in 1..n
    BY <1>2, <1>5, OneAppended, QueueType
  <2> HIDE DEF n
  <2>2. NothingFetched' => NothingFetched
    BY <2>1, FetchedStays DEF Read
  <2>3. r.op = "write" /\ NothingFetched => rdma_buf = All("message")
    <3>1. /\ rdma_buf \in [1..Cells -> Cell]
          /\ All("message") \in [1..Cells -> Cell]
      BY <1>2, QueueType, BufferType DEF Buffer
    <3> QED  BY <3>1, SameBuffer, BufferType
  <2>4. MessagesFirst'
    <3> SUFFICES ASSUME NothingFetched', NEW k \in 1..n, sq'[k].op = "write"
                 PROVE  /\ rdma_buf' = All("message")
                        /\ \A c \in 1..sq'[k].at : sq'[k].data[c] = "message"
                        /\ sq'[k].phase = "done" => remote' = All("message")
      BY <1>1, <2>1 DEF MessagesFirst, Write
    <3>1. CASE k = n
      <4>1. 1..0 = {}
        OBVIOUS
      <4> QED  BY <2>1, <2>2, <2>3, <3>1, <4>1
    <3>2. CASE k \in 1..Len(sq)
      BY <2>1, <2>2, <3>2 DEF MessageInv, MessagesFirst, Write
    <3> QED  BY <2>1, <3>1, <3>2
  <2>5. ReadsItsWrites'
    BY <2>1 DEF MessageInv, ReadsItsWrites
  <2> QED  BY <2>4, <2>5 DEF MessageInv
<1> QED  BY <1>1, <1>4, <1>5

\* The calls: a write is posted when its message is complete.
LEMMA CallerKeepsMessages ==
    ASSUME BufferInv, MessageInv, Caller
    PROVE  MessageInv'
<1>1. TypeOK /\ quiet \in BOOLEAN
  BY QueueType DEF BufferInv
<1>2. CASE Started
  BY <1>2 DEF Started, MessageInv, MessagesFirst, ReadsItsWrites,
              NothingFetched, Read, Write
<1>3. CASE RdmaRead
  <2> DEFINE r == NewRequest("read", TRUE)
  <2>1. UNCHANGED <<rdma_buf, remote, printed>>
    BY <1>3 DEF RdmaRead
  <2>2. /\ r \in Request /\ r.op = "read" /\ r.phase = "posted" /\ r.at = 0
    BY NewRequestType
  <2>3. Post(r) \/ (sq' = sq /\ pc' = "refused")
    BY <1>3 DEF RdmaRead
  <2> HIDE DEF r
  <2>4. CASE Post(r)
    BY <2>1, <2>2, <2>4, PostKeepsMessages
  <2>5. CASE sq' = sq /\ pc' = "refused"
    BY <2>1, <2>5 DEF MessageInv, MessagesFirst, ReadsItsWrites,
                      NothingFetched, Read, Write
  <2> QED  BY <2>3, <2>4, <2>5
<1>4. CASE BeginWrite
  <2>1. /\ Len(sq') = Len(sq)
        /\ \A i \in 1..Len(sq) :
               /\ sq'[i].op = sq[i].op /\ sq'[i].phase = sq[i].phase
               /\ sq'[i].data = sq[i].data /\ sq'[i].at = sq[i].at
    <3> DEFINE reset(q) == [q EXCEPT !.alone = FALSE]
               next(q) == IF q.op = "read" THEN reset(q) ELSE q
    <3>1. sq' = [k \in 1..Len(sq) |-> next(sq[k])]
      BY <1>4 DEF BeginWrite
    <3>2. \A q \in Request : /\ next(q).op = q.op /\ next(q).phase = q.phase
                             /\ next(q).data = q.data /\ next(q).at = q.at
      BY DEF Request
    <3> HIDE DEF next
    <3> QED  BY <1>1, <3>1, <3>2, QueueType, LenProperties
  <2>2. /\ UNCHANGED <<rdma_buf, remote>> /\ copied' = 0
        /\ printed' = {} <=> printed = {}
    BY <1>4 DEF BeginWrite
  <2>3. 1..copied' = {}
    BY <2>2
  <2>4. NothingFetched' => NothingFetched
    BY <2>1, <2>2 DEF NothingFetched, Read
  <2>5. MessagesFirst'
    BY <2>1, <2>2, <2>3, <2>4 DEF MessageInv, MessagesFirst, Write
  <2>6. ReadsItsWrites'
    BY <2>1 DEF MessageInv, ReadsItsWrites
  <2> QED  BY <2>5, <2>6 DEF MessageInv
<1>5. CASE CopyCell
  <2>1. /\ UNCHANGED <<pc, sq, remote, printed>>
        /\ pc = "copy" /\ copied < Cells /\ copied' = copied + 1
        /\ rdma_buf' = [rdma_buf EXCEPT ![copied + 1] = "message"]
    BY <1>5 DEF CopyCell
  <2>2. /\ rdma_buf \in [1..Cells -> Cell] /\ copied \in 0..Cells
        /\ Cells \in Nat
    BY <1>1, QueueType, BufferType
  <2>3. /\ \A c \in 1..Cells : rdma_buf'[c] = IF c = copied + 1 THEN "message"
                                                              ELSE rdma_buf[c]
        /\ \A c \in 1..copied' : c \in 1..Cells
                                /\ (c = copied + 1 \/ c \in 1..copied)
    BY <2>1, <2>2
  <2>4. rdma_buf = All("message") => rdma_buf' = All("message")
    BY <2>1, <2>2 DEF All
  <2>5. NothingFetched' => NothingFetched
    BY <2>1 DEF NothingFetched, Read
  <2>6. MessagesFirst'
    BY <2>1, <2>3, <2>4, <2>5 DEF MessageInv, MessagesFirst, Write
  <2>7. ReadsItsWrites'
    BY <2>1 DEF MessageInv, ReadsItsWrites
  <2> QED  BY <2>6, <2>7 DEF MessageInv
<1>6. CASE PostWrite
  <2> DEFINE r == NewRequest("write", quiet)
  <2>1. /\ UNCHANGED <<rdma_buf, remote, printed>>
        /\ pc = "copy" /\ copied = Cells /\ Post(r)
    BY <1>6 DEF PostWrite
  <2>2. r \in Request /\ r.phase = "posted" /\ r.at = 0
    BY <1>1, NewRequestType
  <2>3. NothingFetched => \A c \in 1..Cells : rdma_buf[c] = "message"
    BY <2>1 DEF MessageInv, MessagesFirst
  <2> HIDE DEF r
  <2> QED  BY <2>1, <2>2, <2>3, PostKeepsMessages
<1> QED  BY <1>2, <1>3, <1>4, <1>5, <1>6 DEF Caller

\* cq_thread takes the oldest request from the queue; a read that it takes
\* was fetched.
LEMMA CqThreadKeepsMessages ==
    ASSUME BufferInv, MessageInv, CqThread
    PROVE  MessageInv'
<1>1. TypeOK
  BY DEF BufferInv
<1>2. CASE ReceiveHello
  BY <1>2 DEF ReceiveHello, MessageInv, MessagesFirst, ReadsItsWrites,
              NothingFetched, Read, Write
<1>3. CASE PrintCell
  <2>1. /\ UNCHANGED <<pc, copied, rdma_buf, sq, remote>>
        /\ printed # {} /\ printed' # {}
    BY <1>3 DEF PrintCell
  <2> QED  BY <2>1 DEF MessageInv, MessagesFirst, ReadsItsWrites,
                       NothingFetched, Read, Write
<1>4. CASE Poll
  <2>1. /\ UNCHANGED <<pc, copied, rdma_buf, remote>>
        /\ sq # <<>> /\ Head(sq).phase = "done" /\ sq' = Tail(sq)
        /\ HandleCompletion(Head(sq))
    BY <1>4 DEF Poll
  <2>2. /\ Len(sq') = Len(sq) - 1 /\ Len(sq) \in Nat
        /\ 1 \in 1..Len(sq) /\ Head(sq) = sq[1]
        /\ \A i \in 1..Len(sq') : sq'[i] = sq[i + 1] /\ i + 1 \in 1..Len(sq)
        /\ \A i \in 1..Len(sq) : i = 1 \/ i - 1 \in 1..Len(sq')
        /\ \A i \in 1..Len(sq) : i # 1 => sq[i] = sq'[i - 1]
    <3>1. sq \in Seq(Request) /\ Len(sq) \in Nat /\ Len(sq) # 0
      BY <1>1, <2>1, QueueType, EmptySeq
    <3>2. /\ Len(Tail(sq)) = Len(sq) - 1 /\ Head(sq) = sq[1]
          /\ \A i \in 1..Len(Tail(sq)) : Tail(sq)[i] = sq[i + 1]
      BY <2>1, <3>1, HeadTailProperties
    <3> QED  BY <2>1, <3>1, <3>2
  <2>3. /\ printed = {} \/ printed' # {}
        /\ sq[1].op = "read" => printed' # {}
    BY <2>1, <2>2 DEF HandleCompletion
  <2>4. NothingFetched' => NothingFetched
    <3> SUFFICES ASSUME NothingFetched', NEW i \in 1..Len(sq), sq[i].op = "read"
                 PROVE  sq[i].phase \in {"posted", "moving"}
      BY <2>3 DEF NothingFetched, Read
    <3>1. i # 1
      BY <2>3 DEF NothingFetched
    <3> DEFINE j == i - 1
    <3>2. j \in 1..Len(sq') /\ sq'[j] = sq[i]
      BY <2>2, <3>1
    <3> HIDE DEF j
    <3> QED  BY <3>2 DEF NothingFetched, Read
  <2>5. MessagesFirst'
    <3>1. ASSUME NEW k \in 1..Len(sq')
          PROVE  \E j \in 1..Len(sq) : sq'[k] = sq[j]
      BY <2>2
    <3> QED  BY <2>1, <2>4, <3>1 DEF MessageInv, MessagesFirst, Write
  <2>6. ReadsItsWrites'
    <3>1. ASSUME NEW k \in 1..Len(sq'), NEW i \in 1..Len(sq'), i < k
          PROVE  \E l, j \in 1..Len(sq) :
                     j < l /\ sq'[k] = sq[l] /\ sq'[i] = sq[j]
      <4> DEFINE l == k + 1
                 j == i + 1
      <4>1. /\ l \in 1..Len(sq) /\ j \in 1..Len(sq) /\ j < l
            /\ sq'[k] = sq[l] /\ sq'[i] = sq[j]
        BY <2>2, <3>1
      <4> QED  BY <4>1
    <3> QED  BY <3>1 DEF MessageInv, ReadsItsWrites
  <2> QED  BY <2>5, <2>6 DEF MessageInv
<1> QED  BY <1>2, <1>3, <1>4 DEF CqThread

\* The adapters: until a read is executed they store nothing in rdma_buf, and
\* a read is executed when the writes before it are.
LEMMA AdaptersKeepMessages ==
    ASSUME BufferInv, MessageInv, Adapters
    PROVE  MessageInv'
<1>1. TypeOK /\ CellsMoved /\ Ordered /\ UNCHANGED <<pc, copied, printed>>
  BY DEF BufferInv, Adapters
<1>2. PICK k \in 1..Len(sq) :
          \/ Start(k) \/ ExecuteRead(k) \/ Land(k) \/ Gather(k)
          \/ ExecuteWrite(k)
  BY DEF Adapters
<1>3. /\ sq[k] \in Request /\ sq[k].data \in [1..Cells -> Cell]
      /\ sq[k].at \in 0..Cells /\ Cells \in Nat
      /\ rdma_buf \in [1..Cells -> Cell] /\ remote \in [1..Cells -> Cell]
  BY <1>1, QueueType, RequestType, BufferType
<1>4. ASSUME NEW r \in Request, sq' = [sq EXCEPT ![k] = r], r.op = sq[k].op,
             sq[k].phase \notin {"posted", "moving"} =>
                 r.phase \notin {"posted", "moving"}
      PROVE  /\ Len(sq') = Len(sq) /\ sq'[k] = r
             /\ \A i \in 1..Len(sq) : i # k => sq'[i] = sq[i]
             /\ \A i \in 1..Len(sq) : sq'[i].op = sq[i].op
             /\ NothingFetched' => NothingFetched
  <2>1. /\ Len(sq') = Len(sq) /\ sq'[k] = r
        /\ \A i \in 1..Len(sq) : i # k => sq'[i] = sq[i]
    BY <1>1, <1>4, OneChanged
  <2>2. \A i \in 1..Len(sq) : sq'[i].op = sq[i].op
    BY <1>4, <2>1
  <2>3. NothingFetched' => NothingFetched
    BY <1>1, <1>4, <2>1, <2>2 DEF NothingFetched, Read
  <2> QED  BY <2>1, <2>2, <2>3
<1>5. CASE Start(k)
  <2> DEFINE r == [sq[k] EXCEPT !.phase = "moving"]
  <2>1. /\ sq[k].phase = "posted" /\ sq' = [sq EXCEPT ![k] = r]
        /\ UNCHANGED <<rdma_buf, remote>>
    BY <1>1, <1>5, QueueType DEF Start
  <2>2. /\ r \in Request /\ r.op = sq[k].op /\ r.phase = "moving"
        /\ r.at = sq[k].at /\ r.data = sq[k].data
    BY <1>3 DEF Request
  <2> HIDE DEF r
  <2>3. /\ Len(sq') = Len(sq) /\ sq'[k] = r
        /\ \A i \in 1..Len(sq) : i # k => sq'[i] = sq[i]
        /\ \A i \in 1..Len(sq) : sq'[i].op = sq[i].op
        /\ NothingFetched' => NothingFetched
    BY <1>4, <2>1, <2>2
  <2>4. MessagesFirst'
    BY <1>1, <2>1, <2>2, <2>3 DEF MessageInv, MessagesFirst, Write
  <2>5. ReadsItsWrites'
    BY <2>1, <2>2, <2>3 DEF MessageInv, ReadsItsWrites
  <2> QED  BY <2>4, <2>5 DEF MessageInv
<1>6. CASE ExecuteRead(k)
  <2> DEFINE r == [sq[k] EXCEPT !.phase = "fetched", !.data = remote]
  <2>1. /\ sq[k].phase = "moving" /\ sq[k].op = "read"
        /\ sq' = [sq EXCEPT ![k] = r]
        /\ \A i \in 1..k - 1 : sq[i].op = "write" => sq[i].phase = "done"
    BY <1>1, <1>6, QueueType DEF ExecuteRead
  <2>2. /\ r \in Request /\ r.op = "read" /\ r.phase = "fetched"
        /\ r.data = remote
    BY <1>3, <2>1 DEF Request, Buffer
  <2> HIDE DEF r
  <2>3. /\ Len(sq') = Len(sq) /\ sq'[k] = r
        /\ \A i \in 1..Len(sq) : i # k => sq'[i] = sq[i]
    BY <1>4, <2>1, <2>2
  <2>4. ~NothingFetched'
    BY <2>2, <2>3 DEF NothingFetched, Read
  <2>5. NothingFetched
    <3>1. \A i \in 1..Len(sq) : sq[i].op = "read" => i = k
      BY <2>1 DEF BufferInv, OnlyRead, Read
    <3>2. printed = {}
      BY <2>1 DEF BufferInv, OnlyRead, Read
    <3> QED  BY <2>1, <3>1, <3>2 DEF NothingFetched, Read
  <2>6. ASSUME NEW i \in 1..Len(sq), i < k, sq[i].op = "write"
        PROVE  remote = All("message")
    <3>1. i \in 1..k - 1
      BY <2>6
    <3> QED  BY <2>1, <2>5, <2>6, <3>1 DEF MessageInv, MessagesFirst, Write
  <2>7. ReadsItsWrites'
    <3> SUFFICES ASSUME NEW l \in 1..Len(sq), NEW i \in 1..Len(sq), i < l,
                        sq'[i].op = "write", sq'[l].op = "read",
                        sq'[l].phase \in {"fetched", "done"}
                 PROVE  sq'[l].data = All("message")
      BY <2>3 DEF ReadsItsWrites
    <3>1. sq[i].op = "write"
      BY <2>2, <2>3
    <3>2. CASE l = k
      BY <2>2, <2>3, <2>6, <3>1, <3>2
    <3>3. CASE l # k
      BY <2>3, <3>1, <3>3 DEF MessageInv, ReadsItsWrites
    <3> QED  BY <3>2, <3>3
  <2> QED  BY <2>4, <2>7 DEF MessageInv, MessagesFirst
<1>7. CASE Land(k)
  <2> DEFINE c == sq[k].at + 1
             r == [sq[k] EXCEPT !.at = c,
                                !.phase = IF c = Cells THEN "done" ELSE @]
  <2>1. /\ sq[k].phase = "fetched" /\ sq[k].op = "read"
        /\ sq' = [sq EXCEPT ![k] = r]
    BY <1>1, <1>7, QueueType DEF Land
  <2>2. c \in 0..Cells
    BY <1>1, <1>3, <2>1 DEF CellsMoved, Read
  <2>3. /\ r \in Request /\ r.op = sq[k].op /\ r.data = sq[k].data
        /\ r.phase \in {"fetched", "done"}
    BY <1>3, <2>1, <2>2 DEF Request
  <2> HIDE DEF r, c
  <2>4. /\ Len(sq') = Len(sq) /\ sq'[k] = r
        /\ \A i \in 1..Len(sq) : i # k => sq'[i] = sq[i]
        /\ \A i \in 1..Len(sq) : sq'[i].op = sq[i].op
    BY <1>4, <2>1, <2>3
  <2>5. ~NothingFetched'
    BY <2>1, <2>3, <2>4 DEF NothingFetched, Read
  <2>6. ReadsItsWrites'
    BY <2>1, <2>3, <2>4 DEF MessageInv, ReadsItsWrites
  <2> QED  BY <2>5, <2>6 DEF MessageInv, MessagesFirst
<1>8. CASE Gather(k)
  <2> DEFINE c == sq[k].at + 1
             taken == [sq[k].data EXCEPT ![c] = rdma_buf[c]]
             r == [sq[k] EXCEPT !.data = taken, !.at = c,
                                !.phase = IF c = Cells THEN "fetched" ELSE @]
  <2>1. /\ sq[k].phase = "moving" /\ sq[k].op = "write"
        /\ sq' = [sq EXCEPT ![k] = r]
        /\ UNCHANGED <<rdma_buf, remote>>
    BY <1>1, <1>8, QueueType DEF Gather
  <2>2. /\ c \in 0..Cells /\ c \in 1..Cells
        /\ \A d \in 1..c : d \in 1..Cells /\ (d = c \/ d \in 1..sq[k].at)
    BY <1>1, <1>3, <2>1 DEF CellsMoved
  <2>3. /\ taken \in [1..Cells -> Cell]
        /\ \A d \in 1..Cells : taken[d] = IF d = c THEN rdma_buf[c]
                                                   ELSE sq[k].data[d]
    BY <1>3, <2>2
  <2> HIDE DEF taken
  <2>4. /\ r \in Request /\ r.op = sq[k].op /\ r.data = taken /\ r.at = c
        /\ r.phase # "done"
    BY <1>3, <2>1, <2>2, <2>3 DEF Request, Buffer
  <2>10. r.phase \in {"moving", "fetched"}
    BY <1>3, <2>1
  <2> HIDE DEF r, c
  <2>5. /\ Len(sq') = Len(sq) /\ sq'[k] = r
        /\ \A i \in 1..Len(sq) : i # k => sq'[i] = sq[i]
        /\ \A i \in 1..Len(sq) : sq'[i].op = sq[i].op
        /\ NothingFetched' => NothingFetched
    BY <1>4, <2>1, <2>4
  <2>6. NothingFetched => \A d \in 1..c : taken[d] = "message"
    <3> SUFFICES ASSUME NothingFetched, NEW d \in 1..c
                 PROVE  taken[d] = "message"
      OBVIOUS
    <3>1. /\ rdma_buf = All("message")
          /\ \A e \in 1..sq[k].at : sq[k].data[e] = "message"
      BY <2>1 DEF MessageInv, MessagesFirst, Write
    <3>2. rdma_buf[c] = "message"
      BY <2>2, <3>1, BufferType
    <3> QED  BY <2>2, <2>3, <3>1, <3>2
  <2>7. MessagesFirst'
    <3> SUFFICES ASSUME NothingFetched', NEW i \in 1..Len(sq),
                        sq'[i].op = "write"
                 PROVE  /\ rdma_buf' = All("message")
                        /\ \A d \in 1..sq'[i].at : sq'[i].data[d] = "message"
                        /\ sq'[i].phase = "done" => remote' = All("message")
      BY <1>1, <2>1, <2>5 DEF MessageInv, MessagesFirst, Write
    <3>1. CASE i = k
      BY <2>1, <2>4, <2>5, <2>6, <3>1 DEF MessageInv, MessagesFirst, Write
    <3>2. CASE i # k
      BY <2>1, <2>5, <3>2 DEF MessageInv, MessagesFirst, Write
    <3> QED  BY <3>1, <3>2
  <2>8. ReadsItsWrites'
    BY <2>1, <2>4, <2>5 DEF MessageInv, ReadsItsWrites
  <2> QED  BY <2>7, <2>8 DEF MessageInv
<1>9. CASE ExecuteWrite(k)
  <2> DEFINE r == [sq[k] EXCEPT !.phase = "done"]
  <2>1. /\ sq[k].phase = "fetched" /\ sq[k].op = "write"
        /\ sq' = [sq EXCEPT ![k] = r]
        /\ rdma_buf' = rdma_buf /\ remote' = sq[k].data
    BY <1>1, <1>9, QueueType DEF ExecuteWrite
  <2>2. /\ r \in Request /\ r.op = sq[k].op /\ r.phase = "done"
        /\ r.at = sq[k].at /\ r.data = sq[k].data
    BY <1>3 DEF Request
  <2> HIDE DEF r
  <2>3. /\ Len(sq') = Len(sq) /\ sq'[k] = r
        /\ \A i \in 1..Len(sq) : i # k => sq'[i] = sq[i]
        /\ \A i \in 1..Len(sq) : sq'[i].op = sq[i].op
        /\ NothingFetched' => NothingFetched
    BY <1>4, <2>1, <2>2
  <2>4. NothingFetched => sq[k].data = All("message")
    <3> SUFFICES ASSUME NothingFetched PROVE sq[k].data = All("message")
      OBVIOUS
    <3>1. sq[k].at = Cells
      BY <1>1, <2>1 DEF CellsMoved, Read
    <3>2. \A d \in 1..Cells : sq[k].data[d] = "message"
      BY <2>1, <3>1 DEF MessageInv, MessagesFirst, Write
    <3>3. All("message") \in [1..Cells -> Cell]
      BY BufferType DEF Buffer
    <3> QED  BY <1>3, <3>2, <3>3, SameBuffer, BufferType
  <2>5. MessagesFirst'
    <3> SUFFICES ASSUME NothingFetched', NEW i \in 1..Len(sq),
                        sq'[i].op = "write"
                 PROVE  /\ rdma_buf' = All("message")
                        /\ \A d \in 1..sq'[i].at : sq'[i].data[d] = "message"
                        /\ sq'[i].phase = "done" => remote' = All("message")
      BY <1>1, <2>1, <2>3 DEF MessageInv, MessagesFirst, Write
    <3>1. CASE i = k
      BY <2>1, <2>2, <2>3, <2>4, <3>1 DEF MessageInv, MessagesFirst, Write
    <3>2. CASE i # k
      BY <2>1, <2>3, <2>4, <3>2 DEF MessageInv, MessagesFirst, Write
    <3> QED  BY <3>1, <3>2
  <2>6. ReadsItsWrites'
    BY <2>1, <2>2, <2>3 DEF MessageInv, ReadsItsWrites
  <2> QED  BY <2>5, <2>6 DEF MessageInv
<1> QED  BY <1>2, <1>5, <1>6, <1>7, <1>8, <1>9

-----------------------------------------------------------------------------
(* The theorems.                                                           *)

\* The invariant holds throughout.
THEOREM Invariance == Spec => []IInv
<1>1. Init => IInv
  <2> SUFFICES ASSUME Init PROVE IInv
    OBVIOUS
  <2>1. 1..Len(sq) = {} /\ pc # "copy"
    BY DEF Init
  <2> QED  BY <2>1, Initially DEF IInv, MessagesFirst, ReadsItsWrites
<1>2. IInv /\ [Next]_vars => IInv'
  <2> SUFFICES ASSUME BufferInv, MessageInv, [Next]_vars
               PROVE  BufferInv' /\ MessageInv'
    BY DEF IInv, MessageInv
  <2>1. BufferInv'
    BY BufferInvNext
  <2>2. MessageInv'
    <3>1. CASE UNCHANGED vars
      BY <3>1 DEF vars, MessageInv, MessagesFirst, ReadsItsWrites,
                  NothingFetched, Read, Write
    <3>2. CASE Next
      BY <3>2, CallerKeepsMessages, CqThreadKeepsMessages, AdaptersKeepMessages
         DEF Next
    <3> QED  BY <3>1, <3>2
  <2> QED  BY <2>1, <2>2
<1> QED  BY <1>1, <1>2, PTL DEF Spec

\* What a read fetches that was posted after a write is what was written.
THEOREM ReadsItsWritesHolds == Spec => []ReadsItsWrites
<1>1. IInv => ReadsItsWrites
  BY DEF IInv
<1> QED  BY Invariance, <1>1, PTL

\* What cq_thread prints is what the undisturbed read fetched.
THEOREM PrintsWhatWasReadHolds == Spec => []PrintsWhatWasRead
<1>1. IInv => PrintsWhatWasRead
  BY DEF IInv, BufferInv
<1> QED  BY Invariance, <1>1, PTL

\* An undisturbed write has taken the whole message when it is executed.
THEOREM WritesCarryMessageHolds == Spec => []WritesCarryMessage
<1>1. IInv => WritesCarryMessage
  <2> SUFFICES ASSUME IInv, NEW k \in 1..Len(sq), sq[k].op = "write",
                      sq[k].alone, sq[k].phase \in {"fetched", "done"}
               PROVE  sq[k].data = All("message")
    BY DEF WritesCarryMessage
  <2>1. sq[k].at = Cells
    BY DEF IInv, BufferInv, CellsMoved, Read
  <2>2. \A c \in 1..Cells : sq[k].data[c] = "message"
    BY <2>1 DEF IInv, BufferInv, WriteUndisturbed, Write
  <2>3. sq[k].data \in [1..Cells -> Cell]
    BY QueueType, RequestType DEF IInv, BufferInv
  <2>4. All("message") \in [1..Cells -> Cell]
    BY BufferType DEF Buffer
  <2>5. \A c \in 1..Cells : sq[k].data[c] = All("message")[c]
    BY <2>2, BufferType
  <2> HIDE DEF All
  <2> QED  BY <2>3, <2>4, <2>5, SameBuffer
<1> QED  BY Invariance, <1>1, PTL

-----------------------------------------------------------------------------
(* Nobody waits for ever.  A request needs a number of steps of the        *)
(* adapters that its type does not change, and the oldest one can always   *)
(* take its next step; so the queue is emptied as long as the adapters and *)
(* cq_thread go on.                                                        *)

\* The guards of the adapters' steps, but for the exit that ends them all.
CanStart(k) ==
    /\ sq[k].phase = "posted"
    /\ \A i \in 1..k - 1 :
           /\ sq[i].phase # "posted"
           /\ sq[i].op = "write" => sq[i].phase # "moving"

CanMove(k) ==
    \/ sq[k].op = "read" /\ sq[k].phase = "fetched"
    \/ sq[k].op = "write" /\ sq[k].phase = "moving"

CanExecute(k) ==
    /\ \/ sq[k].op = "read" /\ sq[k].phase = "moving"
       \/ sq[k].op = "write" /\ sq[k].phase = "fetched"
    /\ \A i \in 1..k - 1 : sq[i].op = "write" => sq[i].phase = "done"

CanAdvance(k) == CanStart(k) \/ CanMove(k) \/ CanExecute(k)

\* No step of an adapter has another guard.
LEMMA StepsAreGuarded ==
    ASSUME NEW k,
           \/ Start(k) \/ ExecuteRead(k) \/ Land(k) \/ Gather(k)
           \/ ExecuteWrite(k)
    PROVE  CanAdvance(k)
  BY DEF Start, ExecuteRead, Land, Gather, ExecuteWrite, CanAdvance, CanStart,
         CanMove, CanExecute

\* The oldest request is done, for cq_thread to poll when it has printed what
\* it polled before (PrintCell waits for nobody), or waits for nobody itself.
\* This is the reason why a read that follows a write, and a write that
\* follows a read, do not wait for each other.
THEOREM OldestCanGoOn ==
    Spec => [](sq # <<>> => Head(sq).phase = "done" \/ CanAdvance(1))
<1>1. IInv => (sq # <<>> => Head(sq).phase = "done" \/ CanAdvance(1))
  <2> SUFFICES ASSUME IInv, sq # <<>>
               PROVE  Head(sq).phase = "done" \/ CanAdvance(1)
    OBVIOUS
  <2>1. sq \in Seq(Request)
    BY DEF IInv, BufferInv, TypeOK
  <2>2. Head(sq) \in Request /\ Head(sq) = sq[1]
    BY <2>1, HeadTailProperties
  <2>3. /\ sq[1].op \in {"read", "write"}
        /\ sq[1].phase \in {"posted", "moving", "fetched", "done"}
    BY <2>2, RequestType
  <2>4. 1..1 - 1 = {}
    OBVIOUS
  <2> QED  BY <2>2, <2>3, <2>4 DEF CanAdvance, CanStart, CanMove, CanExecute
<1> QED  BY Invariance, <1>1, PTL

\* The steps that the adapters still owe to a request.
RequestLeft(r) ==
    CASE r.phase = "posted"  -> Cells + 2
      [] r.phase = "moving"  -> Cells + 1 - r.at
      [] r.phase = "fetched" -> IF r.op = "read" THEN Cells - r.at ELSE 1
      [] r.phase = "done"    -> 0

\* A request is owed as many as two more than its cells, and none when done.
LEMMA RequestLeftType ==
    ASSUME NEW r \in Request
    PROVE  /\ r.phase = "posted" => RequestLeft(r) = Cells + 2
           /\ r.phase = "moving" => RequestLeft(r) = Cells + 1 - r.at
           /\ r.phase = "fetched" /\ r.op = "read" =>
                  RequestLeft(r) = Cells - r.at
           /\ r.phase = "fetched" /\ r.op = "write" => RequestLeft(r) = 1
           /\ r.phase = "done" => RequestLeft(r) = 0
           /\ RequestLeft(r) \in 0..Cells + 2
<1>1. /\ r.phase = "posted" => RequestLeft(r) = Cells + 2
      /\ r.phase = "moving" => RequestLeft(r) = Cells + 1 - r.at
      /\ r.phase = "fetched" /\ r.op = "read" => RequestLeft(r) = Cells - r.at
      /\ r.phase = "fetched" /\ r.op = "write" => RequestLeft(r) = 1
      /\ r.phase = "done" => RequestLeft(r) = 0
  BY DEF RequestLeft
<1>2. /\ r.phase \in {"posted", "moving", "fetched", "done"}
      /\ r.op \in {"read", "write"} /\ r.at \in 0..Cells /\ Cells \in Nat
  BY RequestType, BufferType
<1> HIDE DEF RequestLeft
<1>3. /\ Cells + 2 \in 0..Cells + 2 /\ Cells + 1 - r.at \in 0..Cells + 2
      /\ Cells - r.at \in 0..Cells + 2 /\ 1 \in 0..Cells + 2
      /\ 0 \in 0..Cells + 2
  BY <1>2
<1> QED  BY <1>1, <1>2, <1>3

\* The queue is the same but for the k-th request, which is one step further.
StepOfOne(k) ==
    /\ Len(sq') = Len(sq)
    /\ RequestLeft(sq'[k]) = RequestLeft(sq[k]) - 1
    /\ \A i \in 1..Len(sq) : i # k => sq'[i] = sq[i]

\* A step of an adapter is one step of one request.
LEMMA AdaptersAdvance ==
    ASSUME IInv, Adapters
    PROVE  \E k \in 1..Len(sq) : StepOfOne(k)
<1>1. TypeOK /\ CellsMoved /\ Cells \in Nat
  BY BufferType DEF IInv, BufferInv
<1>2. PICK k \in 1..Len(sq) :
          \/ Start(k) \/ ExecuteRead(k) \/ Land(k) \/ Gather(k)
          \/ ExecuteWrite(k)
  BY DEF Adapters
<1>3. /\ sq[k] \in Request /\ sq[k].data \in [1..Cells -> Cell]
      /\ sq[k].at \in 0..Cells
      /\ remote \in [1..Cells -> Cell] /\ rdma_buf \in [1..Cells -> Cell]
  BY <1>1, QueueType, RequestType
<1>natural. Cells \in Nat /\ sq[k].at \in Int
  BY <1>1, <1>3
<1>4. ASSUME NEW r \in Request, sq' = [sq EXCEPT ![k] = r],
             RequestLeft(r) = RequestLeft(sq[k]) - 1
      PROVE  StepOfOne(k)
  <2>1. /\ Len(sq') = Len(sq) /\ sq'[k] = r
        /\ \A i \in 1..Len(sq) : i # k => sq'[i] = sq[i]
    BY <1>1, <1>4, OneChanged
  <2> QED  BY <1>4, <2>1 DEF StepOfOne
<1>5. CASE Start(k)
  <2> DEFINE r == [sq[k] EXCEPT !.phase = "moving"]
  <2>1. sq[k].phase = "posted" /\ sq' = [sq EXCEPT ![k] = r]
    BY <1>1, <1>5, QueueType DEF Start
  <2>2. r \in Request /\ r.phase = "moving" /\ r.at = sq[k].at
    BY <1>3 DEF Request
  <2>3. sq[k].at = 0
    BY <1>1, <2>1 DEF CellsMoved
  <2> HIDE DEF r
  <2>4. RequestLeft(sq[k]) = Cells + 2 /\ RequestLeft(r) = Cells + 1 - 0
    BY <1>3, <2>1, <2>2, <2>3, RequestLeftType
  <2>5. RequestLeft(r) = RequestLeft(sq[k]) - 1
    BY <1>natural, <2>4
  <2> QED  BY <1>4, <2>1, <2>2, <2>5
<1>6. CASE ExecuteRead(k)
  <2> DEFINE r == [sq[k] EXCEPT !.phase = "fetched", !.data = remote]
  <2>1. /\ sq[k].phase = "moving" /\ sq[k].op = "read"
        /\ sq' = [sq EXCEPT ![k] = r]
    BY <1>1, <1>6, QueueType DEF ExecuteRead
  <2>2. /\ r \in Request /\ r.phase = "fetched" /\ r.at = sq[k].at
        /\ r.op = "read"
    BY <1>3, <2>1 DEF Request, Buffer
  <2>3. sq[k].at = 0
    BY <1>1, <2>1 DEF CellsMoved, Read
  <2> HIDE DEF r
  <2>4. RequestLeft(sq[k]) = Cells + 1 - 0 /\ RequestLeft(r) = Cells - 0
    BY <1>3, <2>1, <2>2, <2>3, RequestLeftType
  <2>5. RequestLeft(r) = RequestLeft(sq[k]) - 1
    BY <1>natural, <2>4
  <2> QED  BY <1>4, <2>1, <2>2, <2>5
<1>7. CASE Land(k)
  <2> DEFINE c == sq[k].at + 1
             r == [sq[k] EXCEPT !.at = c,
                                !.phase = IF c = Cells THEN "done" ELSE @]
  <2>1. /\ sq[k].phase = "fetched" /\ sq[k].op = "read"
        /\ sq' = [sq EXCEPT ![k] = r]
    BY <1>1, <1>7, QueueType DEF Land
  <2>2. sq[k].at < Cells
    BY <1>1, <2>1 DEF CellsMoved, Read
  <2>3. c \in 0..Cells /\ c = sq[k].at + 1
    BY <1>1, <1>3, <2>2
  <2>4. /\ r \in Request /\ r.at = c /\ r.op = "read"
        /\ r.phase = IF c = Cells THEN "done" ELSE "fetched"
    BY <1>3, <2>1, <2>3 DEF Request
  <2> HIDE DEF r, c
  <2>5. RequestLeft(sq[k]) = Cells - sq[k].at /\ RequestLeft(r) = Cells - c
    <3>1. c = Cells => Cells - c = 0
      BY <1>1
    <3> QED  BY <1>3, <2>1, <2>4, <3>1, RequestLeftType
  <2>6. RequestLeft(r) = RequestLeft(sq[k]) - 1
    BY <1>natural, <2>3, <2>5
  <2> QED  BY <1>4, <2>1, <2>4, <2>6
<1>8. CASE Gather(k)
  <2> DEFINE c == sq[k].at + 1
             r == [sq[k] EXCEPT !.data = [@ EXCEPT ![c] = rdma_buf[c]],
                                !.at = c,
                                !.phase = IF c = Cells THEN "fetched" ELSE @]
  <2>1. /\ sq[k].phase = "moving" /\ sq[k].op = "write"
        /\ sq' = [sq EXCEPT ![k] = r]
    BY <1>1, <1>8, QueueType DEF Gather
  <2>2. sq[k].at < Cells
    BY <1>1, <2>1 DEF CellsMoved
  <2>3. c \in 0..Cells /\ c \in 1..Cells /\ c = sq[k].at + 1
    BY <1>1, <1>3, <2>2
  <2>4. [sq[k].data EXCEPT ![c] = rdma_buf[c]] \in [1..Cells -> Cell]
    BY <1>3, <2>3
  <2>5. /\ r \in Request /\ r.at = c /\ r.op = "write"
        /\ r.phase = IF c = Cells THEN "fetched" ELSE "moving"
    BY <1>3, <2>1, <2>3, <2>4 DEF Request, Buffer
  <2> HIDE DEF r, c
  <2>6. /\ RequestLeft(sq[k]) = Cells + 1 - sq[k].at
        /\ RequestLeft(r) = Cells + 1 - c
    <3>1. c = Cells => Cells + 1 - c = 1
      BY <1>1
    <3> QED  BY <1>3, <2>1, <2>5, <3>1, RequestLeftType
  <2>7. RequestLeft(r) = RequestLeft(sq[k]) - 1
    BY <1>natural, <2>3, <2>6
  <2> QED  BY <1>4, <2>1, <2>5, <2>7
<1>9. CASE ExecuteWrite(k)
  <2> DEFINE r == [sq[k] EXCEPT !.phase = "done"]
  <2>1. /\ sq[k].phase = "fetched" /\ sq[k].op = "write"
        /\ sq' = [sq EXCEPT ![k] = r]
    BY <1>1, <1>9, QueueType DEF ExecuteWrite
  <2>2. r \in Request /\ r.phase = "done"
    BY <1>3 DEF Request
  <2> HIDE DEF r
  <2>3. RequestLeft(sq[k]) = 1 /\ RequestLeft(r) = 0
    BY <1>3, <2>1, <2>2, RequestLeftType
  <2>4. RequestLeft(r) = RequestLeft(sq[k]) - 1
    BY <2>3
  <2> QED  BY <1>4, <2>1, <2>2, <2>4
<1> QED  BY <1>2, <1>5, <1>6, <1>7, <1>8, <1>9

\* cq_thread removes the oldest request, to which nothing is owed.
LEMMA PollRemovesDone ==
    ASSUME IInv, Poll
    PROVE  RequestLeft(Head(sq)) = 0 /\ sq' = Tail(sq)
<1>1. sq \in Seq(Request) /\ sq # <<>> /\ Head(sq).phase = "done"
  BY DEF IInv, BufferInv, TypeOK, Poll
<1>2. Head(sq) \in Request
  BY <1>1, HeadTailProperties
<1> QED  BY <1>1, <1>2, RequestLeftType DEF Poll

\* A cell is shown: the print comes one cell nearer to its end.
PrintOnes ==
    /\ sq' = sq
    /\ \E p \in printed, q \in printed' : p.at < Cells /\ q.at = p.at + 1

\* cq_thread goes on with its print, whatever happens to the queue.
LEMMA PrintAdvances ==
    ASSUME IInv, PrintCell
    PROVE  PrintOnes
<1>1. printed \subseteq Printout /\ sq' = sq
  BY DEF IInv, BufferInv, TypeOK, PrintCell
<1>2. PICK p \in printed :
          /\ p.at < Cells
          /\ LET c == p.at + 1 IN
             printed' = (printed \ {p})
                           \cup {[p EXCEPT !.shown[c] = rdma_buf[c], !.at = c]}
  BY DEF PrintCell
<1> DEFINE q == [p EXCEPT !.shown[p.at + 1] = rdma_buf[p.at + 1],
                          !.at = p.at + 1]
<1>3. q \in printed'
  BY <1>2
<1>4. q.at = p.at + 1
  BY <1>1 DEF Printout
<1> QED  BY <1>1, <1>2, <1>3, <1>4 DEF PrintOnes

\* No request is set back, and one that is new is owed all its steps.
NoneSetBack ==
    /\ \A i \in 1..Len(sq) : RequestLeft(sq'[i]) = RequestLeft(sq[i])
    /\ \/ Len(sq') = Len(sq)
       \/ /\ Len(sq') = Len(sq) + 1
          /\ RequestLeft(sq'[Len(sq) + 1]) = Cells + 2

\* The caller and the hello set no request back.
LEMMA CallerSetsNoneBack ==
    ASSUME IInv, Caller \/ ReceiveHello
    PROVE  NoneSetBack
<1>1. TypeOK
  BY DEF IInv, BufferInv
<1>2. sq' = sq => NoneSetBack
  BY DEF NoneSetBack
<1>3. ASSUME NEW op \in {"read", "write"}, NEW alone \in BOOLEAN,
             Post(NewRequest(op, alone))
      PROVE  NoneSetBack
  <2> DEFINE r == NewRequest(op, alone)
  <2>1. r \in Request /\ r.phase = "posted"
    BY NewRequestType
  <2>2. Post(r)
    BY <1>3
  <2> HIDE DEF r
  <2>3. sq' = Append(sq, r) \/ sq' = sq
    BY <2>2 DEF Post
  <2>4. RequestLeft(r) = Cells + 2
    BY <2>1, RequestLeftType
  <2>5. CASE sq' = Append(sq, r)
    <3>1. /\ Len(sq') = Len(sq) + 1 /\ sq'[Len(sq) + 1] = r
          /\ \A i \in 1..Len(sq) : sq'[i] = sq[i]
      BY <1>1, <2>1, <2>5, OneAppended
    <3> QED  BY <2>4, <3>1 DEF NoneSetBack
  <2> QED  BY <1>2, <2>3, <2>5
<1>4. CASE Started \/ CopyCell \/ ReceiveHello
  BY <1>2, <1>4 DEF Started, CopyCell, ReceiveHello
<1>5. CASE RdmaRead
  BY <1>2, <1>3, <1>5 DEF RdmaRead
<1>6. CASE PostWrite
  BY <1>1, <1>3, <1>6, QueueType DEF PostWrite
<1>7. CASE BeginWrite
  <2> DEFINE reset(q) == [q EXCEPT !.alone = FALSE]
             next(q) == IF q.op = "read" THEN reset(q) ELSE q
  <2>1. sq' = [k \in 1..Len(sq) |-> next(sq[k])]
    BY <1>7 DEF BeginWrite
  <2>2. \A q \in Request : RequestLeft(reset(q)) = RequestLeft(q)
    BY DEF RequestLeft, Request
  <2>3. \A q \in Request : RequestLeft(next(q)) = RequestLeft(q)
    BY <2>2
  <2> HIDE DEF next
  <2>4. Len(sq') = Len(sq)
    BY <1>1, <2>1, QueueType, LenProperties
  <2>5. \A i \in 1..Len(sq) : sq'[i] = next(sq[i]) /\ sq[i] \in Request
    BY <1>1, <2>1, QueueType
  <2> QED  BY <2>3, <2>4, <2>5 DEF NoneSetBack
<1> QED  BY <1>4, <1>5, <1>6, <1>7 DEF Caller

\* Every step of the adapters brings one request one step of at most
\* Cells + 2 nearer to its completion, cq_thread removes it only then and
\* prints cell by cell without waiting for the queue, and nothing that the
\* caller does meanwhile, new requests and a strcpy into the memory that the
\* adapter moves, sets any request back.
THEOREM RequestsOnlyAdvance ==
    Spec => /\ [](\A k \in 1..Len(sq) : RequestLeft(sq[k]) \in 0..Cells + 2)
            /\ [][/\ Adapters => \E k \in 1..Len(sq) : StepOfOne(k)
                  /\ Poll => RequestLeft(Head(sq)) = 0 /\ sq' = Tail(sq)
                  /\ PrintCell => PrintOnes
                  /\ Caller \/ ReceiveHello => NoneSetBack]_vars
<1>1. IInv => \A k \in 1..Len(sq) : RequestLeft(sq[k]) \in 0..Cells + 2
  BY QueueType, RequestLeftType DEF IInv, BufferInv
<1>2. ASSUME IInv, [Next]_vars
      PROVE  [/\ Adapters => \E k \in 1..Len(sq) : StepOfOne(k)
              /\ Poll => RequestLeft(Head(sq)) = 0 /\ sq' = Tail(sq)
              /\ PrintCell => PrintOnes
              /\ Caller \/ ReceiveHello => NoneSetBack]_vars
  BY <1>2, AdaptersAdvance, PollRemovesDone, PrintAdvances,
     CallerSetsNoneBack
<1> QED  BY Invariance, <1>1, <1>2, PTL DEF Spec

=============================================================================

------------------------------ MODULE ServerOps ------------------------------
(***************************************************************************)
(* The server's one-sided operations (simplest_server.cpp: rdma_read,      *)
(* rdma_write and their part of cq_thread).  They share the memory         *)
(* rdma_buf and, unlike the client's, do not wait: the caller goes on as   *)
(* soon as the request is posted, the adapter reads and writes rdma_buf    *)
(* later, and cq_thread prints it after it has polled the completion of a  *)
(* read.  A request is not fenced, so that a write may overtake the answer *)
(* to an earlier read.                                                     *)
(*                                                                         *)
(* Queue order and completion order are the verbs' guarantees; arming and  *)
(* acknowledging events are the subject of CqThread.                       *)
(***************************************************************************)
EXTENDS Naturals, Sequences

CONSTANTS
    Cells,     \* pieces of rdma_buf that memory operations move at a time
    SqDepth,   \* SQ_DEPTH
    MaxCalls   \* bound on the calls of a behaviour

ASSUME CellsAssumption == Cells \in Nat \ {0}
ASSUME BoundsAssumption == SqDepth \in Nat /\ MaxCalls \in Nat

VARIABLES
    SERVER_GET_REMOTE_ADDR,
    remote_addr,  \* whether it has been assigned
    pc,           \* where the calling thread is
    copied,       \* cells that strcpy has written
    calls,        \* calls made, for the bound
    rdma_buf,
    sq,           \* requests that are posted and not yet polled
    remote,       \* the client's start_buf
    printed,      \* what cq_thread has printed, and prints now
    quiet         \* history: no read was in flight when rdma_write was called

vars == <<SERVER_GET_REMOTE_ADDR, remote_addr, pc, copied, calls, rdma_buf,
          sq, remote, printed, quiet>>

Cell == {"unwritten", "message", "client"}
Buffer == [1..Cells -> Cell]
All(v) == [c \in 1..Cells |-> v]

\* A posted request: its phase, how many cells its adapter has moved between
\* rdma_buf and data, and whether, as far as the calls go, it had the buffer
\* for itself: for a write, no read was in flight when it was called; for a
\* read, no write was called while it was posted.
Request == [op : {"read", "write"},
            phase : {"posted", "moving", "fetched", "done"},
            data : Buffer, at : 0..Cells, alone : BOOLEAN]

\* A print: what the read fetched, the cells that are shown so far, and
\* whether no write was called since the read was posted.
Printout == [fetched : Buffer, shown : Buffer, at : 0..Cells, alone : BOOLEAN]

NewRequest(op, alone) ==
    [op |-> op, phase |-> "posted", data |-> All("unwritten"), at |-> 0,
     alone |-> alone]

Stopped == {"refused", "full"}

TypeOK ==
    /\ SERVER_GET_REMOTE_ADDR \in BOOLEAN /\ remote_addr \in BOOLEAN
    /\ pc \in {"start", "idle", "copy"} \cup Stopped
    /\ copied \in 0..Cells
    /\ calls \in 0..MaxCalls
    /\ rdma_buf \in Buffer /\ remote \in Buffer
    /\ sq \in Seq(Request) /\ Len(sq) <= SqDepth
    /\ printed \subseteq Printout
    /\ quiet \in BOOLEAN

Init ==
    /\ SERVER_GET_REMOTE_ADDR = FALSE /\ remote_addr = FALSE
    /\ pc = "start" /\ copied = 0 /\ calls = 0
    /\ rdma_buf = All("unwritten") /\ remote = All("client")
    /\ sq = <<>> /\ printed = {} /\ quiet = TRUE

-----------------------------------------------------------------------------
(* The calling thread.                                                     *)

\* start() waits for the client's address.
Started ==
    /\ pc = "start" /\ SERVER_GET_REMOTE_ADDR
    /\ pc' = "idle"
    /\ UNCHANGED <<SERVER_GET_REMOTE_ADDR, remote_addr, copied, calls,
                   rdma_buf, sq, remote, printed, quiet>>

\* Mutant: a queue pair with room for one request more.
Post_Deeper(request) ==
    IF Len(sq) <= SqDepth
    THEN sq' = Append(sq, request) /\ pc' = "idle"
    ELSE pc' = "full" /\ UNCHANGED sq

\* ibv_post_send, or exit when the queue is full.
Post(request) ==
    IF Len(sq) < SqDepth
    THEN sq' = Append(sq, request) /\ pc' = "idle"
    ELSE pc' = "full" /\ UNCHANGED sq

\* A caller that may make another call makes it.
Call == pc = "idle" /\ calls < MaxCalls /\ calls' = calls + 1

\* The first test exits without the flag; the second assigns it.
RdmaRead ==
    /\ Call
    /\ IF SERVER_GET_REMOTE_ADDR
       THEN SERVER_GET_REMOTE_ADDR' = FALSE /\ Post(NewRequest("read", TRUE))
       ELSE pc' = "refused" /\ UNCHANGED <<SERVER_GET_REMOTE_ADDR, sq>>
    /\ UNCHANGED <<remote_addr, copied, rdma_buf, remote, printed, quiet>>

ReadInFlight ==
    \E k \in 1..Len(sq) : sq[k].op = "read" /\ sq[k].phase # "done"

\* cq_thread is at line 147.
Printing == \E p \in printed : p.at < Cells

\* The call disturbs the reads that are posted, and a print under way.
BeginWrite ==
    /\ Call
    /\ pc' = "copy" /\ copied' = 0 /\ quiet' = ~ReadInFlight
    /\ sq' = [k \in 1..Len(sq) |->
                 IF sq[k].op = "read" THEN [sq[k] EXCEPT !.alone = FALSE]
                                      ELSE sq[k]]
    /\ printed' = {IF p.at < Cells THEN [p EXCEPT !.alone = FALSE] ELSE p :
                      p \in printed}
    /\ UNCHANGED <<SERVER_GET_REMOTE_ADDR, remote_addr, rdma_buf, remote>>

\* strcpy into rdma_buf, whatever the adapter does with it.
CopyCell ==
    /\ pc = "copy" /\ copied < Cells
    /\ copied' = copied + 1
    /\ rdma_buf' = [rdma_buf EXCEPT ![copied + 1] = "message"]
    /\ UNCHANGED <<SERVER_GET_REMOTE_ADDR, remote_addr, pc, calls, sq, remote,
                   printed, quiet>>

\* Mutant: the request is posted before the message is complete.
PostWrite_Early ==
    /\ pc = "copy" /\ copied < Cells
    /\ Post(NewRequest("write", quiet))
    /\ UNCHANGED <<SERVER_GET_REMOTE_ADDR, remote_addr, copied, calls,
                   rdma_buf, remote, printed, quiet>>

PostWrite ==
    /\ pc = "copy" /\ copied = Cells
    /\ Post(NewRequest("write", quiet))
    /\ UNCHANGED <<SERVER_GET_REMOTE_ADDR, remote_addr, copied, calls,
                   rdma_buf, remote, printed, quiet>>

Caller == Started \/ RdmaRead \/ BeginWrite \/ CopyCell \/ PostWrite

-----------------------------------------------------------------------------
(* cq_thread.                                                              *)

\* server_recv_handler, for the one hello that the client sends.
ReceiveHello ==
    /\ ~remote_addr /\ ~Printing
    /\ remote_addr' = TRUE /\ SERVER_GET_REMOTE_ADDR' = TRUE
    /\ UNCHANGED <<pc, copied, calls, rdma_buf, sq, remote, printed, quiet>>

\* The case of the read begins to print.
HandleCompletion(request) ==
    printed' = IF request.op = "read"
               THEN printed \cup {[fetched |-> request.data,
                                  shown |-> All("unwritten"), at |-> 0,
                                  alone |-> request.alone]}
               ELSE printed

\* Mutant: the default case ends the thread.
Poll_StopsAtWrite ==
    /\ sq # <<>> /\ Head(sq).phase = "done" /\ ~Printing /\ pc \notin Stopped
    /\ Head(sq).op = "read"
    /\ HandleCompletion(Head(sq))
    /\ sq' = Tail(sq)
    /\ UNCHANGED <<SERVER_GET_REMOTE_ADDR, remote_addr, pc, copied, calls,
                   rdma_buf, remote, quiet>>

\* Mutant: rdma_buf is printed without waiting for the completion.
Poll_NoWait ==
    /\ sq # <<>> /\ Head(sq).phase \in {"fetched", "done"} /\ ~Printing
    /\ pc \notin Stopped
    /\ HandleCompletion(Head(sq))
    /\ sq' = Tail(sq)
    /\ UNCHANGED <<SERVER_GET_REMOTE_ADDR, remote_addr, pc, copied, calls,
                   rdma_buf, remote, quiet>>

\* Completions are polled in the order of the requests.
Poll ==
    /\ sq # <<>> /\ Head(sq).phase = "done" /\ ~Printing /\ pc \notin Stopped
    /\ HandleCompletion(Head(sq))
    /\ sq' = Tail(sq)
    /\ UNCHANGED <<SERVER_GET_REMOTE_ADDR, remote_addr, pc, copied, calls,
                   rdma_buf, remote, quiet>>

\* The print goes through rdma_buf, whatever is stored in it meanwhile.
PrintCell ==
    /\ pc \notin Stopped
    /\ \E p \in printed :
           /\ p.at < Cells
           /\ LET c == p.at + 1 IN
              printed' = (printed \ {p})
                            \cup {[p EXCEPT !.shown[c] = rdma_buf[c], !.at = c]}
    /\ UNCHANGED <<SERVER_GET_REMOTE_ADDR, remote_addr, pc, copied, calls,
                   rdma_buf, sq, remote, quiet>>

CqThread == ReceiveHello \/ Poll \/ PrintCell

-----------------------------------------------------------------------------
(* The adapters.                                                           *)

\* Requests are started in order, a write when its predecessors have been
\* sent.
Start(k) ==
    /\ sq[k].phase = "posted"
    /\ \A i \in 1..k - 1 :
           /\ sq[i].phase # "posted"
           /\ sq[i].op = "write" => sq[i].phase # "moving"
    /\ sq' = [sq EXCEPT ![k].phase = "moving"]
    /\ UNCHANGED <<rdma_buf, remote>>

\* The client's adapter reads the memory, not before the writes that precede
\* the read, but after later writes if the first answer was lost.
ExecuteRead(k) ==
    /\ sq[k].op = "read" /\ sq[k].phase = "moving"
    /\ \A i \in 1..k - 1 : sq[i].op = "write" => sq[i].phase = "done"
    /\ sq' = [sq EXCEPT ![k].phase = "fetched", ![k].data = remote]
    /\ UNCHANGED <<rdma_buf, remote>>

\* The answer to a read is stored in rdma_buf.
Land(k) ==
    /\ sq[k].op = "read" /\ sq[k].phase = "fetched"
    /\ LET c == sq[k].at + 1 IN
       /\ rdma_buf' = [rdma_buf EXCEPT ![c] = sq[k].data[c]]
       /\ sq' = [sq EXCEPT ![k].at = c,
                           ![k].phase = IF c = Cells THEN "done" ELSE @]
    /\ UNCHANGED remote

\* The data of a write are taken from rdma_buf.
Gather(k) ==
    /\ sq[k].op = "write" /\ sq[k].phase = "moving"
    /\ LET c == sq[k].at + 1 IN
       sq' = [sq EXCEPT ![k].data[c] = rdma_buf[c], ![k].at = c,
                        ![k].phase = IF c = Cells THEN "fetched" ELSE @]
    /\ UNCHANGED <<rdma_buf, remote>>

\* The client's adapter executes writes in order.
ExecuteWrite(k) ==
    /\ sq[k].op = "write" /\ sq[k].phase = "fetched"
    /\ \A i \in 1..k - 1 : sq[i].op = "write" => sq[i].phase = "done"
    /\ remote' = sq[k].data
    /\ sq' = [sq EXCEPT ![k].phase = "done"]
    /\ UNCHANGED rdma_buf

Adapters ==
    /\ \E k \in 1..Len(sq) :
           Start(k) \/ ExecuteRead(k) \/ Land(k) \/ Gather(k) \/ ExecuteWrite(k)
    /\ pc \notin Stopped
    /\ UNCHANGED <<SERVER_GET_REMOTE_ADDR, remote_addr, pc, copied, calls,
                   printed, quiet>>

Next == Caller \/ CqThread \/ Adapters

\* The thread and the adapters go on; the caller finishes the calls it makes.
Fairness ==
    /\ WF_vars(CqThread) /\ WF_vars(Adapters)
    /\ WF_vars(Started \/ CopyCell \/ PostWrite)

Spec == Init /\ [][Next]_vars /\ Fairness

-----------------------------------------------------------------------------
(* Properties.                                                             *)

\* rdma_write promises that its text reaches the client: it does when no read
\* is in flight at the call, although later calls write and read the same
\* rdma_buf before the adapter has taken the text.
WritesCarryMessage ==
    \A k \in 1..Len(sq) :
        sq[k].op = "write" /\ sq[k].alone /\ sq[k].phase \in {"fetched", "done"}
            => sq[k].data = All("message")

\* What cq_thread prints is what the read has fetched, unless rdma_write was
\* called between the post of the read and the end of the print: the poll of
\* the completion does not keep a writer out.
PrintsWhatWasRead ==
    \A p \in printed : p.alone =>
        \A c \in 1..p.at : p.shown[c] = p.fetched[c]

\* A read that is posted after a write fetches what the write wrote, although
\* the read's answer is meant for the very memory that the adapter still has
\* to take the write's text from, and although later writes, which share it
\* too, may reach the client first.
ReadsItsWrites ==
    \A k \in 1..Len(sq), i \in 1..Len(sq) :
        /\ i < k /\ sq[i].op = "write" /\ sq[k].op = "read"
        /\ sq[k].phase \in {"fetched", "done"}
        => sq[k].data = All("message")

\* Every operation that was posted completes, leaves the queue and is printed,
\* although no caller waits for it.
EveryCallCompletes == <>[]((sq = <<>> /\ ~Printing) \/ pc \in Stopped)

\* rdma_read refuses a call only if the client's address is not known: the
\* test in its first line.
RefusedOnlyWithoutAddress == pc = "refused" => ~remote_addr

-----------------------------------------------------------------------------
(* The inductive invariant behind them.                                    *)

Read(k)  == k \in 1..Len(sq) /\ sq[k].op = "read"
Write(k) == k \in 1..Len(sq) /\ sq[k].op = "write"

\* The only read there is, posted or printed, was called after the hello:
\* rdma_read clears the flag that it needs, and nothing sets it again.
OnlyRead ==
    /\ \A k, l \in 1..Len(sq) : Read(k) /\ Read(l) => k = l
    /\ (\E k \in 1..Len(sq) : Read(k)) => printed = {}
    /\ \A p, q \in printed : p = q
    /\ SERVER_GET_REMOTE_ADDR \/ ~remote_addr =>
           printed = {} /\ \A k \in 1..Len(sq) : ~Read(k)
    /\ SERVER_GET_REMOTE_ADDR => remote_addr

\* The phase of a request tells how far its cells have moved.
CellsMoved ==
    \A k \in 1..Len(sq) :
        /\ sq[k].phase = "posted" => sq[k].at = 0
        /\ sq[k].phase = "moving" =>
               sq[k].at < Cells /\ (Read(k) => sq[k].at = 0)
        /\ sq[k].phase = "fetched" =>
               IF Read(k) THEN sq[k].at < Cells ELSE sq[k].at = Cells
        /\ sq[k].phase = "done" => sq[k].at = Cells

\* A read is executed after the writes before it; before a write that is
\* alone every read is done.
Ordered ==
    \A k \in 1..Len(sq), i \in 1..Len(sq) : i < k =>
        /\ Read(k) /\ sq[k].phase \in {"fetched", "done"} /\ Write(i) =>
               sq[i].phase = "done"
        /\ Write(k) /\ sq[k].alone /\ Read(i) => sq[i].phase = "done"

\* A read that is alone finds in rdma_buf what it has stored there.
ReadUndisturbed ==
    \A k \in 1..Len(sq) : Read(k) /\ sq[k].alone =>
        /\ pc # "copy"
        /\ \A c \in 1..sq[k].at : rdma_buf[c] = sq[k].data[c]

\* So does its print.
PrintUndisturbed ==
    \A p \in printed : p.at < Cells /\ p.alone =>
        /\ pc # "copy"
        /\ \A c \in 1..Cells : rdma_buf[c] = p.fetched[c]

\* A write that is alone finds the message, and has taken it cell by cell.
WriteUndisturbed ==
    \A k \in 1..Len(sq) : Write(k) /\ sq[k].alone =>
        /\ sq[k].phase \in {"posted", "moving"} => rdma_buf = All("message")
        /\ \A c \in 1..sq[k].at : sq[k].data[c] = "message"

\* So does strcpy, once it has copied a cell.
CopyUndisturbed ==
    pc = "copy" /\ quiet =>
        ~ReadInFlight /\ \A c \in 1..copied : rdma_buf[c] = "message"

\* The client's adapter has not executed a read.
NothingFetched ==
    /\ printed = {}
    /\ \A k \in 1..Len(sq) : Read(k) => sq[k].phase \in {"posted", "moving"}

\* As long as nothing is fetched only strcpy stores into rdma_buf, and every
\* write, alone or not, carries the message.
MessagesFirst ==
    NothingFetched =>
        /\ \A k \in 1..Len(sq) : Write(k) =>
               /\ rdma_buf = All("message")
               /\ \A c \in 1..sq[k].at : sq[k].data[c] = "message"
               /\ sq[k].phase = "done" => remote = All("message")
        /\ pc = "copy" => \A c \in 1..copied : rdma_buf[c] = "message"

\* What goes through rdma_buf, request by request.
BufferInv ==
    /\ TypeOK /\ OnlyRead /\ CellsMoved /\ Ordered
    /\ ReadUndisturbed /\ PrintUndisturbed
    /\ WriteUndisturbed /\ CopyUndisturbed
    /\ PrintsWhatWasRead

IInv == BufferInv /\ MessagesFirst /\ ReadsItsWrites

=============================================================================

------------------------------- MODULE Regions -------------------------------
(***************************************************************************)
(* Registered memory and the accesses made through it: setup_buffer of     *)
(* both programs, the addresses, keys and lengths that they tell each      *)
(* other, and the scatter list and remote address of every request that    *)
(* they post.  An adapter grants an access when its key is that of a       *)
(* region that contains it and allows it, and breaks the connection        *)
(* otherwise; the programs check none of this.                             *)
(*                                                                         *)
(* Lengths are in bytes.  The sizes that each program gives its buffers    *)
(* are a choice of its main(), made in Init.  When an address is known is  *)
(* the subject of AddrExchange, when a request completes that of OneSided. *)
(***************************************************************************)
EXTENDS Integers

CONSTANTS
    BufSizes,     \* sizes that a main() passes to its constructor: 1000
    SketchSizes,  \* values of data_size: 1000
    ObjectBytes,  \* sizeof(RdmaTest): 32
    InfoBytes,    \* sizeof(struct rdma_info): 16
    DataBytes,    \* class_recv_data: 1000
    RecvWords,    \* words of class_recv_buf: 1000
    FetchWords,   \* words of read_class's second segment: 100
    SendWords     \* words of data in class_send_buf: 5000

ASSUME SizesAssumption == BufSizes \subseteq Nat /\ SketchSizes \subseteq Nat
ASSUME BytesAssumption ==
    /\ ObjectBytes \in Nat /\ InfoBytes \in Nat /\ DataBytes \in Nat
    /\ RecvWords \in Nat /\ FetchWords \in Nat /\ SendWords \in Nat
    /\ ObjectBytes <= DataBytes
    /\ FetchWords <= RecvWords /\ FetchWords <= SendWords

Side == {"client", "server"}
Peer(s) == IF s = "client" THEN "server" ELSE "client"

\* The buffers: recv_buf, send_buf, rdma_buf, start_buf, class_recv_data,
\* class_recv_buf, class_send_buf and the sketch's data_buf.
Buffer == {"recv", "send", "rdma", "start", "recvData", "recvBuf", "class",
           "sketch"}
Told   == {"start", "class", "sketch"}  \* what the other side is told of

VARIABLES
    startSize, rdmaSize, sketchSize,  \* of each side
    pc,        \* of each side: setup, running, exited
    told,      \* remote_addr and _rkey of each buffer: the buffer they name
    remote_len,\* the length that came with the start buffer
    element,   \* i of the loop in ow_read, or its end
    posted,    \* the request that was posted last
    link       \* the connection holds, or an access has broken it

sizes == <<startSize, rdmaSize, sketchSize>>
vars  == <<sizes, pc, told, remote_len, element, posted, link>>

None == "none"

\* An access to len bytes at off of a buffer, with the key of a buffer.
Access(owner, buf, key, off, len, need) ==
    [owner |-> owner, buf |-> buf, key |-> key, off |-> off, len |-> len,
     need |-> need]

-----------------------------------------------------------------------------
(* setup_buffer: what is registered, and how.                              *)

Right == {"local_write", "remote_read", "remote_write"}

Rights(b) ==
    CASE b = "recv" -> {"local_write"}
      [] b = "send" -> {}
      [] OTHER -> Right

Registered(s) ==
    {"recv", "send", "rdma", "start", "sketch"} \cup
    (IF s = "client" THEN {"recvData", "recvBuf"} ELSE {"class"})

\* Mutant: the staging buffer is registered without room for the object.
Bytes_DataOnly(s, b) ==
    CASE b \in {"recv", "send"} -> InfoBytes
      [] b = "rdma"     -> rdmaSize[s]
      [] b = "start"    -> startSize[s]
      [] b = "sketch"   -> 4 * sketchSize[s]
      [] b = "recvData" -> DataBytes
      [] b = "recvBuf"  -> 4 * RecvWords
      [] b = "class"    -> 4 * SendWords

Bytes(s, b) ==
    CASE b \in {"recv", "send"} -> InfoBytes
      [] b = "rdma"     -> rdmaSize[s]
      [] b = "start"    -> startSize[s]
      [] b = "sketch"   -> 4 * sketchSize[s]
      [] b = "recvData" -> DataBytes
      [] b = "recvBuf"  -> 4 * RecvWords
      [] b = "class"    -> ObjectBytes + 4 * SendWords

\* The adapter's test.
Granted(a) ==
    /\ a.key = a.buf /\ a.key \in Registered(a.owner)
    /\ a.need \subseteq Rights(a.key)
    /\ a.off + a.len <= Bytes(a.owner, a.buf)

\* Mutant: both queue pairs are created for one segment.
MaxSge_One(s) == 1

\* max_send_sge of the queue pairs.
MaxSge(s) == IF s = "client" THEN 10 ELSE 1

Init ==
    /\ startSize \in [Side -> BufSizes]
    /\ rdmaSize \in [Side -> BufSizes]
    /\ sketchSize \in [Side -> SketchSizes]
    /\ pc = [s \in Side |-> "setup"]
    /\ told = [s \in Side |-> [b \in Told |-> None]]
    /\ remote_len = [s \in Side |-> 0]
    /\ element = 0
    /\ posted = [op |-> None, by |-> "client", num_sge |-> 0, accesses |-> {}]
    /\ link = "up"

\* Every call of ibv_reg_mr succeeds, or the program exits.
SetupBuffer(s) ==
    /\ pc[s] = "setup"
    /\ \E end \in {"running", "exited"} : pc' = [pc EXCEPT ![s] = end]
    /\ UNCHANGED <<sizes, told, remote_len, element, posted, link>>

-----------------------------------------------------------------------------
(* Requests.                                                               *)

\* There is a connection only after both have registered their buffers.
Connected == (\A s \in Side : pc[s] = "running") /\ link = "up"

\* ibv_post_send, which fails if the queue pair was created for shorter lists
\* (max_send_sge), and what the adapters make of the request.
Post(s, op, num_sge, accesses) ==
    /\ posted' = [op |-> op, by |-> s, num_sge |-> num_sge,
                  accesses |-> accesses]
    /\ IF num_sge > MaxSge(s)
       THEN pc' = [pc EXCEPT ![s] = "exited"] /\ UNCHANGED link
       ELSE /\ link' = IF \A a \in accesses : Granted(a) THEN "up"
                                                        ELSE "broken"
            /\ UNCHANGED pc

\* A message is taken from the sender's send_buf into the receiver's recv_buf.
MessageAccesses(s) ==
    {Access(s, "send", "send", 0, InfoBytes, {}),
     Access(Peer(s), "recv", "recv", 0, InfoBytes, {"local_write"})}

\* Mutant: the address of the start buffer goes with the key of rdma_buf.
Advertised_RdmaKey(b) == IF b = "start" THEN "rdma" ELSE b

\* The buffer whose rkey is sent with the address of b.
Advertised(b) == b

\* The peer is told of buffer b: the client's hello, the server's three
\* advertisements in their order; only the start buffer's length is used.
Tell(s, b) ==
    /\ Connected
    /\ told[Peer(s)][b] = None
    /\ IF s = "client" THEN b = "start"
       ELSE /\ told["server"]["start"] # None
            /\ b = "class" => told["client"]["start"] # None
            /\ b = "sketch" => told["client"]["class"] # None
    /\ Post(s, "send", 1, MessageAccesses(s))
    /\ IF link' = "up" /\ pc'[s] = "running"
       THEN /\ told' = [told EXCEPT ![Peer(s)][b] = Advertised(b)]
            /\ remote_len' = IF b = "start"
                             THEN [remote_len EXCEPT ![Peer(s)] = startSize[s]]
                             ELSE remote_len
       ELSE UNCHANGED <<told, remote_len>>
    /\ UNCHANGED <<sizes, element>>

\* rdma_read and rdma_write of either side: remote_len bytes between rdma_buf
\* and the other's start buffer.
ReadOrWrite(s, op, localNeed, remoteNeed) ==
    /\ Connected /\ told[s]["start"] # None /\ element = 0
    /\ Post(s, op, 1,
            {Access(s, "rdma", "rdma", 0, remote_len[s], localNeed),
             Access(Peer(s), "start", told[s]["start"], 0, remote_len[s],
                    remoteNeed)})
    /\ UNCHANGED <<sizes, told, remote_len, element>>

RdmaRead(s)  == ReadOrWrite(s, "rdma_read", {"local_write"}, {"remote_read"})
RdmaWrite(s) == ReadOrWrite(s, "rdma_write", {}, {"remote_write"})

\* The object and its first words, from consecutive memory into two buffers.
ReadClass ==
    /\ Connected /\ told["client"]["class"] # None /\ element = 0
    /\ Post("client", "read_class", 2,
            {Access("client", "recvData", "recvData", 0, ObjectBytes,
                    {"local_write"}),
             Access("client", "recvBuf", "recvBuf", 0, 4 * FetchWords,
                    {"local_write"}),
             Access("server", "class", told["client"]["class"], 0,
                    ObjectBytes + 4 * FetchWords, {"remote_read"})})
    /\ UNCHANGED <<sizes, told, remote_len, element>>

\* One round of the loop in ow_read, which does not ask whether the sketch's
\* address is known and takes its own data_size for the server's.
ReadElement ==
    /\ Connected /\ told["client"]["start"] # None
    /\ element < sketchSize["client"]
    /\ Post("client", "ow_read", 1,
            {Access("client", "sketch", "sketch", 4 * element, 4,
                    {"local_write"}),
             Access("server", "sketch", told["client"]["sketch"], 4 * element,
                    4, {"remote_read"})})
    /\ element' = element + 1
    /\ UNCHANGED <<sizes, told, remote_len>>

\* The loop ends.
EndSweep ==
    /\ Connected
    /\ element > 0 /\ element >= sketchSize["client"]
    /\ element' = 0
    /\ UNCHANGED <<sizes, pc, told, remote_len, posted, link>>

Next ==
    \/ \E s \in Side : SetupBuffer(s) \/ RdmaRead(s) \/ RdmaWrite(s)
    \/ \E s \in Side, b \in Told : Tell(s, b)
    \/ ReadClass \/ ReadElement \/ EndSweep

Spec == Init /\ [][Next]_vars

-----------------------------------------------------------------------------
(* Properties.                                                             *)

TypeOK ==
    /\ startSize \in [Side -> BufSizes] /\ rdmaSize \in [Side -> BufSizes]
    /\ sketchSize \in [Side -> SketchSizes]
    /\ pc \in [Side -> {"setup", "running", "exited"}]
    /\ told \in [Side -> [Told -> Buffer \cup {None}]]
    /\ remote_len \in [Side -> BufSizes \cup {0}]
    /\ element \in 0..sketchSize["client"]
    /\ posted.op \in {None, "send", "rdma_read", "rdma_write", "read_class",
                      "ow_read"}
    /\ posted.by \in Side
    /\ link \in {"up", "broken"}

\* A connection is broken only by sizes that the programs do not agree on, or
\* by a sweep that main() starts before the sketch's address is known: a start
\* buffer longer than the other's rdma_buf, a sketch longer than the server's.
\* Every other access is inside a region that allows it.
Misfit(op, s) ==
    \/ op \in {"rdma_read", "rdma_write"} /\ startSize[Peer(s)] > rdmaSize[s]
    \/ op = "ow_read" /\ told["client"]["sketch"] = None
    \/ op = "ow_read" /\ sketchSize["client"] > sketchSize["server"]
RefusedOnlyMisfit ==
    link = "broken" => Misfit(posted.op, posted.by)

\* No program exits over a scatter list: one that exits did so in
\* setup_buffer, before there was a connection and a request.
ScatterListsFit ==
    (\E s \in Side : pc[s] = "exited") => posted.op = None

\* What each side was told names the right buffer by address, key and length;
\* with it the two properties above are inductive.
IInv ==
    /\ TypeOK
    /\ \A s \in Side, b \in Told : told[s][b] \in {b, None}
    /\ told["server"]["class"] = None /\ told["server"]["sketch"] = None
    /\ \A s \in Side :
           told[s]["start"] # None => remote_len[s] = startSize[Peer(s)]
    /\ posted.op # None => \A s \in Side : pc[s] = "running"
    /\ RefusedOnlyMisfit
    /\ ScatterListsFit
=============================================================================

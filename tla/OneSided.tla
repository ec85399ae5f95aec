------------------------------ MODULE OneSided ------------------------------
(***************************************************************************)
(* The client's one-sided operations, rdma_read, rdma_write, read_class    *)
(* and ow_read, as main() calls them: each posts work requests and spins   *)
(* on pendingReads, RDMA_READ_COMPLETE or RDMA_WRITE_COMPLETE until        *)
(* cq_thread has seen the completions (simplest_client.cpp).  Meanwhile    *)
(* the same thread receives the addresses of the class and of the sketch.  *)
(***************************************************************************)
EXTENDS Integers, Sequences, FiniteSets

CONSTANTS
    Program,      \* the operations of main(), in order
    Elements      \* sketch_info.data_size: reads in one sweep of ow_read

Operation == {"read", "write", "class", "sweep"}

ASSUME ProgramAssumption == Program \in Seq(Operation)
ASSUME ElementsAssumption == Elements \in Nat \ {0}

\* The advertised regions that are not known when start() returns.
Region == {"class", "sketch"}

\* The local memory that each operation fills.
Cell == [kind : {"rdma_buf", "class"}, index : {0}]
            \cup [kind : {"sketch"}, index : 1..Elements]

Cells(o) ==
    CASE o = "read"  -> {[kind |-> "rdma_buf", index |-> 0]}
      [] o = "class" -> {[kind |-> "class", index |-> 0]}
      [] o = "sweep" -> [kind : {"sketch"}, index : 1..Elements]
      [] o = "write" -> {}

VARIABLES
    op,            \* the operation of Program that main() is at
    pc,            \* where main() is in it
    elem,          \* ow_read's loop variable, from 1
    pendingReads,  \* the atomic counter
    readComplete,  \* RDMA_READ_COMPLETE
    writeComplete, \* RDMA_WRITE_COMPLETE
    tpc,           \* where cq_thread is
    wc,            \* its ibv_wc: opcode, and the region of a receive
    info,          \* what the client knows of a region's address
    sq,            \* requests the adapter has not executed, oldest first
    ccq,           \* the completion queue
    toCome,        \* advertisements not delivered yet
    local,         \* per cell, the operation that fetched it last
    written,       \* the operation that wrote the server's memory last
    broken         \* the queue pair is in the error state

mainVars  == <<op, pc, elem>>
flagVars  == <<pendingReads, readComplete, writeComplete>>
cqVars    == <<tpc, wc, info>>
linkVars  == <<sq, ccq, toCome, local, written, broken>>
vars == <<mainVars, flagVars, cqVars, linkVars>>

Request == [op : Nat, opcode : {"READ", "WRITE"}, cell : Cell, valid : BOOLEAN]
Opcode == {"none", "SEND", "RECV", "READ", "WRITE"}
Wc == [opcode : Opcode, tag : Region \cup {"none"}]
Completion == [ok : BOOLEAN, opcode : Opcode, tag : Region \cup {"none"}]

Flushed == [ok |-> FALSE, opcode |-> "none", tag |-> "none"]
Completed(opcode) == [ok |-> TRUE, opcode |-> opcode, tag |-> "none"]
Received(tag) == [ok |-> TRUE, opcode |-> "RECV", tag |-> tag]

TypeOK ==
    /\ op \in 1..Len(Program) + 1
    /\ pc \in {"next", "element", "post", "count", "waitElement", "waitReads",
               "waitWrite", "return"}
    /\ elem \in 1..Elements
    /\ pendingReads \in Int
    /\ readComplete \in BOOLEAN /\ writeComplete \in BOOLEAN
    /\ tpc \in {"poll", "dec", "parse", "flag"}
    /\ wc \in Wc
    /\ info \in [Region -> {"unset", "torn", "set"}]
    /\ sq \in Seq(Request)
    /\ ccq \in Seq(Completion)
    /\ toCome \in Seq(Region)
    /\ local \in [Cell -> 0..Len(Program)]
    /\ written \in 0..Len(Program)
    /\ broken \in BOOLEAN

\* start() has returned: the start buffer's address is known, the other two
\* advertisements are still to come, and recv_handler has posted the next
\* receive or is about to.  The hello's completion came before or after.
Init ==
    /\ op = 1 /\ pc = "next" /\ elem = 1
    /\ pendingReads = 0 /\ readComplete = FALSE /\ writeComplete = FALSE
    /\ \/ tpc = "poll" /\ wc \in [opcode : {"SEND", "RECV"}, tag : {"none"}]
       \/ tpc = "flag" /\ wc = [opcode |-> "RECV", tag |-> "none"]
    /\ info = [r \in Region |-> "unset"]
    /\ sq = <<>> /\ ccq = <<>>
    /\ toCome = <<"class", "sketch">>
    /\ local = [c \in Cell |-> 0] /\ written = 0
    /\ broken = FALSE

Current == Program[op]

-----------------------------------------------------------------------------
(* The main thread.                                                        *)

At(location, o) == /\ pc = location
                   /\ op <= Len(Program)
                   /\ Current = o

\* main() reads the class only when GET_CLASS_ADDR is set.
BeginRead ==
    /\ \/ At("next", "read")
       \/ At("next", "class") /\ info["class"] = "set"
    /\ readComplete' = FALSE
    /\ pc' = "post"
    /\ UNCHANGED <<op, elem, pendingReads, writeComplete, cqVars, linkVars>>

\* Mutant: rdma_write does not clear RDMA_WRITE_COMPLETE.
BeginWrite_NoReset ==
    /\ At("next", "write")
    /\ pc' = "post"
    /\ UNCHANGED <<op, elem, flagVars, cqVars, linkVars>>

BeginWrite ==
    /\ At("next", "write")
    /\ writeComplete' = FALSE
    /\ pc' = "post"
    /\ UNCHANGED <<op, elem, pendingReads, readComplete, cqVars, linkVars>>

\* ow_read clears the counter and does not ask for GET_SKETCH_ADDR: main()
\* sleeps for a second, in which the sketch's address comes or not.
BeginSweep ==
    /\ At("next", "sweep")
    /\ pendingReads' = 0
    /\ elem' = 1
    /\ pc' = "element"
    /\ UNCHANGED <<op, readComplete, writeComplete, cqVars, linkVars>>

BeginElement ==
    /\ pc = "element"
    /\ readComplete' = FALSE
    /\ pc' = "post"
    /\ UNCHANGED <<op, elem, pendingReads, writeComplete, cqVars, linkVars>>

\* The request of the current operation.  The adapter of the server accepts
\* it only with the address and rkey of one region.
CurrentRequest ==
    [op     |-> op,
     opcode |-> IF Current = "write" THEN "WRITE" ELSE "READ",
     cell   |-> CASE Current = "class" -> [kind |-> "class", index |-> 0]
                  [] Current = "sweep" -> [kind |-> "sketch", index |-> elem]
                  [] OTHER -> [kind |-> "rdma_buf", index |-> 0],
     valid  |-> Current = "sweep" => info["sketch"] = "set"]

\* A queue pair in the error state flushes the request at once.
Post ==
    /\ pc = "post"
    /\ IF broken
       THEN ccq' = Append(ccq, Flushed) /\ UNCHANGED sq
       ELSE sq' = Append(sq, CurrentRequest) /\ UNCHANGED ccq
    /\ pc' = IF Current = "write" THEN "waitWrite" ELSE "count"
    /\ UNCHANGED <<op, elem, flagVars, cqVars, toCome, local, written, broken>>

\* Mutant: the sweep does not count its reads.
Count_ReadsOnly ==
    /\ pc = "count"
    /\ pendingReads' = IF Current = "sweep" THEN pendingReads
                                            ELSE pendingReads + 1
    /\ pc' = IF Current = "sweep" THEN "waitElement" ELSE "waitReads"
    /\ UNCHANGED <<op, elem, readComplete, writeComplete, cqVars, linkVars>>

\* pendingReads++ comes after the post: the completion may be counted first.
Count ==
    /\ pc = "count"
    /\ pendingReads' = pendingReads + 1
    /\ pc' = IF Current = "sweep" THEN "waitElement" ELSE "waitReads"
    /\ UNCHANGED <<op, elem, readComplete, writeComplete, cqVars, linkVars>>

\* Mutant: the sweep goes on to the next element without waiting.
WaitElement_None ==
    /\ pc = "waitElement"
    /\ IF elem < Elements
       THEN elem' = elem + 1 /\ pc' = "element"
       ELSE pc' = "waitReads" /\ UNCHANGED elem
    /\ UNCHANGED <<op, flagVars, cqVars, linkVars>>

\* Mutant: the loop runs one element too far.
WaitElement_OffByOne ==
    /\ pc = "waitElement"
    /\ readComplete
    /\ IF elem <= Elements
       THEN elem' = elem + 1 /\ pc' = "element"
       ELSE pc' = "waitReads" /\ UNCHANGED elem
    /\ UNCHANGED <<op, flagVars, cqVars, linkVars>>

WaitElement ==
    /\ pc = "waitElement"
    /\ readComplete
    /\ IF elem < Elements
       THEN elem' = elem + 1 /\ pc' = "element"
       ELSE pc' = "waitReads" /\ UNCHANGED elem
    /\ UNCHANGED <<op, flagVars, cqVars, linkVars>>

\* Mutant: the operation waits for RDMA_READ_COMPLETE instead of the counter.
WaitReads_Flag ==
    /\ pc = "waitReads"
    /\ readComplete
    /\ pc' = "return"
    /\ UNCHANGED <<op, elem, flagVars, cqVars, linkVars>>

WaitReads ==
    /\ pc = "waitReads"
    /\ pendingReads <= 0
    /\ pc' = "return"
    /\ UNCHANGED <<op, elem, flagVars, cqVars, linkVars>>

WaitWrite ==
    /\ pc = "waitWrite"
    /\ writeComplete
    /\ pc' = "return"
    /\ UNCHANGED <<op, elem, flagVars, cqVars, linkVars>>

Return ==
    /\ pc = "return"
    /\ op' = op + 1
    /\ pc' = "next"
    /\ UNCHANGED <<elem, flagVars, cqVars, linkVars>>

Main ==
    \/ BeginRead \/ BeginWrite \/ BeginSweep \/ BeginElement \/ Post \/ Count
    \/ WaitElement \/ WaitReads \/ WaitWrite \/ Return

-----------------------------------------------------------------------------
(* The completion thread.                                                  *)

\* wc.status is not looked at: the opcode of a flushed completion is the one
\* ibv_wc held before, or zero (a send) if the provider clears it.
Seen(c) ==
    IF c.ok THEN {[opcode |-> c.opcode, tag |-> c.tag]}
    ELSE {wc, [wc EXCEPT !.opcode = "SEND"]}

\* One completion; a read sets the flag before it decrements the counter.
Poll ==
    /\ tpc = "poll" /\ ccq # <<>>
    /\ ccq' = Tail(ccq)
    /\ wc' \in Seen(Head(ccq))
    /\ readComplete' = (readComplete \/ wc'.opcode = "READ")
    /\ writeComplete' = (writeComplete \/ wc'.opcode = "WRITE")
    /\ tpc' = CASE wc'.opcode = "READ" -> "dec"
                [] wc'.opcode = "RECV" -> "parse"
                [] OTHER -> "poll"
    /\ UNCHANGED <<mainVars, pendingReads, info,
                   sq, toCome, local, written, broken>>

Decrement ==
    /\ tpc = "dec"
    /\ pendingReads' = pendingReads - 1
    /\ tpc' = "poll"
    /\ UNCHANGED <<mainVars, readComplete, writeComplete, wc, info, linkVars>>

\* recv_handler: the address is taken over before length and rkey.
ParseAddress ==
    /\ tpc = "parse"
    /\ info' = [r \in Region |-> IF r = wc.tag /\ info[r] = "unset"
                                 THEN "torn" ELSE info[r]]
    /\ tpc' = "flag"
    /\ UNCHANGED <<mainVars, flagVars, wc, linkVars>>

\* The rest of recv_handler: length, rkey, the flag and the next receive.
ParseRest ==
    /\ tpc = "flag"
    /\ info' = [r \in Region |-> IF r = wc.tag THEN "set" ELSE info[r]]
    /\ ccq' = IF broken THEN Append(ccq, Flushed) ELSE ccq
    /\ tpc' = "poll"
    /\ UNCHANGED <<mainVars, flagVars, wc, sq, toCome, local, written, broken>>

CqThread == Poll \/ Decrement \/ ParseAddress \/ ParseRest

-----------------------------------------------------------------------------
(* The adapter and the connection.                                         *)

\* A receive is posted unless its completion waits for recv_handler to end.
ReceivePosted ==
    /\ tpc \notin {"parse", "flag"}
    /\ \A i \in 1..Len(ccq) : ccq[i].opcode # "RECV"

DeliverAdvert ==
    /\ toCome # <<>> /\ ReceivePosted /\ ~broken
    /\ ccq' = Append(ccq, Received(Head(toCome)))
    /\ toCome' = Tail(toCome)
    /\ UNCHANGED <<mainVars, flagVars, cqVars, sq, local, written, broken>>

\* The oldest request is executed and its completion reported.
Execute ==
    /\ sq # <<>> /\ ~broken
    /\ LET q == Head(sq)
       IN  /\ q.valid
           /\ local' = IF q.opcode = "READ"
                       THEN [local EXCEPT ![q.cell] = q.op] ELSE local
           /\ written' = IF q.opcode = "WRITE" THEN q.op ELSE written
           /\ ccq' = Append(ccq, Completed(q.opcode))
    /\ sq' = Tail(sq)
    /\ UNCHANGED <<mainVars, flagVars, cqVars, toCome, broken>>

\* The link may break at any time: every request, and the posted receive, is
\* flushed.
Break ==
    /\ ~broken
    /\ broken' = TRUE
    /\ ccq' = ccq \o [i \in 1..Len(sq) |-> Flushed]
                  \o (IF ReceivePosted THEN <<Flushed>> ELSE <<>>)
    /\ sq' = <<>>
    /\ UNCHANGED <<mainVars, flagVars, cqVars, toCome, local, written>>

\* The server's adapter refuses an address it has not registered.
Refuse == sq # <<>> /\ ~Head(sq).valid /\ Break

Next == Main \/ CqThread \/ DeliverAdvert \/ Execute \/ Refuse \/ Break

\* Threads are scheduled, and the adapters retry while the link is up.
Fairness ==
    /\ WF_vars(Main) /\ WF_vars(CqThread)
    /\ WF_vars(DeliverAdvert) /\ WF_vars(Execute) /\ WF_vars(Refuse)

Spec == Init /\ [][Next]_vars /\ Fairness

-----------------------------------------------------------------------------
(* Properties.                                                             *)

\* Requests or completions of some opcodes in a queue.
HowMany(s, opcodes) == Cardinality({i \in 1..Len(s) : s[i].opcode \in opcodes})

\* While the link is up the counter counts: it is the number of reads posted
\* and not yet decremented, but for the one read that main() has posted and
\* not counted.  It can therefore be -1, and never less.
PendingReadsCounts ==
    ~broken =>
        pendingReads = HowMany(sq, {"READ"}) + HowMany(ccq, {"READ"})
                       + (IF tpc = "dec" THEN 1 ELSE 0)
                       - (IF pc = "count" THEN 1 ELSE 0)

\* The reset at the start of ow_read discards nothing: no read is in flight,
\* unseen or half handled.
SweepStartsClean ==
    At("next", "sweep") /\ ~broken =>
        /\ pendingReads = 0
        /\ sq = <<>>
        /\ tpc # "dec"
        /\ HowMany(ccq, {"READ", "WRITE"}) = 0

\* One request at a time on the send queue, also inside a sweep, where main()
\* may post the next read before the counter has gone back to zero.
OneRequestAtATime ==
    ~broken => Len(sq) + HowMany(ccq, {"READ", "WRITE"}) <= 1

\* Callers see synchronous operations that all return, until the link breaks
\* or a sleep in main() that was too short makes the server's adapter break it.
Sync == INSTANCE SyncOperations
            WITH running <- (pc # "next"), lost <- broken

ImplementsSync == Sync!Spec

-----------------------------------------------------------------------------
(* The inductive invariant behind them.                                    *)

\* The operation that main() is in, and where it can be in it.
InOperation ==
    /\ pc # "next" => op <= Len(Program)
    /\ pc \in {"element", "waitElement"} => Current = "sweep"
    /\ pc \in {"count", "waitReads"} => Current # "write"
    /\ pc = "waitReads" /\ Current = "sweep" => elem = Elements
    /\ pc = "waitWrite" => Current = "write"

\* main() has posted the request of an operation, or of a sweep's element,
\* and may not have seen that it is complete.
Waiting == pc \in {"count", "waitElement", "waitReads", "waitWrite"}

\* The flag that reports the request.
Complete == IF Current = "write" THEN writeComplete ELSE readComplete

\* Where the request is: nowhere, with the adapter, in the completion queue.
NoneUnderWay ==
    sq = <<>> /\ HowMany(ccq, {"READ"}) = 0 /\ HowMany(ccq, {"WRITE"}) = 0
Requested ==
    /\ \E v \in BOOLEAN : sq = <<[CurrentRequest EXCEPT !.valid = v]>>
    /\ HowMany(ccq, {"READ"}) = 0 /\ HowMany(ccq, {"WRITE"}) = 0
Reported ==
    /\ sq = <<>>
    /\ HowMany(ccq, {"READ"}) = IF Current = "write" THEN 0 ELSE 1
    /\ HowMany(ccq, {"WRITE"}) = IF Current = "write" THEN 1 ELSE 0

\* While the connection holds the flag is set when, and only when, the one
\* request has left both queues; its decrement may still be ahead, though not
\* when the operation returns.
FlagMeansComplete ==
    ~broken =>
        /\ \A i \in 1..Len(ccq) : ccq[i].ok
        /\ ~Waiting => NoneUnderWay
        /\ Waiting => \/ Requested /\ ~Complete
                      \/ Reported /\ ~Complete
                      \/ NoneUnderWay /\ Complete
        /\ pc = "post" => ~Complete
        /\ tpc = "dec" => pc \notin {"next", "return"} /\ Current # "write"

\* What has arrived by then: the elements before the current one, the current
\* one once it is executed, and everything when the operation returns.
FetchedSoFar ==
    ~broken =>
        /\ pc \notin {"next", "return"} /\ Current = "sweep" =>
               \A i \in 1..elem - 1 :
                   local[[kind |-> "sketch", index |-> i]] = op
        /\ Waiting /\ sq = <<>> =>
               IF Current = "write" THEN written = op
                                    ELSE local[CurrentRequest.cell] = op
        /\ pc = "return" => /\ \A c \in Cells(Current) : local[c] = op
                            /\ Current = "write" => written = op

IInv ==
    /\ TypeOK /\ InOperation /\ FlagMeansComplete /\ FetchedSoFar
    /\ PendingReadsCounts

=============================================================================

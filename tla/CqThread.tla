------------------------------ MODULE CqThread ------------------------------
(***************************************************************************)
(* The completion thread of simple_client and of simple_server: the loop   *)
(*                                                                         *)
(*     ibv_get_cq_event; ibv_req_notify_cq; poll until empty;              *)
(*     ibv_ack_cq_events                                                   *)
(*                                                                         *)
(* (simplest_client.cpp cq_thread, simplest_server.cpp cq_thread) together *)
(* with the completion queue, the completion channel and the two work      *)
(* queues that start() creates.  What a handler does with a completion is  *)
(* the subject of AddrExchange and OneSided; here a completion has only    *)
(* the kind of its work request, a send (SEND, RDMA READ, RDMA WRITE) or a *)
(* recv.                                                                   *)
(***************************************************************************)
EXTENDS Integers, Sequences, FiniteSets

CONSTANTS
    SqDepth,        \* SQ_DEPTH, the max_send_wr of the queue pair
    RqDepth,        \* the max_recv_wr of the queue pair (2 in both programs)
    MaxPosts,       \* bound: work requests posted in one behaviour
    MaxPollErrors   \* bound: calls of ibv_poll_cq that return a negative value

ASSUME DepthAssumption ==
    /\ SqDepth \in Nat \ {0}
    /\ RqDepth \in Nat \ {0}
    /\ RqDepth <= SqDepth

ASSUME BoundAssumption == MaxPosts \in Nat /\ MaxPollErrors \in Nat

Kind == {"send", "recv"}

\* The slots of the two work queues: init_attr.cap of rdma_create_qp.
Slots == [k \in Kind |-> IF k = "send" THEN SqDepth ELSE RqDepth]

\* Mutant: the completion queue gets only the depth of the send queue.
CqDepth_SendOnly == SqDepth

\* ibv_create_cq(..., SQ_DEPTH * 2, ...)
CqDepth == 2 * SqDepth

VARIABLES
    inflight,   \* per kind, requests the adapter has not completed
    used,       \* per kind, slots taken: posted and not polled
    cq,         \* the completion queue, oldest first
    armed,      \* the next completion will raise an event
    events,     \* events in the completion channel, not read
    unacked,    \* events read and not acknowledged
    pc,         \* where the completion thread is
    handled,    \* history: the completions handled, in order
    pollErrors  \* history: failed polls

vars == <<inflight, used, cq, armed, events, unacked, pc, handled, pollErrors>>

Location == {"start", "get", "arm", "poll", "ack", "exited"}

TypeOK ==
    /\ inflight \in [Kind -> Nat]
    /\ used \in [Kind -> Nat]
    /\ cq \in Seq(Kind)
    /\ armed \in BOOLEAN
    /\ events \in Nat
    /\ unacked \in Nat
    /\ pc \in Location
    /\ handled \in Seq(Kind)
    /\ pollErrors \in Nat

-----------------------------------------------------------------------------

\* Mutant: start() does not request notification before it starts the thread.
Init_NotArmed ==
    /\ inflight = [k \in Kind |-> 0]
    /\ used = [k \in Kind |-> 0]
    /\ cq = <<>>
    /\ armed = FALSE
    /\ events = 0
    /\ unacked = 0
    /\ pc = "start"
    /\ handled = <<>>
    /\ pollErrors = 0

\* start() has created the queues and called ibv_req_notify_cq; the thread
\* does not run yet.
Init ==
    /\ inflight = [k \in Kind |-> 0]
    /\ used = [k \in Kind |-> 0]
    /\ cq = <<>>
    /\ armed = TRUE
    /\ events = 0
    /\ unacked = 0
    /\ pc = "start"
    /\ handled = <<>>
    /\ pollErrors = 0

Posted == Len(handled) + used["send"] + used["recv"]

\* Some thread of the process calls ibv_post_send or ibv_post_recv and the
\* work queue has room.  Before the thread starts only a receive is posted.
Post(k) ==
    /\ pc # "exited"
    /\ k = "send" => pc # "start"
    /\ Posted < MaxPosts
    /\ used[k] < Slots[k]
    /\ used' = [used EXCEPT ![k] = @ + 1]
    /\ inflight' = [inflight EXCEPT ![k] = @ + 1]
    /\ UNCHANGED <<cq, armed, events, unacked, pc, handled, pollErrors>>

\* ibv_post_send on a full send queue fails, and every caller then exits.
PostSendFails ==
    /\ pc \notin {"start", "exited"}
    /\ used["send"] = Slots["send"]
    /\ pc' = "exited"
    /\ UNCHANGED <<inflight, used, cq, armed, events, unacked, handled,
                   pollErrors>>

\* The adapter completes a request and, if the queue is armed, raises one
\* event and disarms it.
Complete(k) ==
    /\ pc # "exited"
    /\ inflight[k] > 0
    /\ inflight' = [inflight EXCEPT ![k] = @ - 1]
    /\ cq' = Append(cq, k)
    /\ events' = IF armed THEN events + 1 ELSE events
    /\ armed' = FALSE
    /\ UNCHANGED <<used, unacked, pc, handled, pollErrors>>

-----------------------------------------------------------------------------
(* The completion thread.                                                  *)

StartThread ==
    /\ pc = "start"
    /\ pc' = "get"
    /\ UNCHANGED <<inflight, used, cq, armed, events, unacked, handled,
                   pollErrors>>

\* ibv_get_cq_event blocks until the channel has an event.
GetEvent ==
    /\ pc = "get"
    /\ events > 0
    /\ events' = events - 1
    /\ unacked' = unacked + 1
    /\ pc' = "arm"
    /\ UNCHANGED <<inflight, used, cq, armed, handled, pollErrors>>

\* Mutant: the thread polls without requesting the next notification.
ReqNotify_Skipped ==
    /\ pc = "arm"
    /\ pc' = "poll"
    /\ UNCHANGED <<inflight, used, cq, armed, events, unacked, handled,
                   pollErrors>>

\* ibv_req_notify_cq comes before the first poll.
ReqNotify ==
    /\ pc = "arm"
    /\ armed' = TRUE
    /\ pc' = "poll"
    /\ UNCHANGED <<inflight, used, cq, events, unacked, handled, pollErrors>>

\* ibv_get_cq_event or ibv_req_notify_cq fails: exit(1).
VerbsCallFails ==
    /\ pc \in {"get", "arm"}
    /\ pc' = "exited"
    /\ UNCHANGED <<inflight, used, cq, armed, events, unacked, handled,
                   pollErrors>>

\* ibv_poll_cq returns one completion, which frees the slot of its request.
TakeCompletion ==
    /\ pc = "poll"
    /\ cq # <<>>
    /\ used' = [used EXCEPT ![Head(cq)] = @ - 1]
    /\ cq' = Tail(cq)
    /\ handled' = Append(handled, Head(cq))
    /\ UNCHANGED <<inflight, armed, events, unacked, pollErrors>>

\* Mutant: one completion per event, the poll loop is an if.
PollOne_NoLoop ==
    /\ TakeCompletion
    /\ pc' = "ack"

\* The handler returns and the loop polls again.
PollOne ==
    /\ TakeCompletion
    /\ pc' = pc

\* A receive of the wrong length makes the handler exit(1).
HandlerExits ==
    /\ TakeCompletion
    /\ Head(cq) = "recv"
    /\ pc' = "exited"

PollEmpty ==
    /\ pc = "poll"
    /\ cq = <<>>
    /\ pc' = "ack"
    /\ UNCHANGED <<inflight, used, cq, armed, events, unacked, handled,
                   pollErrors>>

\* A negative return ends the loop just as an empty queue does.
PollError ==
    /\ pc = "poll"
    /\ pollErrors < MaxPollErrors
    /\ pollErrors' = pollErrors + 1
    /\ pc' = "ack"
    /\ UNCHANGED <<inflight, used, cq, armed, events, unacked, handled>>

AckEvents ==
    /\ pc = "ack"
    /\ unacked' = unacked - 1
    /\ pc' = "get"
    /\ UNCHANGED <<inflight, used, cq, armed, events, handled, pollErrors>>

Thread ==
    \/ StartThread
    \/ GetEvent
    \/ ReqNotify
    \/ PollOne
    \/ PollEmpty
    \/ AckEvents

Next ==
    \/ \E k \in Kind : Post(k) \/ Complete(k)
    \/ PostSendFails
    \/ VerbsCallFails
    \/ HandlerExits
    \/ PollError
    \/ Thread

\* The operating system schedules the thread; nothing obliges the adapter to
\* complete a request, or the program to post one.
Fairness == WF_vars(Thread)

Spec == Init /\ [][Next]_vars /\ Fairness

-----------------------------------------------------------------------------
(* Properties.                                                             *)

\* A thread asleep in ibv_get_cq_event with completions in the queue has an
\* event to wake it: the rearm comes before the poll loop, so a completion
\* that arrives after the last poll still raises one.  Only a failed poll
\* can leave completions behind.
NoLostWakeup ==
    pc = "get" /\ cq # <<>> => events > 0 \/ pollErrors > 0

\* A queue of 2 * SQ_DEPTH holds every completion that the send slots and the
\* receive slots together can produce: the adapter never overruns it.
CqNeverOverruns == Len(cq) <= CqDepth

\* The positions of the completions of one kind.
Positions(s, k) == {i \in 1..Len(s) : s[i] = k}

\* A slot is taken until its completion is polled, wherever the request is.
SlotsAccounted ==
    \A k \in Kind :
        /\ used[k] = inflight[k] + Cardinality(Positions(cq, k))
        /\ used[k] <= Slots[k]

\* At most one notification is pending, armed or in the channel, and none is
\* while the thread is about to rearm.
OneNotification ==
    /\ events <= 1
    /\ armed => events = 0
    /\ pc = "arm" => ~armed /\ events = 0
    /\ pc \in {"start", "get", "poll", "ack"} => armed \/ events = 1

\* An armed queue was empty when it was last looked at.
ArmedMeansDrained ==
    armed /\ pc \in {"start", "get", "ack"} => cq = <<>> \/ pollErrors > 0

\* One acknowledgement per event read, as ibv_ack_cq_events asks.
AcksMatchGets ==
    /\ pc \in {"start", "get"} => unacked = 0
    /\ pc \in {"arm", "poll", "ack"} => unacked = 1

\* The inductive invariant.
IInv ==
    /\ TypeOK
    /\ SlotsAccounted
    /\ OneNotification
    /\ ArmedMeansDrained
    /\ AcksMatchGets

\* A failed poll left completions behind an armed queue: no event tells of
\* them.
Stalled == pc \in {"start", "get", "ack"} /\ armed /\ cq # <<>>

\* The thread implements the abstract service: it handles every completion,
\* once and in order, and only a failed poll, never the order of arming and
\* polling, lets it sleep on some, until the next completion.
Service == INSTANCE CompletionService
               WITH pending <- cq, served <- handled,
                    stopped <- (pc = "exited"),
                    failures <- pollErrors, stalled <- Stalled

ImplementsService == Service!Spec

=============================================================================

--------------------------- MODULE CqThreadProofs ---------------------------
(***************************************************************************)
(* Proofs about CqThread, for queues of every depth: its invariant is      *)
(* inductive, no wakeup is lost, the completion queue never overruns, and  *)
(* every step is a step of CompletionService or leaves it unchanged.       *)
(***************************************************************************)
EXTENDS CqThread, TLAPS, FiniteSetTheorems,
        FunctionTheorems, SequenceTheorems

-----------------------------------------------------------------------------
(* Counting the completions of a kind in the completion queue.             *)

\* The positions of a kind in a sequence are finitely many.
LEMMA PositionsFinite ==
    ASSUME NEW s \in Seq(Kind), NEW k \in Kind
    PROVE  /\ IsFiniteSet(Positions(s, k))
           /\ Cardinality(Positions(s, k)) \in Nat
<1>1. IsFiniteSet(1..Len(s))
  BY FS_Interval, LenProperties
<1>2. Positions(s, k) \subseteq 1..Len(s)
  BY DEF Positions
<1>3. IsFiniteSet(Positions(s, k))
  BY <1>1, <1>2, FS_Subset
<1> QED  BY <1>3, FS_CardinalityType

\* A completion appended to the queue adds one position, of its own kind.
LEMMA PositionsAppend ==
    ASSUME NEW s \in Seq(Kind), NEW e \in Kind, NEW k \in Kind
    PROVE  Cardinality(Positions(Append(s, e), k)) =
               Cardinality(Positions(s, k)) + (IF e = k THEN 1 ELSE 0)
<1> DEFINE n == Len(s) + 1
<1>1. /\ Len(s) \in Nat
      /\ Len(Append(s, e)) = n
      /\ Append(s, e)[n] = e
      /\ \A i \in 1..Len(s) : Append(s, e)[i] = s[i]
  BY LenProperties
<1>2. 1..n = 1..Len(s) \cup {n} /\ n \notin 1..Len(s)
  BY <1>1
<1>3. CASE e = k
  <2>1. Positions(Append(s, e), k) = Positions(s, k) \cup {n}
    BY <1>1, <1>2, <1>3 DEF Positions
  <2>2. n \notin Positions(s, k)
    BY <1>2 DEF Positions
  <2> QED  BY <1>3, <2>1, <2>2, PositionsFinite, FS_AddElement
<1>4. CASE e # k
  <2>1. Positions(Append(s, e), k) = Positions(s, k)
    BY <1>1, <1>2, <1>4 DEF Positions
  <2> QED  BY <1>4, <2>1, PositionsFinite
<1> QED  BY <1>3, <1>4

\* A completion polled from the queue removes one position, of its own kind.
LEMMA PositionsTail ==
    ASSUME NEW s \in Seq(Kind), s # <<>>, NEW k \in Kind
    PROVE  Cardinality(Positions(s, k)) =
               Cardinality(Positions(Tail(s), k))
                   + (IF Head(s) = k THEN 1 ELSE 0)
<1> DEFINE later == Positions(s, k) \ {1}
           shift == [i \in Positions(Tail(s), k) |-> i + 1]
<1>1. /\ Len(s) \in Nat \ {0}
      /\ Tail(s) \in Seq(Kind)
      /\ Len(Tail(s)) = Len(s) - 1
      /\ \A i \in 1..Len(Tail(s)) : Tail(s)[i] = s[i + 1]
      /\ Head(s) = s[1]
  BY HeadTailProperties, EmptySeq
<1>2. \A i \in Positions(Tail(s), k) : i \in Nat /\ shift[i] = i + 1
                                         /\ i + 1 \in later
  BY <1>1 DEF Positions
<1>3. \A j \in later : j - 1 \in Positions(Tail(s), k) /\ (j - 1) + 1 = j
  BY <1>1 DEF Positions
<1>4. shift \in Bijection(Positions(Tail(s), k), later)
  <2>1. shift \in [Positions(Tail(s), k) -> later]
    BY <1>2
  <2>2. \A a, b \in Positions(Tail(s), k) : shift[a] = shift[b] => a = b
    BY <1>2
  <2>3. \A j \in later : \E i \in Positions(Tail(s), k) : shift[i] = j
    BY <1>2, <1>3
  <2> QED  BY <2>1, <2>2, <2>3, Fun_IsBij
<1>5. Cardinality(later) = Cardinality(Positions(Tail(s), k))
  <2>1. IsFiniteSet(Positions(Tail(s), k))
    BY <1>1, PositionsFinite
  <2>2. ExistsBijection(Positions(Tail(s), k), later)
    BY <1>4, Fun_ExistsBij
  <2> HIDE DEF later
  <2> QED  BY <2>1, <2>2, FS_Bijection
<1>6. 1 \in Positions(s, k) <=> Head(s) = k
  BY <1>1 DEF Positions
<1>7. Cardinality(later) = IF 1 \in Positions(s, k)
                           THEN Cardinality(Positions(s, k)) - 1
                           ELSE Cardinality(Positions(s, k))
  BY PositionsFinite, FS_RemoveElement
<1>8. /\ Cardinality(Positions(s, k)) \in Nat
      /\ Cardinality(Positions(Tail(s), k)) \in Nat
  BY <1>1, PositionsFinite
<1> QED  BY <1>5, <1>6, <1>7, <1>8

\* Every completion in the queue is a send or a receive.
LEMMA PositionsTotal ==
    ASSUME NEW s \in Seq(Kind)
    PROVE  Len(s) = Cardinality(Positions(s, "send"))
                    + Cardinality(Positions(s, "recv"))
<1>1. Len(s) \in Nat /\ \A i \in 1..Len(s) : s[i] \in Kind
  BY LenProperties
<1>2. Positions(s, "send") \cup Positions(s, "recv") = 1..Len(s)
  BY <1>1 DEF Positions, Kind
<1>3. Positions(s, "send") \cap Positions(s, "recv") = {}
  BY DEF Positions
<1>4. "send" \in Kind /\ "recv" \in Kind
  BY DEF Kind
<1>5. /\ IsFiniteSet(Positions(s, "send"))
      /\ IsFiniteSet(Positions(s, "recv"))
      /\ Cardinality(Positions(s, "send")) \in Nat
      /\ Cardinality(Positions(s, "recv")) \in Nat
  BY <1>4, PositionsFinite
<1>6. Cardinality(1..Len(s)) =
          Cardinality(Positions(s, "send"))
          + Cardinality(Positions(s, "recv")) - Cardinality({})
  BY <1>2, <1>3, <1>5, FS_Union
<1>7. Cardinality(1..Len(s)) = Len(s)
  <2>1. \A n \in Int :
            Cardinality(1..n) = IF 1 > n THEN 0 ELSE n - 1 + 1
    BY FS_Interval
  <2>2. Len(s) \in Int
    BY <1>1
  <2>3. Cardinality(1..Len(s)) = IF 1 > Len(s) THEN 0 ELSE Len(s) - 1 + 1
    BY <2>1, <2>2
  <2> QED  BY <1>1, <2>3
<1> QED  BY <1>5, <1>6, <1>7, FS_EmptySet

-----------------------------------------------------------------------------
(* The invariant.                                                          *)

\* start() leaves the queues in a state that satisfies the invariant.
LEMMA InitIInv == Init => IInv
<1> SUFFICES ASSUME Init PROVE IInv
  OBVIOUS
<1>1. TypeOK
  BY DEF Init, TypeOK, Location
<1>2. Positions(cq, "send") = {} /\ Positions(cq, "recv") = {}
  BY DEF Init, Positions
<1>3. SlotsAccounted
  BY <1>2, DepthAssumption, FS_EmptySet DEF Init, SlotsAccounted, Slots, Kind
<1>4. OneNotification /\ ArmedMeansDrained /\ AcksMatchGets
  BY DEF Init, OneNotification, ArmedMeansDrained, AcksMatchGets
<1> QED  BY <1>1, <1>3, <1>4 DEF IInv

\* A step that moves only the thread and its notifications leaves the slots
\* accounted for.
LEMMA QueuesUnchanged ==
    ASSUME SlotsAccounted, UNCHANGED <<inflight, used, cq>>
    PROVE  SlotsAccounted'
  BY DEF SlotsAccounted, Positions

\* A posted request takes a slot and is in flight.
LEMMA PostIInv ==
    ASSUME IInv, NEW k \in Kind, Post(k)
    PROVE  IInv'
<1> USE DEF IInv
<1>1. TypeOK'
  BY DEF Post, TypeOK
<1>2. SlotsAccounted'
  <2> SUFFICES ASSUME NEW j \in Kind
               PROVE  /\ used'[j] = inflight'[j] + Cardinality(Positions(cq, j))
                      /\ used'[j] <= Slots[j]
    BY DEF SlotsAccounted, Post
  <2>1. Cardinality(Positions(cq, j)) \in Nat
    BY PositionsFinite DEF TypeOK
  <2>2. Slots[j] \in Nat
    BY DepthAssumption DEF Slots
  <2> QED  BY <2>1, <2>2 DEF SlotsAccounted, Post, TypeOK
<1>3. OneNotification' /\ ArmedMeansDrained' /\ AcksMatchGets'
  BY DEF Post, OneNotification, ArmedMeansDrained, AcksMatchGets
<1> QED  BY <1>1, <1>2, <1>3

\* A completion moves a request from the adapter to the queue; if the queue
\* was armed, it turns the notification into an event.
LEMMA CompleteIInv ==
    ASSUME IInv, NEW k \in Kind, Complete(k)
    PROVE  IInv'
<1> USE DEF IInv
<1>1. TypeOK'
  <2>1. inflight' \in [Kind -> Nat]
    BY DEF Complete, TypeOK
  <2>2. cq' \in Seq(Kind)
    BY DEF Complete, TypeOK
  <2>3. events' \in Nat
    BY DEF Complete, TypeOK
  <2>4. armed' \in BOOLEAN
    BY DEF Complete
  <2> QED  BY <2>1, <2>2, <2>3, <2>4 DEF Complete, TypeOK
<1>2. SlotsAccounted'
  <2> SUFFICES ASSUME NEW j \in Kind
               PROVE  /\ used[j] = inflight'[j] + Cardinality(Positions(cq', j))
                      /\ used[j] <= Slots[j]
    BY DEF SlotsAccounted, Complete
  <2>1. Cardinality(Positions(cq', j)) =
            Cardinality(Positions(cq, j)) + (IF k = j THEN 1 ELSE 0)
    BY PositionsAppend DEF TypeOK, Complete
  <2>2. Cardinality(Positions(cq, j)) \in Nat
    BY PositionsFinite DEF TypeOK
  <2> QED  BY <2>1, <2>2 DEF SlotsAccounted, Complete, TypeOK
<1>3. OneNotification'
  BY DEF Complete, OneNotification, TypeOK, Location
<1>4. ArmedMeansDrained' /\ AcksMatchGets'
  BY DEF Complete, ArmedMeansDrained, AcksMatchGets
<1> QED  BY <1>1, <1>2, <1>3, <1>4

\* Polling a completion frees the slot of its request.
LEMMA TakeCompletionSlots ==
    ASSUME IInv, TakeCompletion
    PROVE  /\ SlotsAccounted'
           /\ used' \in [Kind -> Nat]
           /\ cq' \in Seq(Kind)
           /\ handled' \in Seq(Kind)
<1> USE DEF IInv
<1> DEFINE h == Head(cq)
<1>1. h \in Kind /\ cq' \in Seq(Kind)
  BY HeadTailProperties DEF TypeOK, TakeCompletion
<1>2. handled' \in Seq(Kind)
  BY <1>1 DEF TypeOK, TakeCompletion
<1>3. \A j \in Kind : /\ Cardinality(Positions(cq', j)) \in Nat
                      /\ Cardinality(Positions(cq, j)) =
                             Cardinality(Positions(cq', j))
                                 + (IF h = j THEN 1 ELSE 0)
  BY <1>1, PositionsTail, PositionsFinite DEF TypeOK, TakeCompletion
<1>4. \A j \in Kind : used'[j] = used[j] - (IF h = j THEN 1 ELSE 0)
  BY <1>1 DEF TakeCompletion, TypeOK
<1>5. \A j \in Kind : Slots[j] \in Nat
  BY DepthAssumption DEF Slots
<1>6. \A j \in Kind : /\ used'[j] = inflight[j] + Cardinality(Positions(cq', j))
                      /\ used'[j] <= Slots[j]
                      /\ used'[j] \in Nat
  <2> TAKE j \in Kind
  <2> DEFINE c == Cardinality(Positions(cq', j))
  <2>1. /\ c \in Nat
        /\ Cardinality(Positions(cq, j)) = c + (IF h = j THEN 1 ELSE 0)
    BY <1>3
  <2>2. /\ used[j] = inflight[j] + Cardinality(Positions(cq, j))
        /\ used[j] <= Slots[j]
        /\ inflight[j] \in Nat
    BY DEF SlotsAccounted, TypeOK
  <2> HIDE DEF c, h
  <2>3. /\ used'[j] = inflight[j] + c
        /\ used'[j] <= Slots[j]
        /\ used'[j] \in Nat
    BY <1>4, <1>5, <2>1, <2>2
  <2> QED  BY <2>3 DEF c
<1>7. used' \in [Kind -> Nat]
  BY <1>6 DEF TakeCompletion, TypeOK
<1> QED  BY <1>1, <1>2, <1>6, <1>7 DEF SlotsAccounted, TakeCompletion

\* Every step of the system preserves the invariant.
LEMMA NextIInv == IInv /\ [Next]_vars => IInv'
<1> SUFFICES ASSUME IInv, [Next]_vars PROVE IInv'
  OBVIOUS
<1> USE DEF IInv
<1>1. ASSUME NEW k \in Kind, Post(k) PROVE IInv'
  BY <1>1, PostIInv
<1>2. ASSUME NEW k \in Kind, Complete(k) PROVE IInv'
  BY <1>2, CompleteIInv
<1>3. CASE PostSendFails
  BY <1>3, QueuesUnchanged DEF PostSendFails, TypeOK, Location,
     OneNotification, ArmedMeansDrained, AcksMatchGets
<1>4. CASE VerbsCallFails
  BY <1>4, QueuesUnchanged DEF VerbsCallFails, TypeOK, Location,
     OneNotification, ArmedMeansDrained, AcksMatchGets
<1>5. CASE HandlerExits
  <2>1. TakeCompletion
    BY <1>5 DEF HandlerExits
  <2> QED  BY <1>5, <2>1, TakeCompletionSlots DEF HandlerExits, TakeCompletion,
           TypeOK, Location, OneNotification, ArmedMeansDrained, AcksMatchGets
<1>6. CASE PollError
  BY <1>6, QueuesUnchanged DEF PollError, TypeOK, Location,
     OneNotification, ArmedMeansDrained, AcksMatchGets
<1>7. CASE StartThread
  BY <1>7, QueuesUnchanged DEF StartThread, TypeOK, Location,
     OneNotification, ArmedMeansDrained, AcksMatchGets
<1>8. CASE GetEvent
  BY <1>8, QueuesUnchanged DEF GetEvent, TypeOK, Location,
     OneNotification, ArmedMeansDrained, AcksMatchGets
<1>9. CASE ReqNotify
  BY <1>9, QueuesUnchanged DEF ReqNotify, TypeOK, Location,
     OneNotification, ArmedMeansDrained, AcksMatchGets
<1>10. CASE PollOne
  <2>1. TakeCompletion
    BY <1>10 DEF PollOne
  <2> QED  BY <1>10, <2>1, TakeCompletionSlots DEF PollOne, TakeCompletion,
           TypeOK, Location, OneNotification, ArmedMeansDrained, AcksMatchGets
<1>11. CASE PollEmpty
  BY <1>11, QueuesUnchanged DEF PollEmpty, TypeOK, Location,
     OneNotification, ArmedMeansDrained, AcksMatchGets
<1>12. CASE AckEvents
  BY <1>12, QueuesUnchanged DEF AckEvents, TypeOK, Location,
     OneNotification, ArmedMeansDrained, AcksMatchGets
<1>13. CASE UNCHANGED vars
  BY <1>13, QueuesUnchanged DEF vars, TypeOK, OneNotification,
     ArmedMeansDrained, AcksMatchGets
<1> QED
  BY <1>1, <1>2, <1>3, <1>4, <1>5, <1>6, <1>7, <1>8, <1>9, <1>10, <1>11,
     <1>12, <1>13 DEF Next, Thread

\* The invariant holds in every reachable state, whatever the depths of the
\* queues and however many requests are posted.
THEOREM Invariance == Spec => []IInv
  BY InitIInv, NextIInv, PTL DEF Spec

-----------------------------------------------------------------------------
(* What the invariant is for.                                              *)

\* Every variable keeps its type: in particular no count goes negative.
THEOREM TypeCorrect == Spec => []TypeOK
<1>1. IInv => TypeOK
  BY DEF IInv
<1> QED  BY <1>1, Invariance, PTL

\* A thread asleep with completions in its queue has an event to wake it.
THEOREM NoWakeupLost == Spec => []NoLostWakeup
<1>1. IInv => NoLostWakeup
  BY DEF IInv, OneNotification, ArmedMeansDrained, NoLostWakeup, TypeOK
<1> QED  BY <1>1, Invariance, PTL

\* SQ_DEPTH * 2 entries are enough for the completions of both work queues.
THEOREM QueueFits == Spec => []CqNeverOverruns
<1>1. ASSUME IInv PROVE CqNeverOverruns
  <2> USE <1>1 DEF IInv
  <2>1. /\ "send" \in Kind /\ "recv" \in Kind
        /\ Slots["send"] = SqDepth
        /\ Slots["recv"] = RqDepth
    BY DEF Kind, Slots
  <2>2. Len(cq) = Cardinality(Positions(cq, "send"))
                  + Cardinality(Positions(cq, "recv"))
    BY PositionsTotal DEF TypeOK
  <2>3. \A k \in Kind : /\ Cardinality(Positions(cq, k)) \in Nat
                        /\ Cardinality(Positions(cq, k)) <= used[k]
                        /\ used[k] \in Nat
                        /\ used[k] <= Slots[k]
    BY PositionsFinite DEF TypeOK, SlotsAccounted
  <2> QED  BY <2>1, <2>2, <2>3, DepthAssumption DEF CqNeverOverruns, CqDepth
<1> QED  BY <1>1, Invariance, PTL

-----------------------------------------------------------------------------
(* Refinement.                                                             *)

\* A thread that polls until empty hands over every completion, once and in
\* order: each of its steps is a step of the abstract service or leaves the
\* service alone; only a failed poll stalls it.  (That it hands over every
\* completion in the end is the liveness half of ImplementsService.)
THEOREM ServiceSafety ==
    Spec => Service!Init /\ [][Service!Next]_(Service!serviceVars)
<1>1. Init => Service!Init
  BY DEF Init, Service!Init, Stalled
<1>2. IInv /\ [Next]_vars => [Service!Next]_(Service!serviceVars)
  <2> SUFFICES ASSUME IInv, [Next]_vars
               PROVE  Service!Next \/ UNCHANGED Service!serviceVars
    OBVIOUS
  <2> USE DEF Service!serviceVars
  <2>1. ASSUME NEW k \in Kind, Post(k) PROVE UNCHANGED Service!serviceVars
    BY <2>1 DEF Post, Stalled
  <2>2. ASSUME NEW k \in Kind, Complete(k) PROVE Service!Complete(k)
    BY <2>2 DEF Complete, Service!Complete, Stalled
  <2>3. CASE PostSendFails
    BY <2>3 DEF PostSendFails, Service!Stop, Service!Next, Stalled
  <2>4. CASE VerbsCallFails
    BY <2>4 DEF VerbsCallFails, Service!Stop, Service!Next, Stalled
  <2>5. CASE HandlerExits
    BY <2>5 DEF HandlerExits, TakeCompletion, Service!ServeAndStop,
       Service!Next, Stalled
  <2>6. CASE PollOne
    BY <2>6 DEF PollOne, TakeCompletion, Service!Serve, Service!Next, Stalled
  <2>7. CASE PollError
    BY <2>7 DEF PollError, Service!Fail, Service!Next, Stalled
  <2>8. CASE PollEmpty \/ StartThread \/ AckEvents
    BY <2>8 DEF PollEmpty, StartThread, AckEvents, Stalled
  \* An event in the channel means that the queue is not armed.
  <2>9. CASE GetEvent
    BY <2>9 DEF GetEvent, Stalled, IInv, OneNotification
  <2>10. CASE ReqNotify
    BY <2>10 DEF ReqNotify, Stalled
  <2>11. CASE UNCHANGED vars
    BY <2>11 DEF vars, Stalled
  <2> QED
    BY <2>1, <2>2, <2>3, <2>4, <2>5, <2>6, <2>7, <2>8, <2>9, <2>10, <2>11
       DEF Next, Thread, Service!Next
<1> QED  BY <1>1, <1>2, Invariance, PTL DEF Spec

=============================================================================

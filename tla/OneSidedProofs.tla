--------------------------- MODULE OneSidedProofs ---------------------------
(***************************************************************************)
(* Proofs about OneSided, for every program and every size of the sketch:  *)
(* its invariant is inductive and implies that pendingReads counts, that a *)
(* sweep starts clean and that one request at a time is under way; and     *)
(* every step is a step of SyncOperations or leaves it unchanged.          *)
(***************************************************************************)
EXTENDS OneSided, TLAPS, FiniteSetTheorems, FunctionTheorems, SequenceTheorems

-----------------------------------------------------------------------------
(* Counting the requests or completions of some opcodes.                   *)

Places(s, opcodes) == {i \in 1..Len(s) : s[i].opcode \in opcodes}

\* There are finitely many.
LEMMA HowManyType ==
    ASSUME NEW S, NEW s \in Seq(S), NEW opcodes
    PROVE  /\ IsFiniteSet(Places(s, opcodes))
           /\ HowMany(s, opcodes) = Cardinality(Places(s, opcodes))
           /\ HowMany(s, opcodes) \in Nat
<1>1. IsFiniteSet(1..Len(s))
  BY FS_Interval, LenProperties
<1>2. Places(s, opcodes) \subseteq 1..Len(s)
  BY DEF Places
<1>3. IsFiniteSet(Places(s, opcodes))
  BY <1>1, <1>2, FS_Subset
<1>4. HowMany(s, opcodes) = Cardinality(Places(s, opcodes))
  BY DEF HowMany, Places
<1> QED  BY <1>3, <1>4, FS_CardinalityType

\* None in an empty queue.
LEMMA HowManyEmpty ==
    ASSUME NEW opcodes
    PROVE  HowMany(<<>>, opcodes) = 0
<1>1. {i \in 1..Len(<<>>) : <<>>[i].opcode \in opcodes} = {}
  OBVIOUS
<1> QED  BY <1>1, FS_EmptySet DEF HowMany

\* An element appended to a queue adds one, if it has the opcode.
LEMMA HowManyAppend ==
    ASSUME NEW S, NEW s \in Seq(S), NEW e \in S, NEW opcodes
    PROVE  HowMany(Append(s, e), opcodes) =
               HowMany(s, opcodes) + (IF e.opcode \in opcodes THEN 1 ELSE 0)
<1> DEFINE n == Len(s) + 1
<1>1. /\ Len(s) \in Nat /\ Append(s, e) \in Seq(S)
      /\ Len(Append(s, e)) = n
      /\ Append(s, e)[n] = e
      /\ \A i \in 1..Len(s) : Append(s, e)[i] = s[i]
  BY LenProperties, AppendProperties
<1>2. 1..n = 1..Len(s) \cup {n} /\ n \notin 1..Len(s)
  BY <1>1
<1>3. /\ HowMany(s, opcodes) = Cardinality(Places(s, opcodes))
      /\ HowMany(s, opcodes) \in Nat /\ IsFiniteSet(Places(s, opcodes))
      /\ HowMany(Append(s, e), opcodes) =
             Cardinality(Places(Append(s, e), opcodes))
  BY <1>1, HowManyType
<1>4. CASE e.opcode \in opcodes
  <2>1. Places(Append(s, e), opcodes) = Places(s, opcodes) \cup {n}
    BY <1>1, <1>2, <1>4 DEF Places
  <2>2. n \notin Places(s, opcodes)
    BY <1>2 DEF Places
  <2>3. Cardinality(Places(s, opcodes) \cup {n}) =
            Cardinality(Places(s, opcodes)) + 1
    BY <1>3, <2>2, FS_AddElement
  <2> QED  BY <1>3, <1>4, <2>1, <2>3
<1>5. CASE e.opcode \notin opcodes
  <2>1. Places(Append(s, e), opcodes) = Places(s, opcodes)
    BY <1>1, <1>2, <1>5 DEF Places
  <2> QED  BY <1>3, <1>5, <2>1
<1> QED  BY <1>4, <1>5

\* An element taken from a queue removes one, if it has the opcode.
LEMMA HowManyTail ==
    ASSUME NEW S, NEW s \in Seq(S), s # <<>>, NEW opcodes
    PROVE  HowMany(s, opcodes) =
               HowMany(Tail(s), opcodes)
                   + (IF Head(s).opcode \in opcodes THEN 1 ELSE 0)
<1> DEFINE later == Places(s, opcodes) \ {1}
           shift == [i \in Places(Tail(s), opcodes) |-> i + 1]
<1>1. /\ Len(s) \in Nat \ {0}
      /\ Tail(s) \in Seq(S)
      /\ Len(Tail(s)) = Len(s) - 1
      /\ \A i \in 1..Len(Tail(s)) : Tail(s)[i] = s[i + 1]
      /\ Head(s) = s[1]
  BY HeadTailProperties, EmptySeq
<1>2. \A i \in Places(Tail(s), opcodes) :
          i \in Nat /\ shift[i] = i + 1 /\ i + 1 \in later
  BY <1>1 DEF Places
<1>3. \A j \in later : j - 1 \in Places(Tail(s), opcodes) /\ (j - 1) + 1 = j
  BY <1>1 DEF Places
<1>4. shift \in Bijection(Places(Tail(s), opcodes), later)
  <2>1. shift \in [Places(Tail(s), opcodes) -> later]
    BY <1>2
  <2>2. \A a, b \in Places(Tail(s), opcodes) : shift[a] = shift[b] => a = b
    BY <1>2
  <2>3. \A j \in later : \E i \in Places(Tail(s), opcodes) : shift[i] = j
    BY <1>2, <1>3
  <2> QED  BY <2>1, <2>2, <2>3, Fun_IsBij
<1>5. Cardinality(later) = Cardinality(Places(Tail(s), opcodes))
  <2>1. IsFiniteSet(Places(Tail(s), opcodes))
    BY <1>1, HowManyType
  <2>2. ExistsBijection(Places(Tail(s), opcodes), later)
    BY <1>4, Fun_ExistsBij
  <2> HIDE DEF later
  <2> QED  BY <2>1, <2>2, FS_Bijection
<1>6. 1 \in Places(s, opcodes) <=> Head(s).opcode \in opcodes
  BY <1>1 DEF Places
<1>7. Cardinality(later) = IF 1 \in Places(s, opcodes)
                           THEN Cardinality(Places(s, opcodes)) - 1
                           ELSE Cardinality(Places(s, opcodes))
  BY HowManyType, FS_RemoveElement
<1>8. /\ HowMany(s, opcodes) = Cardinality(Places(s, opcodes))
      /\ HowMany(s, opcodes) \in Nat
      /\ HowMany(Tail(s), opcodes) = Cardinality(Places(Tail(s), opcodes))
      /\ HowMany(Tail(s), opcodes) \in Nat
  BY <1>1, HowManyType
<1> QED  BY <1>5, <1>6, <1>7, <1>8

\* Reads and writes are counted apart.
LEMMA HowManyBoth ==
    ASSUME NEW S, NEW s \in Seq(S)
    PROVE  HowMany(s, {"READ", "WRITE"}) =
               HowMany(s, {"READ"}) + HowMany(s, {"WRITE"})
<1>1. Places(s, {"READ", "WRITE"}) =
          Places(s, {"READ"}) \cup Places(s, {"WRITE"})
  BY DEF Places
<1>2. Places(s, {"READ"}) \cap Places(s, {"WRITE"}) = {}
  BY DEF Places
<1>3. Cardinality(Places(s, {"READ", "WRITE"})) =
          Cardinality(Places(s, {"READ"})) + Cardinality(Places(s, {"WRITE"}))
          - Cardinality({})
  BY <1>1, <1>2, HowManyType, FS_Union
<1> QED  BY <1>3, HowManyType, FS_EmptySet

\* One request.
LEMMA HowManyOne ==
    ASSUME NEW q \in Request, NEW opcodes
    PROVE  HowMany(<<q>>, opcodes) = IF q.opcode \in opcodes THEN 1 ELSE 0
<1> DEFINE s == <<q>>
<1>1. s \in Seq(Request) /\ Len(s) = 1 /\ s[1] = q
  OBVIOUS
<1> HIDE DEF s
<1>2. HowMany(s, opcodes) = Cardinality(Places(s, opcodes))
  BY <1>1, HowManyType
<1>3. Places(s, opcodes) = IF q.opcode \in opcodes THEN {1} ELSE {}
  <2>1. \A i \in 1..Len(s) : i = 1
    BY <1>1
  <2>2. \A i : i \in Places(s, opcodes) <=> i = 1 /\ q.opcode \in opcodes
    BY <1>1, <2>1 DEF Places
  <2> QED  BY <2>2
<1>4. Cardinality({1}) = 1 /\ Cardinality({}) = 0
  BY FS_Singleton, FS_EmptySet
<1>5. HowMany(s, opcodes) = IF q.opcode \in opcodes THEN 1 ELSE 0
  BY <1>2, <1>3, <1>4
<1> QED  BY <1>5 DEF s

-----------------------------------------------------------------------------
(* Type correctness.                                                       *)

\* The completions of the model are completions.
LEMMA CompletionType ==
    /\ Flushed \in Completion /\ Flushed.opcode = "none"
    /\ \A r \in Region : /\ Received(r) \in Completion /\ Received(r).ok
                         /\ Received(r).opcode = "RECV"
    /\ \A o \in {"READ", "WRITE"} : /\ Completed(o) \in Completion
                                    /\ Completed(o).ok
                                    /\ Completed(o).opcode = o
  BY DEF Flushed, Received, Completed, Completion, Opcode

\* The current operation is one, and its request is a request.
LEMMA RequestType ==
    ASSUME TypeOK, op <= Len(Program)
    PROVE  /\ op \in 1..Len(Program) /\ Current \in Operation
           /\ CurrentRequest \in Request
           /\ CurrentRequest.op = op
           /\ CurrentRequest.opcode =
                  IF Current = "write" THEN "WRITE" ELSE "READ"
           /\ Current # "write" => CurrentRequest.cell \in Cells(Current)
<1>1. Len(Program) \in Nat /\ op \in 1..Len(Program)
  BY ProgramAssumption, LenProperties DEF TypeOK
<1>2. Current \in Operation
  BY <1>1, ProgramAssumption DEF Current
<1>3. elem \in 1..Elements /\ Elements \in Nat
  BY ElementsAssumption DEF TypeOK
<1>4. CurrentRequest.cell \in Cell
  <2>1. [kind |-> "class", index |-> 0] \in Cell
    BY DEF Cell
  <2>2. [kind |-> "rdma_buf", index |-> 0] \in Cell
    BY DEF Cell
  <2>3. [kind |-> "sketch", index |-> elem] \in Cell
    BY <1>3 DEF Cell
  <2> QED  BY <1>2, <2>1, <2>2, <2>3 DEF CurrentRequest, Operation
<1>5. CurrentRequest.valid \in BOOLEAN /\ CurrentRequest.op = op
  BY DEF CurrentRequest
<1>6. CurrentRequest.opcode = IF Current = "write" THEN "WRITE" ELSE "READ"
  BY DEF CurrentRequest
<1>7. CurrentRequest \in Request
  <2>1. CurrentRequest = [op |-> CurrentRequest.op,
                          opcode |-> CurrentRequest.opcode,
                          cell |-> CurrentRequest.cell,
                          valid |-> CurrentRequest.valid]
    BY DEF CurrentRequest
  <2> QED  BY <1>1, <1>4, <1>5, <1>6, <2>1 DEF Request
<1>8. ASSUME Current # "write" PROVE CurrentRequest.cell \in Cells(Current)
  BY <1>2, <1>3, <1>8 DEF CurrentRequest, Cells, Operation
<1> QED  BY <1>1, <1>2, <1>5, <1>6, <1>7, <1>8

\* A request put on the send queue differs at most in whether it is valid.
LEMMA RequestedType ==
    ASSUME TypeOK, op <= Len(Program), Requested
    PROVE  /\ sq = <<Head(sq)>> /\ Head(sq) \in Request /\ Tail(sq) = <<>>
           /\ Head(sq).op = op /\ Head(sq).cell = CurrentRequest.cell
           /\ Head(sq).opcode = IF Current = "write" THEN "WRITE" ELSE "READ"
<1>1. PICK v \in BOOLEAN : sq = <<[CurrentRequest EXCEPT !.valid = v]>>
  BY DEF Requested
<1> DEFINE q == [CurrentRequest EXCEPT !.valid = v]
<1>2. /\ q \in Request /\ q.op = CurrentRequest.op
      /\ q.cell = CurrentRequest.cell /\ q.opcode = CurrentRequest.opcode
  BY RequestType DEF Request
<1> HIDE DEF q
<1>3. sq = <<q>>
  BY <1>1 DEF q
<1>4. Head(sq) = q /\ Tail(sq) = <<>>
  BY <1>3
<1> QED  BY <1>2, <1>3, <1>4, RequestType

\* A step of the main thread.
LEMMA MainType ==
    ASSUME TypeOK, InOperation, Main
    PROVE  TypeOK'
<1> USE DEF mainVars, flagVars, cqVars, linkVars
<1>1. /\ Elements \in Nat \ {0} /\ Len(Program) \in Nat
      /\ elem \in 1..Elements /\ op \in 1..Len(Program) + 1
      /\ sq \in Seq(Request) /\ ccq \in Seq(Completion)
  BY ProgramAssumption, ElementsAssumption, LenProperties DEF TypeOK
<1>2. CASE BeginRead \/ BeginWrite \/ BeginElement \/ WaitReads \/ WaitWrite
  BY <1>2 DEF BeginRead, BeginWrite, BeginElement, WaitReads, WaitWrite, TypeOK
<1>3. CASE BeginSweep
  <2>1. elem' \in 1..Elements
    BY <1>1, <1>3 DEF BeginSweep
  <2> QED  BY <1>3, <2>1 DEF BeginSweep, TypeOK
<1>4. CASE Post
  <2>1. op <= Len(Program)
    BY <1>4 DEF Post, InOperation
  <2>2. CurrentRequest \in Request
    BY <2>1, RequestType
  <2>3. Append(ccq, Flushed) \in Seq(Completion)
        /\ Append(sq, CurrentRequest) \in Seq(Request)
    BY <1>1, <2>2, CompletionType, AppendProperties
  <2>4. sq' \in Seq(Request) /\ ccq' \in Seq(Completion)
    BY <1>1, <1>4, <2>3 DEF Post
  <2>5. pc' \in {"waitWrite", "count"}
    BY <1>4 DEF Post
  <2> QED  BY <1>4, <2>4, <2>5 DEF Post, TypeOK
<1>5. CASE Count
  BY <1>5 DEF Count, TypeOK
<1>6. CASE WaitElement
  <2>1. elem' \in 1..Elements /\ pc' \in {"element", "waitReads"}
    BY <1>1, <1>6 DEF WaitElement
  <2> QED  BY <1>6, <2>1 DEF WaitElement, TypeOK
<1>7. CASE Return
  <2>1. op' \in 1..Len(Program) + 1
    BY <1>1, <1>7 DEF Return, InOperation
  <2> QED  BY <1>7, <2>1 DEF Return, TypeOK
<1> QED  BY <1>2, <1>3, <1>4, <1>5, <1>6, <1>7 DEF Main

\* A step of the completion thread.
LEMMA CqThreadType ==
    ASSUME TypeOK, CqThread
    PROVE  TypeOK'
<1> USE DEF mainVars, flagVars, linkVars
<1>1. ccq \in Seq(Completion) /\ wc \in Wc
  BY DEF TypeOK
<1>2. CASE Poll
  <2>1. ccq' \in Seq(Completion) /\ Head(ccq) \in Completion
    BY <1>1, <1>2, HeadTailProperties DEF Poll
  <2>2. wc' \in Wc
    BY <1>1, <1>2, <2>1 DEF Poll, Seen, Wc, Completion, Opcode
  <2>3. tpc' \in {"poll", "dec", "parse"} /\ readComplete' \in BOOLEAN
        /\ writeComplete' \in BOOLEAN
    BY <1>2 DEF Poll
  <2> QED  BY <1>2, <2>1, <2>2, <2>3 DEF Poll, TypeOK
<1>3. CASE Decrement
  BY <1>3 DEF Decrement, TypeOK
<1>4. CASE ParseAddress
  <2>1. info' \in [Region -> {"unset", "torn", "set"}]
    BY <1>4 DEF ParseAddress, TypeOK
  <2> QED  BY <1>4, <2>1 DEF ParseAddress, TypeOK
<1>5. CASE ParseRest
  <2>1. info' \in [Region -> {"unset", "torn", "set"}]
    BY <1>5 DEF ParseRest, TypeOK
  <2>2. Append(ccq, Flushed) \in Seq(Completion)
    BY <1>1, CompletionType, AppendProperties
  <2>3. ccq' \in Seq(Completion)
    BY <1>1, <1>5, <2>2 DEF ParseRest
  <2> QED  BY <1>5, <2>1, <2>3 DEF ParseRest, TypeOK
<1> QED  BY <1>2, <1>3, <1>4, <1>5 DEF CqThread

\* A step of the adapter; what it executes is the current request.
LEMMA LinkType ==
    ASSUME IInv, DeliverAdvert \/ Execute \/ Break
    PROVE  TypeOK'
<1> USE DEF mainVars, flagVars, cqVars
<1>1. /\ TypeOK /\ sq \in Seq(Request) /\ ccq \in Seq(Completion)
      /\ toCome \in Seq(Region)
  BY DEF IInv, TypeOK
<1>2. CASE DeliverAdvert
  <2>1. Head(toCome) \in Region /\ toCome' \in Seq(Region)
    BY <1>1, <1>2, HeadTailProperties DEF DeliverAdvert
  <2>2. ccq' \in Seq(Completion)
    BY <1>1, <1>2, <2>1, CompletionType, AppendProperties DEF DeliverAdvert
  <2> QED  BY <1>1, <1>2, <2>1, <2>2 DEF DeliverAdvert, TypeOK
<1>3. CASE Execute
  <2>1. Head(sq) \in Request /\ sq' \in Seq(Request)
    BY <1>1, <1>3, HeadTailProperties DEF Execute
  <2>2. Head(sq).op \in 0..Len(Program)
    <3>1. Requested /\ op <= Len(Program)
      BY <1>3 DEF Execute, IInv, FlagMeansComplete, InOperation, Waiting,
                  NoneUnderWay, Reported
    <3> QED  BY <1>1, <3>1, RequestType, RequestedType
  <2>3. Head(sq).opcode \in {"READ", "WRITE"} /\ Head(sq).cell \in Cell
    BY <2>1 DEF Request
  <2>4. ccq' \in Seq(Completion)
    BY <1>1, <1>3, <2>3, CompletionType, AppendProperties DEF Execute
  <2>5. local' \in [Cell -> 0..Len(Program)]
    BY <1>1, <1>3, <2>2, <2>3 DEF Execute, TypeOK
  <2>6. written' \in 0..Len(Program)
    BY <1>1, <1>3, <2>2 DEF Execute, TypeOK
  <2> QED  BY <1>1, <1>3, <2>1, <2>4, <2>5, <2>6 DEF Execute, TypeOK
<1>4. CASE Break
  <2> DEFINE f == [i \in 1..Len(sq) |-> Flushed]
             h == IF ReceivePosted THEN <<Flushed>> ELSE <<>>
  <2>1. f \in Seq(Completion)
    <3>1. f \in [1..Len(sq) -> Completion] /\ Len(sq) \in Nat
      BY <1>1, CompletionType, LenProperties
    <3> QED  BY <3>1, SeqDef
  <2>2. h \in Seq(Completion)
    <3> HIDE DEF Flushed
    <3> QED  BY CompletionType
  <2>3. ccq' = (ccq \o f) \o h
    BY <1>4 DEF Break
  <2> HIDE DEF f, h
  <2>4. ccq \o f \in Seq(Completion)
    BY <1>1, <2>1, ConcatProperties
  <2>5. ccq' \in Seq(Completion)
    BY <2>2, <2>3, <2>4, ConcatProperties
  <2> QED  BY <1>1, <1>4, <2>5 DEF Break, TypeOK
<1> QED  BY <1>2, <1>3, <1>4

-----------------------------------------------------------------------------
(* The invariant.                                                          *)

\* start() leaves nothing posted but the receive.
LEMMA InitIInv == Init => IInv
<1> SUFFICES ASSUME Init PROVE IInv
  OBVIOUS
<1>1. TypeOK
  <2>1. 1 \in 1..Len(Program) + 1 /\ 0 \in 0..Len(Program)
    BY ProgramAssumption, LenProperties
  <2>2. 1 \in 1..Elements
    BY ElementsAssumption
  <2>3. wc \in Wc
    BY DEF Init, Wc, Opcode
  <2>4. toCome \in Seq(Region)
    BY DEF Init, Region
  <2>5. sq \in Seq(Request) /\ ccq \in Seq(Completion)
    BY DEF Init
  <2>6. /\ local \in [Cell -> 0..Len(Program)]
        /\ info \in [Region -> {"unset", "torn", "set"}]
    BY <2>1 DEF Init
  <2>7. /\ op \in 1..Len(Program) + 1 /\ elem \in 1..Elements
        /\ written \in 0..Len(Program) /\ pendingReads \in Int
    BY <2>1, <2>2 DEF Init
  <2>8. /\ pc = "next" /\ tpc \in {"poll", "dec", "parse", "flag"}
    BY DEF Init
  <2>9. /\ readComplete \in BOOLEAN /\ writeComplete \in BOOLEAN
        /\ broken \in BOOLEAN
    BY DEF Init
  <2> QED  BY <2>1, <2>2, <2>3, <2>4, <2>5, <2>6, <2>7, <2>8, <2>9 DEF TypeOK
<1>2. InOperation
  BY DEF Init, InOperation
<1>3. NoneUnderWay /\ HowMany(sq, {"READ"}) = 0
  BY HowManyEmpty DEF Init, NoneUnderWay
<1>4. FlagMeansComplete
  BY <1>3 DEF Init, FlagMeansComplete, Waiting
<1>5. FetchedSoFar
  BY DEF Init, FetchedSoFar, Waiting
<1>6. PendingReadsCounts
  BY <1>3 DEF Init, PendingReadsCounts, NoneUnderWay
<1> QED  BY <1>1, <1>2, <1>4, <1>5, <1>6 DEF IInv

\* How many reads the send queue holds.
LEMMA SendQueueCount ==
    ASSUME TypeOK, op <= Len(Program)
    PROVE  /\ sq = <<>> => HowMany(sq, {"READ"}) = 0
           /\ Requested =>
                  HowMany(sq, {"READ"}) = IF Current = "write" THEN 0 ELSE 1
<1>1. sq = <<>> => HowMany(sq, {"READ"}) = 0
  BY HowManyEmpty
<1>2. ASSUME Requested
      PROVE  HowMany(sq, {"READ"}) = IF Current = "write" THEN 0 ELSE 1
  <2>1. /\ sq = <<Head(sq)>> /\ Head(sq) \in Request
        /\ Head(sq).opcode = IF Current = "write" THEN "WRITE" ELSE "READ"
    BY <1>2, RequestedType
  <2> DEFINE q == Head(sq)
  <2>2. HowMany(<<q>>, {"READ"}) = IF q.opcode \in {"READ"} THEN 1 ELSE 0
    BY <2>1, HowManyOne
  <2> QED  BY <2>1, <2>2
<1> QED  BY <1>1, <1>2

\* A step of the main thread keeps it where its operation allows.
LEMMA MainInOperation ==
    ASSUME IInv, Main
    PROVE  InOperation'
<1>1. InOperation /\ TypeOK /\ op \in Nat /\ Len(Program) \in Nat
      /\ elem \in 1..Elements /\ Elements \in Nat
  BY ProgramAssumption, ElementsAssumption, LenProperties DEF IInv, TypeOK
<1>2. CASE BeginRead \/ BeginWrite \/ BeginSweep
  BY <1>1, <1>2 DEF BeginRead, BeginWrite, BeginSweep, At, InOperation, Current
<1>3. CASE BeginElement
  BY <1>1, <1>3 DEF BeginElement, InOperation, Current
<1>4. CASE Post
  BY <1>1, <1>4 DEF Post, InOperation, Current
<1>5. CASE Count
  <2>1. elem' = elem /\ op' = op /\ pc' \in {"waitElement", "waitReads"}
        /\ (pc' = "waitElement" <=> Current = "sweep") /\ Current # "write"
    BY <1>1, <1>5 DEF Count, InOperation
  <2> QED  BY <1>1, <1>5, <2>1 DEF Count, InOperation, Current
<1>6. CASE WaitElement
  <2>1. op' = op /\ Current = "sweep" /\ pc' \in {"element", "waitReads"}
        /\ (pc' = "waitReads" => elem' = Elements)
    BY <1>1, <1>6 DEF WaitElement, InOperation
  <2> QED  BY <1>1, <1>6, <2>1 DEF WaitElement, InOperation, Current
<1>7. CASE WaitReads \/ WaitWrite
  BY <1>1, <1>7 DEF WaitReads, WaitWrite, InOperation, Current
<1>8. CASE Return
  BY <1>8 DEF Return, InOperation
<1> QED  BY <1>2, <1>3, <1>4, <1>5, <1>6, <1>7, <1>8 DEF Main

\* Beginning an operation, or an element of a sweep: nothing is under way, and
\* the flag is cleared.
LEMMA BeginIInv ==
    ASSUME IInv, ~broken,
           BeginRead \/ BeginWrite \/ BeginSweep \/ BeginElement
    PROVE  FlagMeansComplete' /\ PendingReadsCounts' /\ FetchedSoFar'
<1> USE DEF mainVars, flagVars, cqVars, linkVars
<1>1. /\ TypeOK /\ InOperation /\ FlagMeansComplete /\ FetchedSoFar
      /\ PendingReadsCounts /\ pc \in {"next", "element"} /\ pendingReads \in Int
  BY DEF IInv, TypeOK, BeginRead, BeginWrite, BeginSweep, BeginElement, At
<1>2. NoneUnderWay /\ (pc = "next" => tpc # "dec")
      /\ \A i \in 1..Len(ccq) : ccq[i].ok
  BY <1>1 DEF FlagMeansComplete, Waiting
<1>3. UNCHANGED <<op, tpc, sq, ccq, local, written, broken>>
      /\ pc' \in {"post", "element"}
  BY DEF BeginRead, BeginWrite, BeginSweep, BeginElement
<1>4. NoneUnderWay'
  BY <1>2, <1>3 DEF NoneUnderWay, HowMany
<1>5. pc' = "post" => ~Complete'
  BY <1>1 DEF BeginRead, BeginWrite, BeginSweep, BeginElement, Complete,
              At, Current, InOperation
<1>6. tpc = "dec" => Current # "write"
  BY <1>1, <1>2 DEF InOperation
<1>7. FlagMeansComplete'
  BY <1>2, <1>3, <1>4, <1>5, <1>6 DEF FlagMeansComplete, Waiting, Current
<1>8. PendingReadsCounts'
  <2>1. HowMany(sq, {"READ"}) = 0 /\ HowMany(ccq, {"READ"}) = 0
    BY <1>2, HowManyEmpty DEF NoneUnderWay
  <2>2. pendingReads' = IF tpc = "dec" THEN 1 ELSE 0
    BY <1>1, <1>2, <2>1 DEF PendingReadsCounts,
       BeginRead, BeginWrite, BeginSweep, BeginElement, At
  <2> QED  BY <1>3, <2>1, <2>2 DEF PendingReadsCounts, HowMany
<1>9. FetchedSoFar'
  <2>1. ~Waiting' /\ pc' # "return"
    BY <1>3 DEF Waiting
  <2>2. ASSUME Current = "sweep", NEW i \in 1..elem' - 1
        PROVE  local[[kind |-> "sketch", index |-> i]] = op
    <3>1. CASE BeginElement
      BY <1>1, <2>2, <3>1 DEF BeginElement, FetchedSoFar
    <3>2. CASE BeginSweep
      BY <2>2, <3>2 DEF BeginSweep
    <3>3. CASE BeginRead \/ BeginWrite
      BY <2>2, <3>3 DEF BeginRead, BeginWrite, At
    <3> QED  BY <3>1, <3>2, <3>3
  <2> QED  BY <1>3, <2>1, <2>2 DEF FetchedSoFar, Current
<1> QED  BY <1>7, <1>8, <1>9

\* Posting puts the request on the send queue.
LEMMA PostIInv ==
    ASSUME IInv, ~broken, Post
    PROVE  FlagMeansComplete' /\ PendingReadsCounts' /\ FetchedSoFar'
<1> USE DEF flagVars, cqVars
<1>1. /\ TypeOK /\ InOperation /\ FlagMeansComplete /\ FetchedSoFar
      /\ PendingReadsCounts /\ pc = "post" /\ op <= Len(Program)
  BY DEF IInv, Post, InOperation
<1>2. NoneUnderWay /\ ~Complete /\ \A i \in 1..Len(ccq) : ccq[i].ok
  BY <1>1 DEF FlagMeansComplete, Waiting
<1>3. /\ UNCHANGED <<op, elem, pendingReads, readComplete, writeComplete, tpc,
                     wc, info, ccq, local, written, broken>>
      /\ pc' = IF Current = "write" THEN "waitWrite" ELSE "count"
  BY DEF Post
<1>4. /\ CurrentRequest \in Request
      /\ CurrentRequest.opcode = IF Current = "write" THEN "WRITE" ELSE "READ"
  BY <1>1, RequestType
<1>5. sq' = <<CurrentRequest>>
  <2>1. sq' = Append(<<>>, CurrentRequest)
    BY <1>2 DEF Post, NoneUnderWay
  <2> HIDE DEF CurrentRequest
  <2> QED  BY <2>1
<1>6. Requested'
  <2>1. CurrentRequest.valid \in BOOLEAN
    BY <1>4 DEF Request
  <2>2. CurrentRequest = [CurrentRequest EXCEPT !.valid = CurrentRequest.valid]
    BY DEF CurrentRequest
  <2>3. CurrentRequest' = CurrentRequest
    BY <1>3 DEF CurrentRequest, Current
  <2>4. \E v \in BOOLEAN : sq' = <<[CurrentRequest' EXCEPT !.valid = v]>>
    BY <1>5, <2>1, <2>2, <2>3
  <2>5. HowMany(ccq, {"READ"})' = 0 /\ HowMany(ccq, {"WRITE"})' = 0
    BY <1>2, <1>3 DEF NoneUnderWay, HowMany
  <2> QED  BY <2>4, <2>5 DEF Requested
<1>7. ~Complete' /\ Waiting' /\ Current' = Current
  BY <1>2, <1>3 DEF Complete, Waiting, Current
<1>8. FlagMeansComplete'
  BY <1>1, <1>2, <1>3, <1>6, <1>7 DEF FlagMeansComplete
<1>9. PendingReadsCounts'
  <2>1. HowMany(sq, {"READ"}) = 0
    BY <1>2, HowManyEmpty DEF NoneUnderWay
  <2>2. HowMany(sq, {"READ"})' = IF Current = "write" THEN 0 ELSE 1
    <3>1. HowMany(<<CurrentRequest>>, {"READ"}) =
              IF CurrentRequest.opcode \in {"READ"} THEN 1 ELSE 0
      BY <1>4, HowManyOne
    <3>2. HowMany(sq, {"READ"})' = HowMany(sq', {"READ"})
      BY DEF HowMany
    <3> QED  BY <1>4, <1>5, <3>1, <3>2
  <2>3. HowMany(ccq, {"READ"})' = 0 /\ HowMany(ccq, {"READ"}) = 0
    BY <1>2, <1>3 DEF NoneUnderWay, HowMany
  <2>4. pendingReads = IF tpc = "dec" THEN 1 ELSE 0
    BY <1>1, <2>1, <2>3 DEF PendingReadsCounts
  <2>5. Current = "write" => tpc # "dec"
    BY <1>1 DEF FlagMeansComplete
  <2> QED  BY <1>3, <2>2, <2>3, <2>4, <2>5 DEF PendingReadsCounts
<1>10. FetchedSoFar'
  <2>1. sq' # <<>>
    BY <1>5
  <2> QED  BY <1>1, <1>3, <1>7, <2>1 DEF FetchedSoFar, Current
<1> QED  BY <1>8, <1>9, <1>10

\* The main thread counts a read, or goes on once it sees a flag or the
\* counter, or returns: no request moves.
LEMMA WaitIInv ==
    ASSUME IInv, ~broken,
           Count \/ WaitElement \/ WaitReads \/ WaitWrite \/ Return
    PROVE  FlagMeansComplete' /\ PendingReadsCounts' /\ FetchedSoFar'
<1> USE DEF mainVars, flagVars, cqVars, linkVars
<1>1. /\ TypeOK /\ InOperation /\ FlagMeansComplete /\ FetchedSoFar
      /\ PendingReadsCounts /\ pendingReads \in Int
      /\ op <= Len(Program) /\ op \in Nat
  BY DEF IInv, TypeOK, InOperation, Count, WaitElement, WaitReads, WaitWrite, Return
<1>2. /\ UNCHANGED <<readComplete, writeComplete, tpc, wc, info, sq, ccq,
                     local, written, broken>>
      /\ HowMany(sq, {"READ"})' = HowMany(sq, {"READ"})
      /\ HowMany(ccq, {"READ"})' = HowMany(ccq, {"READ"})
      /\ HowMany(ccq, {"WRITE"})' = HowMany(ccq, {"WRITE"})
  BY DEF Count, WaitElement, WaitReads, WaitWrite, Return, HowMany
<1>3. NoneUnderWay' <=> NoneUnderWay
  BY <1>2 DEF NoneUnderWay
<1>4. /\ HowMany(sq, {"READ"}) \in Nat /\ HowMany(ccq, {"READ"}) \in Nat
  BY <1>1, HowManyType DEF TypeOK
<1>5. CASE Count
  <2>1. /\ UNCHANGED <<op, elem>> /\ Waiting /\ Waiting' /\ pc = "count"
        /\ pc' \in {"waitElement", "waitReads"} /\ Current' = Current
        /\ pendingReads' = pendingReads + 1
    BY <1>5 DEF Count, Waiting, Current
  <2>2. (Requested' <=> Requested) /\ (Reported' <=> Reported)
        /\ (Complete' <=> Complete)
    BY <1>2, <2>1 DEF Requested, Reported, Complete, CurrentRequest
  <2>3. FlagMeansComplete'
    BY <1>1, <1>2, <1>3, <2>1, <2>2 DEF FlagMeansComplete
  <2>4. PendingReadsCounts'
    BY <1>1, <1>2, <1>4, <2>1 DEF PendingReadsCounts
  <2>5. CurrentRequest'.cell = CurrentRequest.cell
    BY <2>1 DEF CurrentRequest
  <2>6. FetchedSoFar'
    BY <1>1, <1>2, <2>1, <2>5 DEF FetchedSoFar
  <2> QED  BY <2>3, <2>4, <2>6
<1>6. CASE WaitElement
  <2>1. /\ pc = "waitElement" /\ Current = "sweep" /\ Complete /\ Waiting
        /\ op' = op /\ Current' = Current /\ pendingReads' = pendingReads
        /\ pc' \in {"element", "waitReads"}
    BY <1>1, <1>6 DEF WaitElement, InOperation, Complete, Waiting, Current
  <2>2. NoneUnderWay /\ Complete'
    BY <1>1, <1>2, <2>1 DEF FlagMeansComplete, Complete
  <2>3. FlagMeansComplete'
    BY <1>1, <1>2, <1>3, <2>1, <2>2 DEF FlagMeansComplete, Waiting
  <2>4. PendingReadsCounts'
    BY <1>1, <1>2, <2>1 DEF PendingReadsCounts
  <2>5. /\ CurrentRequest.cell = [kind |-> "sketch", index |-> elem]
        /\ local[CurrentRequest.cell] = op
    BY <1>1, <2>1, <2>2 DEF FetchedSoFar, NoneUnderWay, CurrentRequest
  <2>6. elem \in Nat /\ Elements \in Nat
    BY <1>1, ElementsAssumption DEF TypeOK
  <2>7. ASSUME NEW i \in 1..elem
        PROVE  local[[kind |-> "sketch", index |-> i]] = op
    <3>1. CASE i = elem
      BY <2>5, <3>1
    <3>2. CASE i # elem
      <4>1. i \in 1..elem - 1
        BY <2>6, <3>2
      <4> QED  BY <1>1, <2>1, <4>1 DEF FetchedSoFar
    <3> QED  BY <3>1, <3>2
  <2>8. elem' \in {elem, elem + 1} /\ (pc' = "waitReads" => elem' = elem)
    BY <1>6 DEF WaitElement
  <2>9. \A i \in 1..elem' - 1 : i \in 1..elem
    <3>1. CASE elem' = elem
      BY <2>6, <3>1
    <3>2. CASE elem' = elem + 1
      BY <2>6, <3>2
    <3> QED  BY <2>8, <3>1, <3>2
  <2>10. pc' = "waitReads" => CurrentRequest'.cell = CurrentRequest.cell
    BY <2>1, <2>8 DEF CurrentRequest
  <2>11. FetchedSoFar'
    BY <1>1, <1>2, <2>1, <2>5, <2>7, <2>9, <2>10 DEF FetchedSoFar, Waiting
  <2> QED  BY <2>3, <2>4, <2>11
<1>7. CASE WaitReads
  <2>1. /\ pc = "waitReads" /\ Current # "write" /\ pendingReads <= 0 /\ Waiting
        /\ UNCHANGED <<op, elem, pendingReads>> /\ Current' = Current
        /\ pc' = "return"
    BY <1>1, <1>7 DEF WaitReads, InOperation, Waiting, Current
  <2>2. HowMany(sq, {"READ"}) = 0 /\ HowMany(ccq, {"READ"}) = 0 /\ tpc # "dec"
    BY <1>1, <1>4, <2>1 DEF PendingReadsCounts
  <2>3. NoneUnderWay
    BY <1>1, <2>1, <2>2, SendQueueCount DEF FlagMeansComplete, Reported
  <2>4. FlagMeansComplete'
    BY <1>1, <1>2, <1>3, <2>1, <2>2, <2>3 DEF FlagMeansComplete, Waiting
  <2>5. PendingReadsCounts'
    BY <1>1, <1>2, <2>1 DEF PendingReadsCounts
  <2>6. local[CurrentRequest.cell] = op
    BY <1>1, <2>1, <2>3 DEF FetchedSoFar, NoneUnderWay
  <2>7. \A c \in Cells(Current) : local[c] = op
    <3>1. Current \in {"read", "class", "sweep"}
      BY <1>1, <2>1, RequestType DEF Operation
    <3>2. CASE Current = "sweep"
      <4>1. elem = Elements /\ Elements \in Nat
        BY <1>1, <2>1, <3>2, ElementsAssumption DEF InOperation
      <4>2. CurrentRequest.cell = [kind |-> "sketch", index |-> Elements]
        BY <3>2, <4>1 DEF CurrentRequest
      <4>3. \A i \in 1..Elements - 1 :
                local[[kind |-> "sketch", index |-> i]] = op
        BY <1>1, <2>1, <3>2, <4>1 DEF FetchedSoFar
      <4>4. \A i \in 1..Elements : i \in 1..Elements - 1 \/ i = Elements
        BY <4>1
      <4>5. \A i \in 1..Elements :
                local[[kind |-> "sketch", index |-> i]] = op
        BY <2>6, <4>2, <4>3, <4>4
      <4>6. \A c \in Cells(Current) :
                \E i \in 1..Elements : c = [kind |-> "sketch", index |-> i]
        BY <3>2 DEF Cells
      <4> QED  BY <4>5, <4>6
    <3>3. CASE Current # "sweep"
      <4>1. Cells(Current) = {CurrentRequest.cell}
        BY <3>1, <3>3 DEF Cells, CurrentRequest
      <4> QED  BY <2>6, <4>1
    <3> QED  BY <3>2, <3>3
  <2>8. Cells(Current)' = Cells(Current)
    BY <2>1 DEF Cells
  <2>9. FetchedSoFar'
    BY <1>2, <2>1, <2>7, <2>8 DEF FetchedSoFar, Waiting
  <2> QED  BY <2>4, <2>5, <2>9
<1>8. CASE WaitWrite
  <2>1. /\ pc = "waitWrite" /\ Current = "write" /\ Complete /\ Waiting
        /\ UNCHANGED <<op, elem, pendingReads>> /\ Current' = Current
        /\ pc' = "return"
    BY <1>1, <1>8 DEF WaitWrite, InOperation, Waiting, Current, Complete
  <2>2. NoneUnderWay /\ tpc # "dec"
    BY <1>1, <2>1 DEF FlagMeansComplete
  <2>3. FlagMeansComplete'
    BY <1>1, <1>2, <1>3, <2>1, <2>2 DEF FlagMeansComplete, Waiting
  <2>4. PendingReadsCounts'
    BY <1>1, <1>2, <2>1 DEF PendingReadsCounts
  <2>5. written = op
    BY <1>1, <2>1, <2>2 DEF FetchedSoFar, NoneUnderWay
  <2>6. Cells(Current)' = {}
    BY <2>1 DEF Cells
  <2>7. FetchedSoFar'
    BY <1>2, <2>1, <2>5, <2>6 DEF FetchedSoFar, Waiting
  <2> QED  BY <2>3, <2>4, <2>7
<1>9. CASE Return
  <2>1. /\ pc = "return" /\ pc' = "next" /\ UNCHANGED pendingReads
        /\ NoneUnderWay /\ tpc # "dec"
    BY <1>1, <1>9 DEF Return, FlagMeansComplete, Waiting
  <2>2. FlagMeansComplete'
    BY <1>1, <1>2, <1>3, <2>1 DEF FlagMeansComplete, Waiting
  <2>3. PendingReadsCounts'
    BY <1>1, <1>2, <2>1 DEF PendingReadsCounts
  <2>4. FetchedSoFar'
    BY <2>1 DEF FetchedSoFar, Waiting
  <2> QED  BY <2>2, <2>3, <2>4
<1> QED  BY <1>5, <1>6, <1>7, <1>8, <1>9

\* A step of the main thread preserves the invariant.
LEMMA MainIInv ==
    ASSUME IInv, Main
    PROVE  IInv'
<1>1. TypeOK' /\ InOperation'
  BY MainType, MainInOperation DEF IInv
<1>2. broken' = broken
  BY DEF Main, BeginRead, BeginWrite, BeginSweep, BeginElement, Post, Count,
         WaitElement, WaitReads, WaitWrite, Return, linkVars
<1>3. CASE broken
  BY <1>1, <1>2, <1>3 DEF IInv, FlagMeansComplete, FetchedSoFar, PendingReadsCounts
<1>4. CASE ~broken
  BY <1>1, <1>4, BeginIInv, PostIInv, WaitIInv DEF IInv, Main
<1> QED  BY <1>3, <1>4

\* Outside Poll the completion thread moves no request: it decrements the
\* counter for the read whose flag it has set, or takes over an address.
LEMMA HandlerIInv ==
    ASSUME IInv, Decrement \/ ParseAddress \/ ParseRest
    PROVE  IInv'
<1> USE DEF mainVars, flagVars, linkVars
<1>1. /\ TypeOK /\ InOperation /\ FlagMeansComplete /\ FetchedSoFar
      /\ PendingReadsCounts /\ pendingReads \in Int
  BY DEF IInv, TypeOK
<1>2. /\ UNCHANGED <<op, pc, elem, readComplete, writeComplete, sq, local,
                     written, broken>>
      /\ tpc' # "dec" /\ Current' = Current /\ Waiting' = Waiting
      /\ (~broken => ccq' = ccq)
  BY DEF Decrement, ParseAddress, ParseRest, Current, Waiting
<1>3. TypeOK'
  BY <1>1, CqThreadType DEF CqThread
<1>4. InOperation'
  BY <1>1, <1>2 DEF InOperation
<1>5. CurrentRequest'.cell = CurrentRequest.cell
      /\ CurrentRequest'.op = CurrentRequest.op
      /\ CurrentRequest'.opcode = CurrentRequest.opcode
  BY <1>2 DEF CurrentRequest
<1>6. ASSUME ~broken
      PROVE  FlagMeansComplete' /\ PendingReadsCounts' /\ FetchedSoFar'
  <2>1. /\ HowMany(sq, {"READ"})' = HowMany(sq, {"READ"})
        /\ HowMany(ccq, {"READ"})' = HowMany(ccq, {"READ"})
        /\ HowMany(ccq, {"WRITE"})' = HowMany(ccq, {"WRITE"})
    BY <1>2, <1>6 DEF HowMany
  <2>2. (NoneUnderWay' <=> NoneUnderWay) /\ (Reported' <=> Reported)
        /\ (Complete' <=> Complete)
    BY <1>2, <2>1 DEF NoneUnderWay, Reported, Complete
  <2>3. Requested => Requested'
    <3>1. ASSUME NEW v \in BOOLEAN
          PROVE  [CurrentRequest' EXCEPT !.valid = v]
                     = [CurrentRequest EXCEPT !.valid = v]
      BY <1>2 DEF CurrentRequest
    <3> QED  BY <1>2, <2>1, <3>1 DEF Requested
  <2>4. FlagMeansComplete'
    BY <1>1, <1>2, <1>6, <2>2, <2>3 DEF FlagMeansComplete
  <2>5. PendingReadsCounts'
    <3>1. /\ HowMany(sq, {"READ"}) \in Nat /\ HowMany(ccq, {"READ"}) \in Nat
      BY <1>1, HowManyType DEF TypeOK
    <3>2. pendingReads' = pendingReads - (IF tpc = "dec" THEN 1 ELSE 0)
      BY <1>1 DEF Decrement, ParseAddress, ParseRest
    <3> QED  BY <1>1, <1>2, <1>6, <2>1, <3>1, <3>2 DEF PendingReadsCounts
  <2>6. FetchedSoFar'
    BY <1>1, <1>2, <1>5, <1>6 DEF FetchedSoFar, Cells
  <2> QED  BY <2>4, <2>5, <2>6
<1>7. CASE broken
  BY <1>2, <1>3, <1>4, <1>7
     DEF IInv, FlagMeansComplete, FetchedSoFar, PendingReadsCounts
<1> QED  BY <1>3, <1>4, <1>6, <1>7 DEF IInv

\* Polling the completion of a request sets the flag; polling another one
\* changes nothing that main() waits for.
LEMMA PollIInv ==
    ASSUME IInv, Poll
    PROVE  IInv'
<1> USE DEF mainVars
<1>1. /\ TypeOK /\ InOperation /\ FlagMeansComplete /\ FetchedSoFar
      /\ PendingReadsCounts /\ ccq \in Seq(Completion) /\ ccq # <<>>
      /\ tpc = "poll"
  BY DEF IInv, TypeOK, Poll
<1>2. /\ UNCHANGED <<op, pc, elem, pendingReads, info, sq, toCome, local,
                     written, broken>>
      /\ Current' = Current /\ Waiting' = Waiting
      /\ CurrentRequest' = CurrentRequest
  BY DEF Poll, Current, Waiting, CurrentRequest
<1>3. TypeOK' /\ InOperation'
  BY <1>1, <1>2, CqThreadType DEF CqThread, InOperation
<1>4. SUFFICES ASSUME ~broken
               PROVE  FlagMeansComplete' /\ PendingReadsCounts' /\ FetchedSoFar'
  BY <1>2, <1>3 DEF IInv, FlagMeansComplete, FetchedSoFar, PendingReadsCounts
<1> DEFINE c == Head(ccq)
<1>5. /\ ccq' = Tail(ccq) /\ c \in Completion /\ c.ok
      /\ \A i \in 1..Len(ccq') : ccq'[i].ok
  <2>1. /\ Len(ccq) \in Nat \ {0} /\ Len(Tail(ccq)) = Len(ccq) - 1
        /\ Head(ccq) = ccq[1] /\ Head(ccq) \in Completion
        /\ \A i \in 1..Len(Tail(ccq)) : Tail(ccq)[i] = ccq[i + 1]
    BY <1>1, HeadTailProperties, EmptySeq
  <2>2. \A i \in 1..Len(ccq) : ccq[i].ok
    BY <1>1, <1>4 DEF FlagMeansComplete
  <2>3. 1 \in 1..Len(ccq)
        /\ \A i \in 1..Len(Tail(ccq)) : i + 1 \in 1..Len(ccq)
    BY <2>1
  <2> QED  BY <2>1, <2>2, <2>3 DEF Poll
<1>6. /\ wc'.opcode = c.opcode
      /\ (readComplete' <=> readComplete \/ c.opcode = "READ")
      /\ (writeComplete' <=> writeComplete \/ c.opcode = "WRITE")
      /\ (tpc' = "dec" <=> c.opcode = "READ")
  <2>1. wc'.opcode = c.opcode
    BY <1>5 DEF Poll, Seen
  <2>2. readComplete \in BOOLEAN /\ writeComplete \in BOOLEAN
    BY <1>1 DEF TypeOK
  <2> QED  BY <2>1, <2>2 DEF Poll
<1>7. /\ HowMany(ccq, {"READ"}) =
             HowMany(ccq, {"READ"})' + (IF c.opcode = "READ" THEN 1 ELSE 0)
      /\ HowMany(ccq, {"WRITE"}) =
             HowMany(ccq, {"WRITE"})' + (IF c.opcode = "WRITE" THEN 1 ELSE 0)
      /\ HowMany(sq, {"READ"})' = HowMany(sq, {"READ"})
      /\ HowMany(ccq, {"READ"})' \in Nat /\ HowMany(ccq, {"WRITE"})' \in Nat
      /\ HowMany(sq, {"READ"}) \in Nat
  <2>1. /\ HowMany(ccq, {"READ"})' = HowMany(Tail(ccq), {"READ"})
        /\ HowMany(ccq, {"WRITE"})' = HowMany(Tail(ccq), {"WRITE"})
        /\ HowMany(sq, {"READ"})' = HowMany(sq, {"READ"})
    BY <1>2, <1>5 DEF HowMany
  <2>2. Tail(ccq) \in Seq(Completion) /\ sq \in Seq(Request)
    BY <1>1, HeadTailProperties DEF TypeOK
  <2>3. /\ HowMany(Tail(ccq), {"READ"}) \in Nat
        /\ HowMany(Tail(ccq), {"WRITE"}) \in Nat
        /\ HowMany(sq, {"READ"}) \in Nat
    BY <2>2, HowManyType
  <2>4. /\ HowMany(ccq, {"READ"}) = HowMany(Tail(ccq), {"READ"})
               + (IF Head(ccq).opcode \in {"READ"} THEN 1 ELSE 0)
        /\ HowMany(ccq, {"WRITE"}) = HowMany(Tail(ccq), {"WRITE"})
               + (IF Head(ccq).opcode \in {"WRITE"} THEN 1 ELSE 0)
    BY <1>1, HowManyTail
  <2> QED  BY <2>1, <2>3, <2>4
<1> HIDE DEF c
<1>8. FlagMeansComplete'
  <2>1. CASE c.opcode \in {"READ", "WRITE"}
    <3>1. Reported /\ Waiting
      BY <1>1, <1>4, <1>7, <2>1 DEF FlagMeansComplete, NoneUnderWay, Requested
    <3>2. /\ c.opcode = IF Current = "write" THEN "WRITE" ELSE "READ"
          /\ NoneUnderWay'
      BY <1>2, <1>7, <2>1, <3>1 DEF Reported, NoneUnderWay
    <3>3. Complete'
      BY <1>2, <1>6, <3>2 DEF Complete
    <3>4. pc \notin {"post", "next", "return"}
      BY <3>1 DEF Waiting
    <3> QED  BY <1>2, <1>5, <1>6, <3>1, <3>2, <3>3, <3>4 DEF FlagMeansComplete
  <2>2. CASE c.opcode \notin {"READ", "WRITE"}
    <3>1. /\ HowMany(ccq, {"READ"})' = HowMany(ccq, {"READ"})
          /\ HowMany(ccq, {"WRITE"})' = HowMany(ccq, {"WRITE"})
          /\ (readComplete' <=> readComplete) /\ (writeComplete' <=> writeComplete)
          /\ tpc' # "dec"
      BY <1>6, <1>7, <2>2
    <3>2. /\ NoneUnderWay' <=> NoneUnderWay
          /\ Requested' <=> Requested
          /\ Reported' <=> Reported
          /\ Complete' <=> Complete
      BY <1>2, <3>1 DEF NoneUnderWay, Requested, Reported, Complete
    <3> QED  BY <1>1, <1>2, <1>4, <1>5, <3>1, <3>2 DEF FlagMeansComplete
  <2> QED  BY <2>1, <2>2
<1>9. PendingReadsCounts'
  <2>1. pendingReads = HowMany(sq, {"READ"}) + HowMany(ccq, {"READ"})
                       - (IF pc = "count" THEN 1 ELSE 0)
    BY <1>1, <1>4, <1>7 DEF PendingReadsCounts
  <2> QED  BY <1>2, <1>6, <1>7, <2>1 DEF PendingReadsCounts
<1>10. FetchedSoFar'
  BY <1>1, <1>2, <1>4 DEF FetchedSoFar, Cells
<1> QED  BY <1>8, <1>9, <1>10

\* An advertisement arrives: main() waits for none.
LEMMA DeliverAdvertIInv ==
    ASSUME IInv, DeliverAdvert
    PROVE  IInv'
<1> USE DEF mainVars, flagVars, cqVars
<1>1. /\ TypeOK /\ InOperation /\ FlagMeansComplete /\ FetchedSoFar
      /\ PendingReadsCounts /\ ccq \in Seq(Completion) /\ ~broken
      /\ toCome \in Seq(Region)
  BY DEF IInv, TypeOK, DeliverAdvert
<1>2. /\ UNCHANGED <<op, pc, elem, pendingReads, readComplete, writeComplete,
                     tpc, info, sq, local, written, broken>>
      /\ Current' = Current /\ Waiting' = Waiting
      /\ CurrentRequest' = CurrentRequest /\ Complete' = Complete
  BY DEF DeliverAdvert, Current, Waiting, CurrentRequest, Complete
<1>3. TypeOK' /\ InOperation'
  BY <1>1, <1>2, LinkType DEF InOperation
<1> DEFINE e == Received(Head(toCome))
<1>4. ccq' = Append(ccq, e) /\ e \in Completion /\ e.ok /\ e.opcode = "RECV"
  BY <1>1, HeadTailProperties, CompletionType DEF DeliverAdvert
<1> HIDE DEF e
<1>5. \A i \in 1..Len(ccq') : ccq'[i].ok
  <2>1. /\ Len(ccq) \in Nat /\ Len(ccq') = Len(ccq) + 1
        /\ ccq'[Len(ccq) + 1] = e
        /\ \A i \in 1..Len(ccq) : ccq'[i] = ccq[i]
    BY <1>1, <1>4, AppendProperties
  <2>2. \A i \in 1..Len(ccq') : i \in 1..Len(ccq) \/ i = Len(ccq) + 1
    BY <2>1
  <2>3. \A i \in 1..Len(ccq) : ccq[i].ok
    BY <1>1 DEF FlagMeansComplete
  <2> QED  BY <1>4, <2>1, <2>2, <2>3
<1>6. /\ HowMany(ccq, {"READ"})' = HowMany(ccq, {"READ"})
      /\ HowMany(ccq, {"WRITE"})' = HowMany(ccq, {"WRITE"})
      /\ HowMany(sq, {"READ"})' = HowMany(sq, {"READ"})
  <2>1. /\ HowMany(ccq, {"READ"})' = HowMany(Append(ccq, e), {"READ"})
        /\ HowMany(ccq, {"WRITE"})' = HowMany(Append(ccq, e), {"WRITE"})
        /\ HowMany(sq, {"READ"})' = HowMany(sq, {"READ"})
    BY <1>2, <1>4 DEF HowMany
  <2>2. /\ HowMany(Append(ccq, e), {"READ"}) = HowMany(ccq, {"READ"})
               + (IF e.opcode \in {"READ"} THEN 1 ELSE 0)
        /\ HowMany(Append(ccq, e), {"WRITE"}) = HowMany(ccq, {"WRITE"})
               + (IF e.opcode \in {"WRITE"} THEN 1 ELSE 0)
    BY <1>1, <1>4, HowManyAppend
  <2>3. HowMany(ccq, {"READ"}) \in Nat /\ HowMany(ccq, {"WRITE"}) \in Nat
    BY <1>1, HowManyType
  <2> QED  BY <1>4, <2>1, <2>2, <2>3
<1>7. FlagMeansComplete'
  <2>1. /\ NoneUnderWay' <=> NoneUnderWay
        /\ Requested' <=> Requested
        /\ Reported' <=> Reported
    BY <1>2, <1>6 DEF NoneUnderWay, Requested, Reported
  <2> QED  BY <1>1, <1>2, <1>5, <2>1 DEF FlagMeansComplete
<1>8. PendingReadsCounts'
  BY <1>1, <1>2, <1>6 DEF PendingReadsCounts
<1>9. FetchedSoFar'
  BY <1>1, <1>2 DEF FetchedSoFar, Cells
<1> QED  BY <1>3, <1>7, <1>8, <1>9 DEF IInv

\* The adapter executes the current request, and no other.
LEMMA ExecuteIsCurrent ==
    ASSUME IInv, Execute
    PROVE  /\ ~broken /\ Waiting /\ op <= Len(Program)
           /\ Requested /\ ~Complete
           /\ Head(sq).op = op /\ Head(sq).cell = CurrentRequest.cell
           /\ Head(sq).opcode = IF Current = "write" THEN "WRITE" ELSE "READ"
           /\ Tail(sq) = <<>>
<1>1. TypeOK /\ InOperation /\ FlagMeansComplete /\ ~broken /\ sq # <<>>
  BY DEF IInv, Execute
<1>2. Waiting /\ Requested /\ ~Complete
  BY <1>1 DEF FlagMeansComplete, NoneUnderWay, Reported
<1>3. op <= Len(Program)
  BY <1>1, <1>2 DEF InOperation, Waiting
<1> QED  BY <1>1, <1>2, <1>3, RequestedType

\* Its completion comes to the queue, and with it what it fetched or wrote.
LEMMA ExecuteIInv ==
    ASSUME IInv, Execute
    PROVE  IInv'
<1> USE DEF mainVars, flagVars, cqVars
<1>1. /\ TypeOK /\ InOperation /\ FlagMeansComplete /\ FetchedSoFar
      /\ PendingReadsCounts /\ ccq \in Seq(Completion) /\ ~broken
  BY DEF IInv, TypeOK, Execute
<1>2. /\ UNCHANGED <<op, pc, elem, pendingReads, readComplete, writeComplete,
                     tpc, info, broken>>
      /\ Current' = Current /\ Waiting' = Waiting
      /\ CurrentRequest' = CurrentRequest /\ Complete' = Complete
  BY DEF Execute, Current, Waiting, CurrentRequest, Complete
<1>3. TypeOK' /\ InOperation'
  BY <1>1, <1>2, LinkType DEF InOperation
<1>4. /\ Waiting /\ Requested /\ ~Complete /\ op <= Len(Program)
      /\ Head(sq).op = op /\ Head(sq).cell = CurrentRequest.cell
      /\ Head(sq).opcode = IF Current = "write" THEN "WRITE" ELSE "READ"
      /\ Tail(sq) = <<>>
  BY ExecuteIsCurrent
<1> DEFINE e == Completed(Head(sq).opcode)
<1>5. /\ ccq' = Append(ccq, e) /\ sq' = <<>> /\ e \in Completion /\ e.ok
      /\ e.opcode = IF Current = "write" THEN "WRITE" ELSE "READ"
  BY <1>4, CompletionType DEF Execute
<1> HIDE DEF e
<1>6. \A i \in 1..Len(ccq') : ccq'[i].ok
  <2>1. /\ Len(ccq) \in Nat /\ Len(ccq') = Len(ccq) + 1
        /\ ccq'[Len(ccq) + 1] = e
        /\ \A i \in 1..Len(ccq) : ccq'[i] = ccq[i]
    BY <1>1, <1>5, AppendProperties
  <2>2. \A i \in 1..Len(ccq') : i \in 1..Len(ccq) \/ i = Len(ccq) + 1
    BY <2>1
  <2>3. \A i \in 1..Len(ccq) : ccq[i].ok
    BY <1>1 DEF FlagMeansComplete
  <2> QED  BY <1>5, <2>1, <2>2, <2>3
<1>7. /\ HowMany(ccq, {"READ"})' = IF Current = "write" THEN 0 ELSE 1
      /\ HowMany(ccq, {"WRITE"})' = IF Current = "write" THEN 1 ELSE 0
      /\ HowMany(sq, {"READ"})' = 0
      /\ HowMany(ccq, {"READ"}) = 0
      /\ HowMany(sq, {"READ"}) = IF Current = "write" THEN 0 ELSE 1
  <2>1. /\ HowMany(ccq, {"READ"})' = HowMany(Append(ccq, e), {"READ"})
        /\ HowMany(ccq, {"WRITE"})' = HowMany(Append(ccq, e), {"WRITE"})
        /\ HowMany(sq, {"READ"})' = HowMany(<<>>, {"READ"})
    BY <1>5 DEF HowMany
  <2>2. /\ HowMany(Append(ccq, e), {"READ"}) = HowMany(ccq, {"READ"})
               + (IF e.opcode \in {"READ"} THEN 1 ELSE 0)
        /\ HowMany(Append(ccq, e), {"WRITE"}) = HowMany(ccq, {"WRITE"})
               + (IF e.opcode \in {"WRITE"} THEN 1 ELSE 0)
    BY <1>1, <1>5, HowManyAppend
  <2>3. HowMany(ccq, {"READ"}) = 0 /\ HowMany(ccq, {"WRITE"}) = 0
    BY <1>4 DEF Requested
  <2>4. HowMany(<<>>, {"READ"}) = 0
    BY HowManyEmpty
  <2>5. HowMany(sq, {"READ"}) = IF Current = "write" THEN 0 ELSE 1
    BY <1>1, <1>4, SendQueueCount
  <2> QED  BY <1>5, <2>1, <2>2, <2>3, <2>4, <2>5
<1>8. FlagMeansComplete'
  <2>1. Reported'
    BY <1>2, <1>5, <1>7 DEF Reported
  <2>2. pc \notin {"post", "next", "return"}
    BY <1>4 DEF Waiting
  <2> QED  BY <1>1, <1>2, <1>4, <1>6, <2>1, <2>2 DEF FlagMeansComplete
<1>9. PendingReadsCounts'
  BY <1>1, <1>2, <1>7 DEF PendingReadsCounts
<1>10. FetchedSoFar'
  <2>1. CurrentRequest \in Request /\ local \in [Cell -> 0..Len(Program)]
    BY <1>1, <1>4, RequestType DEF TypeOK
  <2>2. CurrentRequest.cell \in Cell
    BY <2>1 DEF Request
  <2>3. CASE Current = "write"
    <3>1. local' = local /\ written' = op
      BY <1>4, <2>3 DEF Execute
    <3>2. pc # "return"
      BY <1>4 DEF Waiting
    <3> QED  BY <1>2, <2>3, <3>1, <3>2 DEF FetchedSoFar
  <2>4. CASE Current # "write"
    <3>1. local' = [local EXCEPT ![CurrentRequest.cell] = op]
      BY <1>4, <2>4 DEF Execute
    <3>2. local'[CurrentRequest.cell] = op
          /\ \A c : local[c] = op /\ c \in Cell => local'[c] = op
      BY <2>1, <2>2, <3>1
    <3>3. \A i \in 1..elem - 1 : [kind |-> "sketch", index |-> i] \in Cell
      <4>1. elem \in 1..Elements /\ Elements \in Nat
        BY <1>1, ElementsAssumption DEF TypeOK
      <4>2. \A i \in 1..elem - 1 : i \in 1..Elements
        BY <4>1
      <4> QED  BY <4>2 DEF Cell
    <3>4. pc \notin {"return", "next"}
      BY <1>4 DEF Waiting
    <3>5. Current = "sweep" =>
              \A i \in 1..elem - 1 :
                  local[[kind |-> "sketch", index |-> i]] = op
      BY <1>1, <3>4 DEF FetchedSoFar
    <3> QED  BY <1>2, <2>4, <3>2, <3>3, <3>4, <3>5 DEF FetchedSoFar
  <2> QED  BY <2>3, <2>4
<1> QED  BY <1>3, <1>8, <1>9, <1>10 DEF IInv

\* Every step preserves the invariant.
LEMMA NextIInv == IInv /\ [Next]_vars => IInv'
<1> SUFFICES ASSUME IInv, [Next]_vars PROVE IInv'
  OBVIOUS
<1>1. CASE Main
  BY <1>1, MainIInv
<1>2. CASE CqThread
  BY <1>2, PollIInv, HandlerIInv DEF CqThread
<1>3. CASE DeliverAdvert
  BY <1>3, DeliverAdvertIInv
<1>4. CASE Execute
  BY <1>4, ExecuteIInv
<1>5. CASE Break
  <2>1. TypeOK'
    BY <1>5, LinkType
  <2>2. broken' /\ UNCHANGED <<op, pc, elem>>
    BY <1>5 DEF Break, mainVars
  <2>3. InOperation'
    BY <2>2 DEF IInv, InOperation, Current
  <2> QED  BY <2>1, <2>2, <2>3
           DEF IInv, FlagMeansComplete, FetchedSoFar, PendingReadsCounts
<1>6. CASE Refuse
  BY <1>5, <1>6 DEF Refuse
<1>7. CASE UNCHANGED vars
  <2>1. TypeOK' /\ InOperation'
    BY <1>7 DEF IInv, TypeOK, InOperation, Current,
                vars, mainVars, flagVars, cqVars, linkVars
  <2>2. FlagMeansComplete'
    BY <1>7 DEF IInv, FlagMeansComplete, Waiting, NoneUnderWay, Requested,
                Reported, Complete, CurrentRequest, Current, HowMany,
                vars, mainVars, flagVars, cqVars, linkVars
  <2>3. FetchedSoFar' /\ PendingReadsCounts'
    BY <1>7 DEF IInv, FetchedSoFar, PendingReadsCounts, Waiting, CurrentRequest,
                Current, HowMany, Cells,
                vars, mainVars, flagVars, cqVars, linkVars
  <2> QED  BY <2>1, <2>2, <2>3 DEF IInv
<1> QED  BY <1>1, <1>2, <1>3, <1>4, <1>5, <1>6, <1>7 DEF Next

-----------------------------------------------------------------------------
(* What the runs check, for every program and every size of the sketch.    *)

\* The invariant holds in every state: the completion flag is set when, and
\* only when, the one request has left both queues.
THEOREM Invariance == Spec => []IInv
<1>1. Init => IInv
  BY InitIInv
<1>2. IInv /\ [Next]_vars => IInv'
  BY NextIInv
<1> QED  BY <1>1, <1>2, PTL DEF Spec

\* pendingReads counts the reads under way, though rdma_read increments it
\* after the post and cq_thread may decrement it before.
THEOREM PendingReadsCountsHolds == Spec => []PendingReadsCounts
<1>1. IInv => PendingReadsCounts
  BY DEF IInv
<1> QED  BY <1>1, Invariance, PTL

\* ow_read's reset of the counter discards no read.
THEOREM SweepStartsCleanHolds == Spec => []SweepStartsClean
<1>1. ASSUME IInv PROVE SweepStartsClean
  <2>1. SUFFICES ASSUME At("next", "sweep"), ~broken
                 PROVE  /\ pendingReads = 0 /\ sq = <<>> /\ tpc # "dec"
                        /\ HowMany(ccq, {"READ", "WRITE"}) = 0
    BY DEF SweepStartsClean
  <2>2. pc = "next" /\ NoneUnderWay /\ tpc # "dec" /\ ccq \in Seq(Completion)
    BY <1>1, <2>1 DEF At, IInv, FlagMeansComplete, Waiting, TypeOK
  <2>3. HowMany(ccq, {"READ", "WRITE"}) = 0
    BY <2>2, HowManyBoth DEF NoneUnderWay
  <2>4. HowMany(sq, {"READ"}) = 0 /\ HowMany(ccq, {"READ"}) = 0
    BY <2>2, HowManyEmpty DEF NoneUnderWay
  <2>5. pendingReads = 0
    BY <1>1, <2>1, <2>2, <2>4 DEF IInv, PendingReadsCounts
  <2> QED  BY <2>2, <2>3, <2>5 DEF NoneUnderWay
<1> QED  BY <1>1, Invariance, PTL

\* No operation posts a request while another is under way, not even a sweep
\* whose counter has not gone back to zero.
THEOREM OneRequestAtATimeHolds == Spec => []OneRequestAtATime
<1>1. ASSUME IInv PROVE OneRequestAtATime
  <2>1. SUFFICES ASSUME ~broken
                 PROVE  Len(sq) + HowMany(ccq, {"READ", "WRITE"}) <= 1
    BY DEF OneRequestAtATime
  <2>2. NoneUnderWay \/ Requested \/ Reported
    BY <1>1, <2>1 DEF IInv, FlagMeansComplete
  <2>3. HowMany(ccq, {"READ", "WRITE"}) =
            HowMany(ccq, {"READ"}) + HowMany(ccq, {"WRITE"})
    BY <1>1, HowManyBoth DEF IInv, TypeOK
  <2>4. CASE sq = <<>>
    BY <2>2, <2>3, <2>4 DEF NoneUnderWay, Requested, Reported
  <2>5. CASE sq # <<>>
    <3>1. Requested
      BY <2>2, <2>5 DEF NoneUnderWay, Reported
    <3>2. Len(sq) = 1
      BY <3>1 DEF Requested
    <3> QED  BY <2>3, <3>1, <3>2 DEF Requested
  <2> QED  BY <2>4, <2>5
<1> QED  BY <1>1, Invariance, PTL

-----------------------------------------------------------------------------
(* The operations implement SyncOperations, step by step.                  *)

\* Nothing runs and nothing is fetched at first.
LEMMA InitSyncs == Init => Sync!Init
  BY DEF Init, Sync!Init

\* A step of main() begins an operation, returns from one, or is internal.
LEMMA MainSyncs ==
    ASSUME IInv, Main
    PROVE  [Sync!Next]_(Sync!syncVars)
<1> USE DEF mainVars, flagVars, cqVars, linkVars
<1>1. CASE BeginRead \/ BeginWrite \/ BeginSweep
  <2>1. /\ pc = "next" /\ pc' # "next" /\ op <= Len(Program)
        /\ UNCHANGED <<op, local, written, broken>>
    BY <1>1 DEF BeginRead, BeginWrite, BeginSweep, At
  <2>2. Sync!Begin
    BY <2>1 DEF Sync!Begin
  <2> QED  BY <2>2 DEF Sync!Next, Sync!Operate
<1>2. CASE Return
  <2>1. /\ pc = "return" /\ pc' = "next" /\ op' = op + 1
        /\ UNCHANGED <<local, written, broken>>
    BY <1>2 DEF Return
  <2>2. broken \/ Sync!Done
    BY <2>1 DEF IInv, FetchedSoFar, Sync!Done, Current
  <2>3. Sync!Return
    BY <2>1, <2>2 DEF Sync!Return
  <2> QED  BY <2>3 DEF Sync!Next, Sync!Operate
<1>3. CASE \/ BeginElement \/ Post \/ Count \/ WaitElement
           \/ WaitReads \/ WaitWrite
  <2>1. pc # "next" /\ pc' # "next" /\ UNCHANGED <<op, local, written, broken>>
    BY <1>3 DEF BeginElement, Post, Count, WaitElement, WaitReads, WaitWrite
  <2> QED  BY <2>1 DEF Sync!syncVars
<1> QED  BY <1>1, <1>2, <1>3 DEF Main

\* What the adapter executes is a fetch or the write of the operation that
\* runs.
LEMMA ExecuteSyncs ==
    ASSUME IInv, Execute
    PROVE  Sync!Next
<1>1. /\ ~broken /\ Waiting /\ op <= Len(Program)
      /\ Head(sq).op = op /\ Head(sq).cell = CurrentRequest.cell
      /\ Head(sq).opcode = IF Current = "write" THEN "WRITE" ELSE "READ"
  BY ExecuteIsCurrent
<1>2. /\ pc # "next" /\ UNCHANGED <<op, pc, broken>>
  BY <1>1 DEF Execute, Waiting, mainVars
<1>3. CASE Current = "write"
  <2>1. local' = local /\ written' = op
    BY <1>1, <1>3 DEF Execute
  <2>2. Sync!Write
    BY <1>1, <1>2, <1>3, <2>1 DEF Sync!Write, Current
  <2> QED  BY <2>2 DEF Sync!Next, Sync!Operate
<1>4. CASE Current # "write"
  <2> DEFINE c == CurrentRequest.cell
  <2>1. local' = [local EXCEPT ![c] = op] /\ written' = written
    BY <1>1, <1>4 DEF Execute
  <2>2. c \in Cells(Current) /\ c \in Cell
    BY <1>1, <1>4, RequestType DEF IInv, Request
  <2> HIDE DEF c
  <2>3. Sync!Fetch(c)
    BY <1>1, <1>2, <2>1, <2>2 DEF Sync!Fetch, Current
  <2> QED  BY <2>2, <2>3 DEF Sync!Next, Sync!Operate
<1> QED  BY <1>3, <1>4

\* Every step is a step of SyncOperations or leaves it unchanged.
LEMMA NextSyncs ==
    ASSUME IInv, [Next]_vars
    PROVE  [Sync!Next]_(Sync!syncVars)
<1>1. CASE Main
  BY <1>1, MainSyncs
<1>2. CASE CqThread \/ DeliverAdvert
  <2>1. UNCHANGED <<op, pc, local, written, broken>>
    BY <1>2 DEF CqThread, Poll, Decrement, ParseAddress, ParseRest,
                DeliverAdvert, mainVars, linkVars
  <2> QED  BY <2>1 DEF Sync!syncVars
<1>3. CASE Execute
  BY <1>3, ExecuteSyncs
<1>4. CASE Break \/ Refuse
  <2>1. broken' = TRUE /\ UNCHANGED <<op, pc, local, written>>
    BY <1>4 DEF Break, Refuse, mainVars
  <2>2. Sync!Lose
    BY <2>1 DEF Sync!Lose
  <2> QED  BY <2>2 DEF Sync!Next
<1>5. CASE UNCHANGED vars
  <2>1. UNCHANGED <<op, pc, local, written, broken>>
    BY <1>5 DEF vars, mainVars, linkVars
  <2> QED  BY <2>1 DEF Sync!syncVars
<1> QED  BY <1>1, <1>2, <1>3, <1>4, <1>5 DEF Next

\* While the connection holds, no call returns before what it reads was
\* fetched by that very call, or before its write was executed: the safety
\* half of ImplementsSync.
THEOREM SyncsSafely ==
    Spec => Sync!Init /\ [][Sync!Next]_(Sync!syncVars)
<1>1. Init => Sync!Init
  BY InitSyncs
<1>2. IInv /\ [Next]_vars => [Sync!Next]_(Sync!syncVars)
  BY NextSyncs
<1> QED  BY <1>1, <1>2, Invariance, PTL DEF Spec

-----------------------------------------------------------------------------
(* Nobody waits for ever.  That every call returns is a liveness property,  *)
(* which the prover does not reach; but what makes it true is proved here   *)
(* for every program and every size of the sketch: while the connection     *)
(* holds, main(), cq_thread or an adapter can go on until the program is at *)
(* its end, and they cannot do so for ever, because every step leaves fewer *)
(* steps to take.                                                           *)

\* Whether a thread or an adapter can take a step: the guards of the actions.
CanGoOn ==
    \/ pc = "next" /\ op <= Len(Program)
                   /\ (Current = "class" => info["class"] = "set")
    \/ pc \in {"element", "post", "count", "return"}
    \/ pc = "waitElement" /\ readComplete
    \/ pc = "waitReads" /\ pendingReads <= 0
    \/ pc = "waitWrite" /\ writeComplete
    \/ tpc = "poll" /\ ccq # <<>>
    \/ tpc # "poll"
    \/ toCome # <<>> /\ ReceivePosted /\ ~broken
    \/ sq # <<>> /\ ~broken

\* The advertisement of a region that the client does not know is still to
\* come, waits in the completion queue or is with recv_handler.
AdvertComes ==
    ~broken =>
        \A r \in Region :
            \/ info[r] = "set"
            \/ \E i \in 1..Len(toCome) : toCome[i] = r
            \/ \E i \in 1..Len(ccq) : ccq[i] = Received(r)
            \/ tpc \in {"parse", "flag"} /\ wc.tag = r

\* The steps that main() has left in its operation, with the four steps of
\* each request it has still to post; and those in the operations to come.
OperationSteps == 8 * Elements + 3
MainLeft ==
    LET toSweep == 8 * (Elements - elem)
    IN  CASE pc = "element"     -> 10 + toSweep
          [] pc = "post"        -> 9 + toSweep
          [] pc = "count"       -> 4 + toSweep
          [] pc = "waitElement" -> 3 + toSweep
          [] pc = "waitReads"   -> 2
          [] pc = "waitWrite"   -> 2
          [] pc = "return"      -> 1
          [] OTHER              -> 0
OperationsLeft == IF pc = "next" THEN Len(Program) + 1 - op
                                 ELSE Len(Program) - op

\* The steps that cq_thread has left with a completion.
ThreadLeft == CASE tpc = "parse" -> 2 [] tpc \in {"flag", "dec"} -> 1
                [] OTHER -> 0

\* An advertisement or a request is delivered or executed, polled and handled.
StepsUnderWay ==
    MainLeft + ThreadLeft + 3 * Len(ccq) + 4 * Len(sq) + 4 * Len(toCome)
StepsLeft == OperationsLeft * OperationSteps + StepsUnderWay

\* No action but the break of the link has another guard.
LEMMA StepsAreGuarded ==
    ASSUME Main \/ CqThread \/ DeliverAdvert \/ Execute \/ (Refuse /\ ~broken)
    PROVE  CanGoOn
<1>1. Main => CanGoOn
  BY DEF Main, BeginRead, BeginWrite, BeginSweep, BeginElement, Post, Count,
         WaitElement, WaitReads, WaitWrite, Return, At, CanGoOn
<1>2. CqThread => CanGoOn
  BY DEF CqThread, Poll, Decrement, ParseAddress, ParseRest, CanGoOn
<1>3. DeliverAdvert \/ Execute \/ (Refuse /\ ~broken) => CanGoOn
  BY DEF DeliverAdvert, Execute, Refuse, CanGoOn
<1> QED  BY <1>1, <1>2, <1>3

\* Neither advertisement has arrived when start() returns.
LEMMA InitAdvertComes == Init => AdvertComes
<1>1. Init => toCome[1] = "class" /\ toCome[2] = "sketch" /\ Len(toCome) = 2
  BY DEF Init
<1>2. 1 \in 1..2 /\ 2 \in 1..2
  OBVIOUS
<1> QED  BY <1>1, <1>2 DEF AdvertComes, Region

\* Polled, it is with recv_handler; the others stay in the queue.
LEMMA PollAdvertComes ==
    ASSUME IInv, AdvertComes, Poll
    PROVE  AdvertComes'
<1> USE DEF mainVars
<1>1. /\ ccq \in Seq(Completion) /\ ccq # <<>> /\ ccq' = Tail(ccq)
      /\ UNCHANGED <<info, toCome, broken>> /\ tpc = "poll"
  BY DEF IInv, TypeOK, Poll
<1>2. /\ Len(ccq) \in Nat \ {0} /\ Len(Tail(ccq)) = Len(ccq) - 1
      /\ Head(ccq) = ccq[1]
      /\ \A i \in 1..Len(Tail(ccq)) : Tail(ccq)[i] = ccq[i + 1]
  BY <1>1, HeadTailProperties, EmptySeq
<1>3. SUFFICES ASSUME ~broken, NEW r \in Region,
                      NEW i \in 1..Len(ccq), ccq[i] = Received(r)
               PROVE  \/ \E k \in 1..Len(ccq') : ccq'[k] = Received(r)
                      \/ tpc' \in {"parse", "flag"} /\ wc'.tag = r
  BY <1>1 DEF AdvertComes
<1>4. CASE i = 1
  <2>1. wc' = [opcode |-> "RECV", tag |-> r]
    BY <1>2, <1>3, <1>4 DEF Poll, Seen, Received
  <2> QED  BY <2>1 DEF Poll
<1>5. CASE i # 1
  <2>1. /\ i - 1 \in 1..Len(Tail(ccq)) /\ (i - 1) + 1 = i
    BY <1>2, <1>5
  <2>2. Tail(ccq)[i - 1] = Received(r)
    BY <1>2, <1>3, <2>1
  <2> QED  BY <1>1, <2>1, <2>2
<1> QED  BY <1>4, <1>5

\* recv_handler takes it over; no other handler touches an advertisement.
LEMMA HandlerAdvertComes ==
    ASSUME IInv, AdvertComes, Decrement \/ ParseAddress \/ ParseRest
    PROVE  AdvertComes'
<1> USE DEF mainVars, flagVars, linkVars
<1>1. /\ UNCHANGED <<wc, toCome, broken>>
      /\ ~broken => ccq' = ccq
      /\ info \in [Region -> {"unset", "torn", "set"}]
  BY DEF Decrement, ParseAddress, ParseRest, IInv, TypeOK
<1>2. SUFFICES ASSUME ~broken, NEW r \in Region,
                      \/ info[r] = "set"
                      \/ tpc \in {"parse", "flag"} /\ wc.tag = r
               PROVE  \/ info'[r] = "set"
                      \/ tpc' \in {"parse", "flag"} /\ wc'.tag = r
  BY <1>1 DEF AdvertComes
<1>3. CASE Decrement
  BY <1>2, <1>3 DEF Decrement
<1>4. CASE ParseAddress
  <2>1. info[r] = "set" => info'[r] = "set"
    BY <1>2, <1>4 DEF ParseAddress
  <2> QED  BY <1>1, <1>2, <1>4, <2>1 DEF ParseAddress
<1>5. CASE ParseRest
  <2>1. info'[r] = IF r = wc.tag THEN "set" ELSE info[r]
    BY <1>2, <1>5 DEF ParseRest
  <2> QED  BY <1>2, <2>1
<1> QED  BY <1>3, <1>4, <1>5

\* A completion appended to the queue leaves the advertisements in it.
LEMMA AppendAdvertComes ==
    ASSUME ccq \in Seq(Completion), NEW e \in Completion,
           ccq' = Append(ccq, e), NEW r,
           \E i \in 1..Len(ccq) : ccq[i] = r
    PROVE  \E i \in 1..Len(ccq') : ccq'[i] = r
<1>1. PICK i \in 1..Len(ccq) : ccq[i] = r
  OBVIOUS
<1>2. /\ Len(ccq) \in Nat /\ Len(ccq') = Len(ccq) + 1
      /\ ccq'[i] = ccq[i]
  BY AppendProperties, LenProperties
<1>3. i \in 1..Len(ccq')
  BY <1>2
<1> QED  BY <1>1, <1>2, <1>3

\* The adapter puts it into the completion queue.
LEMMA LinkAdvertComes ==
    ASSUME IInv, AdvertComes, DeliverAdvert \/ Execute
    PROVE  AdvertComes'
<1> USE DEF mainVars, flagVars, cqVars
<1>1. /\ ccq \in Seq(Completion) /\ toCome \in Seq(Region)
      /\ sq \in Seq(Request)
      /\ UNCHANGED <<info, tpc, wc, broken>> /\ ~broken
  BY DEF IInv, TypeOK, DeliverAdvert, Execute
<1>2. SUFFICES ASSUME NEW r \in Region,
                      \/ \E i \in 1..Len(toCome) : toCome[i] = r
                      \/ \E i \in 1..Len(ccq) : ccq[i] = Received(r)
               PROVE  \/ \E i \in 1..Len(toCome') : toCome'[i] = r
                      \/ \E i \in 1..Len(ccq') : ccq'[i] = Received(r)
  BY <1>1 DEF AdvertComes
<1>3. CASE Execute
  <2> DEFINE e == Completed(Head(sq).opcode)
  <2>1. ccq' = Append(ccq, e) /\ toCome' = toCome
    BY <1>3 DEF Execute
  <2>2. e \in Completion
    <3>1. Head(sq) \in Request
      BY <1>1, <1>3, HeadTailProperties DEF Execute
    <3>2. Head(sq).opcode \in {"READ", "WRITE"}
      BY <3>1 DEF Request
    <3> QED  BY <3>2, CompletionType
  <2> HIDE DEF e
  <2> QED  BY <1>1, <1>2, <2>1, <2>2, AppendAdvertComes
<1>4. CASE DeliverAdvert
  <2> DEFINE e == Received(Head(toCome))
  <2>1. /\ toCome # <<>> /\ toCome' = Tail(toCome)
        /\ ccq' = Append(ccq, e)
    BY <1>4 DEF DeliverAdvert
  <2>2. /\ Len(toCome) \in Nat \ {0} /\ Len(Tail(toCome)) = Len(toCome) - 1
        /\ Head(toCome) = toCome[1] /\ Head(toCome) \in Region
        /\ \A i \in 1..Len(Tail(toCome)) : Tail(toCome)[i] = toCome[i + 1]
    BY <1>1, <2>1, HeadTailProperties, EmptySeq
  <2>3. e \in Completion
    BY <2>2, CompletionType
  <2>4. /\ Len(ccq) \in Nat /\ Len(ccq') = Len(ccq) + 1
        /\ ccq'[Len(ccq) + 1] = e
    <3> HIDE DEF e
    <3> QED  BY <1>1, <2>1, <2>3, AppendProperties, LenProperties
  <2>5. CASE \E i \in 1..Len(ccq) : ccq[i] = Received(r)
    <3> HIDE DEF e
    <3> QED  BY <1>1, <2>1, <2>3, <2>5, AppendAdvertComes
  <2>6. ASSUME NEW i \in 1..Len(toCome), toCome[i] = r
        PROVE  \/ \E k \in 1..Len(toCome') : toCome'[k] = r
               \/ \E k \in 1..Len(ccq') : ccq'[k] = Received(r)
    <3>1. CASE i = 1
      <4>1. e = Received(r)
        BY <2>2, <2>6, <3>1
      <4>2. Len(ccq) + 1 \in 1..Len(ccq')
        BY <2>4
      <4> QED  BY <2>4, <4>1, <4>2
    <3>2. CASE i # 1
      <4>1. i - 1 \in 1..Len(Tail(toCome)) /\ (i - 1) + 1 = i
        BY <2>2, <3>2
      <4>2. Tail(toCome)[i - 1] = r
        BY <2>2, <2>6, <4>1
      <4> QED  BY <2>1, <4>1, <4>2
    <3> QED  BY <3>1, <3>2
  <2> QED  BY <1>2, <2>5, <2>6
<1> QED  BY <1>3, <1>4

\* Every step keeps an advertisement until the client knows the address.
LEMMA NextAdvertComes ==
    ASSUME IInv, AdvertComes, [Next]_vars
    PROVE  AdvertComes'
<1>1. CASE Main
  <2>1. /\ UNCHANGED <<info, toCome, tpc, wc, broken>>
        /\ ~broken => ccq' = ccq
    BY <1>1 DEF Main, BeginRead, BeginWrite, BeginSweep, BeginElement, Post,
                Count, WaitElement, WaitReads, WaitWrite, Return,
                flagVars, cqVars, linkVars
  <2> QED  BY <2>1 DEF AdvertComes
<1>2. CASE CqThread
  BY <1>2, PollAdvertComes, HandlerAdvertComes DEF CqThread
<1>3. CASE DeliverAdvert \/ Execute
  BY <1>3, LinkAdvertComes
<1>4. CASE Break \/ Refuse
  BY <1>4 DEF Break, Refuse, AdvertComes
<1>5. CASE UNCHANGED vars
  BY <1>5 DEF AdvertComes, vars, cqVars, linkVars
<1> QED  BY <1>1, <1>2, <1>3, <1>4, <1>5 DEF Next

\* With nothing in the queues and nothing to come, main() does not wait.
LEMMA NothingToWaitFor ==
    ASSUME IInv, AdvertComes, ~broken
    PROVE  op = Len(Program) + 1 \/ CanGoOn
<1>1. SUFFICES ASSUME op # Len(Program) + 1, ~CanGoOn
               PROVE  FALSE
  OBVIOUS
<1>2. /\ TypeOK /\ InOperation /\ FlagMeansComplete /\ PendingReadsCounts
  BY DEF IInv
<1>3. op <= Len(Program)
  <2>1. Len(Program) \in Nat /\ op \in 1..Len(Program) + 1
    BY <1>2, ProgramAssumption, LenProperties DEF TypeOK
  <2> QED  BY <1>1, <2>1
<1>4. tpc = "poll" /\ ccq = <<>> /\ sq = <<>>
  BY <1>1 DEF CanGoOn
<1>5. toCome = <<>>
  <2>1. ReceivePosted
    BY <1>4 DEF ReceivePosted
  <2> QED  BY <1>1, <2>1 DEF CanGoOn
<1>6. \A r \in Region : info[r] = "set"
  BY <1>4, <1>5 DEF AdvertComes
<1>7. pc \in {"waitElement", "waitReads", "waitWrite"}
  BY <1>1, <1>2, <1>3, <1>6 DEF CanGoOn, TypeOK, Region
<1>8. Complete /\ pendingReads = 0
  <2>1. /\ HowMany(ccq, {"READ"}) = 0 /\ HowMany(ccq, {"WRITE"}) = 0
        /\ HowMany(sq, {"READ"}) = 0
    BY <1>4, HowManyEmpty
  <2>2. Waiting
    BY <1>7 DEF Waiting
  <2>3. ~Reported
    BY <2>1 DEF Reported
  <2>4. ~Requested
    BY <1>4 DEF Requested
  <2>5. Complete
    BY <1>2, <2>2, <2>3, <2>4 DEF FlagMeansComplete
  <2>6. pendingReads = 0
    BY <1>2, <1>4, <1>7, <2>1 DEF PendingReadsCounts
  <2> QED  BY <2>5, <2>6
<1>9. CASE pc = "waitElement"
  BY <1>1, <1>2, <1>8, <1>9 DEF CanGoOn, InOperation, Complete
<1>10. CASE pc = "waitReads"
  BY <1>1, <1>8, <1>10 DEF CanGoOn
<1>11. CASE pc = "waitWrite"
  BY <1>1, <1>2, <1>8, <1>11 DEF CanGoOn, InOperation, Complete
<1> QED  BY <1>7, <1>9, <1>10, <1>11

\* While the connection holds no wait of main() is for ever: not for the flag
\* or the counter that cq_thread may have changed before, not for the address
\* of the class, which comes on the same queue as the reads before it.
THEOREM OperationsNeverHang ==
    Spec => [](~broken => op = Len(Program) + 1 \/ CanGoOn)
<1>1. Init => AdvertComes
  BY InitAdvertComes
<1>2. IInv /\ AdvertComes /\ [Next]_vars => AdvertComes'
  BY NextAdvertComes
<1>3. IInv /\ AdvertComes => (~broken => op = Len(Program) + 1 \/ CanGoOn)
  BY NothingToWaitFor
<1> QED  BY <1>1, <1>2, <1>3, Invariance, PTL DEF Spec

\* One operation less to come.
LEMMA OneLess ==
    ASSUME NEW n \in Int, NEW w \in Int
    PROVE  (n - 1) * w = n * w - w /\ n * w \in Int
  OBVIOUS

\* Each part of the measure is a number.
LEMMA StepsType ==
    ASSUME TypeOK, InOperation
    PROVE  /\ OperationSteps \in Nat /\ OperationSteps = 8 * Elements + 3
           /\ OperationsLeft \in Nat /\ MainLeft \in Nat /\ ThreadLeft \in Nat
           /\ OperationsLeft * OperationSteps \in Nat
           /\ Len(ccq) \in Nat /\ Len(sq) \in Nat /\ Len(toCome) \in Nat
           /\ elem \in 1..Elements /\ Elements \in Nat
           /\ op \in Nat /\ Len(Program) \in Nat
           /\ StepsUnderWay \in Nat /\ StepsLeft \in Nat
<1>1. elem \in 1..Elements /\ Elements \in Nat /\ op \in 1..Len(Program) + 1
  BY ElementsAssumption DEF TypeOK
<1>2. /\ Len(ccq) \in Nat /\ Len(sq) \in Nat /\ Len(toCome) \in Nat
      /\ Len(Program) \in Nat
  BY ProgramAssumption, LenProperties DEF TypeOK
<1>3. OperationSteps \in Nat /\ OperationSteps = 8 * Elements + 3
  BY <1>1 DEF OperationSteps
<1>4. OperationsLeft \in Nat
  BY <1>1, <1>2 DEF OperationsLeft, InOperation
<1>5. ThreadLeft \in Nat
  BY DEF ThreadLeft
<1>6. MainLeft \in Nat
  <2>1. 8 * (Elements - elem) \in Nat
    BY <1>1
  <2> QED  BY <2>1 DEF MainLeft
<1>7. OperationsLeft * OperationSteps \in Nat
  <2>1. \A m, n \in Nat : m * n \in Nat
    OBVIOUS
  <2> QED  BY <1>3, <1>4, <2>1
<1>8. StepsUnderWay \in Nat
  <2>1. 3 * Len(ccq) \in Nat /\ 4 * Len(sq) \in Nat /\ 4 * Len(toCome) \in Nat
    BY <1>2
  <2> QED  BY <1>5, <1>6, <2>1 DEF StepsUnderWay
<1>9. StepsLeft \in Nat
  BY <1>7, <1>8 DEF StepsLeft
<1> QED  BY <1>1, <1>2, <1>3, <1>4, <1>5, <1>6, <1>7, <1>8, <1>9

\* main() begins an operation.
LEMMA BeginShortens ==
    ASSUME TypeOK, InOperation, BeginRead \/ BeginWrite \/ BeginSweep
    PROVE  StepsLeft' < StepsLeft
<1>0. /\ OperationSteps \in Nat /\ OperationSteps = 8 * Elements + 3
      /\ OperationsLeft \in Nat /\ MainLeft \in Nat /\ ThreadLeft \in Nat
      /\ OperationsLeft * OperationSteps \in Nat
      /\ Len(ccq) \in Nat /\ Len(sq) \in Nat /\ Len(toCome) \in Nat
      /\ elem \in 1..Elements /\ Elements \in Nat
      /\ op \in Nat /\ Len(Program) \in Nat
  BY StepsType
<1>1. /\ UNCHANGED <<op, tpc, ccq, sq, toCome>> /\ pc = "next"
      /\ \/ pc' = "post" /\ elem' = elem
         \/ pc' = "element" /\ elem' = 1
  BY DEF BeginRead, BeginWrite, BeginSweep, At, cqVars, linkVars
<1>2. OperationsLeft' = OperationsLeft - 1 /\ OperationSteps' = OperationSteps
  BY <1>0, <1>1 DEF OperationsLeft, OperationSteps
<1>3. OperationsLeft' * OperationSteps'
          = OperationsLeft * OperationSteps - OperationSteps
  BY <1>0, <1>2, OneLess
<1>4. MainLeft = 0 /\ MainLeft' <= 8 * Elements + 2 /\ MainLeft' \in Int
  <2>1. MainLeft = 0
    BY <1>1 DEF MainLeft
  <2>2. elem' \in 1..Elements
    BY <1>0, <1>1, ElementsAssumption
  <2>3. /\ 8 * (Elements - elem') <= 8 * (Elements - 1)
        /\ 8 * (Elements - elem') \in Int
    <3>1. \A n \in Nat : \A e \in 1..n :
              8 * (n - e) <= 8 * (n - 1) /\ 8 * (n - e) \in Int
      OBVIOUS
    <3>2. Elements \in Nat
      BY ElementsAssumption
    <3> QED  BY <2>2, <3>1, <3>2
  <2>4. CASE pc' = "post"
    <3>1. MainLeft' = 9 + 8 * (Elements - elem')
      BY <2>4 DEF MainLeft
    <3> QED  BY <1>0, <2>1, <2>3, <3>1
  <2>5. CASE pc' = "element"
    <3>1. MainLeft' = 10 + 8 * (Elements - elem')
      BY <2>5 DEF MainLeft
    <3> QED  BY <1>0, <2>1, <2>3, <3>1
  <2> QED  BY <1>1, <2>4, <2>5
<1>5. /\ ThreadLeft' = ThreadLeft /\ Len(ccq') = Len(ccq)
      /\ Len(sq') = Len(sq) /\ Len(toCome') = Len(toCome)
  BY <1>1 DEF ThreadLeft
<1>6. StepsUnderWay' = StepsUnderWay + MainLeft'
      /\ StepsUnderWay \in Int
  <2>1. /\ MainLeft \in Int /\ ThreadLeft \in Int
        /\ Len(ccq) \in Int /\ Len(sq) \in Int /\ Len(toCome) \in Int
    BY <1>0
  <2>2. MainLeft = 0 /\ MainLeft' \in Int
    BY <1>4
  <2> QED  BY <1>5, <2>1, <2>2 DEF StepsUnderWay
<1>7. OperationsLeft * OperationSteps \in Int /\ OperationSteps \in Int
  BY <1>0
<1>8. MainLeft' < OperationSteps
  BY <1>0, <1>4
<1> QED  BY <1>3, <1>4, <1>6, <1>7, <1>8 DEF StepsLeft

\* A step within an operation, or of cq_thread or an adapter, shortens what is
\* under way.
LEMMA WithinShortens ==
    ASSUME TypeOK, InOperation, OperationsLeft' = OperationsLeft,
           StepsUnderWay' < StepsUnderWay, StepsUnderWay' \in Int
    PROVE  StepsLeft' < StepsLeft
<1>1. OperationsLeft * OperationSteps \in Nat /\ StepsUnderWay \in Nat
  BY StepsType
<1>2. OperationsLeft' * OperationSteps' = OperationsLeft * OperationSteps
  BY DEF OperationSteps
<1> QED  BY <1>1, <1>2 DEF StepsLeft

\* The requests of the sweep's elements after this one.
LEMMA ToSweep ==
    ASSUME TypeOK
    PROVE  /\ 8 * (Elements - elem) \in Nat
           /\ elem < Elements =>
                  8 * (Elements - (elem + 1)) = 8 * (Elements - elem) - 8
<1>1. \A n \in Nat : \A e \in 1..n :
          8 * (n - e) \in Nat /\ 8 * (n - (e + 1)) = 8 * (n - e) - 8
  OBVIOUS
<1>2. Elements \in Nat /\ elem \in 1..Elements
  BY ElementsAssumption DEF TypeOK
<1> QED  BY <1>1, <1>2

\* main() goes on in an operation or returns from it.
LEMMA OperationShortens ==
    ASSUME TypeOK, InOperation, ~broken,
           BeginElement \/ Post \/ Count \/ WaitElement \/ WaitReads
               \/ WaitWrite \/ Return
    PROVE  StepsLeft' < StepsLeft
<1> USE DEF cqVars
<1> DEFINE k == 8 * (Elements - elem)
<1>0. /\ MainLeft \in Nat /\ ThreadLeft \in Nat /\ k \in Nat
      /\ Len(ccq) \in Nat /\ Len(sq) \in Nat /\ Len(toCome) \in Nat
      /\ op \in Nat /\ Len(Program) \in Nat
  BY StepsType, ToSweep
<1>numbers. /\ MainLeft \in Int /\ ThreadLeft \in Int
      /\ Len(ccq) \in Int /\ Len(sq) \in Int /\ Len(toCome) \in Int
  BY <1>0
<1>1. UNCHANGED <<tpc, ccq, toCome>>
  BY DEF BeginElement, Post, Count, WaitElement, WaitReads, WaitWrite, Return,
         linkVars
<1>2. /\ ThreadLeft' = ThreadLeft /\ Len(ccq') = Len(ccq)
      /\ Len(toCome') = Len(toCome)
  BY <1>1 DEF ThreadLeft
<1>3. OperationsLeft' = OperationsLeft
  <2>1. CASE Return
    <3>1. /\ pc = "return" /\ pc' = "next" /\ op' = op + 1
      BY <2>1 DEF Return
    <3> QED  BY <1>0, <3>1 DEF OperationsLeft
  <2>2. CASE ~Return
    <3>1. pc # "next" /\ pc' # "next" /\ op' = op
      BY <2>2 DEF BeginElement, Post, Count, WaitElement, WaitReads, WaitWrite
    <3> QED  BY <3>1 DEF OperationsLeft
  <2> QED  BY <2>1, <2>2
<1>4. CASE Post
  <2>1. Len(sq') = Len(sq) + 1
    <3>1. CurrentRequest \in Request /\ sq \in Seq(Request)
      BY <1>4, RequestType DEF Post, InOperation, TypeOK
    <3>2. sq' = Append(sq, CurrentRequest)
      BY <1>4 DEF Post
    <3> QED  BY <3>1, <3>2, AppendProperties
  <2>2. MainLeft' <= MainLeft - 5 /\ MainLeft' \in Int
    <3>1. MainLeft = 9 + k
      BY <1>4 DEF Post, MainLeft
    <3>2. MainLeft' = 2 \/ MainLeft' = 4 + k
      BY <1>4 DEF Post, MainLeft
    <3> HIDE DEF k
    <3> QED  BY <1>0, <3>1, <3>2
  <2>3. StepsUnderWay' < StepsUnderWay /\ StepsUnderWay' \in Int
    BY <1>numbers, <1>2, <2>1, <2>2 DEF StepsUnderWay
  <2> QED  BY <1>3, <2>3, WithinShortens
<1>5. CASE ~Post
  <2>1. Len(sq') = Len(sq)
    BY <1>5 DEF BeginElement, Count, WaitElement, WaitReads, WaitWrite, Return,
                linkVars
  <2>2. MainLeft' < MainLeft /\ MainLeft' \in Int
    <3>1. CASE BeginElement
      <4>1. MainLeft = 10 + k /\ MainLeft' = 9 + k
        BY <3>1 DEF BeginElement, MainLeft
      <4> HIDE DEF k
      <4> QED  BY <1>0, <4>1
    <3>2. CASE Count
      <4>1. MainLeft = 4 + k /\ (MainLeft' = 3 + k \/ MainLeft' = 2)
        BY <3>2 DEF Count, MainLeft
      <4> HIDE DEF k
      <4> QED  BY <1>0, <4>1
    <3>3. CASE WaitElement /\ elem < Elements
      <4>1. /\ MainLeft = 3 + k
            /\ MainLeft' = 10 + 8 * (Elements - (elem + 1))
        BY <3>3 DEF WaitElement, MainLeft
      <4>2. 8 * (Elements - (elem + 1)) = k - 8
        BY <3>3, ToSweep
      <4> HIDE DEF k
      <4> QED  BY <1>0, <4>1, <4>2
    <3>4. CASE WaitElement /\ ~(elem < Elements)
      <4>1. MainLeft = 3 + k /\ MainLeft' = 2
        BY <3>4 DEF WaitElement, MainLeft
      <4> HIDE DEF k
      <4> QED  BY <1>0, <4>1
    <3>5. CASE WaitReads \/ WaitWrite
      <4>1. MainLeft = 2 /\ MainLeft' = 1
        BY <3>5 DEF WaitReads, WaitWrite, MainLeft
      <4> QED  BY <4>1
    <3>6. CASE Return
      <4>1. MainLeft = 1 /\ MainLeft' = 0
        BY <3>6 DEF Return, MainLeft
      <4> QED  BY <4>1
    <3> QED  BY <1>5, <3>1, <3>2, <3>3, <3>4, <3>5, <3>6
  <2>3. StepsUnderWay' < StepsUnderWay /\ StepsUnderWay' \in Int
    BY <1>numbers, <1>2, <2>1, <2>2 DEF StepsUnderWay
  <2> QED  BY <1>3, <2>3, WithinShortens
<1> QED  BY <1>4, <1>5

\* cq_thread handles a completion, or an adapter reports one.
LEMMA CompletionShortens ==
    ASSUME IInv, ~broken, CqThread \/ DeliverAdvert \/ Execute
    PROVE  StepsLeft' < StepsLeft
<1> USE DEF mainVars, flagVars, cqVars
<1>0. /\ MainLeft \in Nat /\ ThreadLeft \in Nat
      /\ Len(ccq) \in Nat /\ Len(sq) \in Nat /\ Len(toCome) \in Nat
      /\ ccq \in Seq(Completion) /\ sq \in Seq(Request)
      /\ toCome \in Seq(Region)
  BY StepsType DEF IInv, TypeOK
<1>numbers. /\ MainLeft \in Int /\ ThreadLeft \in Int
      /\ Len(ccq) \in Int /\ Len(sq) \in Int /\ Len(toCome) \in Int
  BY <1>0
<1>1. UNCHANGED <<op, pc, elem>>
  BY DEF CqThread, Poll, Decrement, ParseAddress, ParseRest, DeliverAdvert,
         Execute
<1>2. MainLeft' = MainLeft /\ OperationsLeft' = OperationsLeft
  BY <1>1 DEF MainLeft, OperationsLeft
<1>3. StepsUnderWay' < StepsUnderWay /\ StepsUnderWay' \in Int
  <2>1. CASE Poll
    <3>1. Len(ccq') = Len(ccq) - 1
      BY <1>0, <2>1, HeadTailProperties DEF Poll
    <3>2. Len(sq') = Len(sq) /\ Len(toCome') = Len(toCome)
      BY <2>1 DEF Poll
    <3>3. ThreadLeft = 0 /\ ThreadLeft' <= 2 /\ ThreadLeft' \in Int
      <4>1. tpc = "poll" /\ tpc' \in {"poll", "dec", "parse"}
        BY <2>1 DEF Poll
      <4> QED  BY <4>1 DEF ThreadLeft
    <3> QED  BY <1>numbers, <1>2, <3>1, <3>2, <3>3 DEF StepsUnderWay
  <2>2. CASE Decrement \/ ParseAddress \/ ParseRest
    <3>1. /\ Len(ccq') = Len(ccq) /\ Len(sq') = Len(sq)
          /\ Len(toCome') = Len(toCome)
      BY <2>2 DEF Decrement, ParseAddress, ParseRest, linkVars
    <3>2. ThreadLeft' = ThreadLeft - 1
      BY <2>2 DEF Decrement, ParseAddress, ParseRest, ThreadLeft
    <3> QED  BY <1>numbers, <1>2, <3>1, <3>2 DEF StepsUnderWay
  <2>3. CASE DeliverAdvert
    <3>1. /\ ThreadLeft' = ThreadLeft /\ Len(sq') = Len(sq)
          /\ toCome # <<>> /\ toCome' = Tail(toCome)
          /\ ccq' = Append(ccq, Received(Head(toCome)))
      BY <2>3 DEF DeliverAdvert, ThreadLeft
    <3>2. Len(toCome') = Len(toCome) - 1 /\ Head(toCome) \in Region
      BY <1>0, <3>1, HeadTailProperties
    <3>3. Len(ccq') = Len(ccq) + 1
      <4>1. Received(Head(toCome)) \in Completion
        BY <3>2, CompletionType
      <4> QED  BY <1>0, <3>1, <4>1, AppendProperties
    <3>4. ThreadLeft' = ThreadLeft /\ Len(sq') = Len(sq)
      BY <3>1
    <3> QED  BY <1>numbers, <1>2, <3>2, <3>3, <3>4 DEF StepsUnderWay
  <2>4. CASE Execute
    <3>1. /\ sq # <<>> /\ sq' = Tail(sq)
          /\ ccq' = Append(ccq, Completed(Head(sq).opcode))
      BY <2>4 DEF Execute
    <3>2. ThreadLeft' = ThreadLeft /\ Len(toCome') = Len(toCome)
      BY <2>4 DEF Execute, ThreadLeft
    <3>3. Len(sq') = Len(sq) - 1 /\ Head(sq) \in Request
      BY <1>0, <3>1, HeadTailProperties
    <3>4. Len(ccq') = Len(ccq) + 1
      <4>1. Completed(Head(sq).opcode) \in Completion
        BY <3>3, CompletionType DEF Request
      <4> QED  BY <1>0, <3>1, <4>1, AppendProperties
    <3> QED  BY <1>numbers, <1>2, <3>2, <3>3, <3>4 DEF StepsUnderWay
  <2> QED  BY <2>1, <2>2, <2>3, <2>4 DEF CqThread
<1> QED  BY <1>2, <1>3, WithinShortens DEF IInv

\* While the connection holds the program takes at most 8 * Elements + 3 steps
\* for each of its operations, and 9 for the advertisements: main() spins
\* without a step, no request is posted twice and no completion handled twice.
THEOREM OperationsAreFinite ==
    Spec => /\ StepsLeft <= Len(Program) * (8 * Elements + 3) + 9
            /\ [](StepsLeft \in Nat)
            /\ [][~broken' => StepsLeft' < StepsLeft]_vars
<1>1. Init => StepsLeft <= Len(Program) * (8 * Elements + 3) + 9
  <2> SUFFICES ASSUME Init
               PROVE  StepsLeft <= Len(Program) * (8 * Elements + 3) + 9
    OBVIOUS
  <2>1. IInv
    BY InitIInv
  <2>2. /\ OperationsLeft * OperationSteps \in Nat
        /\ Len(Program) \in Nat
    BY <2>1, StepsType DEF IInv
  <2>3. OperationsLeft = Len(Program)
    BY <2>2 DEF Init, OperationsLeft
  <2>4. MainLeft = 0 /\ ThreadLeft \in {0, 1}
    BY DEF Init, MainLeft, ThreadLeft
  <2>5. Len(ccq) = 0 /\ Len(sq) = 0 /\ Len(toCome) = 2
    BY DEF Init
  <2>6. StepsUnderWay \in {8, 9}
    BY <2>4, <2>5 DEF StepsUnderWay
  <2>7. Len(Program) * (8 * Elements + 3) = OperationsLeft * OperationSteps
    BY <2>3 DEF OperationSteps
  <2> QED  BY <2>2, <2>6, <2>7 DEF StepsLeft
<1>2. IInv => StepsLeft \in Nat
  BY StepsType DEF IInv
<1>3. IInv /\ [Next]_vars => [~broken' => StepsLeft' < StepsLeft]_vars
  <2> SUFFICES ASSUME IInv, Next, ~broken'
               PROVE  StepsLeft' < StepsLeft
    OBVIOUS
  <2>1. ~Break /\ ~Refuse
    BY DEF Break, Refuse
  <2>2. ~broken
    BY <2>1 DEF Next, Main, BeginRead, BeginWrite, BeginSweep, BeginElement,
                Post, Count, WaitElement, WaitReads, WaitWrite, Return,
                CqThread, Poll, Decrement, ParseAddress, ParseRest,
                DeliverAdvert, Execute, linkVars
  <2>3. CASE Main
    BY <2>2, <2>3, BeginShortens, OperationShortens DEF IInv, Main
  <2>4. CASE CqThread \/ DeliverAdvert \/ Execute
    BY <2>2, <2>4, CompletionShortens
  <2> QED  BY <2>1, <2>3, <2>4 DEF Next
<1> QED  BY <1>1, <1>2, <1>3, Invariance, PTL DEF Spec

=============================================================================

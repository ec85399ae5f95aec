-------------------------- MODULE ClassObjectProofs --------------------------
(***************************************************************************)
(* Proofs about ClassObject, for every size of the object and of the       *)
(* buffers: its invariant is inductive and implies that main() prints what *)
(* was built, and stays within class_recv_buf if the object does.          *)
(***************************************************************************)
EXTENDS ClassObject, TLAPS, SequenceTheorems

-----------------------------------------------------------------------------
(* The facts that the steps use of the types.                              *)

\* The sizes and the places in the object are numbers.
LEMMA Numbers ==
    ASSUME TypeOK
    PROVE  /\ SendWords \in Nat /\ RecvWords \in Nat /\ FetchWords \in Nat
           /\ FetchWords <= SendWords /\ FetchWords <= RecvWords
           /\ size \in 0..SendWords /\ next \in 0..size
           /\ fetch \in 0..FetchWords + 1 /\ j \in 0..RecvWords
           /\ object.n \in Nat
<1>1. object.n \in Nat
  BY DEF TypeOK, Cell
<1> QED  BY <1>1, WordsAssumption, SizesAssumption DEF TypeOK

\* The initial state.
LEMMA Initially == Init => IInv
<1> SUFFICES ASSUME Init PROVE IInv
  OBVIOUS
<1> USE WordsAssumption, SizesAssumption, JunkAssumption
<1>1. PICK n \in Sizes, g \in Junk :
          /\ size = n
          /\ sendBuf = [i \in 0..SendWords |-> [kind |-> "junk", n |-> g]]
          /\ object = [kind |-> "junk", n |-> g]
          /\ words = [i \in 0..RecvWords - 1 |-> [kind |-> "junk", n |-> g]]
  BY DEF Init
<1>2. /\ spc = "advertise" /\ next = 0 /\ cpc = "waitAddr" /\ fetch = 0
      /\ j = 0 /\ printed = <<>> /\ staged = FALSE
  BY DEF Init
<1>3. [kind |-> "junk", n |-> g] \in Cell
  BY DEF Cell
<1>4. TypeOK
  <2>1. /\ object \in Cell /\ sendBuf \in [0..SendWords -> Cell]
        /\ words \in [0..RecvWords - 1 -> Cell]
    BY <1>1, <1>3
  <2>2. next \in 0..size /\ fetch \in 0..FetchWords + 1 /\ j \in 0..RecvWords
    BY <1>1, <1>2
  <2>3. size \in Sizes /\ staged \in BOOLEAN
    BY <1>1, <1>2
  <2>4. printed \in Seq(Cell)
    BY <1>2
  <2>5. /\ spc \in {"advertise", "copyObject", "copyData", "done"}
        /\ cpc \in {"waitAddr", "post", "fetch", "print", "done", "outOfBounds"}
    BY <1>2
  <2> QED  BY <2>1, <2>2, <2>3, <2>4, <2>5 DEF TypeOK
<1>5. Staging
  BY <1>1, <1>2 DEF Staging
<1>6. Fetching
  BY <1>2 DEF Fetching
<1>7. FetchedWhatWasThere
  BY <1>1, <1>2 DEF FetchedWhatWasThere
<1>8. PrintedWhatWasFetched
  BY <1>2 DEF PrintedWhatWasFetched
<1> QED  BY <1>4, <1>5, <1>6, <1>7, <1>8 DEF IInv

\* What the server copies.
LEMMA ServerPreserves ==
    ASSUME IInv, Server
    PROVE  IInv'
<1> USE DEF IInv
<1>1. /\ SendWords \in Nat /\ size \in 0..SendWords /\ next \in 0..size
      /\ sendBuf \in [0..SendWords -> Cell]
  BY Numbers DEF TypeOK
<1>2. Object(size) \in Cell /\ \A k \in Nat : Word(k) \in Cell
  BY <1>1 DEF Object, Word, Cell
<1>3. CASE Advertise
  <2>1. TypeOK'
    BY <1>3 DEF Advertise, TypeOK
  <2>2. Staging' /\ Fetching'
    BY <1>3 DEF Advertise, Staging, Fetching
  <2>3. FetchedWhatWasThere' /\ PrintedWhatWasFetched'
    BY <1>3 DEF Advertise, FetchedWhatWasThere, PrintedWhatWasFetched
  <2> QED  BY <2>1, <2>2, <2>3
<1>4. CASE CopyObject
  <2>1. TypeOK'
    BY <1>1, <1>2, <1>4 DEF CopyObject, TypeOK
  <2>2. Staging'
    BY <1>1, <1>4 DEF CopyObject, Staging
  <2>3. Fetching'
    BY <1>4 DEF CopyObject, Fetching
  <2>4. FetchedWhatWasThere' /\ PrintedWhatWasFetched'
    BY <1>4 DEF CopyObject, FetchedWhatWasThere, PrintedWhatWasFetched
  <2> QED  BY <2>1, <2>2, <2>3, <2>4
<1>5. CASE CopyData
  <2>1. CASE next < size
    <3>1. /\ sendBuf' = [sendBuf EXCEPT ![1 + next] = Word(next)]
          /\ next' = next + 1 /\ spc' = spc /\ size' = size
      BY <1>5, <2>1 DEF CopyData, Offset
    <3>2. next + 1 \in 0..size /\ 1 + next \in 1..SendWords
      BY <1>1, <2>1
    <3>3. sendBuf' \in [0..SendWords -> Cell]
      <4>1. next \in Nat /\ Word(next) \in Cell
        BY <1>1, <1>2
      <4> QED  BY <1>1, <3>1, <4>1
    <3>4. TypeOK'
      BY <1>5, <3>1, <3>2, <3>3 DEF CopyData, TypeOK
    <3>5. \A i \in 1..SendWords :
              IF i <= next' THEN sendBuf'[i] = Word(i - 1)
                            ELSE sendBuf'[i].kind = "junk"
      BY <1>1, <3>1, <3>2 DEF Staging
    <3>6. sendBuf'[0] = sendBuf[0]
      BY <1>1, <3>1, <3>2
    <3>7. Staging'
      BY <1>5, <3>1, <3>5, <3>6 DEF Staging, CopyData
    <3>8. Fetching' /\ FetchedWhatWasThere' /\ PrintedWhatWasFetched'
      BY <1>5, <3>1 DEF CopyData, Fetching, FetchedWhatWasThere,
                        PrintedWhatWasFetched
    <3> QED  BY <3>4, <3>7, <3>8
  <2>2. CASE ~(next < size)
    <3>1. spc' = "done" /\ next = size /\ UNCHANGED <<sendBuf, next>>
      BY <1>1, <1>5, <2>2 DEF CopyData
    <3>2. TypeOK'
      BY <1>5, <3>1 DEF CopyData, TypeOK
    <3>3. Staging' /\ Fetching'
      BY <1>5, <3>1 DEF CopyData, Staging, Fetching
    <3>4. FetchedWhatWasThere' /\ PrintedWhatWasFetched'
      BY <1>5, <3>1 DEF CopyData, FetchedWhatWasThere, PrintedWhatWasFetched
    <3> QED  BY <3>2, <3>3, <3>4
  <2> QED  BY <2>1, <2>2
<1> QED  BY <1>3, <1>4, <1>5 DEF Server, Advertise, CopyObject, CopyData

\* What the adapter fetches: a read that was posted after the copy finds the
\* object and, as far as the object has words, its data.
LEMMA FetchPreserves ==
    ASSUME IInv, FetchCell
    PROVE  IInv'
<1> USE DEF IInv
<1>1. /\ SendWords \in Nat /\ FetchWords \in Nat /\ RecvWords \in Nat
      /\ FetchWords <= SendWords /\ FetchWords <= RecvWords
      /\ fetch \in 0..FetchWords /\ fetch \in 0..SendWords
      /\ size \in 0..SendWords
      /\ sendBuf \in [0..SendWords -> Cell]
      /\ words \in [0..RecvWords - 1 -> Cell]
      /\ sendBuf[fetch] \in Cell
  <2>1. /\ SendWords \in Nat /\ FetchWords \in Nat /\ RecvWords \in Nat
        /\ FetchWords <= SendWords /\ FetchWords <= RecvWords
    BY Numbers
  <2>2. fetch \in 0..FetchWords + 1 /\ fetch <= FetchWords
    BY DEF TypeOK, FetchCell
  <2>3. size \in Sizes /\ sendBuf \in [0..SendWords -> Cell]
        /\ words \in [0..RecvWords - 1 -> Cell]
    BY DEF TypeOK
  <2>4. fetch \in 0..FetchWords /\ fetch \in 0..SendWords
    BY <2>1, <2>2
  <2>5. size \in 0..SendWords
    BY <2>3, Numbers
  <2> QED  BY <2>1, <2>3, <2>4, <2>5
<1>2. /\ cpc = "fetch" /\ fetch' = fetch + 1
      /\ UNCHANGED <<size, sendBuf, spc, next, cpc, j, printed, staged>>
  BY DEF FetchCell
<1>3. Staging' /\ Fetching'
  BY <1>2 DEF Staging, Fetching
<1>4. PrintedWhatWasFetched'
  BY <1>1, <1>2 DEF PrintedWhatWasFetched
<1>5. CASE fetch = 0
  <2>1. object' = sendBuf[0] /\ words' = words
    BY <1>5 DEF FetchCell
  <2>2. TypeOK'
    BY <1>1, <1>2, <1>5, <2>1 DEF TypeOK
  <2>3. FetchedWhatWasThere'
    BY <1>1, <1>2, <1>5, <2>1 DEF FetchedWhatWasThere, Staging, Fetching
  <2> QED  BY <1>3, <1>4, <2>2, <2>3
<1>6. CASE fetch # 0
  <2>1. /\ words' = [words EXCEPT ![fetch - 1] = sendBuf[fetch]]
        /\ object' = object
    BY <1>6 DEF FetchCell
  <2>2. TypeOK'
    BY <1>1, <1>2, <1>6, <2>1 DEF TypeOK
  <2>3. ASSUME NEW i \in 0..RecvWords - 1
        PROVE  /\ words'[i] = Word(i) \/ words'[i].kind = "junk"
               /\ staged /\ i < fetch /\ i < size => words'[i] = Word(i)
    <3>1. CASE i = fetch - 1
      <4>1. words'[i] = sendBuf[fetch] /\ fetch \in 1..SendWords
        BY <1>1, <1>6, <2>1, <3>1
      <4>2. IF fetch <= next THEN sendBuf[fetch] = Word(i)
                             ELSE sendBuf[fetch].kind = "junk"
        BY <3>1, <4>1 DEF Staging
      <4>3. staged => next = size
        BY DEF Staging, Fetching
      <4> QED  BY <1>1, <3>1, <4>1, <4>2, <4>3
    <3>2. CASE i # fetch - 1
      BY <1>1, <1>6, <2>1, <3>2 DEF FetchedWhatWasThere
    <3> QED  BY <3>1, <3>2
  <2>4. FetchedWhatWasThere'
    BY <1>1, <1>2, <1>6, <2>1, <2>3 DEF FetchedWhatWasThere
  <2> QED  BY <1>3, <1>4, <2>2, <2>4
<1> QED  BY <1>5, <1>6

\* What main() prints.
LEMMA ClientPreserves ==
    ASSUME IInv, ClientMain
    PROVE  IInv'
<1> USE DEF IInv
<1>1. /\ RecvWords \in Nat /\ FetchWords \in Nat /\ j \in 0..RecvWords
      /\ object.n \in Nat /\ fetch \in 0..FetchWords + 1
      /\ words \in [0..RecvWords - 1 -> Cell] /\ printed \in Seq(Cell)
  BY Numbers DEF TypeOK
<1>2. CASE AddressKnown
  <2>1. TypeOK' /\ Staging' /\ Fetching'
    BY <1>2 DEF AddressKnown, TypeOK, Staging, Fetching
  <2>2. FetchedWhatWasThere' /\ PrintedWhatWasFetched'
    BY <1>2 DEF AddressKnown, FetchedWhatWasThere, PrintedWhatWasFetched
  <2> QED  BY <2>1, <2>2
<1>3. CASE PostRead
  <2>1. TypeOK'
    BY <1>3 DEF PostRead, TypeOK
  <2>2. Staging' /\ Fetching' /\ fetch = 0
    BY <1>3 DEF PostRead, Staging, Fetching
  <2>3. PrintedWhatWasFetched'
    BY <1>3 DEF PostRead, PrintedWhatWasFetched
  <2>4. FetchedWhatWasThere'
    BY <1>3, <2>2 DEF PostRead, FetchedWhatWasThere
  <2> QED  BY <2>1, <2>2, <2>3, <2>4
<1>4. CASE ReadReturns
  <2>1. fetch = FetchWords + 1
    BY <1>1, <1>4 DEF ReadReturns
  <2>2. TypeOK' /\ Staging' /\ Fetching'
    BY <1>4, <2>1 DEF ReadReturns, TypeOK, Staging, Fetching
  <2>3. FetchedWhatWasThere' /\ PrintedWhatWasFetched'
    BY <1>4 DEF ReadReturns, FetchedWhatWasThere, PrintedWhatWasFetched
  <2> QED  BY <2>2, <2>3
<1>5. CASE PrintWord
  <2>1. /\ cpc = "print"
        /\ UNCHANGED <<size, sendBuf, spc, next, fetch, object, words, staged>>
    BY <1>5 DEF PrintWord
  <2>2. CASE UNCHANGED <<j, printed>>
    <3>1. \/ cpc' = "done" /\ j >= object.n
          \/ cpc' = "outOfBounds" /\ j >= RecvWords /\ ~(j >= object.n)
      BY <1>1, <1>5, <2>2 DEF PrintWord
    <3>2. TypeOK' /\ Staging' /\ Fetching'
      BY <2>1, <2>2, <3>1 DEF TypeOK, Staging, Fetching
    <3>3. FetchedWhatWasThere'
      BY <2>1 DEF FetchedWhatWasThere
    <3>4. PrintedWhatWasFetched'
      BY <1>1, <2>1, <2>2, <3>1 DEF PrintedWhatWasFetched
    <3> QED  BY <3>2, <3>3, <3>4
  <2>3. CASE ~ UNCHANGED <<j, printed>>
    <3>1. /\ j < object.n /\ j < RecvWords /\ j' = j + 1 /\ cpc' = cpc
          /\ printed' = Append(printed, words[j])
      BY <1>1, <1>5, <2>3 DEF PrintWord
    <3>2. words[j] \in Cell /\ j + 1 \in 0..RecvWords
      BY <1>1, <3>1
    <3>3. /\ printed' \in Seq(Cell) /\ Len(printed') = Len(printed) + 1
          /\ \A k \in 1..Len(printed) : printed'[k] = printed[k]
          /\ printed'[Len(printed) + 1] = words[j]
      BY <1>1, <3>1, <3>2, AppendProperties
    <3>4. TypeOK'
      BY <2>1, <3>1, <3>2, <3>3 DEF TypeOK
    <3>5. Staging' /\ Fetching'
      BY <2>1, <3>1 DEF Staging, Fetching
    <3>6. FetchedWhatWasThere'
      BY <2>1 DEF FetchedWhatWasThere
    <3>7. PrintedWhatWasFetched'
      BY <1>1, <2>1, <3>1, <3>3 DEF PrintedWhatWasFetched
    <3> QED  BY <3>4, <3>5, <3>6, <3>7
  <2> QED  BY <2>2, <2>3
<1> QED  BY <1>2, <1>3, <1>4, <1>5 DEF ClientMain

-----------------------------------------------------------------------------
(* The theorems.                                                           *)

\* The invariant holds throughout: class_send_buf is copied in order, and
\* what was fetched and printed is what had been copied there.
THEOREM Invariance == Spec => []IInv
<1>1. IInv /\ [Next]_vars => IInv'
  <2> SUFFICES ASSUME IInv, [Next]_vars PROVE IInv'
    OBVIOUS
  <2>1. CASE UNCHANGED vars
    BY <2>1 DEF vars, IInv, TypeOK, Staging, Fetching, FetchedWhatWasThere,
                PrintedWhatWasFetched
  <2> QED  BY <2>1, ServerPreserves, ClientPreserves, FetchPreserves DEF Next
<1> QED  BY Initially, <1>1, PTL DEF Spec

\* A client that has the object prints what the server constructed.
THEOREM PrintsWhatWasBuiltHolds == Spec => []PrintsWhatWasBuilt
<1>1. IInv => PrintsWhatWasBuilt
  <2> SUFFICES ASSUME IInv, cpc = "done", staged \/ object.kind = "object"
               PROVE  /\ Len(printed) = size
                      /\ \A k \in 1..size :
                             \/ printed[k] = Word(k - 1)
                             \/ /\ printed[k].kind = "junk"
                                /\ ~staged \/ k > FetchWords
    BY DEF PrintsWhatWasBuilt
  <2>1. /\ FetchWords \in Nat /\ size \in Nat /\ RecvWords \in Nat
        /\ j \in 0..RecvWords /\ fetch = FetchWords + 1
    BY Numbers DEF IInv, Fetching
  <2>2. object = Object(size)
    BY <2>1 DEF IInv, FetchedWhatWasThere
  <2>3. j = size /\ Len(printed) = size
    BY <2>2 DEF IInv, PrintedWhatWasFetched, Object
  <2>4. ASSUME NEW k \in 1..size
        PROVE  \/ printed[k] = Word(k - 1)
               \/ printed[k].kind = "junk" /\ (~staged \/ k > FetchWords)
    <3>1. k - 1 \in 0..RecvWords - 1 /\ k - 1 < size
      BY <2>1, <2>3
    <3>2. printed[k] = words[k - 1]
      BY <2>3 DEF IInv, PrintedWhatWasFetched
    <3>3. /\ words[k - 1] = Word(k - 1) \/ words[k - 1].kind = "junk"
          /\ staged /\ k - 1 < fetch - 1 => words[k - 1] = Word(k - 1)
      BY <3>1 DEF IInv, FetchedWhatWasThere
    <3> QED  BY <2>1, <3>2, <3>3
  <2> QED  BY <2>3, <2>4
<1> QED  BY Invariance, <1>1, PTL

\* main() leaves class_recv_buf only for an object that was not staged or
\* does not fit.
THEOREM BoundedByTheObjectHolds == Spec => []BoundedByTheObject
<1>1. IInv => BoundedByTheObject
  <2> SUFFICES ASSUME IInv, cpc = "outOfBounds", staged
               PROVE  size > RecvWords
    BY DEF BoundedByTheObject
  <2>1. fetch > 0 /\ RecvWords < object.n
    BY Numbers DEF IInv, Fetching, PrintedWhatWasFetched
  <2>2. object.n = size
    BY <2>1 DEF IInv, FetchedWhatWasThere, Object
  <2> QED  BY <2>1, <2>2, Numbers DEF IInv
<1> QED  BY Invariance, <1>1, PTL

=============================================================================

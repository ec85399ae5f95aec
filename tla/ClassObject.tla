----------------------------- MODULE ClassObject -----------------------------
(***************************************************************************)
(* The transfer of the object RdmaTest a (DataStruct.cpp): the server      *)
(* advertises class_send_buf, then copies the object and its data into it  *)
(* (init_class_recv); the client fetches the object and a fixed number of  *)
(* words of data with one RDMA read of two segments (read_class), points   *)
(* data_buf at the words and prints data.size of them (main).  The adapter *)
(* reads the server's memory while the server copies.                      *)
(*                                                                         *)
(* Memory is counted in cells: one for the object, whose field size is     *)
(* kept, and one for each uint32_t of data.                                *)
(***************************************************************************)
EXTENDS Integers, Sequences

CONSTANTS
    Sizes,      \* the sizes that the object may be constructed with
    SendWords,  \* words of data in class_send_buf: 5000
    FetchWords, \* words of data in the second segment: 100
    RecvWords,  \* words in class_recv_buf: 1000
    Junk        \* what unwritten memory shows when it is read as a size

ASSUME WordsAssumption ==
    /\ FetchWords \in Nat /\ FetchWords <= SendWords /\ FetchWords <= RecvWords
    /\ SendWords \in Nat /\ RecvWords \in Nat
ASSUME SizesAssumption == Sizes \subseteq 0..SendWords
ASSUME JunkAssumption == Junk \subseteq Nat

VARIABLES
    size,     \* a.size
    sendBuf,  \* class_send_buf: cell 0 is the object, the others are data
    spc,      \* where init_class_recv is
    next,     \* the next word that memcpy copies
    cpc,      \* where the client is
    fetch,    \* the next cell that the RDMA read fetches
    object,   \* class_recv_data
    words,    \* class_recv_buf
    j,        \* main()'s loop variable
    printed,  \* the words that main() has printed
    staged    \* history: the copy was complete when the read was posted

vars == <<size, sendBuf, spc, next, cpc, fetch, object, words, j, printed,
          staged>>

\* The content of a cell: the object with its size, the k-th word of data,
\* or whatever malloc returned.
Cell == [kind : {"object", "word", "junk"}, n : Nat]
Object(n) == [kind |-> "object", n |-> n]
Word(k)   == [kind |-> "word", n |-> k]

TypeOK ==
    /\ size \in Sizes
    /\ sendBuf \in [0..SendWords -> Cell]
    /\ spc \in {"advertise", "copyObject", "copyData", "done"}
    /\ next \in 0..size
    /\ cpc \in {"waitAddr", "post", "fetch", "print", "done", "outOfBounds"}
    /\ fetch \in 0..FetchWords + 1
    /\ object \in Cell
    /\ words \in [0..RecvWords - 1 -> Cell]
    /\ j \in 0..RecvWords
    /\ printed \in Seq(Cell)
    /\ staged \in BOOLEAN

Init ==
    \E n \in Sizes, g \in Junk :
        /\ size = n
        /\ sendBuf = [i \in 0..SendWords |-> [kind |-> "junk", n |-> g]]
        /\ spc = "advertise" /\ next = 0
        /\ cpc = "waitAddr" /\ fetch = 0
        /\ object = [kind |-> "junk", n |-> g]
        /\ words = [i \in 0..RecvWords - 1 |-> [kind |-> "junk", n |-> g]]
        /\ j = 0 /\ printed = <<>> /\ staged = FALSE

-----------------------------------------------------------------------------
(* The server.                                                             *)

\* The advertisement is posted and may reach the client at once.
Advertise ==
    /\ spc = "advertise"
    /\ spc' = "copyObject"
    /\ UNCHANGED <<size, sendBuf, next, cpc, fetch, object, words, j, printed,
                   staged>>

CopyObject ==
    /\ spc = "copyObject"
    /\ sendBuf' = [sendBuf EXCEPT ![0] = Object(size)]
    /\ spc' = "copyData"
    /\ UNCHANGED <<size, next, cpc, fetch, object, words, j, printed, staged>>

\* The data come right after the object.
Offset == 1

\* memcpy of a.data_buf, whose word k is k (the constructor); the adapter may
\* read between any two words.
CopyData ==
    /\ spc = "copyData"
    /\ IF next < size
       THEN /\ sendBuf' = [sendBuf EXCEPT ![Offset + next] = Word(next)]
            /\ next' = next + 1
            /\ UNCHANGED spc
       ELSE spc' = "done" /\ UNCHANGED <<sendBuf, next>>
    /\ UNCHANGED <<size, cpc, fetch, object, words, j, printed, staged>>

Server == Advertise \/ CopyObject \/ CopyData

-----------------------------------------------------------------------------
(* The client.                                                             *)

\* GET_CLASS_ADDR is set: main() calls read_class.
AddressKnown ==
    /\ cpc = "waitAddr" /\ spc # "advertise"
    /\ cpc' = "post"
    /\ UNCHANGED <<size, sendBuf, spc, next, fetch, object, words, j, printed,
                   staged>>

PostRead ==
    /\ cpc = "post"
    /\ cpc' = "fetch"
    /\ staged' = (spc = "done")
    /\ UNCHANGED <<size, sendBuf, spc, next, fetch, object, words, j, printed>>

\* Mutant: the second segment is one word longer.
FetchCell_OneMore ==
    /\ cpc = "fetch" /\ fetch <= FetchWords + 1
    /\ fetch' = fetch + 1
    /\ IF fetch = 0
       THEN object' = sendBuf[0] /\ UNCHANGED words
       ELSE words' = [words EXCEPT ![fetch - 1] = sendBuf[fetch]]
            /\ UNCHANGED object
    /\ UNCHANGED <<size, sendBuf, spc, next, cpc, j, printed, staged>>

\* The adapters copy consecutive cells into the two segments.
FetchCell ==
    /\ cpc = "fetch" /\ fetch <= FetchWords
    /\ fetch' = fetch + 1
    /\ IF fetch = 0
       THEN object' = sendBuf[0] /\ UNCHANGED words
       ELSE words' = [words EXCEPT ![fetch - 1] = sendBuf[fetch]]
            /\ UNCHANGED object
    /\ UNCHANGED <<size, sendBuf, spc, next, cpc, j, printed, staged>>

\* Mutant: main() goes on without the wait for the read.
ReadReturns_NoWait ==
    /\ cpc = "fetch"
    /\ cpc' = "print"
    /\ UNCHANGED <<size, sendBuf, spc, next, fetch, object, words, j, printed,
                   staged>>

\* The wait for the read is over: data_buf is pointed at class_recv_buf.
ReadReturns ==
    /\ cpc = "fetch" /\ fetch > FetchWords
    /\ cpc' = "print"
    /\ UNCHANGED <<size, sendBuf, spc, next, fetch, object, words, j, printed,
                   staged>>

\* Mutant: the loop runs to the end of what was fetched.
PrintWord_AllFetched ==
    /\ cpc = "print"
    /\ IF j >= FetchWords THEN cpc' = "done" /\ UNCHANGED <<j, printed>>
       ELSE /\ j' = j + 1
            /\ printed' = Append(printed, words[j])
            /\ UNCHANGED cpc
    /\ UNCHANGED <<size, sendBuf, spc, next, fetch, object, words, staged>>

\* main() prints as many words as the object says, fetched or not, and reads
\* past class_recv_buf if it says more.
PrintWord ==
    /\ cpc = "print"
    /\ IF j >= object.n THEN cpc' = "done" /\ UNCHANGED <<j, printed>>
       ELSE IF j >= RecvWords
            THEN cpc' = "outOfBounds" /\ UNCHANGED <<j, printed>>
            ELSE /\ j' = j + 1
                 /\ printed' = Append(printed, words[j])
                 /\ UNCHANGED cpc
    /\ UNCHANGED <<size, sendBuf, spc, next, fetch, object, words, staged>>

ClientMain == AddressKnown \/ PostRead \/ ReadReturns \/ PrintWord

Next == Server \/ ClientMain \/ FetchCell

Spec == Init /\ [][Next]_vars

-----------------------------------------------------------------------------
(* Properties.                                                             *)

\* A client that was given the object's size, as it is if the object was
\* staged before it was read, prints that many words, each the one that was
\* constructed in its place.  The words it lacks were still being copied, or
\* are beyond the segment, when it fetched them.
PrintsWhatWasBuilt ==
    cpc = "done" /\ (staged \/ object.kind = "object") =>
        /\ Len(printed) = size
        /\ \A k \in 1..size :
               \/ printed[k] = Word(k - 1)
               \/ printed[k].kind = "junk" /\ (~staged \/ k > FetchWords)

\* The loop in main() leaves class_recv_buf only when the read found memory
\* that the server had not staged, or the object's data are longer than the
\* buffer.
BoundedByTheObject ==
    cpc = "outOfBounds" => ~staged \/ size > RecvWords

-----------------------------------------------------------------------------
(* The inductive invariant behind them.                                    *)

\* class_send_buf holds the object from its copy on, the words that memcpy
\* has copied, and junk behind them.
Staging ==
    /\ sendBuf[0] = Object(size) \/ sendBuf[0].kind = "junk"
    /\ spc \in {"copyData", "done"} => sendBuf[0] = Object(size)
    /\ \A i \in 1..SendWords : IF i <= next THEN sendBuf[i] = Word(i - 1)
                                            ELSE sendBuf[i].kind = "junk"
    /\ spc \in {"advertise", "copyObject"} => next = 0
    /\ spc = "done" => next = size

\* The client fetches between the call of read_class and its return.
Fetching ==
    /\ cpc \in {"waitAddr", "post"} => fetch = 0 /\ ~staged
    /\ cpc \in {"print", "done", "outOfBounds"} => fetch = FetchWords + 1
    /\ staged => spc = "done"

\* What it has fetched was constructed, or not yet copied.
FetchedWhatWasThere ==
    /\ object = Object(size) \/ object.kind = "junk"
    /\ staged /\ fetch > 0 => object = Object(size)
    /\ \A i \in 0..RecvWords - 1 :
           /\ words[i] = Word(i) \/ words[i].kind = "junk"
           /\ staged /\ i < fetch - 1 /\ i < size => words[i] = Word(i)

\* What it has printed is what it has fetched, as far as the object says.
PrintedWhatWasFetched ==
    /\ cpc \notin {"print", "done", "outOfBounds"} => j = 0
    /\ Len(printed) = j
    /\ \A k \in 1..j : printed[k] = words[k - 1]
    /\ j > 0 => j <= object.n
    /\ cpc = "done" => j = object.n
    /\ cpc = "outOfBounds" => RecvWords < object.n

IInv ==
    /\ TypeOK /\ Staging /\ Fetching
    /\ FetchedWhatWasThere /\ PrintedWhatWasFetched

=============================================================================

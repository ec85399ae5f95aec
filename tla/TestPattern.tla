----------------------------- MODULE TestPattern -----------------------------
(***************************************************************************)
(* The test pattern of common.c: format_buf fills a buffer from a static   *)
(* counter of 8 bits, verify_buf compares a buffer with a counter of its   *)
(* own.  Nothing but the calls keeps the two in step.  Buffers travel from *)
(* one to the other; on the way one may be lost, delivered twice, or have  *)
(* a byte changed.                                                         *)
(***************************************************************************)
EXTENDS Integers, Sequences

CONSTANTS
    Modulus,   \* of uint8_t: 256
    BufSizes,  \* sizes of the buffers
    MaxBytes,  \* bound on the bytes that are formatted
    MaxVerify, \* bound on the calls of verify_buf
    MaxInFlight

ASSUME PatternAssumption ==
    /\ Modulus \in Nat \ {0, 1} /\ BufSizes \subseteq Nat
    /\ MaxBytes \in Nat /\ MaxVerify \in Nat /\ MaxInFlight \in Nat

VARIABLES
    formatData,   \* format_buf's data
    verifyData,   \* verify_buf's data
    total_bytes,  \* verify_buf's total_bytes
    net,          \* buffers on the way
    formatted,    \* history: bytes formatted, not reduced
    compared,     \* history: bytes compared, not reduced
    failures,     \* history: calls of verify_buf that returned -1
    calls,        \* calls of verify_buf
    verdict       \* of the last call, with what it was called on

vars == <<formatData, verifyData, total_bytes, net, formatted, compared,
          failures, calls, verdict>>

\* A buffer is the value of its first byte, its size, the index of a byte that
\* was changed (none if it is the size), and where in the stream of formatted
\* bytes it starts.  The bytes after the first count up.
Byte(b, i) == (b.first + i + (IF i = b.bad THEN 1 ELSE 0)) % Modulus

Init ==
    /\ formatData = 0 /\ verifyData = 0 /\ total_bytes = 0 /\ net = <<>>
    /\ formatted = 0 /\ compared = 0 /\ failures = 0 /\ calls = 0
    /\ verdict = [ok |-> TRUE, skew |-> 0, size |-> 0, bad |-> 0]

\* Mutant: the counter is incremented before it is used.
format_buf_PreIncrement(size) ==
    /\ formatted + size <= MaxBytes /\ Len(net) < MaxInFlight
    /\ net' = Append(net, [first |-> (formatData + 1) % Modulus, size |-> size,
                           bad |-> size, at |-> formatted])
    /\ formatData' = (formatData + size) % Modulus
    /\ formatted' = formatted + size
    /\ UNCHANGED <<verifyData, total_bytes, compared, failures, calls,
                   verdict>>

format_buf(size) ==
    /\ formatted + size <= MaxBytes /\ Len(net) < MaxInFlight
    /\ net' = Append(net, [first |-> formatData, size |-> size, bad |-> size,
                           at |-> formatted])
    /\ formatData' = (formatData + size) % Modulus
    /\ formatted' = formatted + size
    /\ UNCHANGED <<verifyData, total_bytes, compared, failures, calls,
                   verdict>>

\* The first byte that differs from the counter, or the size.
FirstMismatch(b) ==
    CHOOSE i \in 0..b.size :
        /\ i = b.size \/ Byte(b, i) # (verifyData + i) % Modulus
        /\ \A k \in 0..i - 1 : Byte(b, k) = (verifyData + k) % Modulus

\* How often data++ is executed: once more than bytes agree, if one differs.
Steps(b) ==
    LET i == FirstMismatch(b) IN IF i < b.size THEN i + 1 ELSE i

\* Mutant: total_bytes is counted before the comparison.
Counted_First(b) == Steps(b)

\* total_bytes++ is the loop's, which a mismatch leaves before.
Counted(b) == FirstMismatch(b)

verify_buf ==
    /\ net # <<>> /\ calls < MaxVerify
    /\ LET b == Head(net)
           ok == FirstMismatch(b) = b.size
       IN /\ verifyData' = (verifyData + Steps(b)) % Modulus
          /\ compared' = compared + Steps(b)
          /\ total_bytes' = total_bytes + Counted(b)
          /\ failures' = IF ok THEN failures ELSE failures + 1
          /\ verdict' = [ok |-> ok, skew |-> b.at - compared,
                         size |-> b.size, bad |-> b.bad]
    /\ net' = Tail(net) /\ calls' = calls + 1
    /\ UNCHANGED <<formatData, formatted>>

\* What may happen to the first buffer on its way.
Disturb ==
    /\ net # <<>>
    /\ \/ net' = Tail(net)
       \/ Len(net) < MaxInFlight /\ net' = <<Head(net)>> \o net
       \/ \E i \in 0..Head(net).size - 1 : net' = [net EXCEPT ![1].bad = i]
    /\ UNCHANGED <<formatData, verifyData, total_bytes, formatted, compared,
                   failures, calls, verdict>>

Next == (\E size \in BufSizes : format_buf(size)) \/ verify_buf \/ Disturb

Spec == Init /\ [][Next]_vars

-----------------------------------------------------------------------------
(* Properties.                                                             *)

\* verify_buf accepts a buffer exactly if it is empty, or unchanged and as far
\* into the formatted bytes as the verifier is, up to the 8 bits of the
\* counters: what was lost or repeated in between is otherwise noticed.  (In a
\* buffer of one byte the change can make up for the distance.)
VerdictIsRight ==
    verdict.ok <=>
        \/ verdict.size = 0
        \/ verdict.skew % Modulus = 0 /\ verdict.bad = verdict.size
        \/ (verdict.skew + 1) % Modulus = 0 /\ verdict.bad = 0 /\ verdict.size = 1

\* The position that a failure reports falls behind the bytes compared by one
\* with every failure, so that the counter that expects the next byte differs
\* from it by the number of failures.
PositionLagsByFailures ==
    /\ total_bytes + failures = compared
    /\ verifyData = (total_bytes + failures) % Modulus

-----------------------------------------------------------------------------
(* The inductive invariant behind them.                                    *)

Buffer == [first : 0..Modulus - 1, size : Nat, bad : Nat, at : Nat]

TypeOK ==
    /\ formatData \in 0..Modulus - 1 /\ verifyData \in 0..Modulus - 1
    /\ total_bytes \in Nat /\ failures \in Nat
    /\ formatted \in Nat /\ compared \in Nat /\ calls \in 0..MaxVerify
    /\ net \in Seq(Buffer)
    /\ verdict \in [ok : BOOLEAN, skew : Int, size : Nat, bad : Nat]

\* The formatter's counter is where the stream is; so were the buffers on the
\* way when they were formatted.
CountersFollowStream ==
    /\ formatData = formatted % Modulus
    /\ \A k \in 1..Len(net) : /\ net[k].first = net[k].at % Modulus
                              /\ net[k].bad <= net[k].size

IInv ==
    /\ TypeOK /\ CountersFollowStream
    /\ PositionLagsByFailures /\ VerdictIsRight

=============================================================================

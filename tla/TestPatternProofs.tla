-------------------------- MODULE TestPatternProofs --------------------------
(***************************************************************************)
(* Proofs about TestPattern, for counters of any width and buffers of any  *)
(* size: verify_buf's verdict is right, and the position that it reports   *)
(* lags by its failures.  They rest on arithmetic modulo the counters'     *)
(* range and on the first of the bytes that differ.                        *)
(***************************************************************************)
EXTENDS TestPattern, TLAPS, SequenceTheorems, FiniteSetTheorems,
        WellFoundedInduction

-----------------------------------------------------------------------------
(* Arithmetic modulo Modulus.                                              *)

\* There are at least two values.
LEMMA Width == Modulus \in Nat /\ Modulus >= 2
  BY PatternAssumption

\* What division by Modulus gives.
LEMMA Division ==
    ASSUME NEW a \in Int
    PROVE  /\ a \div Modulus \in Int /\ a % Modulus \in 0..Modulus - 1
           /\ a = Modulus * (a \div Modulus) + (a % Modulus)
  BY Width

\* A number that is written as a multiple and a rest has that rest.
LEMMA Rest ==
    ASSUME NEW q \in Int, NEW r \in 0..Modulus - 1
    PROVE  (Modulus * q + r) % Modulus = r
  BY Width

\* Numbers are congruent if they differ by a multiple.
LEMMA Congruent ==
    ASSUME NEW a \in Int, NEW b \in Int
    PROVE  a % Modulus = b % Modulus <=> (a - b) % Modulus = 0
<1> DEFINE qa == a \div Modulus
           qb == b \div Modulus
           ra == a % Modulus
           rb == b % Modulus
           q  == (a - b) \div Modulus
<1>1. /\ qa \in Int /\ qb \in Int
      /\ ra \in 0..Modulus - 1 /\ rb \in 0..Modulus - 1
      /\ a = Modulus * qa + ra /\ b = Modulus * qb + rb
  BY Division
<1>2. q \in Int /\ a - b = Modulus * q + ((a - b) % Modulus)
  BY Division
<1> HIDE DEF qa, qb, ra, rb, q
<1>3. ASSUME ra = rb PROVE (a - b) % Modulus = 0
  <2>1. a - b = Modulus * (qa - qb) + 0
    BY <1>1, <1>3, Width
  <2> QED  BY <1>1, <2>1, Rest, Width
<1>4. ASSUME (a - b) % Modulus = 0 PROVE ra = rb
  <2>1. a = Modulus * (qb + q) + rb
    BY <1>1, <1>2, <1>4, Width
  <2>2. a % Modulus = rb
    BY <1>1, <1>2, <2>1, Rest
  <2> QED  BY <2>2 DEF ra
<1> QED  BY <1>3, <1>4 DEF ra, rb

\* A counter that is reduced at each step is congruent to one that is not.
LEMMA Reduced ==
    ASSUME NEW a \in Int, NEW b \in Int
    PROVE  ((a % Modulus) + b) % Modulus = (a + b) % Modulus
<1> DEFINE r == a % Modulus
           q == a \div Modulus
<1>1. r \in Int /\ q \in Int /\ a = Modulus * q + r
  BY Division, Width
<1> HIDE DEF r, q
<1>2. (a + b) - (r + b) = Modulus * q + 0
  BY <1>1, Width
<1>3. ((a + b) - (r + b)) % Modulus = 0
  BY <1>1, <1>2, Rest, Width
<1>4. (a + b) % Modulus = (r + b) % Modulus
  BY <1>1, <1>3, Congruent
<1> QED  BY <1>4 DEF r

\* Neighbours are not congruent.
LEMMA NextDiffers ==
    ASSUME NEW a \in Int, a % Modulus = 0
    PROVE  (a + 1) % Modulus # 0
<1>1. (Modulus * 0 + 1) % Modulus = 1
  BY Rest, Width
<1>2. ((a % Modulus) + 1) % Modulus = (a + 1) % Modulus
  BY Reduced
<1> QED  BY <1>1, <1>2, Width

-----------------------------------------------------------------------------
(* The first byte that differs.                                            *)

\* A set of natural numbers has a least one.
LEMMA Least ==
    ASSUME NEW T, T \subseteq Nat, T # {}
    PROVE  \E x \in T : \A y \in T : x <= y
<1> DEFINE below == {0..x - 1 : x \in T}
           R == StrictSubsetOrdering(Nat)
<1>1. \A x \in T : 0..x - 1 \in FiniteSubsetsOf(Nat)
  <2> TAKE x \in T
  <2>1. IsFiniteSet(0..x - 1)
    BY FS_Interval
  <2> QED  BY <2>1 DEF FiniteSubsetsOf
<1>2. \E b \in below : \A c \in below : ~(<<c, b>> \in R)
  <2>1. below \subseteq FiniteSubsetsOf(Nat) /\ below # {}
    BY <1>1
  <2>2. IsWellFoundedOn(R, FiniteSubsetsOf(Nat))
    BY FS_StrictSubsetOrderingWellFounded
  <2> HIDE DEF below, R
  <2> QED  BY <2>1, <2>2, WFMin
<1>3. PICK x \in T : \A y \in T : ~(<<0..y - 1, 0..x - 1>> \in R)
  BY <1>2
<1>4. ASSUME NEW y \in T PROVE x <= y
  <2> SUFFICES ASSUME y < x PROVE FALSE
    OBVIOUS
  <2>1. 0..y - 1 \in SUBSET Nat /\ 0..x - 1 \in SUBSET Nat
    OBVIOUS
  <2>2. 0..y - 1 \subseteq 0..x - 1
    OBVIOUS
  <2>3. y \in 0..x - 1 /\ y \notin 0..y - 1
    OBVIOUS
  <2>4. <<0..y - 1, 0..x - 1>> \in R
    BY <2>1, <2>2, <2>3 DEF StrictSubsetOrdering
  <2> QED  BY <1>3, <2>4
<1> QED  BY <1>4

\* Whether a byte is what the verifier expects in its place.
Agrees(b, i) == Byte(b, i) = (verifyData + i) % Modulus

\* FirstMismatch is what its comment says.
LEMMA FirstMismatchType ==
    ASSUME NEW b, b.size \in Nat
    PROVE  /\ FirstMismatch(b) \in 0..b.size
           /\ FirstMismatch(b) = b.size \/ ~Agrees(b, FirstMismatch(b))
           /\ \A k \in 0..FirstMismatch(b) - 1 : Agrees(b, k)
<1> DEFINE n == b.size
           T == {i \in 0..n : i = n \/ ~Agrees(b, i)}
<1>1. n \in Nat /\ n \in T /\ T \subseteq Nat
  OBVIOUS
<1>2. \E i \in T : \A y \in T : i <= y
  <2> HIDE DEF T
  <2> QED  BY <1>1, Least
<1>3. PICK i \in T : \A y \in T : i <= y
  BY <1>2
<1>4. i \in 0..n /\ (i = n \/ ~Agrees(b, i))
  OBVIOUS
<1>5. \A k \in 0..i - 1 : Agrees(b, k)
  <2> SUFFICES ASSUME NEW k \in 0..i - 1, ~Agrees(b, k) PROVE FALSE
    OBVIOUS
  <2>1. k \in T /\ ~(i <= k)
    BY <1>4
  <2> QED  BY <1>3, <2>1
<1>6. \E m \in 0..b.size :
          /\ m = b.size \/ Byte(b, m) # (verifyData + m) % Modulus
          /\ \A k \in 0..m - 1 : Byte(b, k) = (verifyData + k) % Modulus
  BY <1>4, <1>5 DEF Agrees
<1> QED  BY <1>6 DEF FirstMismatch, Agrees

\* A byte of a buffer on its way agrees if the buffer's distance from the
\* verifier, and the change, cancel.
LEMMA AgreesType ==
    ASSUME NEW b \in Buffer, NEW i \in Nat, compared \in Nat,
           b.first = b.at % Modulus, verifyData = compared % Modulus
    PROVE  Agrees(b, i) <=>
               ((b.at - compared) + (IF i = b.bad THEN 1 ELSE 0)) % Modulus = 0
<1> DEFINE e == IF i = b.bad THEN 1 ELSE 0
<1> DEFINE x == b.at
           d == i + e
<1>1. /\ x \in Int /\ d \in Int /\ e \in 0..1 /\ compared + i \in Int
      /\ x + d \in Int
  BY DEF Buffer
<1>2. Byte(b, i) = ((x % Modulus) + d) % Modulus
  <2>1. b.first \in Nat
    BY Width DEF Buffer
  <2>2. Byte(b, i) = (b.first + i + e) % Modulus
    BY DEF Byte
  <2>3. b.first + i + e = b.first + (i + e)
    BY <1>1, <2>1
  <2> QED  BY <2>2, <2>3
<1>3. (verifyData + i) % Modulus = (compared + i) % Modulus
  BY Reduced
<1>4. (x + d) - (compared + i) = (x - compared) + e
  BY <1>1
<1> HIDE DEF x, d, e
<1>5. Byte(b, i) = (x + d) % Modulus
  BY <1>1, <1>2, Reduced
<1>6. Agrees(b, i) <=> ((x + d) - (compared + i)) % Modulus = 0
  <2> DEFINE y == x + d
             z == compared + i
  <2>1. y \in Int /\ z \in Int
    BY <1>1
  <2>2. Agrees(b, i) <=> y % Modulus = z % Modulus
    BY <1>3, <1>5 DEF Agrees
  <2> HIDE DEF y, z
  <2>3. Agrees(b, i) <=> (y - z) % Modulus = 0
    BY <2>1, <2>2, Congruent
  <2> QED  BY <2>3 DEF y, z
<1> QED  BY <1>4, <1>6 DEF e, x

\* The whole buffer agrees exactly if the verdict ought to be good.
LEMMA AllAgree ==
    ASSUME NEW b \in Buffer, compared \in Nat, b.bad <= b.size,
           b.first = b.at % Modulus, verifyData = compared % Modulus
    PROVE  (FirstMismatch(b) = b.size) <=>
               \/ b.size = 0
               \/ (b.at - compared) % Modulus = 0 /\ b.bad = b.size
               \/ /\ ((b.at - compared) + 1) % Modulus = 0
                  /\ b.bad = 0 /\ b.size = 1
<1> DEFINE s == b.at - compared
           n == b.size
<1>1. s \in Int /\ n \in Nat /\ b.bad \in 0..n
  BY DEF Buffer
<1>2. (FirstMismatch(b) = n) <=> \A i \in 0..n - 1 : Agrees(b, i)
  BY <1>1, FirstMismatchType
<1>3. \A i \in 0..n - 1 :
          Agrees(b, i) <=> IF i = b.bad THEN (s + 1) % Modulus = 0
                                        ELSE s % Modulus = 0
  <2> TAKE i \in 0..n - 1
  <2>1. Agrees(b, i) <=> (s + (IF i = b.bad THEN 1 ELSE 0)) % Modulus = 0
    BY AgreesType
  <2>2. s + 0 = s
    BY <1>1
  <2> QED  BY <2>1, <2>2
<1>4. (FirstMismatch(b) = n) <=>
          \A i \in 0..n - 1 : IF i = b.bad THEN (s + 1) % Modulus = 0
                                           ELSE s % Modulus = 0
  BY <1>2, <1>3
<1> DEFINE same == s % Modulus = 0
           off  == (s + 1) % Modulus = 0
<1>5. ~(same /\ off)
  BY <1>1, NextDiffers
<1>6. (FirstMismatch(b) = n) <=>
          \A i \in 0..n - 1 : IF i = b.bad THEN off ELSE same
  BY <1>4
<1> SUFFICES (FirstMismatch(b) = n) <=> \/ n = 0
                                        \/ same /\ b.bad = n
                                        \/ off /\ b.bad = 0 /\ n = 1
  OBVIOUS
<1> HIDE DEF same, off, n, s
<1>7. CASE n = 0
  BY <1>6, <1>7
<1>8. CASE n # 0 /\ b.bad = n
  <2>1. 0 \in 0..n - 1 /\ \A i \in 0..n - 1 : i # b.bad
    BY <1>1, <1>8
  <2> QED  BY <1>1, <1>6, <1>8, <2>1
<1>9. CASE n = 1 /\ b.bad # n
  BY <1>1, <1>6, <1>9
<1>10. CASE n > 1 /\ b.bad # n
  <2>1. /\ b.bad \in 0..n - 1
        /\ \E i \in 0..n - 1 : i # b.bad
    <3>1. 0 \in 0..n - 1 /\ 1 \in 0..n - 1
      BY <1>1, <1>10
    <3> QED  BY <1>1, <1>10, <3>1
  <2> QED  BY <1>5, <1>6, <1>10, <2>1
<1> QED  BY <1>1, <1>7, <1>8, <1>9, <1>10

-----------------------------------------------------------------------------
(* The steps.                                                              *)

\* The invariant holds at the start.
LEMMA Initially == Init => IInv
<1> SUFFICES ASSUME Init PROVE IInv
  OBVIOUS
<1>1. 0 % Modulus = 0 /\ 0 \in 0..Modulus - 1
  BY Width
<1>2. /\ formatData = 0 /\ verifyData = 0 /\ total_bytes = 0 /\ net = <<>>
      /\ formatted = 0 /\ compared = 0 /\ failures = 0 /\ calls = 0
      /\ verdict = [ok |-> TRUE, skew |-> 0, size |-> 0, bad |-> 0]
  BY DEF Init
<1>3. TypeOK
  <2>1. net \in Seq(Buffer) /\ calls \in 0..MaxVerify
    BY <1>2, PatternAssumption
  <2>2. verdict \in [ok : BOOLEAN, skew : Int, size : Nat, bad : Nat]
    BY <1>2
  <2> QED  BY <1>1, <1>2, <2>1, <2>2 DEF TypeOK
<1>4. CountersFollowStream
  BY <1>1, <1>2 DEF CountersFollowStream
<1>5. PositionLagsByFailures
  BY <1>1, <1>2 DEF PositionLagsByFailures
<1>6. VerdictIsRight
  BY <1>2 DEF VerdictIsRight
<1> QED  BY <1>3, <1>4, <1>5, <1>6 DEF IInv

\* What is formatted follows the stream.
LEMMA FormatPreserves ==
    ASSUME IInv, NEW size \in BufSizes, format_buf(size)
    PROVE  IInv'
<1> DEFINE b == [first |-> formatData, size |-> size, bad |-> size,
                 at |-> formatted]
<1>1. /\ TypeOK /\ CountersFollowStream /\ PositionLagsByFailures
      /\ VerdictIsRight
  BY DEF IInv
<1>2. /\ size \in Nat /\ formatted \in Nat /\ net \in Seq(Buffer)
      /\ formatData \in 0..Modulus - 1 /\ Len(net) \in Nat
  BY <1>1, PatternAssumption, LenProperties DEF TypeOK
<1>3. /\ net' = Append(net, b)
      /\ formatData' = (formatData + size) % Modulus
      /\ formatted' = formatted + size
      /\ UNCHANGED <<verifyData, total_bytes, compared, failures, calls,
                     verdict>>
  BY DEF format_buf
<1>4. b \in Buffer /\ b.first = b.at % Modulus /\ b.bad <= b.size
  BY <1>1, <1>2 DEF Buffer, CountersFollowStream
<1> HIDE DEF b
<1>5. /\ net' \in Seq(Buffer)
      /\ \A k \in 1..Len(net') : \/ net'[k] = b
                                 \/ k \in 1..Len(net) /\ net'[k] = net[k]
  BY <1>2, <1>3, <1>4, AppendProperties
<1>6. formatData' = (formatted + size) % Modulus
  <2>1. formatData = formatted % Modulus
    BY <1>1 DEF CountersFollowStream
  <2> QED  BY <1>2, <1>3, <2>1, Reduced
<1>7. formatData' \in 0..Modulus - 1
  BY <1>2, <1>3, Division
<1>8. TypeOK'
  BY <1>1, <1>2, <1>3, <1>5, <1>7 DEF TypeOK
<1>9. CountersFollowStream'
  BY <1>1, <1>3, <1>4, <1>5, <1>6 DEF CountersFollowStream
<1>10. PositionLagsByFailures' /\ VerdictIsRight'
  BY <1>1, <1>3 DEF PositionLagsByFailures, VerdictIsRight
<1> QED  BY <1>8, <1>9, <1>10 DEF IInv

\* A comparison leaves the counter behind what it compared, and the verdict
\* right; a failure has compared one byte more than it counted.
LEMMA VerifyPreserves ==
    ASSUME IInv, verify_buf
    PROVE  IInv'
<1> DEFINE b == Head(net)
           n == Steps(b)
           m == FirstMismatch(b)
<1>1. /\ TypeOK /\ CountersFollowStream /\ PositionLagsByFailures
      /\ VerdictIsRight
  BY DEF IInv
<1>2. /\ net # <<>> /\ net' = Tail(net)
      /\ calls < MaxVerify /\ calls' = calls + 1
      /\ verifyData' = (verifyData + n) % Modulus
      /\ compared' = compared + n /\ total_bytes' = total_bytes + m
      /\ failures' = IF m = b.size THEN failures ELSE failures + 1
      /\ verdict' = [ok |-> m = b.size, skew |-> b.at - compared,
                     size |-> b.size, bad |-> b.bad]
      /\ UNCHANGED <<formatData, formatted>>
  BY DEF verify_buf, Counted
<1>3. /\ b \in Buffer /\ net' \in Seq(Buffer)
      /\ b.first = b.at % Modulus /\ b.bad <= b.size
      /\ \A k \in 1..Len(net') : k + 1 \in 1..Len(net) /\ net'[k] = net[k + 1]
  <2>1. net \in Seq(Buffer) /\ Len(net) \in Nat /\ Len(net) # 0
    BY <1>1, <1>2, LenProperties, EmptySeq DEF TypeOK
  <2>2. /\ b \in Buffer /\ b = net[1] /\ 1 \in 1..Len(net)
        /\ net' \in Seq(Buffer) /\ Len(net') = Len(net) - 1
        /\ \A k \in 1..Len(net') : net'[k] = net[k + 1]
    BY <1>2, <2>1, HeadTailProperties
  <2>3. b.first = b.at % Modulus /\ b.bad <= b.size
    BY <1>1, <2>2 DEF CountersFollowStream
  <2> QED  BY <2>1, <2>2, <2>3
<1>4. /\ verifyData = compared % Modulus /\ total_bytes + failures = compared
      /\ compared \in Nat /\ total_bytes \in Nat /\ failures \in Nat
      /\ verifyData \in 0..Modulus - 1
  BY <1>1 DEF PositionLagsByFailures, TypeOK
<1>5. /\ b.size \in Nat /\ b.at \in Nat /\ b.bad \in Nat
      /\ m \in 0..b.size
      /\ n = IF m < b.size THEN m + 1 ELSE m
  BY <1>3, FirstMismatchType DEF Buffer, Steps
<1>6. (m = b.size) <=>
          \/ b.size = 0
          \/ (b.at - compared) % Modulus = 0 /\ b.bad = b.size
          \/ ((b.at - compared) + 1) % Modulus = 0 /\ b.bad = 0 /\ b.size = 1
  BY <1>3, <1>4, AllAgree
<1> HIDE DEF b, m, n
<1>7. n \in Nat /\ n = IF m = b.size THEN m ELSE m + 1
  BY <1>5
<1>8. verifyData' = (compared + n) % Modulus /\ verifyData' \in 0..Modulus - 1
  <2>1. verifyData + n \in Int /\ compared \in Int /\ n \in Int
    BY <1>4, <1>7, Width
  <2>2. ((compared % Modulus) + n) % Modulus = (compared + n) % Modulus
    BY <2>1, Reduced
  <2>3. (verifyData + n) % Modulus \in 0..Modulus - 1
    BY <2>1, Division
  <2> QED  BY <1>2, <1>4, <2>2, <2>3
<1>9. TypeOK'
  <2>1. /\ total_bytes' \in Nat /\ compared' \in Nat /\ failures' \in Nat
        /\ calls' \in 0..MaxVerify
    BY <1>1, <1>2, <1>4, <1>5, <1>7, PatternAssumption DEF TypeOK
  <2>2. verdict' \in [ok : BOOLEAN, skew : Int, size : Nat, bad : Nat]
    <3>1. (m = b.size) \in BOOLEAN /\ b.at - compared \in Int
      BY <1>4, <1>5
    <3>2. verdict' = [ok |-> m = b.size, skew |-> b.at - compared,
                      size |-> b.size, bad |-> b.bad]
      BY <1>2
    <3> QED  BY <1>5, <3>1, <3>2
  <2> QED  BY <1>1, <1>2, <1>3, <1>8, <2>1, <2>2 DEF TypeOK
<1>10. CountersFollowStream'
  BY <1>1, <1>2, <1>3 DEF CountersFollowStream
<1>11. PositionLagsByFailures'
  <2>1. total_bytes' + failures' = compared'
    BY <1>2, <1>4, <1>5, <1>7
  <2> QED  BY <1>2, <1>8, <2>1 DEF PositionLagsByFailures
<1>12. VerdictIsRight'
  <2>1. /\ verdict'.ok = (m = b.size) /\ verdict'.skew = b.at - compared
        /\ verdict'.size = b.size /\ verdict'.bad = b.bad
    BY <1>2
  <2> QED  BY <1>6, <2>1 DEF VerdictIsRight
<1> QED  BY <1>9, <1>10, <1>11, <1>12 DEF IInv

\* What happens on the way changes where the buffers are, and a byte of them,
\* but not where they started.
LEMMA DisturbPreserves ==
    ASSUME IInv, Disturb
    PROVE  IInv'
<1>1. /\ TypeOK /\ CountersFollowStream /\ PositionLagsByFailures
      /\ VerdictIsRight
  BY DEF IInv
<1>2. /\ net # <<>>
      /\ UNCHANGED <<formatData, verifyData, total_bytes, formatted, compared,
                     failures, calls, verdict>>
  BY DEF Disturb
<1>3. /\ net \in Seq(Buffer) /\ Len(net) \in Nat /\ 1 \in 1..Len(net)
      /\ Head(net) = net[1] /\ Head(net) \in Buffer
      /\ Tail(net) \in Seq(Buffer) /\ Len(Tail(net)) = Len(net) - 1
      /\ \A k \in 1..Len(Tail(net)) : Tail(net)[k] = net[k + 1]
  <2>1. net \in Seq(Buffer) /\ Len(net) \in Nat /\ Len(net) # 0
    BY <1>1, <1>2, LenProperties, EmptySeq DEF TypeOK
  <2> QED  BY <1>2, <2>1, HeadTailProperties
<1>4. SUFFICES /\ net' \in Seq(Buffer)
               /\ \A k \in 1..Len(net') :
                      \E l \in 1..Len(net) :
                          /\ net'[k].first = net[l].first
                          /\ net'[k].at = net[l].at
                          /\ net'[k].size = net[l].size
                          /\ \/ net'[k].bad = net[l].bad
                             \/ net'[k].bad <= net[l].size
  <2>1. TypeOK'
    BY <1>1, <1>2, <1>4 DEF TypeOK
  <2>2. CountersFollowStream'
    BY <1>1, <1>2, <1>4 DEF CountersFollowStream
  <2>3. PositionLagsByFailures' /\ VerdictIsRight'
    BY <1>1, <1>2 DEF PositionLagsByFailures, VerdictIsRight
  <2> QED  BY <2>1, <2>2, <2>3 DEF IInv
<1>5. CASE net' = Tail(net)
  <2>1. \A k \in 1..Len(net') : k + 1 \in 1..Len(net) /\ net'[k] = net[k + 1]
    BY <1>3, <1>5
  <2> QED  BY <1>3, <1>5, <2>1
<1>6. CASE net' = <<Head(net)>> \o net
  <2> DEFINE h == <<Head(net)>>
  <2>1. h \in Seq(Buffer) /\ Len(h) = 1 /\ h[1] = net[1]
    BY <1>3
  <2> HIDE DEF h
  <2>2. /\ net' \in Seq(Buffer) /\ Len(net') = Len(net) + 1
        /\ \A k \in 1..Len(net') : net'[k] = IF k <= 1 THEN h[k]
                                                       ELSE net[k - 1]
    BY <1>3, <1>6, <2>1, ConcatProperties DEF h
  <2>3. \A k \in 1..Len(net') : \E l \in 1..Len(net) : net'[k] = net[l]
    <3> TAKE k \in 1..Len(net')
    <3>1. CASE k = 1
      BY <1>3, <2>1, <2>2, <3>1
    <3>2. CASE k # 1
      <4>1. k - 1 \in 1..Len(net) /\ net'[k] = net[k - 1]
        BY <1>3, <2>2, <3>2
      <4> QED  BY <4>1
    <3> QED  BY <3>1, <3>2
  <2> QED  BY <2>2, <2>3
<1>7. CASE \E i \in 0..Head(net).size - 1 : net' = [net EXCEPT ![1].bad = i]
  <2>1. PICK i \in 0..Head(net).size - 1 : net' = [net EXCEPT ![1].bad = i]
    BY <1>7
  <2> DEFINE c == [net[1] EXCEPT !.bad = i]
  <2>2. /\ c \in Buffer /\ c.first = net[1].first /\ c.at = net[1].at
        /\ c.size = net[1].size /\ c.bad <= net[1].size
    <3>1. net[1] \in Buffer /\ i \in 0..net[1].size - 1 /\ net[1].size \in Nat
      BY <1>3, <2>1 DEF Buffer
    <3>2. i \in Nat /\ i <= net[1].size
      BY <3>1
    <3> QED  BY <3>1, <3>2 DEF Buffer
  <2>3. net' = [net EXCEPT ![1] = c]
    BY <1>3, <2>1
  <2> HIDE DEF c
  <2>4. /\ net' \in Seq(Buffer) /\ Len(net') = Len(net)
        /\ \A k \in 1..Len(net) : net'[k] = IF k = 1 THEN c ELSE net[k]
    BY <1>3, <2>2, <2>3, ExceptSeq
  <2> QED  BY <2>2, <2>4
<1> QED  BY <1>5, <1>6, <1>7 DEF Disturb

-----------------------------------------------------------------------------
(* The theorems.                                                           *)

\* The invariant holds throughout: the counters follow the stream, whatever
\* happens to the buffers on their way.
THEOREM Invariance == Spec => []IInv
<1>1. IInv /\ [Next]_vars => IInv'
  <2> SUFFICES ASSUME IInv, [Next]_vars PROVE IInv'
    OBVIOUS
  <2>1. CASE UNCHANGED vars
    BY <2>1 DEF vars, IInv, TypeOK, CountersFollowStream,
                PositionLagsByFailures, VerdictIsRight
  <2> QED  BY <2>1, FormatPreserves, VerifyPreserves, DisturbPreserves DEF Next
<1> QED  BY Initially, <1>1, PTL DEF Spec

\* verify_buf accepts what it should, for every sequence of calls, losses,
\* repetitions and changes.
THEOREM VerdictIsRightHolds == Spec => []VerdictIsRight
<1>1. IInv => VerdictIsRight
  BY DEF IInv
<1> QED  BY Invariance, <1>1, PTL

\* Its position falls behind by one with every failure, and never catches up.
THEOREM PositionLagsByFailuresHolds == Spec => []PositionLagsByFailures
<1>1. IInv => PositionLagsByFailures
  BY DEF IInv
<1> QED  BY Invariance, <1>1, PTL

=============================================================================

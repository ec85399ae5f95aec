--------------------------- MODULE RegionsProofs ---------------------------
(***************************************************************************)
(* The invariants of Regions for every choice of sizes: an access is       *)
(* refused, and a list too long, only for a reason that the sizes name.    *)
(***************************************************************************)
EXTENDS Regions, TLAPS

\* Every message fits into the control buffers of both sides, which allow it.
LEMMA MessagesGranted ==
    ASSUME NEW s \in Side
    PROVE  \A a \in MessageAccesses(s) : Granted(a)
BY BytesAssumption
   DEF MessageAccesses, Access, Granted, Registered, Rights, Bytes, Peer, Side,
       Right

\* A transfer between rdma_buf and the other's start buffer is granted if the
\* start buffer is no longer than rdma_buf.
LEMMA TransferGranted ==
    ASSUME IInv, NEW s \in Side, told[s]["start"] # None,
           NEW local \in SUBSET Right, NEW there \in SUBSET Right,
           startSize[Peer(s)] <= rdmaSize[s]
    PROVE  \A a \in {Access(s, "rdma", "rdma", 0, remote_len[s], local),
                     Access(Peer(s), "start", told[s]["start"], 0,
                            remote_len[s], there)} : Granted(a)
<1>1. told[s]["start"] = "start" /\ remote_len[s] = startSize[Peer(s)]
  BY DEF IInv, Told
<1>2. remote_len[s] \in Nat /\ startSize[Peer(s)] \in Nat /\ rdmaSize[s] \in Nat
  BY SizesAssumption, <1>1 DEF IInv, TypeOK, Side, Peer
<1>3. Granted(Access(s, "rdma", "rdma", 0, remote_len[s], local))
  BY <1>1, <1>2 DEF Access, Granted, Registered, Rights, Bytes, Right
<1>4. Granted(Access(Peer(s), "start", told[s]["start"], 0, remote_len[s], there))
  BY <1>1, <1>2 DEF Access, Granted, Registered, Rights, Bytes, Right
<1> QED BY <1>3, <1>4

\* read_class stays inside both of its buffers and inside the staged class.
LEMMA ClassGranted ==
    ASSUME IInv, told["client"]["class"] # None
    PROVE  \A a \in {Access("client", "recvData", "recvData", 0, ObjectBytes,
                            {"local_write"}),
                     Access("client", "recvBuf", "recvBuf", 0, 4 * FetchWords,
                            {"local_write"}),
                     Access("server", "class", told["client"]["class"], 0,
                            ObjectBytes + 4 * FetchWords, {"remote_read"})} :
               Granted(a)
<1>1. told["client"]["class"] = "class"
  BY DEF IInv, Told, Side
<1>2. Granted(Access("client", "recvData", "recvData", 0, ObjectBytes,
                     {"local_write"}))
  BY BytesAssumption DEF Access, Granted, Registered, Rights, Bytes, Right
<1>3. Granted(Access("client", "recvBuf", "recvBuf", 0, 4 * FetchWords,
                     {"local_write"}))
  BY BytesAssumption DEF Access, Granted, Registered, Rights, Bytes, Right
<1>4. Granted(Access("server", "class", told["client"]["class"], 0,
                     ObjectBytes + 4 * FetchWords, {"remote_read"}))
  BY BytesAssumption, <1>1 DEF Access, Granted, Registered, Rights, Bytes, Right
<1> QED BY <1>2, <1>3, <1>4

\* An element of a sweep is inside both sketches if the server's is no shorter.
LEMMA ElementGranted ==
    ASSUME IInv, told["client"]["sketch"] # None,
           element < sketchSize["client"],
           sketchSize["client"] <= sketchSize["server"]
    PROVE  \A a \in {Access("client", "sketch", "sketch", 4 * element, 4,
                            {"local_write"}),
                     Access("server", "sketch", told["client"]["sketch"],
                            4 * element, 4, {"remote_read"})} : Granted(a)
<1>1. told["client"]["sketch"] = "sketch"
  BY DEF IInv, Told, Side
<1>2. sketchSize["client"] \in Nat /\ sketchSize["server"] \in Nat
  BY SizesAssumption DEF IInv, TypeOK, Side
<1>3. element \in Nat
  BY <1>2 DEF IInv, TypeOK
<1>4. Granted(Access("client", "sketch", "sketch", 4 * element, 4,
                     {"local_write"}))
  BY <1>2, <1>3 DEF Access, Granted, Registered, Rights, Bytes, Right
<1>5. Granted(Access("server", "sketch", told["client"]["sketch"], 4 * element,
                     4, {"remote_read"}))
  BY <1>1, <1>2, <1>3 DEF Access, Granted, Registered, Rights, Bytes, Right
<1> QED BY <1>4, <1>5

\* What a request of one or two segments changes, whichever it is.
LEMMA PostChanges ==
    ASSUME NEW s \in Side, NEW op, NEW num_sge \in {1, 2}, NEW accesses,
           num_sge = 2 => s = "client",
           Post(s, op, num_sge, accesses)
    PROVE  /\ posted'.op = op /\ posted'.by = s
           /\ pc' = pc
           /\ link' \in {"up", "broken"}
           /\ (\A a \in accesses : Granted(a)) => link' = "up"
BY DEF Post, MaxSge, Side

-----------------------------------------------------------------------------

\* The invariant holds initially: nothing was told and nothing posted.
LEMMA InitIInv == Init => IInv
<1> SUFFICES ASSUME Init PROVE IInv
  OBVIOUS
<1>1. sketchSize["client"] \in Nat
  BY SizesAssumption DEF Init, Side
<1>2. element \in 0..sketchSize["client"]
  BY <1>1 DEF Init
<1>3. TypeOK
  BY <1>2 DEF Init, TypeOK, Side, None
<1> QED BY <1>3 DEF Init, IInv, RefusedOnlyMisfit, ScatterListsFit, Side, Told, None

\* setup_buffer precedes every request.
LEMMA SetupBufferIInv ==
    ASSUME IInv, NEW s \in Side, SetupBuffer(s)
    PROVE  IInv'
<1>1. posted.op = None
  BY DEF IInv, SetupBuffer
<1>2. TypeOK'
  BY DEF IInv, TypeOK, SetupBuffer, sizes
<1> QED BY <1>1, <1>2
     DEF IInv, SetupBuffer, RefusedOnlyMisfit, ScatterListsFit, Misfit, sizes, None

\* An address is told with its own key and length.
LEMMA TellIInv ==
    ASSUME IInv, NEW s \in Side, NEW b \in Told, Tell(s, b)
    PROVE  IInv'
<1>1. /\ posted'.op = "send" /\ posted'.by = s /\ pc' = pc /\ link' = "up"
  <2>1. Post(s, "send", 1, MessageAccesses(s))
    BY DEF Tell
  <2>2. \A a \in MessageAccesses(s) : Granted(a)
    BY MessagesGranted
  <2> QED BY <2>1, <2>2, PostChanges
<1>2. \A r \in Side : pc[r] = "running"
  BY DEF Tell, Connected
<1>3. told' = [told EXCEPT ![Peer(s)][b] = b]
  BY <1>1, <1>2 DEF Tell, Advertised
<1>4. remote_len' = IF b = "start"
                    THEN [remote_len EXCEPT ![Peer(s)] = startSize[s]]
                    ELSE remote_len
  BY <1>1, <1>2 DEF Tell
<1>5. UNCHANGED sizes /\ UNCHANGED element
  BY DEF Tell
<1>6. TypeOK'
  BY <1>1, <1>3, <1>4, <1>5
     DEF IInv, TypeOK, sizes, Side, Peer, Told, Buffer, None
<1>7. s = "client" => b = "start"
  BY DEF Tell
<1>8. \A r \in Side, c \in Told : told'[r][c] \in {c, None}
  BY <1>3 DEF IInv, TypeOK, Side, Peer
<1>9. told'["server"]["class"] = None /\ told'["server"]["sketch"] = None
  BY <1>3, <1>7 DEF IInv, TypeOK, Side, Peer, Told
<1>10. \A r \in Side :
          told'[r]["start"] # None => remote_len'[r] = startSize'[Peer(r)]
  BY <1>3, <1>4, <1>5 DEF IInv, TypeOK, Side, Peer, Told, sizes
<1> QED BY <1>1, <1>2, <1>6, <1>8, <1>9, <1>10
     DEF IInv, RefusedOnlyMisfit, ScatterListsFit, Side

\* A request that leaves what was told alone preserves the invariant if it is
\* granted or misfits.
LEMMA RequestIInv ==
    ASSUME IInv, Connected,
           NEW s \in Side,
           NEW op \in {"rdma_read", "rdma_write", "read_class", "ow_read"},
           NEW num_sge \in {1, 2}, NEW accesses,
           num_sge = 2 => s = "client",
           Post(s, op, num_sge, accesses),
           Misfit(op, s) \/ \A a \in accesses : Granted(a),
           UNCHANGED <<sizes, told, remote_len>>,
           element' \in 0..sketchSize["client"]
    PROVE  IInv'
<1>1. /\ posted'.op = op /\ posted'.by = s /\ pc' = pc
      /\ link' \in {"up", "broken"}
      /\ (\A a \in accesses : Granted(a)) => link' = "up"
  BY PostChanges
<1>2. \A r \in Side : pc[r] = "running"
  BY DEF Connected
<1>3. TypeOK'
  BY <1>1 DEF IInv, TypeOK, sizes
<1>4. Misfit(op, s)' <=> Misfit(op, s)
  BY DEF Misfit, sizes
<1>5. RefusedOnlyMisfit'
  BY <1>1, <1>4 DEF RefusedOnlyMisfit, Misfit, sizes
<1> QED BY <1>1, <1>2, <1>3, <1>5 DEF IInv, ScatterListsFit, sizes

\* rdma_read and rdma_write of either side.
LEMMA ReadOrWriteIInv ==
    ASSUME IInv, NEW s \in Side, RdmaRead(s) \/ RdmaWrite(s)
    PROVE  IInv'
<1>1. PICK op \in {"rdma_read", "rdma_write"}, local \in SUBSET Right,
           there \in SUBSET Right : ReadOrWrite(s, op, local, there)
  BY DEF RdmaRead, RdmaWrite, Right
<1> DEFINE accesses ==
      {Access(s, "rdma", "rdma", 0, remote_len[s], local),
       Access(Peer(s), "start", told[s]["start"], 0, remote_len[s], there)}
<1>2. /\ Connected /\ told[s]["start"] # None
      /\ Post(s, op, 1, accesses)
      /\ UNCHANGED <<sizes, told, remote_len, element>>
  BY <1>1 DEF ReadOrWrite
<1>3. Misfit(op, s) \/ \A a \in accesses : Granted(a)
  <2>1. startSize[Peer(s)] \in Nat /\ rdmaSize[s] \in Nat
    BY SizesAssumption DEF IInv, TypeOK, Side, Peer
  <2>2. CASE startSize[Peer(s)] > rdmaSize[s]
    BY <2>2 DEF Misfit
  <2>3. CASE startSize[Peer(s)] <= rdmaSize[s]
    BY <1>2, <2>3, TransferGranted
  <2> QED BY <2>1, <2>2, <2>3
<1>4. element' \in 0..sketchSize["client"]
  BY <1>2 DEF IInv, TypeOK
<1> HIDE DEF accesses
<1> QED BY <1>2, <1>3, <1>4, RequestIInv

\* read_class is always granted.
LEMMA ReadClassIInv ==
    ASSUME IInv, ReadClass
    PROVE  IInv'
<1> DEFINE accesses ==
      {Access("client", "recvData", "recvData", 0, ObjectBytes,
              {"local_write"}),
       Access("client", "recvBuf", "recvBuf", 0, 4 * FetchWords,
              {"local_write"}),
       Access("server", "class", told["client"]["class"], 0,
              ObjectBytes + 4 * FetchWords, {"remote_read"})}
<1>1. /\ Connected /\ told["client"]["class"] # None
      /\ Post("client", "read_class", 2, accesses)
      /\ UNCHANGED <<sizes, told, remote_len, element>>
  BY DEF ReadClass
<1>2. \A a \in accesses : Granted(a)
  BY <1>1, ClassGranted
<1>3. element' \in 0..sketchSize["client"] /\ "client" \in Side
  BY <1>1 DEF IInv, TypeOK, Side
<1> HIDE DEF accesses
<1> QED BY <1>1, <1>2, <1>3, RequestIInv

\* An element of a sweep is granted, or the sketches do not fit.
LEMMA ReadElementIInv ==
    ASSUME IInv, ReadElement
    PROVE  IInv'
<1> DEFINE accesses ==
      {Access("client", "sketch", "sketch", 4 * element, 4, {"local_write"}),
       Access("server", "sketch", told["client"]["sketch"], 4 * element, 4,
              {"remote_read"})}
<1>1. /\ Connected /\ element < sketchSize["client"]
      /\ Post("client", "ow_read", 1, accesses)
      /\ element' = element + 1
      /\ UNCHANGED <<sizes, told, remote_len>>
  BY DEF ReadElement
<1>2. sketchSize["client"] \in Nat /\ sketchSize["server"] \in Nat
  BY SizesAssumption DEF IInv, TypeOK, Side
<1>3. Misfit("ow_read", "client") \/ \A a \in accesses : Granted(a)
  <2>1. CASE told["client"]["sketch"] = None
    BY <2>1 DEF Misfit
  <2>2. CASE sketchSize["client"] > sketchSize["server"]
    BY <2>2 DEF Misfit
  <2>3. CASE /\ told["client"]["sketch"] # None
             /\ sketchSize["client"] <= sketchSize["server"]
    BY <1>1, <2>3, ElementGranted
  <2> QED BY <1>2, <2>1, <2>2, <2>3
<1>4. element' \in 0..sketchSize["client"] /\ "client" \in Side
  BY <1>1, <1>2 DEF IInv, TypeOK, Side
<1> HIDE DEF accesses
<1> QED BY <1>1, <1>3, <1>4, RequestIInv

\* The end of a sweep starts the loop variable again.
LEMMA EndSweepIInv ==
    ASSUME IInv, EndSweep
    PROVE  IInv'
<1>1. sketchSize["client"] \in Nat
  BY SizesAssumption DEF IInv, TypeOK, Side
<1>2. TypeOK'
  BY <1>1 DEF IInv, TypeOK, EndSweep, sizes
<1> QED BY <1>2
     DEF IInv, EndSweep, RefusedOnlyMisfit, ScatterListsFit, Misfit, sizes

\* Every step of either program preserves the invariant.
LEMMA NextIInv == IInv /\ [Next]_vars => IInv'
<1> SUFFICES ASSUME IInv, [Next]_vars PROVE IInv'
  OBVIOUS
<1>1. CASE \E s \in Side : SetupBuffer(s) \/ RdmaRead(s) \/ RdmaWrite(s)
  BY <1>1, SetupBufferIInv, ReadOrWriteIInv
<1>2. CASE \E s \in Side, b \in Told : Tell(s, b)
  BY <1>2, TellIInv
<1>3. CASE ReadClass
  BY <1>3, ReadClassIInv
<1>4. CASE ReadElement
  BY <1>4, ReadElementIInv
<1>5. CASE EndSweep
  BY <1>5, EndSweepIInv
<1>6. CASE UNCHANGED vars
  BY <1>6 DEF vars, sizes, IInv, TypeOK, RefusedOnlyMisfit, ScatterListsFit, Misfit
<1> QED BY <1>1, <1>2, <1>3, <1>4, <1>5, <1>6 DEF Next

-----------------------------------------------------------------------------

\* Every reachable state satisfies the inductive invariant, whatever sizes the
\* two programs choose.
THEOREM Invariance == Spec => []IInv
BY InitIInv, NextIInv, PTL DEF Spec

\* Type correctness of what is told, posted and registered.
THEOREM TypeCorrect == Spec => []TypeOK
<1>1. IInv => TypeOK
  BY DEF IInv
<1> QED BY <1>1, Invariance, PTL

\* The adapters refuse a request only for sizes that do not fit, or in a sweep
\* that started before the sketch's address was known.
THEOREM RefusedOnlyMisfitHolds == Spec => []RefusedOnlyMisfit
<1>1. IInv => RefusedOnlyMisfit
  BY DEF IInv
<1> QED BY <1>1, Invariance, PTL

\* No request has more segments than its queue pair was created for.
THEOREM ScatterListsFitHolds == Spec => []ScatterListsFit
<1>1. IInv => ScatterListsFit
  BY DEF IInv
<1> QED BY <1>1, Invariance, PTL

=============================================================================

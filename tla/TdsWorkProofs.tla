--------------------------- MODULE TdsWorkProofs ---------------------------
(***************************************************************************)
(* The frame buffer of device/TdsWork.c is never overrun, for every frame  *)
(* length, number of requests and timing of the sensor: Tds_Work may clear *)
(* data_parsing_id at any point of the parsing thread's increment.         *)
(***************************************************************************)
EXTENDS TdsWork, TLAPS

\* The index alone does not stay in range by itself: that a full index is
\* seen before the next byte is stored is what the induction carries along.
FrameInv == TypeOK /\ FullIndexIsSeen

LEMMA FrameInit == Init => FrameInv
  BY TdsConstants DEF TdsConstants, Init, FrameInv, TypeOK, FullIndexIsSeen

LEMMA FrameStep == FrameInv /\ [Next]_vars => FrameInv'
<1> SUFFICES ASSUME FrameInv, [Next]_vars PROVE FrameInv'
  OBVIOUS
<1> USE TdsConstants DEF TdsConstants, FrameInv, history
<1>1. CASE Tds_Work
  BY <1>1 DEF Tds_Work, ClearValue, TypeOK, FullIndexIsSeen
<1>2. CASE uart_rx_ind
  BY <1>2 DEF uart_rx_ind, Release, TypeOK, FullIndexIsSeen
<1>3. CASE ReadByte
  BY <1>3 DEF ReadByte, TypeOK, FullIndexIsSeen
<1>4. CASE ResetSem
  BY <1>4 DEF ResetSem, TypeOK, FullIndexIsSeen
<1>5. CASE TakeSem
  BY <1>5 DEF TakeSem, TypeOK, FullIndexIsSeen
<1>6. CASE LoadIndex
  BY <1>6 DEF LoadIndex, TypeOK, FullIndexIsSeen
<1>7. CASE StoreByte
  <2>1. tmp \in 0 .. FrameLen - 1 /\ tmp + 1 \in 0 .. FrameLen
    BY <1>7 DEF StoreByte, TypeOK, FullIndexIsSeen
  <2>2. data' \in [0 .. FrameLen - 1 -> Int]
    BY <1>7, <2>1 DEF StoreByte, TypeOK
  <2>3. TypeOK'
    BY <1>7, <2>1, <2>2 DEF StoreByte, TypeOK
  <2>4. FullIndexIsSeen'
    BY <1>7, <2>1 DEF StoreByte, FullIndexIsSeen
  <2> QED
    BY <2>3, <2>4
<1>8. CASE CompareIndex
  <2>1. TypeOK'
    BY <1>8 DEF CompareIndex, TypeOK
  <2>2. PICK index \in {tmp + 1, data_parsing_id} :
           pc' = IF FrameIsFull(index) THEN "frame" ELSE "read"
    BY <1>8 DEF CompareIndex
  <2>3. FullIndexIsSeen'
    BY <1>8, <2>2 DEF CompareIndex, FrameIsFull, TypeOK, FullIndexIsSeen
  <2> QED
    BY <2>1, <2>3
<1>9. CASE ParseFrame
  <2>1. TDS_Value' \in {<<>>} \cup (Int \X Int)
    BY <1>9 DEF ParseFrame, TypeOK
  <2> QED
    BY <1>9, <2>1 DEF ParseFrame, TypeOK, FullIndexIsSeen
<1>10. CASE UNCHANGED vars
  BY <1>10 DEF vars, TypeOK, FullIndexIsSeen
<1> QED
  BY <1>1, <1>2, <1>3, <1>4, <1>5, <1>6, <1>7, <1>8, <1>9, <1>10
     DEF Next, data_parsing

\* Type correctness: every variable of the receiver keeps its range,
\* data_parsing_id included.
THEOREM TdsTypeCorrect == Spec => []TypeOK
<1>1. FrameInv => TypeOK
  BY DEF FrameInv
<1> QED
  BY FrameInit, FrameStep, <1>1, PTL DEF Spec

\* A full index is seen by line 62 before the next byte is stored.
THEOREM FullIndexAlwaysSeen == Spec => []FullIndexIsSeen
<1>1. FrameInv => FullIndexIsSeen
  BY DEF FrameInv
<1> QED
  BY FrameInit, FrameStep, <1>1, PTL DEF Spec

\* data_parsing writes only inside data[], whatever the frame length and
\* wherever a request interrupts it.
THEOREM BufferNotOverrun == Spec => []IndexInBounds
<1>1. FrameInv => IndexInBounds
  BY DEF FrameInv, FullIndexIsSeen, IndexInBounds
<1> QED
  BY FrameInit, FrameStep, <1>1, PTL DEF Spec
----------------------------------------------------------------------------
(* Which bytes a value is computed from.                                   *)

\* The frame under way holds the bytes taken last, one after the other: a
\* request that clears the index starts the frame again, one that comes
\* between the load and the store of the increment is overwritten.
Filled(n, next) == \A i \in 0 .. n - 1 : data[i] = next - n + i

Consecutive ==
    /\ pc \in {"read", "reset", "take"} => Filled(data_parsing_id, got)
    /\ pc \in {"load", "store", "cmp", "frame"} => ch = got - 1
    /\ pc = "load" => Filled(data_parsing_id, got - 1)
    /\ pc = "store" => Filled(tmp, got - 1)
    /\ pc = "cmp" => Filled(tmp + 1, got)
    /\ pc = "frame" => Filled(FrameLen, got)

\* A value comes from two neighbouring bytes, four after one that looks like
\* the header.
ValueBehindHeader ==
    TDS_Value # <<>> => /\ TDS_Value[2] = TDS_Value[1] + 1
                        /\ \/ (TDS_Value[1] - 4) % FrameLen = 0
                           \/ TDS_Value[1] - 4 \in HeaderLike

\* While every caller has waited for its answer, the place in the frame is
\* the place in the answer to the last request; there is a value only when
\* that answer is complete.
End == FrameLen * requests

InStep ==
    /\ got <= sent /\ sent <= End
    /\ late = 0 /\ requests > 0 =>
          /\ got >= End - FrameLen
          /\ pc \in {"read", "reset", "take"} =>
                data_parsing_id = IF got = End THEN 0 ELSE got - (End - FrameLen)
          /\ pc = "load" => data_parsing_id = got - 1 - (End - FrameLen)
          /\ pc \in {"store", "cmp"} => tmp = got - 1 - (End - FrameLen)
          /\ pc = "cmp" => data_parsing_id = tmp + 1
          /\ pc = "frame" => got = End
    /\ requests = 0 => data_parsing_id = 0 /\ pc \in {"read", "reset", "take"}

ValueOfLast ==
    /\ requests = 0 => TDS_Value = <<>>
    /\ late = 0 /\ TDS_Value # <<>> =>
          /\ got = End
          /\ pc \in {"read", "reset", "take"}
          /\ TDS_Value[1] = End - FrameLen + 4

LEMMA ConsecutiveStep == FrameInv /\ Consecutive /\ [Next]_vars => Consecutive'
<1> SUFFICES ASSUME FrameInv, Consecutive, [Next]_vars PROVE Consecutive'
  OBVIOUS
<1> USE TdsConstants DEF TdsConstants, FrameInv, TypeOK, history
<1>1. CASE Tds_Work
  BY <1>1 DEF Tds_Work, Consecutive, Filled
<1>2. CASE uart_rx_ind
  BY <1>2 DEF uart_rx_ind, Consecutive, Filled
<1>3. CASE ReadByte
  <2>1. pc = "read" /\ \A i \in 0 .. data_parsing_id - 1 : data[i] = got - data_parsing_id + i
    BY <1>3 DEF ReadByte, Consecutive, Filled
  <2>2. UNCHANGED <<data, data_parsing_id>>
    BY <1>3 DEF ReadByte
  <2>3. CASE pc' = "load" /\ ch' = got /\ got' = got + 1
    <3>1. got' - 1 = got
      BY <2>3
    <3> QED
      BY <2>1, <2>2, <2>3, <3>1 DEF Consecutive, Filled
  <2>4. CASE pc' = "reset" /\ UNCHANGED got
    BY <2>1, <2>2, <2>4 DEF Consecutive, Filled
  <2> QED
    BY <1>3, <2>3, <2>4 DEF ReadByte
<1>4. CASE ResetSem \/ TakeSem
  BY <1>4 DEF ResetSem, TakeSem, Consecutive, Filled
<1>5. CASE LoadIndex
  BY <1>5 DEF LoadIndex, Consecutive, Filled
<1>6. CASE StoreByte
  <2>1. tmp \in 0 .. FrameLen - 1
    BY <1>6 DEF StoreByte, FullIndexIsSeen
  <2>2. \A i \in 0 .. FrameLen - 1 : data'[i] = IF i = tmp THEN ch ELSE data[i]
    BY <1>6, <2>1 DEF StoreByte
  <2>3. ch = got - 1 /\ \A i \in 0 .. tmp - 1 : data[i] = got - 1 - tmp + i
    BY <1>6 DEF StoreByte, Consecutive, Filled
  <2>4. \A i \in 0 .. tmp : data'[i] = got - (tmp + 1) + i
    BY <2>1, <2>2, <2>3
  <2> QED
    BY <1>6, <2>1, <2>3, <2>4 DEF StoreByte, Consecutive, Filled
<1>7. CASE CompareIndex
  <2>1. PICK index \in {tmp + 1, data_parsing_id} :
           pc' = IF FrameIsFull(index) THEN "frame" ELSE "read"
    BY <1>7 DEF CompareIndex
  <2>2. pc' = "frame" => tmp + 1 = FrameLen
    BY <1>7, <2>1 DEF CompareIndex, FrameIsFull, FullIndexIsSeen
  <2>3. pc' \in {"frame", "read"} /\ data_parsing_id \in {0, tmp + 1}
    BY <1>7, <2>1 DEF CompareIndex, FullIndexIsSeen
  <2>4. /\ UNCHANGED <<data, data_parsing_id, got, ch>>
        /\ ch = got - 1
        /\ \A i \in 0 .. tmp : data[i] = got - (tmp + 1) + i
    BY <1>7 DEF CompareIndex, Consecutive, Filled
  <2>5. CASE pc' = "frame"
    BY <2>2, <2>4, <2>5 DEF Consecutive, Filled
  <2>6. CASE pc' = "read" /\ data_parsing_id = 0
    BY <2>4, <2>6 DEF Consecutive, Filled
  <2>7. CASE pc' = "read" /\ data_parsing_id = tmp + 1
    BY <2>4, <2>7 DEF Consecutive, Filled
  <2> QED
    BY <2>3, <2>5, <2>6, <2>7
<1>8. CASE ParseFrame
  BY <1>8 DEF ParseFrame, Consecutive, Filled
<1>9. CASE UNCHANGED vars
  BY <1>9 DEF vars, Consecutive, Filled
<1> QED
  BY <1>1, <1>2, <1>3, <1>4, <1>5, <1>6, <1>7, <1>8, <1>9 DEF Next, data_parsing

\* Only ParseFrame computes a value, and only Tds_Work clears it.
LEMMA ValueChanges ==
    ASSUME [Next]_vars
    PROVE  ParseFrame \/ TDS_Value' \in {<<>>, TDS_Value}
  BY DEF Next, vars, Tds_Work, ClearValue, uart_rx_ind, data_parsing, ReadByte, ResetSem,
         TakeSem, LoadIndex, StoreByte, CompareIndex

\* The bytes of a complete frame.
LEMMA FrameBytes ==
    ASSUME FrameInv, Consecutive, ParseFrame
    PROVE  /\ data[0] = got - FrameLen /\ data[4] = got - FrameLen + 4
           /\ data[5] = got - FrameLen + 5
<1>1. \A i \in 0 .. FrameLen - 1 : data[i] = got - FrameLen + i
  BY DEF ParseFrame, Consecutive, Filled
<1> QED
  BY <1>1, TdsConstants DEF TdsConstants, FrameInv, TypeOK

LEMMA HeaderStep ==
    FrameInv /\ Consecutive /\ ValueBehindHeader /\ [Next]_vars => ValueBehindHeader'
<1> SUFFICES ASSUME FrameInv, Consecutive, ValueBehindHeader, [Next]_vars
             PROVE  ValueBehindHeader'
  OBVIOUS
<1>1. CASE ParseFrame
  <2>1. data[5] = data[4] + 1 /\ data[4] - 4 = data[0]
    BY <1>1, FrameBytes, TdsConstants DEF TdsConstants, FrameInv, TypeOK
  <2>2. HasHeader => data[0] % FrameLen = 0 \/ data[0] \in HeaderLike
    BY DEF HasHeader
  <2> QED
    BY <1>1, <2>1, <2>2 DEF ParseFrame, ValueBehindHeader
<1>2. CASE TDS_Value' \in {<<>>, TDS_Value}
  BY <1>2 DEF ValueBehindHeader
<1> QED
  BY <1>1, <1>2, ValueChanges

\* One more request is answered with FrameLen more bytes.
LEMMA EndGrows == \A n \in Nat : /\ FrameLen * n \in Nat
                                 /\ FrameLen * (n + 1) = FrameLen * n + FrameLen
                                 /\ n = 0 => FrameLen * n = 0
  BY TdsConstants DEF TdsConstants

LEMMA InStepStep == FrameInv /\ InStep /\ [Next]_vars => InStep'
<1> SUFFICES ASSUME FrameInv, InStep, [Next]_vars PROVE InStep'
  OBVIOUS
<1> USE TdsConstants DEF TdsConstants, FrameInv, TypeOK, history
<1>0. End \in Nat /\ (requests = 0 => End = 0)
  BY EndGrows DEF End
<1>1. CASE Tds_Work
  <2>1. End' = End + FrameLen
    BY <1>1, EndGrows DEF Tds_Work, End
  <2>2. Answered => sent = End /\ got = sent /\ pc \in {"reset", "take"}
    BY DEF Answered, End
  <2>3. /\ UNCHANGED <<got, sent, pc>> /\ requests' = requests + 1
        /\ data_parsing_id' = 0
        /\ late' = 0 => Answered
    BY <1>1 DEF Tds_Work
  <2>4. got <= sent /\ sent <= End
    BY DEF InStep
  <2> QED
    BY <1>0, <2>1, <2>2, <2>3, <2>4 DEF InStep
<1>2. CASE UNCHANGED <<requests, late>>
  <2>1. End' = End
    BY <1>2 DEF End
  <2>2. CASE uart_rx_ind
    <3>1. sent < End
      BY <2>2 DEF uart_rx_ind, End
    <3> QED
      BY <1>0, <1>2, <2>1, <2>2, <3>1 DEF uart_rx_ind, InStep
  <2>3. CASE ReadByte
    <3>1. pc = "read" /\ UNCHANGED <<sent, data_parsing_id>>
      BY <2>3 DEF ReadByte
    <3>2. CASE got < sent /\ got' = got + 1 /\ pc' = "load"
      <4>1. requests # 0 /\ got # End
        BY <1>0, <3>2 DEF InStep
      <4> QED
        BY <1>0, <1>2, <2>1, <3>1, <3>2, <4>1 DEF InStep
    <3>3. CASE UNCHANGED got /\ pc' = "reset"
      BY <1>0, <1>2, <2>1, <3>1, <3>3 DEF InStep
    <3> QED
      BY <2>3, <3>2, <3>3 DEF ReadByte
  <2>4. CASE ResetSem \/ TakeSem
    BY <1>0, <1>2, <2>1, <2>4 DEF ResetSem, TakeSem, InStep
  <2>5. CASE LoadIndex
    BY <1>0, <1>2, <2>1, <2>5 DEF LoadIndex, InStep
  <2>6. CASE StoreByte
    BY <1>0, <1>2, <2>1, <2>6 DEF StoreByte, InStep
  <2>7. CASE CompareIndex
    <3>1. PICK index \in {tmp + 1, data_parsing_id} :
             pc' = IF FrameIsFull(index) THEN "frame" ELSE "read"
      BY <2>7 DEF CompareIndex
    <3> QED
      BY <1>0, <1>2, <2>1, <2>7, <3>1 DEF CompareIndex, FrameIsFull, InStep
  <2>8. CASE ParseFrame
    BY <1>0, <1>2, <2>1, <2>8 DEF ParseFrame, InStep
  <2>9. CASE UNCHANGED vars
    BY <1>2, <2>1, <2>9 DEF vars, InStep
  <2>10. CASE Tds_Work
    BY <1>1, <2>10
  <2> QED
    BY <2>2, <2>3, <2>4, <2>5, <2>6, <2>7, <2>8, <2>9, <2>10 DEF Next, data_parsing
<1> QED
  BY <1>1, <1>2 DEF Next, vars, uart_rx_ind, data_parsing, ReadByte, ResetSem, TakeSem,
     LoadIndex, StoreByte, CompareIndex, ParseFrame

LEMMA LastStep ==
    FrameInv /\ Consecutive /\ InStep /\ ValueOfLast /\ [Next]_vars => ValueOfLast'
<1> SUFFICES ASSUME FrameInv, Consecutive, InStep, ValueOfLast, [Next]_vars
             PROVE  ValueOfLast'
  OBVIOUS
<1> USE TdsConstants DEF TdsConstants, FrameInv, TypeOK, history
<1>1. CASE Tds_Work
  BY <1>1 DEF Tds_Work, ClearValue, ValueOfLast
<1>2. CASE ParseFrame
  <2>1. End' = End /\ UNCHANGED <<got, requests, late>> /\ pc' = "read" /\ pc = "frame"
    BY <1>2 DEF ParseFrame, End
  <2>2. requests # 0
    BY <2>1 DEF InStep
  <2>3. late = 0 => got = End
    BY <2>1, <2>2 DEF InStep
  <2>4. data[4] = got - FrameLen + 4
    BY <1>2, FrameBytes
  <2>5. TDS_Value' = <<data[4], data[5]>> \/ UNCHANGED TDS_Value
    BY <1>2 DEF ParseFrame
  <2> QED
    BY <2>1, <2>2, <2>3, <2>4, <2>5 DEF ValueOfLast
<1>3. CASE UNCHANGED <<TDS_Value, requests, late>> /\ ~ParseFrame
  <2>1. End' = End
    BY <1>3 DEF End
  <2>2. SUFFICES ASSUME late = 0, TDS_Value # <<>>
                 PROVE  got' = End /\ pc' \in {"read", "reset", "take"}
    BY <1>3, <2>1 DEF ValueOfLast
  <2>3. got = End /\ pc \in {"read", "reset", "take"} /\ got <= sent /\ sent <= End
    BY <2>2 DEF ValueOfLast, InStep
  <2>4. End \in Nat
    BY EndGrows DEF End
  <2> QED
    BY <1>3, <2>3, <2>4
       DEF Next, vars, uart_rx_ind, Tds_Work, data_parsing, ReadByte, ResetSem, TakeSem,
           LoadIndex, StoreByte, CompareIndex
<1> QED
  BY <1>1, <1>2, <1>3 DEF Next, vars, uart_rx_ind, data_parsing, ReadByte, ResetSem, TakeSem,
     LoadIndex, StoreByte, CompareIndex

BytesInv == FrameInv /\ Consecutive /\ ValueBehindHeader /\ InStep /\ ValueOfLast

LEMMA BytesInit == Init => BytesInv
<1> SUFFICES ASSUME Init PROVE BytesInv
  OBVIOUS
<1>1. End = 0
  BY EndGrows DEF Init, End
<1> QED
  BY <1>1, FrameInit DEF Init, BytesInv, Consecutive, Filled, ValueBehindHeader, InStep,
     ValueOfLast

LEMMA BytesAlways == Spec => []BytesInv
<1>1. BytesInv /\ [Next]_vars => BytesInv'
  BY FrameStep, ConsecutiveStep, HeaderStep, InStepStep, LastStep DEF BytesInv
<1> QED
  BY BytesInit, <1>1, PTL DEF Spec

\* The byte four places after the first byte of an answer is its fifth.
LEMMA FifthByte ==
    ASSUME NEW v \in Int, (v - 4) % FrameLen = 0
    PROVE  v % FrameLen = 4
<1> USE TdsConstants DEF TdsConstants
<1>1. v - 4 = FrameLen * ((v - 4) \div FrameLen) /\ (v - 4) \div FrameLen \in Int
  OBVIOUS
<1> DEFINE q == (v - 4) \div FrameLen
           p == v \div FrameLen
           r == v % FrameLen
<1>2. v = FrameLen * p + r /\ p \in Int /\ r \in 0 .. FrameLen - 1
  OBVIOUS
<1> HIDE DEF q, p, r
<1>3. FrameLen * q + 4 = FrameLen * p + r /\ q \in Int
  BY <1>1, <1>2 DEF q
<1>4. p = q
  <2>1. CASE p >= q + 1
    <3>1. FrameLen * p >= FrameLen * (q + 1)
      BY <1>2, <1>3, <2>1
    <3> QED
      BY <1>2, <1>3, <3>1
  <2>2. CASE p <= q - 1
    <3>1. FrameLen * p <= FrameLen * (q - 1)
      BY <1>2, <1>3, <2>2
    <3> QED
      BY <1>2, <1>3, <3>1
  <2> QED
    BY <1>2, <1>3, <2>1, <2>2
<1> QED
  BY <1>2, <1>3, <1>4 DEF r

\* The number of the answer that a fifth byte belongs to.
LEMMA AnswerOfByte ==
    ASSUME NEW n \in Nat
    PROVE  (FrameLen * (n + 1) - FrameLen + 4) \div FrameLen = n
<1> USE TdsConstants DEF TdsConstants
<1> DEFINE v == FrameLen * n + 4
           p == v \div FrameLen
<1>1. FrameLen * (n + 1) - FrameLen + 4 = v /\ v \in Nat /\ FrameLen * n \in Nat
  BY EndGrows
<1>2. p \in Int /\ v = FrameLen * p + (v % FrameLen) /\ v % FrameLen \in 0 .. FrameLen - 1
  BY <1>1
<1> HIDE DEF p
<1>3. PICK r \in 0 .. FrameLen - 1 : FrameLen * n + 4 = FrameLen * p + r
  BY <1>2
<1>4. p = n
  <2>1. CASE p >= n + 1
    <3>1. FrameLen * p >= FrameLen * (n + 1)
      BY <1>2, <2>1
    <3> QED
      BY <1>2, <1>3, <3>1
  <2>2. CASE p <= n - 1
    <3>1. FrameLen * p <= FrameLen * (n - 1)
      BY <1>2, <2>2
    <3> QED
      BY <1>2, <1>3, <3>1
  <2> QED
    BY <1>2, <2>1, <2>2
<1> QED
  BY <1>1, <1>4 DEF p

\* The first byte of an answer.
LEMMA FirstByte ==
    ASSUME NEW n \in Nat
    PROVE  (FrameLen * n) % FrameLen = 0
<1> USE TdsConstants DEF TdsConstants
<1> DEFINE v == FrameLen * n
           p == v \div FrameLen
           r == v % FrameLen
<1>1. v \in Nat
  BY EndGrows
<1>2. p \in Int /\ v = FrameLen * p + r /\ r \in 0 .. FrameLen - 1
  BY <1>1
<1> HIDE DEF p, r
<1>3. FrameLen * n = FrameLen * p + r
  BY <1>2
<1>4. p = n
  <2>1. CASE p >= n + 1
    <3>1. FrameLen * p >= FrameLen * (n + 1)
      BY <1>2, <2>1
    <3> QED
      BY <1>2, <1>3, <3>1
  <2>2. CASE p <= n - 1
    <3>1. FrameLen * p <= FrameLen * (n - 1)
      BY <1>2, <2>2
    <3> QED
      BY <1>2, <1>3, <3>1
  <2> QED
    BY <1>2, <2>1, <2>2
<1> QED
  BY <1>2, <1>3, <1>4 DEF r

\* A value is computed from bytes 4 and 5 of one answer, for every frame
\* length, every number of requests and all data: it takes a caller that has
\* not waited for its answer and a data byte 0x55 at the start of the frame
\* to make a value of other bytes.
THEOREM ValuesAligned == Spec => []AlignedUnlessMisled
<1>1. BytesInv => AlignedUnlessMisled
  <2> SUFFICES ASSUME BytesInv, TDS_Value # <<>>
               PROVE  /\ TDS_Value[2] = TDS_Value[1] + 1
                      /\ \/ TDS_Value[1] % FrameLen = 4
                         \/ late = 1 /\ TDS_Value[1] - 4 \in HeaderLike
    BY DEF AlignedUnlessMisled
  <2>1. TDS_Value[1] \in Int /\ requests \in Nat /\ late \in {0, 1}
    BY DEF BytesInv, FrameInv, TypeOK
  <2>2. /\ TDS_Value[2] = TDS_Value[1] + 1
        /\ (TDS_Value[1] - 4) % FrameLen = 0 \/ TDS_Value[1] - 4 \in HeaderLike
    BY DEF BytesInv, ValueBehindHeader
  <2>3. CASE (TDS_Value[1] - 4) % FrameLen = 0
    BY <2>1, <2>2, <2>3, FifthByte
  \* Callers that wait: the frame is the answer to the last request.
  <2>4. CASE late = 0
    <3>1. requests - 1 \in Nat
      BY <2>1 DEF BytesInv, ValueOfLast
    <3>2. FrameLen * ((requests - 1) + 1) = FrameLen * (requests - 1) + FrameLen
      BY <3>1, EndGrows
    <3>3. FrameLen * (requests - 1) \in Nat
      BY <3>1, EndGrows
    <3>4. requests = (requests - 1) + 1
      BY <2>1
    <3>5. TDS_Value[1] - 4 = FrameLen * (requests - 1)
      BY <2>4, <3>2, <3>3, <3>4, TdsConstants DEF TdsConstants, BytesInv, ValueOfLast, End
    <3> QED
      BY <2>3, <3>1, <3>5, FirstByte
  <2> QED
    BY <2>1, <2>2, <2>3, <2>4
<1> QED
  BY BytesAlways, <1>1, PTL

\* As long as callers wait for answers, a value belongs to the last request.
THEOREM ValuesFresh == Spec => []ValueIsFresh
<1>1. BytesInv => ValueIsFresh
  <2> SUFFICES ASSUME BytesInv, late = 0, TDS_Value # <<>>
               PROVE  TDS_Value[1] \div FrameLen = requests - 1
    BY DEF ValueIsFresh
  <2>1. requests - 1 \in Nat
    BY DEF BytesInv, ValueOfLast, FrameInv, TypeOK
  <2>2. TDS_Value[1] = FrameLen * ((requests - 1) + 1) - FrameLen + 4
    <3>1. requests = (requests - 1) + 1
      BY <2>1 DEF BytesInv, FrameInv, TypeOK
    <3> QED
      BY <3>1 DEF BytesInv, ValueOfLast, End
  <2> QED
    BY <2>1, <2>2, AnswerOfByte
<1> QED
  BY BytesAlways, <1>1, PTL
=============================================================================

------------------------------ MODULE TdsWork ------------------------------
(***************************************************************************)
(* The water-hardness (TDS) sensor on the UART, device/TdsWork.c: the      *)
(* receive interrupt, the low-priority thread that assembles 11-byte       *)
(* answers, and Tds_Work, which Moto_Thread and lcd_task call and which    *)
(* preempts that thread at any point.                                      *)
(*                                                                         *)
(* The sensor answers request r (counted from 0) with the bytes numbered   *)
(* r * FrameLen .. r * FrameLen + FrameLen - 1 of one stream; a byte is    *)
(* its number.                                                             *)
(***************************************************************************)
EXTENDS Integers, Sequences

CONSTANTS
    FrameLen,     \* ONE_DATA_MAXLEN
    MaxRequests,  \* bound: calls of Tds_Work
    HeaderLike    \* bytes of the stream that equal DATA_CMD_BEGIN by their value

ASSUME TdsConstants ==
    /\ FrameLen \in Nat /\ FrameLen > 5
    /\ MaxRequests \in Nat
    /\ HeaderLike \subseteq Nat

VARIABLES
    data_parsing_id,  \* index of the next byte of the frame
    data,             \* the frame buffer (-1: never written)
    ch,               \* the byte being stored
    tmp,              \* data_parsing_id as loaded by the increment of line 61
    TDS_Value,        \* <<>> for 0, else the two bytes it was computed from
    rx_sem,           \* the receive semaphore
    sent, got,        \* bytes received by the UART, and taken by the thread
    requests,         \* calls of Tds_Work so far
    pc,               \* where data_parsing is
    late,             \* history: a request was made before the last answer was parsed
    wiped             \* history: the reset of rx_sem has wiped out a byte's release

history == <<late, wiped>>
vars == <<data_parsing_id, data, ch, tmp, TDS_Value, rx_sem, sent, got, requests, pc, history>>

TypeOK ==
    /\ data_parsing_id \in 0 .. FrameLen
    /\ data \in [0 .. FrameLen - 1 -> Int]
    /\ ch \in Int
    /\ tmp \in Nat
    /\ TDS_Value \in {<<>>} \cup (Int \X Int)
    /\ rx_sem \in Nat
    /\ sent \in Nat
    /\ got \in Nat
    /\ requests \in Nat
    /\ pc \in {"read", "reset", "take", "load", "store", "cmp", "frame"}
    /\ late \in {0, 1}
    /\ wiped \in {0, 1}

Init ==
    /\ data_parsing_id = 0
    /\ data = [i \in 0 .. FrameLen - 1 |-> -1]
    /\ ch = -1
    /\ tmp = 0
    /\ TDS_Value = <<>>
    /\ rx_sem = 0
    /\ sent = 0 /\ got = 0 /\ requests = 0
    /\ pc = "read"
    /\ late = 0 /\ wiped = 0

\* Every answer has been received and parsed.
Answered ==
    /\ sent = FrameLen * requests
    /\ got = sent
    /\ pc \in {"reset", "take"}

\* Faulty variant: the value stays for the next caller.
ClearValueForgotten == UNCHANGED TDS_Value

ClearValue == TDS_Value' = <<>>

\* The value is read and cleared, the frame restarted, the request written.
Tds_Work ==
    /\ requests < MaxRequests
    /\ late' = IF Answered THEN late ELSE 1
    /\ ClearValue
    /\ data_parsing_id' = 0
    /\ requests' = requests + 1
    /\ UNCHANGED <<data, ch, tmp, rx_sem, sent, got, pc, wiped>>

\* Faulty variant: a byte does not wake the thread.
ReleaseForgotten == UNCHANGED rx_sem

Release == rx_sem' = rx_sem + 1

\* The receive interrupt: the byte is buffered, the semaphore released.
uart_rx_ind ==
    /\ sent < FrameLen * requests
    /\ sent' = sent + 1
    /\ Release
    /\ UNCHANGED <<data_parsing_id, data, ch, tmp, TDS_Value, got, requests, pc, history>>

----------------------------------------------------------------------------
(* uart_sample_get_char.                                                   *)

ReadByte ==
    /\ pc = "read"
    /\ \/ got < sent /\ ch' = got /\ got' = got + 1 /\ pc' = "load"
       \/ got = sent /\ pc' = "reset" /\ UNCHANGED <<ch, got>>
    /\ UNCHANGED <<data_parsing_id, data, tmp, TDS_Value, rx_sem, sent, requests,
                   history>>

ResetSem ==
    /\ pc = "reset"
    /\ rx_sem' = 0
    /\ wiped' = IF got < sent THEN 1 ELSE wiped
    /\ pc' = "take"
    /\ UNCHANGED <<data_parsing_id, data, ch, tmp, TDS_Value, sent, got, requests, late>>

TakeSem ==
    /\ pc = "take"
    /\ rx_sem > 0
    /\ rx_sem' = rx_sem - 1
    /\ pc' = "read"
    /\ UNCHANGED <<data_parsing_id, data, ch, tmp, TDS_Value, sent, got, requests, history>>

----------------------------------------------------------------------------
(* data_parsing.  The index is loaded, then data and index are stored, then*)
(* the index is compared: Tds_Work may clear it in between, and the        *)
(* comparison uses the register or the memory, as the compiler likes.      *)

LoadIndex ==
    /\ pc = "load"
    /\ tmp' = data_parsing_id
    /\ pc' = "store"
    /\ UNCHANGED <<data_parsing_id, data, ch, TDS_Value, rx_sem, sent, got, requests,
                   history>>

StoreByte ==
    /\ pc = "store"
    /\ data' = [data EXCEPT ![tmp] = ch]
    /\ data_parsing_id' = tmp + 1
    /\ pc' = "cmp"
    /\ UNCHANGED <<ch, tmp, TDS_Value, rx_sem, sent, got, requests, history>>

\* Faulty variant: the frame is one byte longer than the buffer.
FrameIsFullLate(index) == index = FrameLen + 1

FrameIsFull(index) == index = FrameLen

CompareIndex ==
    /\ pc = "cmp"
    /\ \E index \in {tmp + 1, data_parsing_id} :
          pc' = IF FrameIsFull(index) THEN "frame" ELSE "read"
    /\ UNCHANGED <<data_parsing_id, data, ch, tmp, TDS_Value, rx_sem, sent, got, requests,
                   history>>

\* Faulty variant: any frame is accepted.
HasHeaderAny == TRUE

\* data[0] == DATA_CMD_BEGIN: the first byte of an answer, or any other that
\* has this value; there is no checksum.
HasHeader == data[0] % FrameLen = 0 \/ data[0] \in HeaderLike

\* At -O1 the store of the unscaled value (line 67) is dead: line 68 stores.
ParseFrame ==
    /\ pc = "frame"
    /\ TDS_Value' = IF HasHeader THEN <<data[4], data[5]>> ELSE TDS_Value
    /\ data_parsing_id' = 0
    /\ pc' = "read"
    /\ UNCHANGED <<data, ch, tmp, rx_sem, sent, got, requests, history>>

data_parsing ==
    \/ ReadByte \/ ResetSem \/ TakeSem
    \/ LoadIndex \/ StoreByte \/ CompareIndex \/ ParseFrame

\* Between requests the thread waits for bytes: that is where the system may
\* stop.
Next == Tds_Work \/ uart_rx_ind \/ data_parsing

Spec == Init /\ [][Next]_vars

\* The sensor sends its answer to the end; the thread has the lowest priority
\* but one and still runs while the others sleep.
FairSpec == Spec /\ WF_vars(uart_rx_ind) /\ WF_vars(data_parsing)

----------------------------------------------------------------------------
(* Properties.                                                             *)

\* data_parsing never writes outside data[], wherever Tds_Work interrupts
\* the increment of data_parsing_id.
IndexInBounds == pc = "store" => tmp < FrameLen

\* What keeps IndexInBounds: a full index is seen before the next byte.
FullIndexIsSeen ==
    /\ pc \in {"read", "reset", "take", "load"} => data_parsing_id < FrameLen
    /\ pc \in {"store", "cmp"} => tmp < FrameLen
    /\ pc = "store" => data_parsing_id < FrameLen
    /\ pc = "cmp" => data_parsing_id \in {0, tmp + 1}

\* A value is computed from bytes 4 and 5 of one and the same answer, unless a
\* caller has not waited, so that a request cuts an answer in two, and the
\* frame then begins with a byte that only looks like the header: data bytes
\* may be 0x55, and then the value may even come from two answers (README,
\* known deviations).  Without either, and wherever Tds_Work cuts into the
\* increment of data_parsing_id, the header test keeps the frame aligned.
AlignedUnlessMisled ==
    TDS_Value # <<>> => /\ TDS_Value[2] = TDS_Value[1] + 1
                        /\ \/ TDS_Value[1] % FrameLen = 4
                           \/ late = 1 /\ TDS_Value[1] - 4 \in HeaderLike

\* A value that no caller has cut short belongs to the last request, not to
\* an earlier one.
ValueIsFresh ==
    late = 0 /\ TDS_Value # <<>> => TDS_Value[1] \div FrameLen = requests - 1

\* The answer to every request becomes the value that the next call returns
\* to Moto_Thread, before that call, as long as the callers wait for answers
\* and no release is wiped out: the receive semaphore ("sent when the UART has
\* received data", device/TdsWork.c:30) wakes the thread for every byte.
AnswerArrives ==
    \A r \in 1 .. MaxRequests :
        requests = r ~> (requests = r /\ TDS_Value # <<>>) \/ late = 1 \/ wiped = 1
============================================================================

----------------------------- MODULE SensorLine -----------------------------
(***************************************************************************)
(* The way of a reading from the sensor board to the box: the UART driver, *)
(* the buffer of uart1_to_uart0_task (main/main.c), which keeps a line     *)
(* that has not ended for the next read, and sensor_data_parser            *)
(* (main/sensor.c).  All lines are readings; a character is where it       *)
(* stands in its line: the first for "SS: ", the last for the newline, and *)
(* those between for the values.                                           *)
(***************************************************************************)
EXTENDS Integers, Sequences

CONSTANTS
  LineLength, \* of a reading
  UartSize,   \* UART_BUF_SIZE
  UartFifo,   \* what the driver holds
  Readings    \* bound: the readings are numbered in turn, modulo this

ASSUME SensorAssumption ==
  /\ LineLength \in Nat \ (0..2) /\ UartSize \in Nat \ 0..LineLength
  /\ {UartFifo, Readings} \subseteq Nat \ {0}

Char == [line : 1..Readings, i : 1..LineLength, gap : BOOLEAN]

VARIABLES
  boardAt,  \* what the board sends next
  lostOne,  \* the driver had no room for the last of them
  fifo,     \* the driver's ring buffer
  uartBuf,  \* buf, up to idx
  readings  \* the lines that have just been taken for readings

sensorVars == <<boardAt, lostOne, fifo, uartBuf, readings>>

SensorTypeOK ==
  /\ boardAt \in 0..Readings * LineLength - 1 /\ lostOne \in BOOLEAN
  /\ fifo \in Seq(Char) /\ Len(fifo) <= UartFifo
  /\ uartBuf \in Seq(Char) /\ Len(uartBuf) <= UartSize
  /\ readings \subseteq Seq(Char)

SensorInit ==
  boardAt = 0 /\ lostOne = FALSE /\ fifo = <<>> /\ uartBuf = <<>> /\ readings = {}

-----------------------------------------------------------------------------
\* The board sends on whether or not anybody reads.  (Bound: what is lost is one piece,
\* until the box has read past it.)
OnePieceLost ==
  \A b \in {fifo, uartBuf} : \A k \in DOMAIN b : ~b[k].gap

BoardSends ==
  /\ Len(fifo) = UartFifo => OnePieceLost
  /\ boardAt' = (boardAt + 1) % (Readings * LineLength)
  /\ lostOne' = (Len(fifo) = UartFifo)
  /\ fifo' = IF lostOne' THEN fifo
             ELSE Append(fifo, [line |-> (boardAt \div LineLength) + 1,
                                i |-> (boardAt % LineLength) + 1, gap |-> lostOne])
  /\ readings' = {}
  /\ UNCHANGED uartBuf

-----------------------------------------------------------------------------
(* get_line, sensor_data_parser *)

Newlines(b) == {p \in DOMAIN b : b[p].i = LineLength}

\* The line whose newline is at place p.
LineTo(b, p) ==
  LET before == {q \in Newlines(b) : q < p}
      start  == IF before = {} THEN 1
                ELSE 1 + (CHOOSE q \in before : \A r \in before : r <= q)
  IN SubSeq(b, start, p)

\* The prefix says what a line is, and sscanf takes what values there are.
IsReading(s) == s[1].i = 1

Unfinished(b) ==
  IF Newlines(b) = {} THEN b
  ELSE SubSeq(b, 1 + (CHOOSE q \in Newlines(b) : \A r \in Newlines(b) : r <= q), Len(b))

-----------------------------------------------------------------------------
(* uart1_to_uart0_task *)

\* Mutant: what there is no room for is ignored.
ReceivedKeepsOld(chunk) ==
  IF Len(uartBuf) + Len(chunk) <= UartSize THEN uartBuf \o chunk ELSE uartBuf

\* What there is no room for takes the place of what there was.
Received(chunk) ==
  IF Len(uartBuf) + Len(chunk) <= UartSize THEN uartBuf \o chunk ELSE chunk

ReadUart(len) ==
  /\ len \in 1..Len(fifo) /\ len <= UartSize
  /\ fifo' = SubSeq(fifo, len + 1, Len(fifo))
  /\ LET b == Received(SubSeq(fifo, 1, len))
     IN /\ readings' = {s \in {LineTo(b, p) : p \in Newlines(b)} : IsReading(s)}
        /\ uartBuf' = Unfinished(b)
  /\ UNCHANGED <<boardAt, lostOne>>

\* A buffer that is full to the last byte has no end: strdup goes on behind it, and if
\* there is a newline, more is used than there was, and memcpy gets a negative length.
ReadRunsOver(len) ==
  /\ len \in 1..Len(fifo) /\ len <= UartSize
  /\ Len(Received(SubSeq(fifo, 1, len))) = UartSize
  /\ fifo' = <<>> /\ uartBuf' = <<>> /\ readings' = {}
  /\ UNCHANGED <<boardAt, lostOne>>

SensorNext == BoardSends \/ \E len \in 1..UartSize : ReadUart(len) \/ ReadRunsOver(len)

SensorSpec == SensorInit /\ [][SensorNext]_sensorVars

-----------------------------------------------------------------------------
(* Properties *)

\* A reading that reaches loadcell_proc, tof_proc and set_pt_status is one line of the
\* board, whole: the beginning of one is never taken with the end of another, however the
\* characters come in.  (A character that the UART driver has no room for is lost without
\* a sign, and its line is read with what is left.)
WholeReadings ==
  \A s \in readings :
    \/ \E k \in 2..Len(s) : s[k].gap
    \/ Len(s) = LineLength /\ \A k \in DOMAIN s : s[k].line = s[1].line /\ s[k].i = k
=============================================================================

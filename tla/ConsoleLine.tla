----------------------------- MODULE ConsoleLine -----------------------------
(***************************************************************************)
(* The way of a console line through main/main.c: uart_process pushes what *)
(* it reads into a ring buffer that drops what finds it full, and          *)
(* uart_parser puts a command together until a newline, a '$' or the end   *)
(* of its buffer.  A character is where it stands in its line.             *)
(***************************************************************************)
EXTENDS Integers, Sequences

CONSTANTS
  RxSize,    \* RX_BUF_SIZE
  ParseSize, \* PARSE_BUF_SIZE
  MaxLine    \* the longest line that is sent

ASSUME ConsoleAssumption == {RxSize, ParseSize, MaxLine} \subseteq Nat \ {0} /\ RxSize > 1

\* The i-th character of a line of n (the newline is the last), and whether the one
\* before it was dropped; or a '$'.
Chars == [n : 1..MaxLine, i : 1..MaxLine + 1, gap : BOOLEAN]
Dollar == [n |-> 0, i |-> 0, gap |-> FALSE]

VARIABLES
  rxRing,    \* rx_ring.buffer
  rxHead,
  rxTail,
  parseBuf,  \* parse_buf, up to parse_idx
  reading,   \* uart_process is pushing; else it is in uart_parser
  sent,      \* the character of a line that was sent last
  dropped,   \* it was dropped
  cut,       \* parse_buf was emptied by a '$' or because it was full
  ran        \* the command that has just been run, or <<>>

consoleVars == <<rxRing, rxHead, rxTail, parseBuf, reading, sent, dropped, cut, ran>>

ConsoleTypeOK ==
  /\ rxRing \in [0..RxSize - 1 -> Chars \cup {Dollar}] /\ {rxHead, rxTail} \subseteq 0..RxSize - 1
  /\ parseBuf \in Seq(Chars) /\ Len(parseBuf) < ParseSize
  /\ {reading, dropped, cut} \subseteq BOOLEAN
  /\ sent \in Chars /\ ran \in Seq(Chars)

ConsoleInit ==
  /\ rxRing = [k \in 0..RxSize - 1 |-> Dollar] /\ rxHead = 0 /\ rxTail = 0
  /\ parseBuf = <<>> /\ reading = TRUE
  /\ sent = [n |-> 1, i |-> 2, gap |-> FALSE] /\ dropped = FALSE /\ cut = FALSE /\ ran = <<>>

IsNewline(c) == c.i = c.n + 1 /\ c.n > 0

-----------------------------------------------------------------------------
(* RingBuffer_Push and RingBuffer_Pop *)

\* Mutant: nobody looks whether the ring is full.
RingIsFullNever == FALSE

RingIsFull == (rxHead + 1) % RxSize = rxTail

PushChar(c) ==
  IF RingIsFull THEN UNCHANGED <<rxRing, rxHead>>
  ELSE rxRing' = [rxRing EXCEPT ![rxHead] = c] /\ rxHead' = (rxHead + 1) % RxSize

-----------------------------------------------------------------------------
(* uart_process: one byte of what uart_read_bytes returns *)

PushNext(n) ==
  /\ reading
  /\ IsNewline(sent) \/ n = sent.n
  /\ sent' = [n |-> n, i |-> IF IsNewline(sent) THEN 1 ELSE sent.i + 1, gap |-> dropped]
  /\ PushChar(sent') /\ dropped' = RingIsFull
  /\ ran' = <<>> /\ UNCHANGED <<rxTail, parseBuf, reading, cut>>

PushDollar ==
  /\ reading /\ PushChar(Dollar)
  /\ ran' = <<>> /\ UNCHANGED <<rxTail, parseBuf, reading, sent, dropped, cut>>

ReadIsOver ==
  /\ reading /\ reading' = FALSE
  /\ ran' = <<>> /\ UNCHANGED <<rxRing, rxHead, rxTail, parseBuf, sent, dropped, cut>>

-----------------------------------------------------------------------------
(* uart_parser: one turn of its loop; a slot that has been popped is not read again *)

\* The command is run, or the character stored; what finds parse_buf full empties it.
Store(c) ==
  IF Len(parseBuf) < ParseSize - 1
  THEN IF IsNewline(c) THEN ran' = Append(parseBuf, c) /\ parseBuf' = <<>> /\ cut' = FALSE
       ELSE parseBuf' = Append(parseBuf, c) /\ ran' = <<>> /\ UNCHANGED cut
  ELSE parseBuf' = <<>> /\ cut' = TRUE /\ ran' = <<>>

ParseChar ==
  /\ ~reading /\ rxHead # rxTail
  /\ rxTail' = (rxTail + 1) % RxSize
  /\ LET c == rxRing[rxTail] IN
     IF c = Dollar THEN parseBuf' = <<>> /\ cut' = TRUE /\ ran' = <<>> /\ reading' = TRUE
     ELSE Store(c) /\ UNCHANGED reading
  /\ rxRing' = [rxRing EXCEPT ![rxTail] = Dollar]
  /\ UNCHANGED <<rxHead, sent, dropped>>

NothingToParse ==
  /\ ~reading /\ rxHead = rxTail /\ reading' = TRUE
  /\ ran' = <<>> /\ UNCHANGED <<rxRing, rxHead, rxTail, parseBuf, sent, dropped, cut>>

-----------------------------------------------------------------------------
ConsoleNext ==
  \/ \E n \in 1..MaxLine : PushNext(n)
  \/ PushDollar \/ ReadIsOver \/ ParseChar \/ NothingToParse

ConsoleSpec == ConsoleInit /\ [][ConsoleNext]_consoleVars

-----------------------------------------------------------------------------
(* Properties *)

\* What runs without a '$', a gap or an overlong line before it is a line as it was sent.
WholeCommands ==
  [][ran' # <<>> /\ ~cut /\ (\A k \in 1..Len(ran') : ~ran'[k].gap) =>
       \A k \in 1..Len(ran') : ran'[k].i = k /\ ran'[k].n = Len(ran') - 1]_consoleVars
=============================================================================

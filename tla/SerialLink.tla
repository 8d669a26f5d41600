------------------------------ MODULE SerialLink ------------------------------
(***************************************************************************)
(* Two UARTs and the wire between them, clock by clock: the transmitter of *)
(* one (rtl/uart_tx.v behind rtl/uart.v), driven by a program that starts  *)
(* bytes as uart_tx_byte of main.s does, and the receiver of the other     *)
(* (rtl/uart_rx.v behind rtl/uart.v), polled by a program that takes bytes *)
(* as pu_read does.  Every flip-flop takes its next value at every edge;   *)
(* each program does at most one bus access per edge.                      *)
(***************************************************************************)
EXTENDS Integers, Sequences, SequencesExt

CONSTANTS
    TxRates,            \* clocks per bit the sender may run at
    RxClks,             \* clocks per bit of the receiver
    DataBits,           \* bits of a byte, 8
    ToSend,             \* bound: bytes the sender sends
    MaxPause            \* clocks between two accesses of the receiving program

\* Where the middle of a start bit is, counted from its edge.
Half == RxClks \div 2

\* uart.v:20: supported configurations need four clocks per bit.  The two clocks
\* agree well enough over one frame: the receiver samples the start bit, every data
\* bit and the stop bit while each lasts.  The program makes its three accesses in
\* less than a frame.
ASSUME LinkAssumption ==
    /\ DataBits \in Nat \ {0} /\ MaxPause \in Nat /\ RxClks \in Nat /\ RxClks >= 4
    /\ \A rate \in TxRates :
         /\ rate \in Nat /\ rate >= 4 /\ 3 * MaxPause < (DataBits + 2) * rate
         /\ \A k \in 0..DataBits :
              k * rate <= Half + k * RxClks /\ Half + k * RxClks < (k + 1) * rate
         /\ (DataBits + 1) * rate <= Half + (DataBits + 1) * RxClks
         /\ Half + (DataBits + 1) * RxClks <= (DataBits + 2) * rate

VARIABLES
    txClks,                                 \* clocks per bit of the sender
    txdata, transmit,                       \* uart.v, sender
    txo, busy, done, txCount, txBit, txShift,   \* uart_tx.v
    rxMeta, rxSync,                         \* uart_rx.v, synchronizer
    rxState, rxCount, rxBit, rxShift, received, rxValid,    \* uart_rx.v
    rxdata, rxdone,                         \* uart.v, receiver
    writer, reader, pause,                  \* the two programs
    sent, got                               \* bytes started, bytes taken

sender == <<txdata, transmit, txo, busy, done, txCount, txBit, txShift>>
receiver == <<rxMeta, rxSync, rxState, rxCount, rxBit, rxShift, received, rxValid,
              rxdata, rxdone>>
linkVars == <<txClks, sender, receiver, writer, reader, pause, sent, got>>

\* A byte, the lowest bit first.
LinkBytes == [0..(DataBits - 1) -> {0, 1}]
Zeros == [k \in 0..(DataBits - 1) |-> 0]

LinkInit ==
    /\ txClks \in TxRates
    /\ txdata = Zeros /\ transmit = FALSE
    /\ txo = 1 /\ busy = FALSE /\ done = TRUE /\ txCount = 0 /\ txBit = 0 /\ txShift = Zeros
    /\ rxMeta = 1 /\ rxSync = 1
    /\ rxState = "IDLE" /\ rxCount = 0 /\ rxBit = 0 /\ rxShift = Zeros
    /\ received = Zeros /\ rxValid = FALSE
    /\ rxdata = Zeros /\ rxdone = FALSE
    /\ writer = "poll" /\ reader = "poll" /\ pause = 0
    /\ sent = <<>> /\ got = <<>>

-----------------------------------------------------------------------------
(* uart_tx: start bit, data bits from the lowest, stop bit.                *)

ShiftedDown(byte) == [k \in 0..(DataBits - 1) |-> IF k = DataBits - 1 THEN 0 ELSE byte[k + 1]]

TxEdge ==
    IF ~busy
    THEN IF transmit
         THEN /\ txShift' = txdata /\ txo' = 0 /\ busy' = TRUE /\ done' = FALSE
              /\ txCount' = 0 /\ txBit' = 0
         ELSE UNCHANGED <<txShift, txo, busy, done, txCount, txBit>>
    ELSE IF txCount = txClks - 1
    THEN /\ txCount' = 0
         /\ \/ /\ txBit < DataBits
               /\ txo' = txShift[0] /\ txShift' = ShiftedDown(txShift) /\ txBit' = txBit + 1
               /\ UNCHANGED <<busy, done>>
            \/ /\ txBit = DataBits
               /\ txo' = 1 /\ txBit' = DataBits + 1
               /\ UNCHANGED <<txShift, busy, done>>
            \/ /\ txBit = DataBits + 1
               /\ busy' = FALSE /\ done' = TRUE
               /\ UNCHANGED <<txShift, txo, txBit>>
    ELSE txCount' = txCount + 1 /\ UNCHANGED <<txShift, txo, busy, done, txBit>>

-----------------------------------------------------------------------------
(* uart_rx: synchronizer, start bit checked in its middle, then one sample *)
(* per bit.  Every bit of the shift register is written before it is read, *)
(* so it is cleared here once its byte is handed over.                     *)

\* Mutant of Middle: the start bit is checked when its counter has run out.
MiddleTooLate == RxClks

\* Where the start bit is sampled.
Middle == Half - 1

RxEdge ==
    /\ rxMeta' = txo /\ rxSync' = rxMeta
    /\ LET atBitEnd == rxCount = RxClks - 1
       IN  \/ /\ rxState = "IDLE"
              /\ IF rxSync = 0 THEN rxCount' = 0 /\ rxState' = "START"
                 ELSE UNCHANGED <<rxCount, rxState>>
              /\ rxValid' = FALSE /\ UNCHANGED <<rxBit, rxShift, received>>
           \/ /\ rxState = "START"
              /\ IF rxCount = Middle
                 THEN /\ rxCount' = 0
                      /\ IF rxSync = 0 THEN rxBit' = 0 /\ rxState' = "DATA"
                         ELSE rxState' = "IDLE" /\ UNCHANGED rxBit
                 ELSE rxCount' = rxCount + 1 /\ UNCHANGED <<rxBit, rxState>>
              /\ rxValid' = FALSE /\ UNCHANGED <<rxShift, received>>
           \/ /\ rxState = "DATA"
              /\ IF atBitEnd
                 THEN /\ rxCount' = 0 /\ rxShift' = [rxShift EXCEPT ![rxBit] = rxSync]
                      /\ IF rxBit = DataBits - 1
                         THEN rxState' = "STOP" /\ UNCHANGED rxBit
                         ELSE rxBit' = rxBit + 1 /\ UNCHANGED rxState
                 ELSE rxCount' = rxCount + 1 /\ UNCHANGED <<rxShift, rxBit, rxState>>
              /\ rxValid' = FALSE /\ UNCHANGED received
           \/ /\ rxState = "STOP"
              /\ IF atBitEnd
                 THEN /\ rxCount' = 0 /\ rxState' = "IDLE" /\ rxShift' = Zeros
                      /\ rxValid' = (rxSync = 1)
                      /\ received' = IF rxSync = 1 THEN rxShift ELSE received
                 ELSE /\ rxCount' = rxCount + 1 /\ rxValid' = FALSE
                      /\ UNCHANGED <<rxState, rxShift, received>>
              /\ UNCHANGED rxBit

-----------------------------------------------------------------------------
(* The registers of uart.v and the programs that use them.                 *)

\* Mutant of TxDone: a start that has not been taken yet is not seen.
TxDoneRacy == done
TxDone == done /\ ~transmit

\* What the sending program does to its UART at this edge.
WriterIdles == UNCHANGED <<writer, txdata, sent>> /\ transmit' = FALSE

WriterPolls == /\ writer = "poll" /\ Len(sent) < ToSend
               /\ writer' = IF TxDone THEN "data" ELSE "poll"
               /\ transmit' = FALSE /\ UNCHANGED <<txdata, sent>>

WriterLoads == /\ writer = "data" /\ writer' = "start"
               /\ \E b \in LinkBytes : txdata' = b
               /\ transmit' = FALSE /\ UNCHANGED sent

WriterStarts == /\ writer = "start" /\ writer' = "poll"
                /\ transmit' = (~busy /\ ~transmit)
                /\ sent' = Append(sent, txdata) /\ UNCHANGED txdata

\* Reception wins over the access of the program.
RxRegisters(cleared) ==
    /\ rxdata' = IF rxValid THEN received ELSE rxdata
    /\ rxdone' = (rxValid \/ (rxdone /\ ~cleared))

ReaderIdles == /\ pause < MaxPause /\ pause' = pause + 1
               /\ RxRegisters(FALSE) /\ UNCHANGED <<reader, got>>

ReaderPolls == /\ reader = "poll"
               /\ reader' = IF rxdone THEN "clear" ELSE "poll"
               /\ pause' = 0 /\ RxRegisters(FALSE) /\ UNCHANGED got

ReaderClears == /\ reader = "clear" /\ reader' = "data"
                /\ pause' = 0 /\ RxRegisters(TRUE) /\ UNCHANGED got

ReaderTakes == /\ reader = "data" /\ reader' = "poll"
               /\ got' = Append(got, rxdata)
               /\ pause' = 0 /\ RxRegisters(FALSE)

Writer == WriterIdles \/ WriterPolls \/ WriterLoads \/ WriterStarts
Reader == ReaderIdles \/ ReaderPolls \/ ReaderClears \/ ReaderTakes

LinkNext == TxEdge /\ RxEdge /\ Writer /\ Reader /\ UNCHANGED txClks

LinkSpec == LinkInit /\ [][LinkNext]_linkVars

\* The clock runs, and a program that has something to send goes on sending.
FairLink == /\ LinkSpec /\ WF_linkVars(LinkNext)
            /\ WF_linkVars(LinkNext /\ WriterPolls)
            /\ WF_linkVars(LinkNext /\ (WriterLoads \/ WriterStarts))

-----------------------------------------------------------------------------
(* Correctness.                                                            *)

\* The bytes taken are the bytes that were sent, in order, each once: no start
\* is ignored by a busy transmitter, no bit is read from its neighbour, and the
\* three accesses that take a byte need only fit between two bytes.
GotIsPrefixOfSent == IsPrefix(got, sent)

\* Whatever the program means to send arrives: TXDONE comes back after every
\* byte, and no byte stays behind in the receiver with its flag gone.
AllArrives == <>(Len(got) = ToSend)
=============================================================================

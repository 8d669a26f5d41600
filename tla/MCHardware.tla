------------------------------ MODULE MCHardware ------------------------------
(* The bench for the clocked parts and the serial line: a run drives one   *)
(* device, the UART with its wire (SerialLink), the meter timer            *)
(* (MeterTimer), the meter's line with the parser behind it (MeterLine) or *)
(* the processor (Core); the other devices keep their reset state.         *)
EXTENDS SerialLink, MeterTimer, MeterLine, Core

VARIABLE device     \* the device of this run

benchVars == <<device, linkVars, timerVars, lineVars, vars>>

MCCounters == {"age", "rx"}

I(class, alt, rd, rs1, rs2, imm) ==
    [class |-> class, alt |-> alt, rd |-> rd, rs1 |-> rs1, rs2 |-> rs2, imm |-> imm]

\* Every class; both forms of ADD and SUB; x0 as source and as destination.
MCInstructions ==
    {I("op", alt, 1, 1, 1, 0) : alt \in BOOLEAN}
    \cup {I("opimm", alt, 1, 1, 0, 1) : alt \in BOOLEAN}
    \cup {I("opimm", FALSE, 0, 1, 0, 1), I("op", TRUE, 1, 0, 1, 0),
          I("mul", FALSE, 1, 1, 1, 0), I("crc", FALSE, 1, 1, 0, 0),
          I("load", FALSE, 1, 1, 0, 1), I("store", FALSE, 0, 0, 1, 1),
          I("branch", FALSE, 0, 1, 0, 2), I("jal", FALSE, 1, 0, 0, 2),
          I("jalr", FALSE, 1, 1, 0, 1), I("op", FALSE, 2, 1, 2, 0),
          I("load", FALSE, 2, 2, 0, 0), I("store", FALSE, 0, 1, 2, 0),
          I("branch", FALSE, 0, 1, 2, 1), I("jalr", FALSE, 2, 2, 0, 0),
          I("lui", FALSE, 1, 0, 0, 2), I("auipc", FALSE, 1, 0, 0, 1)}
    \cup {I(class, FALSE, 1, 0, 0, 0) : class \in {"ecall", "ebreak", "fence", "illegal"}}

\* What a device that is not driven might start with makes no difference.
BenchInit ==
    /\ device \in {"uart", "timer", "line", "core"}
    /\ LinkInit /\ TimerInit /\ LineInit /\ Init
    /\ device = "uart" \/ txClks = CHOOSE rate \in TxRates : TRUE
    /\ device = "core" \/ mem = [cell \in 0..(Depth - 1) |-> 0]

ClockUart  == device = "uart" /\ LinkNext
              /\ UNCHANGED <<device, timerVars, lineVars, vars>>
ClockTimer == device = "timer" /\ TimerNext
              /\ UNCHANGED <<device, linkVars, lineVars, vars>>
UseLine    == device = "line" /\ LineNext
              /\ UNCHANGED <<device, linkVars, timerVars, vars>>
ClockCore  == device = "core" /\ Next
              /\ UNCHANGED <<device, linkVars, timerVars, lineVars>>

BenchNext == ClockUart \/ ClockTimer \/ UseLine \/ ClockCore

\* The fairness of SerialLink, in a run that clocks it.
BenchSpec ==
    /\ BenchInit /\ [][BenchNext]_benchVars
    /\ WF_benchVars(ClockUart)
    /\ WF_benchVars(ClockUart /\ WriterPolls)
    /\ WF_benchVars(ClockUart /\ (WriterLoads \/ WriterStarts))

\* Whatever is sent arrives, in a run that clocks the UART.
UartDelivers == device = "uart" => AllArrives
=============================================================================

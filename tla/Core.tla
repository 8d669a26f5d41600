--------------------------------- MODULE Core ---------------------------------
(***************************************************************************)
(* The multicycle processor: the state machine of rtl/control_unit_eq26.v  *)
(* and the datapath that rtl/top.v wires to it.  A step is a clock edge.   *)
(* The control signals are operators of the current state; every register  *)
(* of the datapath takes its next value from them at every edge, needed or *)
(* not.  Words, instructions and memory are as in Isa.tla.                 *)
(***************************************************************************)
EXTENDS Integers

CONSTANTS
    Words,          \* how many values a word has, 2^32
    Registers,      \* how many registers, 32
    Depth,          \* words of data memory; the window above it repeats them
    Instructions    \* what a fetch may bring

\* An instruction is its class and its fields; alt is bit 30, which tells SUB
\* from ADD but is part of the immediate of ADDI.
Classes == {"op", "opimm", "mul", "crc", "load", "store", "branch", "jal",
            "jalr", "lui", "auipc", "ecall", "ebreak", "fence", "illegal"}

\* What a word of the ROM decodes to.
ASSUME CoreAssumption ==
    /\ Words \in Nat \ {0} /\ Registers \in Nat \ {0} /\ Depth \in Nat \ {0}
    /\ Instructions \subseteq
         [class : Classes, alt : BOOLEAN, rd : 0..(Registers - 1),
          rs1 : 0..(Registers - 1), rs2 : 0..(Registers - 1), imm : 0..(Words - 1)]

NoInstruction == [class |-> "illegal", alt |-> FALSE, rd |-> 0, rs1 |-> 0,
                  rs2 |-> 0, imm |-> 0]     \* a cleared instruction register

VARIABLES
    state, prev,        \* the state machine; prev is prev_state
    halt,               \* halt_o
    pc, oldPc, ir,      \* fetch_registers
    regs,               \* regfile
    aluOut,             \* alu_out_reg
    mulReg, crcReg,     \* results of the multiplier and of the CRC unit
    memReg,             \* what the last load brought
    mem, memOut,        \* data memory and its registered output
    cycles              \* edges since the last fetch began (history)

vars == <<state, prev, halt, pc, oldPc, ir, regs, aluOut, mulReg, crcReg,
          memReg, mem, memOut, cycles>>

Word == 0..(Words - 1)
Cell(address) == address % Depth

-----------------------------------------------------------------------------
(* Control signals and combinational logic.                                *)

Rs1 == IF ir.rs1 = 0 THEN 0 ELSE regs[ir.rs1]
Rs2 == IF ir.rs2 = 0 THEN 0 ELSE regs[ir.rs2]

\* adr_src_o: the bus is addressed by alu_out and not by the pc.
AddressesData == state \in {"MEM_ACCESS_ADDR", "MEM_ACCESS_DATA",
                            "MEM_ACCESS_STORE"}

AluA == IF state = "EXECUTE_ALU" /\ ir.class \in {"branch", "jal", "auipc"}
        THEN oldPc ELSE Rs1

AluB == IF \/ state = "MEM_ADDR"
           \/ /\ state = "EXECUTE_ALU"
              /\ ir.class \in {"branch", "jal", "jalr", "lui", "auipc", "opimm"}
        THEN ir.imm ELSE Rs2

\* alu_op_o; only ADD, SUB and PASS_B are told apart.
AluOp ==
    CASE state = "EXECUTE_ALU" /\ ir.class \in {"op", "opimm", "illegal"} ->
           IF ir.class # "opimm" /\ ir.alt THEN "sub" ELSE "add"
      [] state = "EXECUTE_ALU" /\ ir.class \in {"branch", "jal", "jalr", "auipc"} ->
           "add"
      [] state = "MEM_ADDR" -> "add"
      [] OTHER -> "pass_b"

AluResult == CASE AluOp = "add"    -> (AluA + AluB) % Words
               [] AluOp = "sub"    -> (AluA - AluB) % Words
               [] AluOp = "pass_b" -> AluB

BranchTaken == Rs1 = Rs2

\* result_src_o: what a write-back writes, and when memReg is loaded.
ResultSource ==
    CASE \/ state = "MEM_ACCESS_DATA"
         \/ state = "WRITE_BACK" /\ prev = "MEM_ACCESS_DATA" -> "mem"
      [] \/ state = "EXECUTE_ALU" /\ ir.class \in {"jal", "jalr"}
         \/ /\ state = "WRITE_BACK" /\ prev = "EXECUTE_ALU"
            /\ ir.class \in {"jal", "jalr"} -> "pc4"
      [] \/ state = "EXECUTE_ALU" /\ ir.class = "mul"
         \/ state = "WRITE_BACK" /\ prev = "EXECUTE_ALU" /\ ir.class = "mul" -> "mul"
      [] \/ state = "EXECUTE_ALU" /\ ir.class = "crc"
         \/ state = "WRITE_BACK" /\ prev = "EXECUTE_ALU" /\ ir.class = "crc" -> "crc"
      [] OTHER -> "alu"

Result == CASE ResultSource = "alu" -> aluOut
            [] ResultSource = "mul" -> mulReg
            [] ResultSource = "crc" -> crcReg
            [] ResultSource = "mem" -> memReg
            [] ResultSource = "pc4" -> (oldPc + 1) % Words

\* The bus: data memory behind alu_out, the ROM (0 unless fetching) behind pc.
BusData == IF AddressesData THEN memOut ELSE 0

-----------------------------------------------------------------------------
(* The clock edge.                                                         *)

\* Registers that load by their enables alone, whatever the state.
Datapath ==
    /\ prev' = state
    /\ aluOut' = IF AddressesData THEN aluOut ELSE AluResult
    /\ mulReg' = IF state = "EXECUTE_ALU" /\ ir.class = "mul"
                 THEN (Rs1 * Rs2) % Words ELSE mulReg
    /\ crcReg' = IF state = "EXECUTE_ALU" /\ ir.class = "crc"
                 THEN (Rs1 + 2 * Rs2 + 1) % Words ELSE crcReg
    /\ memReg' = IF ResultSource = "mem" THEN BusData ELSE memReg
    /\ memOut' = IF state \in {"MEM_ACCESS_ADDR", "MEM_ACCESS_DATA"}
                 THEN mem[Cell(aluOut)] ELSE memOut
    /\ cycles' = IF state \in {"RESET", "FETCH"} THEN 1 ELSE cycles + 1

\* pc_write_o: halt_o freezes the pc.
LoadPc(enabled, next) == pc' = IF enabled /\ ~halt THEN next ELSE pc

StayPut == UNCHANGED <<halt, pc, oldPc, ir, regs, mem>>

LeaveReset == /\ state = "RESET" /\ state' = "FETCH"
              /\ Datapath /\ StayPut

\* Mutant of Fetch: halt_o freezes the pc and not the instruction register.
FetchAfterHalt ==
    /\ state = "FETCH" /\ state' = "DECODE"
    /\ LoadPc(TRUE, (pc + 1) % Words)
    /\ oldPc' = pc /\ \E i \in Instructions : ir' = i
    /\ Datapath /\ UNCHANGED <<halt, regs, mem>>

Fetch == /\ state = "FETCH" /\ state' = "DECODE"
         /\ LoadPc(TRUE, (pc + 1) % Words)
         /\ IF halt THEN UNCHANGED <<oldPc, ir>>
            ELSE oldPc' = pc /\ \E i \in Instructions : ir' = i
         /\ Datapath /\ UNCHANGED <<halt, regs, mem>>

Decode == /\ state = "DECODE"
          /\ state' = IF ir.class \in {"load", "store"} THEN "MEM_ADDR"
                      ELSE "EXECUTE_ALU"
          /\ Datapath /\ StayPut

ExecuteAlu ==
    /\ state = "EXECUTE_ALU"
    /\ state' = IF ir.class \in {"branch", "ecall", "ebreak", "fence", "illegal"}
                THEN "FETCH" ELSE "WRITE_BACK"
    /\ LoadPc(\/ ir.class = "branch" /\ BranchTaken
              \/ ir.class \in {"jal", "jalr"}, AluResult)
    /\ halt' = (halt \/ ir.class = "ecall")
    /\ Datapath /\ UNCHANGED <<oldPc, ir, regs, mem>>

WriteBack == /\ state = "WRITE_BACK" /\ state' = "FETCH"
             /\ regs' = IF ir.rd # 0 THEN [regs EXCEPT ![ir.rd] = Result] ELSE regs
             /\ Datapath /\ UNCHANGED <<halt, pc, oldPc, ir, mem>>

MemAddr == /\ state = "MEM_ADDR"
           /\ state' = IF ir.class = "store" THEN "MEM_ACCESS_STORE"
                       ELSE "MEM_ACCESS_ADDR"
           /\ Datapath /\ StayPut

MemAccessAddr == /\ state = "MEM_ACCESS_ADDR" /\ state' = "MEM_ACCESS_DATA"
                 /\ Datapath /\ StayPut

MemAccessData == /\ state = "MEM_ACCESS_DATA" /\ state' = "WRITE_BACK"
                 /\ Datapath /\ StayPut

MemAccessStore == /\ state = "MEM_ACCESS_STORE" /\ state' = "FETCH"
                  /\ mem' = [mem EXCEPT ![Cell(aluOut)] = Rs2]
                  /\ Datapath /\ UNCHANGED <<halt, pc, oldPc, ir, regs>>

\* rst_i, at any edge: everything but the contents of the data memory.
Cleared == /\ state' = "RESET" /\ prev' = "RESET" /\ halt' = FALSE
           /\ pc' = 0 /\ oldPc' = 0 /\ ir' = NoInstruction
           /\ regs' = [r \in 0..(Registers - 1) |-> 0]
           /\ aluOut' = 0 /\ mulReg' = 0 /\ crcReg' = 0 /\ memReg' = 0
           /\ memOut' = 0 /\ cycles' = 0
Rst == Cleared /\ UNCHANGED mem

\* After the power-on reset.
Init == /\ state = "RESET" /\ prev = "RESET" /\ halt = FALSE
        /\ pc = 0 /\ oldPc = 0 /\ ir = NoInstruction
        /\ regs = [r \in 0..(Registers - 1) |-> 0]
        /\ aluOut = 0 /\ mulReg = 0 /\ crcReg = 0 /\ memReg = 0
        /\ mem \in [0..(Depth - 1) -> Word] /\ memOut = 0 /\ cycles = 0

Next == \/ LeaveReset \/ Fetch \/ Decode \/ ExecuteAlu \/ WriteBack
        \/ MemAddr \/ MemAccessAddr \/ MemAccessData \/ MemAccessStore
        \/ Rst

Spec == Init /\ [][Next]_vars

-----------------------------------------------------------------------------
(* Correctness.                                                            *)

\* Between two instructions the pc is the architectural one; inside one, and
\* until its last edge, the instruction has not happened yet.
Architecture ==
    INSTANCE Isa WITH halted <- halt,
        pc <- IF halt \/ state \in {"RESET", "FETCH"} THEN pc ELSE oldPc

\* README.md:30: all instructions "execute in 3-6 cycles".
ThreeToSixCycles ==
    [][ state # "FETCH" /\ state # "RESET" /\ state' = "FETCH" =>
          cycles + 1 \in 3..6 ]_vars

\* The multicycle machine is the instruction set: pc, registers, memory and
\* halting change together, at the last edge of each instruction, as Isa.tla
\* says, with nothing left over from the instructions before it; a halted core
\* changes nothing more; and an instruction takes no longer than it may.
ImplementsIsa == Architecture!Spec /\ ThreeToSixCycles
=============================================================================

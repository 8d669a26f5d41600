------------------------------ MODULE CoreProofs ------------------------------
(***************************************************************************)
(* The multicycle machine implements the instruction set, for every word   *)
(* size, register file, memory and program.  The invariant says what each  *)
(* state of the control unit finds in the registers of the datapath; the   *)
(* edges then map to an instruction, to a reset or to nothing.             *)
(***************************************************************************)
EXTENDS Core, TLAPS

\* Classes whose last edge is EXECUTE_ALU.
NoResult == {"branch", "ecall", "ebreak", "fence", "illegal"}

Address == (Rs1 + ir.imm) % Words

\* A state finds an instruction of the classes that lead to it.
ClassFits ==
    /\ state \in {"RESET", "FETCH", "DECODE", "EXECUTE_ALU", "WRITE_BACK", "MEM_ADDR",
                  "MEM_ACCESS_ADDR", "MEM_ACCESS_DATA", "MEM_ACCESS_STORE"}
    /\ halt \/ state \notin {"RESET", "FETCH"} => ir \in Instructions
    /\ state = "EXECUTE_ALU" => ir.class \notin {"load", "store"}
    /\ state = "MEM_ADDR" => ir.class \in {"load", "store"}
    /\ state \in {"MEM_ACCESS_ADDR", "MEM_ACCESS_DATA"} => ir.class = "load"
    /\ state = "MEM_ACCESS_STORE" => ir.class = "store"
    /\ state = "WRITE_BACK" => ir.class \notin NoResult \cup {"store"}

\* x0 is 0, and a halted core goes round on the ECALL that halted it.
Kept == /\ DOMAIN regs = 0..(Registers - 1) /\ regs[0] = 0
        /\ halt \in BOOLEAN /\ (halt => ir.class = "ecall")

\* The pc has left the instruction that is still to take effect.
Ahead ==
    /\ ~halt /\ state \notin {"RESET", "FETCH", "WRITE_BACK"} => pc = (oldPc + 1) % Words
    /\ state = "WRITE_BACK" => pc = Architecture!Target(ir)

\* A load has its address, then the word at it, then that word in the register
\* write-back takes it from; any other result is where its class leaves it.
Latched ==
    /\ state \in {"MEM_ACCESS_ADDR", "MEM_ACCESS_DATA", "MEM_ACCESS_STORE"} =>
         aluOut = Address
    /\ state = "MEM_ACCESS_DATA" => memOut = mem[Cell(aluOut)]
    /\ state = "WRITE_BACK" => Result = Architecture!Value(ir)

\* How far an instruction has come.
Counted ==
    /\ state = "DECODE" => cycles = 1
    /\ state \in {"EXECUTE_ALU", "MEM_ADDR"} => cycles = 2
    /\ state \in {"MEM_ACCESS_ADDR", "MEM_ACCESS_STORE"} => cycles = 3
    /\ state = "MEM_ACCESS_DATA" => cycles = 4
    /\ state = "WRITE_BACK" => cycles = IF ir.class = "load" THEN 5 ELSE 3

Inv == ClassFits /\ Kept /\ Ahead /\ Latched /\ Counted

-----------------------------------------------------------------------------
(* The invariant.                                                          *)

\* The fields of an instruction.
LEMMA Fields ==
    ASSUME NEW i \in Instructions
    PROVE  /\ i.class \in Classes /\ i.alt \in BOOLEAN
           /\ i.rd \in 0..(Registers - 1) /\ i.rs1 \in 0..(Registers - 1)
           /\ i.rs2 \in 0..(Registers - 1)
BY CoreAssumption

\* The power-on reset and every other one end in a core that has done nothing.
LEMMA ResetInv == (Init => Inv) /\ (Rst => Inv')
<1>1. 0 \in 0..(Registers - 1)
  BY CoreAssumption
<1>2. Init => Inv
  BY <1>1 DEF Init, Inv, ClassFits, Kept, Ahead, Latched, Counted
<1>3. Rst => Inv'
  BY <1>1 DEF Rst, Cleared, Inv, ClassFits, Kept, Ahead, Latched, Counted
<1> QED
  BY <1>2, <1>3

\* x0 reads as 0 and the register file as itself.
LEMMA Reads ==
    ASSUME Inv, ir \in Instructions
    PROVE  Rs1 = regs[ir.rs1] /\ Rs2 = regs[ir.rs2]
BY DEF Inv, Kept, Rs1, Rs2

\* A new instruction, or the old one if the core is halted.
LEMMA FetchInv ==
    ASSUME Inv, LeaveReset \/ Fetch
    PROVE  Inv'
<1>1. CASE LeaveReset
  BY <1>1 DEF LeaveReset, StayPut, Datapath, Inv, ClassFits, Kept, Ahead, Latched, Counted
<1>2. CASE Fetch
  BY <1>2 DEF Fetch, LoadPc, Datapath, Inv, ClassFits, Kept, Ahead, Latched, Counted
<1> QED BY <1>1, <1>2

LEMMA DecodeInv ==
    ASSUME Inv, Decode
    PROVE  Inv'
BY Fields DEF Decode, StayPut, Datapath, Inv, ClassFits, Kept, Ahead, Latched, Counted

\* The ALU, the multiplier and the CRC unit, each to its own register; the pc
\* to its target; or a branch, a halt or nothing, and the next fetch.
LEMMA ExecuteInv ==
    ASSUME Inv, ExecuteAlu
    PROVE  Inv'
<1>1. /\ ir \in Instructions /\ ir' = ir /\ regs' = regs /\ mem' = mem /\ oldPc' = oldPc
      /\ ir.class \in Classes \ {"load", "store"}
  BY Fields DEF ExecuteAlu, Inv, ClassFits
<1>2. Rs1 = regs[ir.rs1] /\ Rs2 = regs[ir.rs2]
  BY <1>1, Reads
<1>3. CASE ir.class \in NoResult
  BY <1>1, <1>3 DEF ExecuteAlu, Datapath, NoResult, Inv, ClassFits, Kept, Ahead, Latched, Counted
<1>4. CASE ir.class \notin NoResult
  <2>1. state' = "WRITE_BACK" /\ ~halt /\ ~halt'
    BY <1>4 DEF ExecuteAlu, NoResult, Inv, Kept
  <2>2. Architecture!Target(ir)' = pc'
    BY <1>1, <1>2, <1>4, <2>1 DEF ExecuteAlu, LoadPc, AluResult, AluA, AluB, AluOp, NoResult,
       Classes, Inv, Ahead, Architecture!Target, Architecture!Add
  <2>3. Result' = Architecture!Value(ir)'
    BY <1>1, <1>2, <1>4, <2>1 DEF ExecuteAlu, Datapath, AddressesData, AluResult, AluA, AluB, AluOp,
       NoResult, Classes, ResultSource, Result, Architecture!Value, Architecture!Add,
       Architecture!Sub, Architecture!Mul, Architecture!Crc
  <2> QED
    BY <1>1, <1>4, <2>1, <2>2, <2>3
       DEF ExecuteAlu, Datapath, Inv, ClassFits, Kept, Ahead, Latched, Counted, NoResult
<1> QED BY <1>3, <1>4

\* Only rd is written, and never x0.
LEMMA WriteBackInv ==
    ASSUME Inv, WriteBack
    PROVE  Inv'
<1>1. DOMAIN regs' = DOMAIN regs /\ regs'[0] = regs[0]
  BY CoreAssumption DEF WriteBack, Inv, Kept
<1> QED
  BY <1>1 DEF WriteBack, Inv, ClassFits, Kept, Ahead, Latched, Counted

\* The address of a load or a store is computed.
LEMMA MemAddrInv ==
    ASSUME Inv, MemAddr
    PROVE  Inv'
<1>1. /\ ir \in Instructions /\ ir' = ir /\ regs' = regs
      /\ ir.class \in {"load", "store"} /\ ~halt
  BY DEF MemAddr, StayPut, Inv, ClassFits, Kept
<1>2. aluOut' = Address'
  BY <1>1 DEF MemAddr, Datapath, AddressesData, AluResult, AluA, AluB, AluOp, Address, Rs1
<1> QED
  BY <1>1, <1>2
     DEF MemAddr, StayPut, Datapath, Inv, ClassFits, Kept, Ahead, Latched, Counted

\* The memory brings the word to its output, then the output to memReg.
LEMMA LoadInv ==
    ASSUME Inv, MemAccessAddr \/ MemAccessData
    PROVE  Inv'
<1>1. /\ ir \in Instructions /\ ir.class = "load" /\ ~halt /\ ir' = ir /\ regs' = regs
      /\ mem' = mem /\ aluOut' = aluOut /\ aluOut = Address /\ halt' = halt
      /\ pc' = pc /\ oldPc' = oldPc
  BY DEF MemAccessAddr, MemAccessData, StayPut, Datapath, AddressesData, Inv, ClassFits,
     Kept, Latched
<1>2. Address' = Address
  BY <1>1 DEF Address, Rs1
<1>3. CASE MemAccessAddr
  <2>1. state' = "MEM_ACCESS_DATA" /\ memOut' = mem'[Cell(aluOut')]
    BY <1>1, <1>3 DEF MemAccessAddr, Datapath, Cell
  <2> QED
    BY <1>1, <1>2, <1>3, <2>1
       DEF MemAccessAddr, Datapath, Inv, ClassFits, Kept, Ahead, Latched, Counted
<1>4. CASE MemAccessData
  <2>1. /\ state' = "WRITE_BACK" /\ prev' = "MEM_ACCESS_DATA"
        /\ memReg' = mem[Cell(Address)]
    BY <1>1, <1>4 DEF MemAccessData, Datapath, BusData, AddressesData, ResultSource, Inv,
       Latched
  <2>2. Result' = memReg'
    BY <2>1 DEF Result, ResultSource
  <2>3. Architecture!Value(ir)' = mem[Cell(Address)]
    BY <1>1, <2>1, Reads DEF Architecture!Value, Architecture!Cell, Architecture!Add, Cell,
       Address
  <2>4. Architecture!Target(ir)' = pc'
    BY <1>1, <1>4, <2>1 DEF MemAccessData, Inv, Ahead, Architecture!Target, Architecture!Add
  <2> QED
    BY <1>1, <1>4, <2>1, <2>2, <2>3, <2>4
       DEF MemAccessData, Datapath, NoResult, Inv, ClassFits, Kept, Ahead, Latched, Counted
<1> QED BY <1>3, <1>4

\* A store ends with the write.
LEMMA StoreInv ==
    ASSUME Inv, MemAccessStore
    PROVE  Inv'
BY DEF MemAccessStore, Datapath, Inv, ClassFits, Kept, Ahead, Latched, Counted

\* Every edge keeps the invariant.
LEMMA NextInv == Inv /\ [Next]_vars => Inv'
<1> SUFFICES ASSUME Inv, [Next]_vars PROVE Inv'
  OBVIOUS
<1>1. CASE Next
  BY <1>1, ResetInv, FetchInv, DecodeInv, ExecuteInv, WriteBackInv, MemAddrInv, LoadInv,
     StoreInv DEF Next
<1>2. CASE UNCHANGED vars
  <2>1. /\ Rs1' = Rs1 /\ Result' = Result /\ Address' = Address
        /\ Architecture!Target(ir)' = Architecture!Target(ir)
        /\ Architecture!Value(ir)' = Architecture!Value(ir)
    BY <1>2 DEF vars, Rs1, Rs2, Result, ResultSource, Address, Architecture!Target,
       Architecture!Value, Architecture!Add, Architecture!Sub, Architecture!Mul,
       Architecture!Crc, Architecture!Cell
  <2> QED
    BY <1>2, <2>1 DEF vars, Inv, ClassFits, Kept, Ahead, Latched, Counted, Cell
<1> QED BY <1>1, <1>2

\* What each state of the control unit finds in the datapath.
THEOREM CoreInvariant == Spec => []Inv
BY ResetInv, NextInv, PTL DEF Spec

-----------------------------------------------------------------------------
(* The refinement.                                                         *)

\* The program counter the program sees.
SeenPc == IF halt \/ state \in {"RESET", "FETCH"} THEN pc ELSE oldPc
Seen == <<SeenPc, regs, mem, halt>>

\* An edge inside an instruction is not seen.
LEMMA InnerEdges ==
    ASSUME Inv, \/ LeaveReset \/ Fetch \/ Decode \/ MemAddr \/ MemAccessAddr
                \/ MemAccessData
    PROVE  UNCHANGED Seen
BY DEF LeaveReset, Fetch, Decode, MemAddr, MemAccessAddr, MemAccessData, StayPut, LoadPc,
   Seen, SeenPc, Inv, Kept, ClassFits

\* The last edge of an instruction has all of its effects.
LEMMA LastEdges ==
    ASSUME Inv, ~halt, (ExecuteAlu /\ state' = "FETCH") \/ WriteBack \/ MemAccessStore
    PROVE  Architecture!Execute(ir)
<1>1. ir \in Instructions /\ Rs1 = regs[ir.rs1] /\ Rs2 = regs[ir.rs2] /\ SeenPc = oldPc
  BY Reads DEF ExecuteAlu, WriteBack, MemAccessStore, Inv, ClassFits, SeenPc
<1>2. SeenPc' = pc'
  BY DEF ExecuteAlu, WriteBack, MemAccessStore, SeenPc
<1>3. CASE ExecuteAlu /\ state' = "FETCH"
  <2>1. ir.class \in NoResult
    BY <1>1, <1>3 DEF ExecuteAlu, NoResult
  <2>2. pc' = Architecture!Target(ir)
    BY <1>1, <1>3, <2>1 DEF ExecuteAlu, LoadPc, BranchTaken, AluResult, AluA, AluB, AluOp,
       NoResult, Inv, Ahead, SeenPc, Architecture!Target, Architecture!Add
  <2> QED
    BY <1>2, <1>3, <2>1, <2>2 DEF ExecuteAlu, NoResult, SeenPc, Architecture!Execute,
       Architecture!Writes
<1>4. CASE WriteBack
  <2>1. pc' = Architecture!Target(ir) /\ Result = Architecture!Value(ir)
    BY <1>4 DEF WriteBack, Inv, Ahead, Latched
  <2>2. ir.class \notin NoResult \cup {"store"}
    BY <1>4 DEF WriteBack, Inv, ClassFits
  <2>3. halt' = (ir.class = "ecall") /\ mem' = mem
    BY <1>4, <2>2 DEF WriteBack, NoResult, Inv, Kept
  <2>4. regs' = IF Architecture!Writes(ir)
                THEN [regs EXCEPT ![ir.rd] = Architecture!Value(ir)] ELSE regs
    BY <1>1, <1>4, <2>1, <2>2, Fields DEF WriteBack, NoResult, Classes, Architecture!Writes
  <2> QED
    BY <1>2, <2>1, <2>2, <2>3, <2>4 DEF SeenPc, Architecture!Execute
<1>5. CASE MemAccessStore
  <2>1. ir.class = "store" /\ aluOut = Address /\ pc' = (oldPc + 1) % Words
    BY <1>5 DEF MemAccessStore, Inv, ClassFits, Latched, Ahead
  <2>2. pc' = Architecture!Target(ir)
    BY <1>1, <2>1 DEF SeenPc, Architecture!Target, Architecture!Add
  <2>3. mem' = [mem EXCEPT ![Architecture!Cell(Architecture!Add(regs[ir.rs1], ir.imm))]
                  = regs[ir.rs2]]
    BY <1>1, <1>5, <2>1 DEF MemAccessStore, Address, Cell, Architecture!Cell,
       Architecture!Add
  <2>4. halt' = (ir.class = "ecall") /\ regs' = regs /\ ~Architecture!Writes(ir)
    BY <1>5, <2>1 DEF MemAccessStore, Inv, Kept, Architecture!Writes
  <2> QED
    BY <1>2, <1>5, <2>1, <2>2, <2>3, <2>4 DEF MemAccessStore, SeenPc, Architecture!Execute
<1> QED BY <1>3, <1>4, <1>5

\* Every edge is an instruction, a reset, or not seen.
LEMMA EdgeMaps == ASSUME Inv, [Next]_vars PROVE [Architecture!Next]_Seen
<1>1. CASE \/ LeaveReset \/ Fetch \/ Decode \/ MemAddr \/ MemAccessAddr \/ MemAccessData
  BY <1>1, InnerEdges
<1>2. CASE ~halt /\ ((ExecuteAlu /\ state' = "FETCH") \/ WriteBack \/ MemAccessStore)
  <2>1. ir \in Instructions
    BY <1>2 DEF ExecuteAlu, WriteBack, MemAccessStore, Inv, ClassFits
  <2> QED
    BY <1>2, <2>1, LastEdges DEF Architecture!Next
<1>3. CASE ExecuteAlu /\ ~halt /\ state' # "FETCH"
  <2>1. ir.class # "ecall" /\ ~halt' /\ state' = "WRITE_BACK"
    BY <1>3 DEF ExecuteAlu
  <2> QED
    BY <1>3, <2>1 DEF ExecuteAlu, Seen, SeenPc, Inv, Kept
<1>4. CASE halt /\ (ExecuteAlu \/ WriteBack \/ MemAccessStore)
  BY <1>4 DEF ExecuteAlu, WriteBack, MemAccessStore, LoadPc, Seen, SeenPc, NoResult, Inv,
     Kept, ClassFits
<1>5. CASE Rst
  BY <1>5 DEF Rst, Cleared, SeenPc, Architecture!Next, Architecture!Reset
<1>6. CASE UNCHANGED vars
  BY <1>6 DEF vars, Seen, SeenPc
<1> QED BY <1>1, <1>2, <1>3, <1>4, <1>5, <1>6 DEF Next

\* An instruction takes 3 to 6 edges, its fetch included.
LEMMA EdgeCount ==
    ASSUME Inv, [Next]_vars
    PROVE  state # "FETCH" /\ state # "RESET" /\ state' = "FETCH" => cycles + 1 \in 3..6
<1> SUFFICES ASSUME state \notin {"FETCH", "RESET"}, state' = "FETCH"
             PROVE  cycles + 1 \in 3..6
  OBVIOUS
<1>1. ExecuteAlu \/ WriteBack \/ MemAccessStore
  BY DEF Next, vars, LeaveReset, Fetch, Decode, MemAddr, MemAccessAddr, MemAccessData, Rst,
     Cleared
<1>2. cycles \in {2, 3, 5}
  BY <1>1 DEF ExecuteAlu, WriteBack, MemAccessStore, Inv, Counted
<1> QED BY <1>2

\* The multicycle machine implements the instruction set: whatever the
\* program, the word size and the memory, pc, registers, memory and halting
\* change as Isa says, once an instruction, and no instruction takes longer
\* than its 3 to 6 cycles.
THEOREM CoreRefinesIsa == Spec => ImplementsIsa
<1>1. Init => Architecture!Init
  BY DEF Init, Architecture!Init, Word, Architecture!Word
<1>2. Inv /\ [Next]_vars => [Architecture!Next]_Seen
  BY EdgeMaps
<1>3. Inv /\ [Next]_vars =>
        [state # "FETCH" /\ state # "RESET" /\ state' = "FETCH" => cycles + 1 \in 3..6]_vars
  BY EdgeCount
<1> QED
  BY <1>1, <1>2, <1>3, CoreInvariant, PTL
     DEF Spec, ImplementsIsa, ThreeToSixCycles, Architecture!Spec, Seen, SeenPc
=============================================================================

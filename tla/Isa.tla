--------------------------------- MODULE Isa ---------------------------------
(***************************************************************************)
(* What the processor promises: one instruction after another, each with   *)
(* all of its effects at once.  Core.tla is the multicycle machine that    *)
(* implements it.  Words are small, the program counter counts words, and  *)
(* an instruction is a record of its class and its fields; memory holds    *)
(* any program, so an instruction is whatever a fetch may bring.  The      *)
(* assumptions on the constants are those of Core.tla.                     *)
(***************************************************************************)
EXTENDS Integers

CONSTANTS
    Words,          \* how many values a word has, 2^32
    Registers,      \* how many registers, 32
    Depth,          \* words of data memory; the window above it repeats them
    Instructions    \* what a fetch may bring

VARIABLES pc, regs, mem, halted

Word == 0..(Words - 1)
Cell(address) == address % Depth

Add(a, b) == (a + b) % Words
Sub(a, b) == (a - b) % Words
Mul(a, b) == (a * b) % Words
Crc(data, seed) == (data + 2 * seed + 1) % Words    \* any function of the two

Init == /\ pc = 0
        /\ regs = [r \in 0..(Registers - 1) |-> 0]
        /\ mem \in [0..(Depth - 1) -> Word]
        /\ halted = FALSE

\* What the instruction writes to rd, if it writes.
Value(i) ==
    LET a == regs[i.rs1]
        b == regs[i.rs2]
    IN  CASE i.class = "op"    -> IF i.alt THEN Sub(a, b) ELSE Add(a, b)
          [] i.class = "opimm" -> Add(a, i.imm)
          [] i.class = "mul"   -> Mul(a, b)
          [] i.class = "crc"   -> Crc(a, b)
          [] i.class = "load"  -> mem[Cell(Add(a, i.imm))]
          [] i.class = "lui"   -> i.imm
          [] i.class = "auipc" -> Add(pc, i.imm)
          [] i.class \in {"jal", "jalr"} -> Add(pc, 1)

Writes(i) == i.rd # 0 /\ i.class \notin {"store", "branch", "ecall", "ebreak",
                                         "fence", "illegal"}

Target(i) ==
    CASE i.class = "jal" -> Add(pc, i.imm)
      [] i.class = "jalr" -> Add(regs[i.rs1], i.imm)
      [] i.class = "branch" /\ regs[i.rs1] = regs[i.rs2] -> Add(pc, i.imm)
      [] OTHER -> Add(pc, 1)

Execute(i) ==
    /\ ~halted
    /\ pc' = Target(i)
    /\ regs' = IF Writes(i) THEN [regs EXCEPT ![i.rd] = Value(i)] ELSE regs
    /\ mem' = IF i.class = "store"
              THEN [mem EXCEPT ![Cell(Add(regs[i.rs1], i.imm))] = regs[i.rs2]]
              ELSE mem
    /\ halted' = (i.class = "ecall")

Reset == /\ pc' = 0
         /\ regs' = [r \in 0..(Registers - 1) |-> 0]
         /\ halted' = FALSE
         /\ UNCHANGED mem

Next == Reset \/ \E i \in Instructions : Execute(i)

Spec == Init /\ [][Next]_<<pc, regs, mem, halted>>
=============================================================================

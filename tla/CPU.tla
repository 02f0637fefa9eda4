-------------------------------- MODULE CPU ---------------------------------
(***************************************************************************)
(* The emulated 6502 (emulator/CPU/emulator.c): every iteration of the     *)
(* loop in emu_run is one step, by the action for its kind of instruction. *)
(* Bytes have 8 bits and addresses 16, as in the code.                     *)
(*                                                                         *)
(* RAM holds the cells written so far; the others are the zeros of         *)
(* kzalloc.  The ROM is any ROM: an instruction fetched from it is one of  *)
(* program.ops, any other byte read from it one of program.bytes.          *)
(***************************************************************************)
EXTENDS OpcodeTable, Sequences

CONSTANTS Programs     \* [ops, bytes, limit]: contents of the ROM, and bound on the cycles

VARIABLES program,
          r,           \* emu.registers; P is the set of flags
          RAM, cur_opcode, total_CPU_cycles, CPU_halted,
          writes_tracked, \* debug_tracker.writes_mem
          input,       \* history: last operand of ADC_op or SBC_op
          frames       \* history: what lies on the stack, and where

vars == <<program, r, RAM, cur_opcode, total_CPU_cycles, CPU_halted, writes_tracked, input, frames>>

Byte == 0..255

ASSUME CPUAssumption == \A p \in Programs : p.ops \subseteq Byte /\ p.bytes \subseteq Byte

Address == {a \in Nat : a < 65536}
RamSize == 2048
RomStart == 32768
Stack == 256..511
Sign == 128

FlagBit == [C |-> 1, Z |-> 2, I |-> 4, D |-> 8, B |-> 16, U |-> 32, V |-> 64, N |-> 128]
Flags == DOMAIN FlagBit
Bit(b, m) == (b \div m) % 2 = 1

(* The byte whose bits are those of the flags with On. *)
ByteOf(On(_)) ==
  LET v(f) == IF On(f) THEN FlagBit[f] ELSE 0
  IN v("C") + v("Z") + v("I") + v("D") + v("B") + v("U") + v("V") + v("N")

FlagByte(P) == ByteOf(LAMBDA f : f \in P)
FlagSet(b) == {f \in Flags : Bit(b, FlagBit[f])}
Carry == IF "C" \in r.P THEN 1 ELSE 0

(* a and b combined bit by bit. *)
BitByBit(a, b, Op(_, _)) == ByteOf(LAMBDA f : Op(Bit(a, FlagBit[f]), Bit(b, FlagBit[f])))

-----------------------------------------------------------------------------
(* Memory: RAM without its mirrors, the ROM, and nothing in between. *)
Cell(m, a) == IF a \in DOMAIN m THEN m[a] ELSE 0

emu_read(a) == IF a < RamSize THEN {Cell(RAM, a)}
               ELSE IF a >= RomStart THEN program.bytes ELSE {0}

(* The RAM after the values of w, a function on addresses, are written. *)
emu_write(w) ==
  [a \in DOMAIN RAM \cup {x \in DOMAIN w : x < RamSize} |-> IF a \in DOMAIN w THEN w[a] ELSE RAM[a]]

(* Mutant: the address is computed without the width of stack_pointer. *)
BugStackCell(i) == 256 + (r.SP + i)

(* The i-th cell above (below, when i is negative) the stack pointer. *)
StackCell(i) == 256 + ((r.SP + i) % 256)

(* Mutant: the stack pointer is wider than a byte. *)
BugSP(i) == r.SP + i

SP(i) == (r.SP + i) % 256

(* push_stack for the bytes of s, in that order. *)
push_stack(s) ==
  LET at(a) == CHOOSE i \in 1..Len(s) : StackCell(1 - i) = a
  IN emu_write([a \in {StackCell(1 - i) : i \in 1..Len(s)} |-> s[at(a)]])

pull_stack(i) == Cell(RAM, StackCell(i))

-----------------------------------------------------------------------------
(* Operands.  c is a case: opcode, operation, mode. *)

(* Mutant: get_absolute_addr_X_indexed does not step over the high byte. *)
BugLength(mode) == CASE mode \in {"imp", "acc"} -> 1
                     [] mode \in {"abs", "ind"} -> 3
                     [] OTHER -> 2

(* Bytes that read_increment_PC steps over, the opcode included. *)
Length(mode) == CASE mode \in {"imp", "acc"} -> 1
                  [] mode \in {"abs", "absx", "ind"} -> 3
                  [] OTHER -> 2

Plus16(a, n) == (a + n) % 65536
Next16(n) == Plus16(r.PC, n)
Word(lo, hi) == (hi * 256) + lo
Words(a) == {Word(lo, hi) : lo \in emu_read(a), hi \in emu_read(Plus16(a, 1))}

(* The addresses that the get_* functions can find for a mode. *)
Addresses(mode) ==
  CASE mode = "zp"   -> emu_read(Next16(1))
    [] mode = "zpx"  -> {(b + r.X) % 256 : b \in emu_read(Next16(1))}
    [] mode = "abs"  -> Words(Next16(1))
    [] mode = "absx" -> {Plus16(w, r.X) : w \in Words(Next16(1))}
    [] mode = "ind"  -> UNION {Words(w) : w \in Words(Next16(1))}
    [] mode = "indx" -> UNION {Words((b + r.X) % 256) : b \in emu_read(Next16(1))}
    [] mode = "indy" -> UNION {{Plus16(w, r.Y) : w \in Words(b)} : b \in emu_read(Next16(1))}

Inputs(mode) == IF mode \in {"imm", "rel"} THEN emu_read(Next16(1))
                ELSE UNION {emu_read(a) : a \in Addresses(mode)}

set_status_flag(P, f, on) == IF on THEN P \cup {f} ELSE P \ {f}
ZN(P, v) == set_status_flag(set_status_flag(P, "Z", v = 0), "N", v >= Sign)

After(c) == [r EXCEPT !.PC = Next16(Length(c[3]))]
SetRegister(c, reg, v) == [After(c) EXCEPT ![reg] = v, !.P = ZN(r.P, v)]

NoWrite == RAM' = RAM /\ writes_tracked' = FALSE

-----------------------------------------------------------------------------
(* Loads, stores, transfers, flags. *)
LD(c) ==
  /\ c[2] \in {"LDA", "LDX", "LDY"}
  /\ \E v \in Inputs(c[3]) :
       r' = SetRegister(c, CASE c[2] = "LDA" -> "A" [] c[2] = "LDX" -> "X" [] c[2] = "LDY" -> "Y", v)
  /\ NoWrite /\ UNCHANGED input

(* Mutant: the tracker is set only after the return for other addresses. *)
bug_ST(c) ==
  /\ c[2] \in {"STA", "STX", "STY"}
  /\ \E a \in Addresses(c[3]) :
       /\ RAM' = emu_write([x \in {a} |-> r[CASE c[2] = "STA" -> "A" [] c[2] = "STX" -> "X" [] c[2] = "STY" -> "Y"]])
       /\ writes_tracked' = (a < RamSize)
  /\ r' = After(c)
  /\ UNCHANGED input

ST(c) ==
  /\ c[2] \in {"STA", "STX", "STY"}
  /\ \E a \in Addresses(c[3]) :
       RAM' = emu_write([x \in {a} |-> r[CASE c[2] = "STA" -> "A" [] c[2] = "STX" -> "X" [] c[2] = "STY" -> "Y"]])
  /\ writes_tracked' = TRUE
  /\ r' = After(c)
  /\ UNCHANGED input

Transfer(c) ==
  /\ \/ c[2] = "TAX" /\ r' = SetRegister(c, "X", r.A)
     \/ c[2] = "TAY" /\ r' = SetRegister(c, "Y", r.A)
     \/ c[2] = "TXA" /\ r' = SetRegister(c, "A", r.X)
     \/ c[2] = "TYA" /\ r' = SetRegister(c, "A", r.Y)
     \/ c[2] = "TSX" /\ r' = SetRegister(c, "X", r.SP)
     \/ c[2] = "TXS" /\ r' = [After(c) EXCEPT !.SP = r.X]
     \/ c[2] = "INX" /\ r' = SetRegister(c, "X", (r.X + 1) % 256)
     \/ c[2] = "INY" /\ r' = SetRegister(c, "Y", (r.Y + 1) % 256)
     \/ c[2] = "DEX" /\ r' = SetRegister(c, "X", (r.X - 1) % 256)
  /\ NoWrite /\ UNCHANGED input

FlagOp(c) ==
  /\ \/ c[2] = "SEC" /\ r' = [After(c) EXCEPT !.P = r.P \cup {"C"}]
     \/ c[2] = "CLC" /\ r' = [After(c) EXCEPT !.P = r.P \ {"C"}]
     \/ c[2] = "CLV" /\ r' = [After(c) EXCEPT !.P = r.P \ {"V"}]
     \/ c[2] = "SEI" /\ r' = [After(c) EXCEPT !.P = r.P \cup {"I"}]
     \/ c[2] = "CLI" /\ r' = [After(c) EXCEPT !.P = r.P \ {"I"}]
     \/ c[2] = "SED" /\ r' = [After(c) EXCEPT !.P = r.P \cup {"D"}]
     \/ c[2] \in {"NOP", "HLT", "unknown"} /\ r' = After(c)
  /\ NoWrite /\ UNCHANGED input

-----------------------------------------------------------------------------
(* Branches, jumps and the stack. *)
Taken(op) == \/ op = "BNE" /\ "Z" \notin r.P
             \/ op = "BEQ" /\ "Z" \in r.P
             \/ op = "BPL" /\ "N" \notin r.P
             \/ op = "BMI" /\ "N" \in r.P
             \/ op = "BVC" /\ "V" \notin r.P
             \/ op = "BVS" /\ "V" \in r.P
             \/ op = "BCC" /\ "C" \notin r.P
             \/ op = "BCS" /\ "C" \in r.P

Branch(c) ==
  /\ c[3] = "rel"
  /\ IF Taken(c[2])
     THEN \E b \in Inputs("rel") : r' = [r EXCEPT !.PC = Next16(2 + (IF b >= Sign THEN b - 256 ELSE b))]
     ELSE r' = After(c)
  /\ NoWrite /\ UNCHANGED input

JMP(c) ==
  /\ c[2] = "JMP"
  /\ \E a \in Addresses(c[3]) : r' = [r EXCEPT !.PC = a]
  /\ NoWrite /\ UNCHANGED input

(* The address pushed is that of the last byte of the instruction. *)
JSR(c) ==
  /\ c[2] = "JSR"
  /\ \E a \in Addresses("abs") : r' = [r EXCEPT !.PC = a, !.SP = SP(-2)]
  /\ RAM' = push_stack(<<Next16(2) \div 256, Next16(2) % 256>>)
  /\ writes_tracked' = TRUE
  /\ UNCHANGED input

(* Mutant: the address pulled is taken for that of the next instruction. *)
bug_RTS(c) ==
  /\ c[2] = "RTS"
  /\ r' = [r EXCEPT !.PC = Word(pull_stack(1), pull_stack(2)), !.SP = SP(2)]
  /\ NoWrite /\ UNCHANGED input

RTS(c) ==
  /\ c[2] = "RTS"
  /\ r' = [r EXCEPT !.PC = Plus16(Word(pull_stack(1), pull_stack(2)), 1), !.SP = SP(2)]
  /\ NoWrite /\ UNCHANGED input

IRQ_VECTOR == 65534

BRK(c) ==
  /\ c[2] = "BRK"
  /\ RAM' = push_stack(<<Next16(2) \div 256, Next16(2) % 256, FlagByte(r.P)>>)
  /\ \E a \in Words(IRQ_VECTOR) : r' = [r EXCEPT !.PC = a, !.SP = SP(-3)]
  /\ writes_tracked' = TRUE
  /\ UNCHANGED input

RTI(c) ==
  /\ c[2] = "RTI"
  /\ r' = [r EXCEPT !.P = FlagSet(pull_stack(1)), !.PC = Word(pull_stack(2), pull_stack(3)), !.SP = SP(3)]
  /\ NoWrite /\ UNCHANGED input

PushPull(c) ==
  /\ \/ /\ c[2] = "PHA"
        /\ RAM' = push_stack(<<r.A>>) /\ writes_tracked' = TRUE
        /\ r' = [After(c) EXCEPT !.SP = SP(-1)]
     \/ /\ c[2] = "PHP"
        /\ RAM' = push_stack(<<FlagByte(r.P \cup {"B", "U"})>>) /\ writes_tracked' = TRUE
        /\ r' = [After(c) EXCEPT !.SP = SP(-1)]
     \/ /\ c[2] = "PLA"
        /\ r' = [SetRegister(c, "A", pull_stack(1)) EXCEPT !.SP = SP(1)]
        /\ NoWrite
     \/ /\ c[2] = "PLP"
        /\ r' = [After(c) EXCEPT !.P = FlagSet(pull_stack(1)), !.SP = SP(1)]
        /\ NoWrite
  /\ UNCHANGED input

-----------------------------------------------------------------------------
(* Arithmetic and logic. *)

(* What ASL_op, LSR_op, ROL_op, ROR_op, INC_op and DEC_op make of v: the    *)
(* result and whether the carry is set.  LSR A never clears the carry.      *)
Modified(op, mode, v) ==
  CASE op = "ASL" -> [v |-> (2 * v) % 256, C |-> v >= Sign]
    [] op = "ROL" -> [v |-> ((2 * v) % 256) + Carry, C |-> v >= Sign]
    [] op = "LSR" -> [v |-> v \div 2, C |-> v % 2 = 1 \/ (mode = "acc" /\ Carry = 1)]
    [] op = "ROR" -> [v |-> (v \div 2) + (Sign * Carry), C |-> v % 2 = 1]
    [] op = "INC" -> [v |-> (v + 1) % 256, C |-> Carry = 1]
    [] op = "DEC" -> [v |-> (v - 1) % 256, C |-> Carry = 1]

Modify(c) ==
  /\ c[2] \in {"ASL", "ROL", "LSR", "ROR", "INC", "DEC"}
  /\ IF c[3] = "acc"
     THEN LET m == Modified(c[2], "acc", r.A) IN
          /\ r' = [After(c) EXCEPT !.A = m.v, !.P = ZN(set_status_flag(r.P, "C", m.C), m.v)]
          /\ NoWrite
     ELSE \E a \in Addresses(c[3]) : \E v \in emu_read(a) :
          LET m == Modified(c[2], c[3], v) IN
          /\ RAM' = emu_write([x \in {a} |-> m.v])
          /\ writes_tracked' = TRUE
          /\ r' = [After(c) EXCEPT !.P = ZN(set_status_flag(r.P, "C", m.C), m.v)]
  /\ UNCHANGED input

(* bit_OR_A, bit_XOR_A, bit_AND_A; the forms on memory store the result. *)
Combined(op, v) ==
  CASE op = "ORA" -> BitByBit(r.A, v, LAMBDA x, y : x \/ y)
    [] op = "EOR" -> BitByBit(r.A, v, LAMBDA x, y : x # y)
    [] op = "AND" -> BitByBit(r.A, v, LAMBDA x, y : x /\ y)

Combine(c) ==
  /\ c[2] \in {"ORA", "EOR", "AND"}
  /\ \/ /\ c[3] = "imm"
        /\ \E v \in Inputs("imm") : r' = SetRegister(c, "A", Combined(c[2], v))
        /\ NoWrite
     \/ /\ c[3] # "imm"
        /\ \E a \in Addresses(c[3]) : \E v \in emu_read(a) :
             /\ r' = SetRegister(c, "A", Combined(c[2], v))
             /\ RAM' = emu_write([x \in {a} |-> Combined(c[2], v)])
        /\ writes_tracked' = TRUE
  /\ UNCHANGED input

(* The overflow flag is computed from bit_XOR_A(input) and bit_XOR_A(sum), *)
(* which change A: the second sees what the first left, and C leaves open  *)
(* which comes first.  ADC_op has a ~ that SBC_op has not.                 *)
Overflows(op, v, sum) ==
  LET a == r.A >= Sign
      i == v >= Sign
      s == sum % 256 >= Sign
  IN {(IF op = "ADC" THEN a = i ELSE a # i) /\ ((a # i) # s),
      (IF op = "ADC" THEN (a # s) = i ELSE (a # s) # i) /\ (a # s)}

(* Mutant: the sum is taken after bit_XOR_A has changed A. *)
BugSum(op, v) == IF op = "ADC" THEN BitByBit(r.A, v, LAMBDA x, y : x # y) + v + Carry ELSE r.A - v - (1 - Carry)

Sum(op, v) == IF op = "ADC" THEN r.A + v + Carry ELSE r.A - v - (1 - Carry)

SumFlags(op, sum, overflow) ==
  LET carry == IF op = "ADC" THEN sum > 255 ELSE sum >= 0
  IN ZN(set_status_flag(set_status_flag(r.P, "V", overflow), "C", carry), sum % 256)

ADC_SBC(c) ==
  /\ c[2] \in {"ADC", "SBC"}
  /\ \E v \in Inputs(c[3]) :
       LET sum == Sum(c[2], v) IN
       /\ input' = v
       /\ \E o \in Overflows(c[2], v, sum) :
            r' = [After(c) EXCEPT !.A = sum % 256, !.P = SumFlags(c[2], sum, o)]
  /\ NoWrite

Compared(op) == CASE op = "CMP" -> r.A [] op = "CPX" -> r.X [] op = "CPY" -> r.Y

(* Mutant: the difference is kept in A. *)
bug_CMP(c) ==
  /\ c[2] \in {"CMP", "CPX", "CPY"}
  /\ \E v \in Inputs(c[3]) : r' = SetRegister(c, "A", (Compared(c[2]) - v) % 256)
  /\ NoWrite /\ UNCHANGED input

(* The difference is an int: it is above 127 only when it is not negative. *)
CMPFlags(reg, v) ==
  set_status_flag(set_status_flag(set_status_flag(r.P, "C", reg >= v), "Z", reg = v), "N", reg - v > 127)

CMP(c) ==
  /\ c[2] \in {"CMP", "CPX", "CPY"}
  /\ \E v \in Inputs(c[3]) : r' = [After(c) EXCEPT !.P = CMPFlags(Compared(c[2]), v)]
  /\ NoWrite /\ UNCHANGED input

BIT(c) ==
  /\ c[2] = "BIT"
  /\ \E v \in Inputs(c[3]) :
       r' = [After(c) EXCEPT !.P = set_status_flag(set_status_flag(set_status_flag(r.P,
               "Z", BitByBit(r.A, v, LAMBDA x, y : x /\ y) = 0), "N", Bit(v, 128)), "V", Bit(v, 64))]
  /\ NoWrite /\ UNCHANGED input

-----------------------------------------------------------------------------
(* What an instruction pushes, for the properties. *)
Pushes(c) ==
  CASE c[2] = "JSR" -> {[by |-> "JSR", sp |-> r'.SP, size |-> 2, val |-> Next16(3)]}
    [] c[2] = "BRK" -> {[by |-> "BRK", sp |-> r'.SP, size |-> 3, val |-> <<Next16(2), r.P>>]}
    [] c[2] = "PHA" -> {[by |-> "PHA", sp |-> r'.SP, size |-> 1, val |-> r.A]}
    [] c[2] = "PHP" -> {[by |-> "PHP", sp |-> r'.SP, size |-> 1, val |-> r.P]}
    [] OTHER -> {}

FrameCell(f, i) == 256 + ((f.sp + i) % 256)

(* The frames that the step neither overwrites nor pulls. *)
Kept(c) ==
  {f \in frames :
     /\ \A i \in 1..f.size : Cell(RAM', FrameCell(f, i)) = Cell(RAM, FrameCell(f, i))
     /\ ~(f.sp = r.SP /\ c[2] \in {"RTS", "RTI", "PLA", "PLP"})}

-----------------------------------------------------------------------------
(* emu_init and emu_reset: the ROM is loaded, or the file is not found and *)
(* all is zero.  The vector is read through emu_read.                      *)
NoRom == [ops |-> {0}, bytes |-> {0}, limit |-> 22]

Init == /\ program \in Programs \cup {NoRom}
        /\ RAM = [a \in {} |-> 0]
        /\ \E lo, hi \in program.bytes :
             r = [A |-> 0, X |-> 0, Y |-> 0, SP |-> 253, PC |-> Word(lo, hi),
                  P |-> IF program = NoRom THEN {} ELSE {"I"}]
        /\ cur_opcode = 0 /\ total_CPU_cycles = 8 /\ CPU_halted = FALSE
        /\ writes_tracked = FALSE /\ input = 0 /\ frames = {}

Opcodes == IF r.PC >= RomStart THEN program.ops ELSE emu_read(r.PC)
CaseOf(op) == IF op \in Implemented THEN CHOOSE c \in Cases : c[1] = op ELSE <<op, "unknown", "imp">>

Instruction(c) ==
  \/ LD(c) \/ ST(c) \/ Transfer(c) \/ FlagOp(c)
  \/ Branch(c) \/ JMP(c) \/ JSR(c) \/ RTS(c) \/ BRK(c) \/ RTI(c) \/ PushPull(c)
  \/ Modify(c) \/ Combine(c) \/ ADC_SBC(c) \/ CMP(c) \/ BIT(c)

(* One iteration of the loop of emu_run. *)
emulate_CPU ==
  /\ ~CPU_halted /\ total_CPU_cycles < program.limit
  /\ \E op \in Opcodes :
       LET c == CaseOf(op) IN
       /\ Instruction(c)
       /\ cur_opcode' = op
       /\ CPU_halted' = (c[2] = "HLT")
       /\ total_CPU_cycles' = total_CPU_cycles + cycles[op + 1] + (IF Taken(c[2]) THEN 1 ELSE 0)
       /\ frames' = Kept(c) \cup Pushes(c)
  /\ UNCHANGED program

(* The loop ends; the machine stays as it is. *)
emu_run_end == (CPU_halted \/ total_CPU_cycles >= program.limit) /\ UNCHANGED vars

Next == emulate_CPU \/ emu_run_end

Spec == Init /\ [][Next]_vars

-----------------------------------------------------------------------------
Registers == [A : Byte, X : Byte, Y : Byte, SP : Byte, PC : Address, P : SUBSET Flags]

(* The shape of the state: registers stay bytes, the RAM within its 2 KiB. *)
TypeOK == /\ r \in Registers
          /\ DOMAIN RAM \subseteq 0..(RamSize - 1) /\ \A a \in DOMAIN RAM : RAM[a] \in Byte
          /\ CPU_halted \in BOOLEAN /\ total_CPU_cycles \in Nat

Op(opcode) == CaseOf(opcode)[2]

(* What was pushed and not overwritten since is what is pulled, also when   *)
(* the stack has wrapped around its page: RTS continues behind the JSR, RTI *)
(* continues behind the BRK with the flags of then, PLA and PLP restore A   *)
(* and the flags (push_stack, pull_stack and the cases that use them).      *)
PullsWhatWasPushed ==
  [][\A f \in frames : f.sp = r.SP =>
       /\ Op(cur_opcode') = "RTS" /\ f.by = "JSR" => r'.PC = f.val
       /\ Op(cur_opcode') = "RTI" /\ f.by = "BRK" => <<r'.PC, r'.P>> = f.val
       /\ Op(cur_opcode') = "PLA" /\ f.by = "PHA" => r'.A = f.val
       /\ Op(cur_opcode') = "PLP" /\ f.by = "PHP" => r'.P \ {"B", "U"} = f.val \ {"B", "U"}]_vars

(* A push changes no memory but the stack's page. *)
PushesStayInPage ==
  [][Op(cur_opcode') \in {"JSR", "BRK", "PHA", "PHP"} =>
       \A a \in DOMAIN RAM' \ Stack : a \in DOMAIN RAM /\ RAM'[a] = RAM[a]]_vars

(* ADC and SBC compute a ninth bit: with the carry, their result is the     *)
(* exact sum or difference, so that chains of them compute on wider         *)
(* numbers, and ASL A and ROL A double A in the same way (ADC_op and SBC_op *)
(* change A twice before they set it).                                      *)
ArithmeticExact ==
  [][LET old == IF "C" \in r.P THEN 1 ELSE 0
         new == IF "C" \in r'.P THEN 1 ELSE 0
     IN /\ Op(cur_opcode') = "ADC" => r'.A + 256 * new = r.A + input' + old
        /\ Op(cur_opcode') = "SBC" => r'.A - 256 * (1 - new) = r.A - input' - (1 - old)
        /\ cur_opcode' = 10 => r'.A + 256 * new = 2 * r.A
        /\ cur_opcode' = 42 => r'.A + 256 * new = 2 * r.A + old]_vars

Jumps == {"JMP", "JSR", "RTS", "BRK", "RTI"}

(* The two descriptions of the instruction set agree on lengths: every case *)
(* of the switch but a jump or a taken branch moves the program counter by  *)
(* the num_bytes of opcode_table.                                           *)
LengthsMatchTable ==
  [][cur_opcode' \in Implemented /\ Op(cur_opcode') \notin Jumps /\ ~Taken(Op(cur_opcode'))
       => r'.PC = Next16(num_bytes[cur_opcode' + 1])]_vars

(* The registers of reg_write_bitflag (REG_STATUS, REG_STACK, REG_Y, REG_X, REG_A). *)
RegisterBit == [P |-> 1, SP |-> 2, Y |-> 4, X |-> 8, A |-> 16]

(* The check of compare_with_table on register writes: no case of the       *)
(* switch changes a register that opcode_table does not name as written,    *)
(* except 0x88, DEY, which changes X instead of Y.                          *)
RegistersMatchTable ==
  [][cur_opcode' \in Implemented \ {\h88} =>
       \A reg \in DOMAIN RegisterBit :
         r'[reg] = r[reg] \/ Bit(reg_write_bitflag[cur_opcode' + 1], RegisterBit[reg])]_vars

(* The check of compare_with_table on memory writes: every case of the      *)
(* switch writes if and only if opcode_table says so, except ORA, EOR and   *)
(* AND on memory, which store their result.                                 *)
WritesMatchTable ==
  total_CPU_cycles > 8 /\ cur_opcode \in Implemented =>
    writes_tracked = (cur_opcode \in writes_mem
                        \cup {c[1] : c \in {x \in Cases : x[2] \in {"ORA", "EOR", "AND"} /\ x[3] # "imm"}})

(* The comment in ADC_op: "Set overflow flag if add takes us from 2 pos.    *)
(* values -> neg. value or two neg. values -> pos. value".                  *)
OverflowAsCommented ==
  [][Op(cur_opcode') = "ADC" =>
       ("V" \in r'.P <=> ((r.A >= Sign) = (input' >= Sign) /\ (r.A >= Sign) # (r'.A >= Sign)))]_vars
=============================================================================

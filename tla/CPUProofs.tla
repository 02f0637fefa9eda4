------------------------------ MODULE CPUProofs -----------------------------
(***************************************************************************)
(* Proofs about CPU, for every ROM: any set of programs whose opcodes and  *)
(* other bytes are bytes.                                                  *)
(***************************************************************************)
EXTENDS CPU, TLAPS

(* The inductive invariant: a frame on the stack holds what was pushed.     *)
FrameHolds(f) ==
  LET at(i) == Cell(RAM, FrameCell(f, i)) IN
  /\ f.sp \in Byte /\ f.by \in {"JSR", "BRK", "PHA", "PHP"}
  /\ f.by = "JSR" => f.size = 2 /\ f.val = Plus16(Word(at(1), at(2)), 1)
  /\ f.by = "BRK" => f.size = 3 /\ f.val = <<Word(at(2), at(3)), FlagSet(at(1))>>
  /\ f.by = "PHA" => f.size = 1 /\ f.val = at(1)
  /\ f.by = "PHP" => f.size = 1 /\ f.val \ {"B", "U"} = FlagSet(at(1)) \ {"B", "U"}

CPUInv == /\ TypeOK
          /\ program \in Programs \cup {NoRom} /\ cur_opcode \in Byte /\ input \in Byte
          /\ \A f \in frames : FrameHolds(f)

-----------------------------------------------------------------------------
(* The cases of the switch, and what falls through it. *)
AllCases == Cases \cup {<<op, "unknown", "imp">> : op \in Byte}

-----------------------------------------------------------------------------
(* The ranges, as inequalities. *)

LEMMA ByteIs == \A x : x \in Byte <=> x \in Int /\ 0 <= x /\ x <= 255
  BY DEF Byte

LEMMA AddressIs == \A x : x \in Address <=> x \in Int /\ 0 <= x /\ x <= 65535
  BY DEF Address

LEMMA StackIs == \A x : x \in Stack <=> x \in Int /\ 256 <= x /\ x <= 511
  BY DEF Stack

LEMMA SizesAre == RamSize = 2048 /\ RomStart = 32768 /\ Sign = 128
  BY DEF RamSize, RomStart, Sign

-----------------------------------------------------------------------------
(* The data: facts of the tables, by looking at all rows. *)

MemoryModes == {"zp", "zpx", "abs", "absx", "ind", "indx", "indy"}

LEMMA CasesTyped ==
  \A c \in AllCases : /\ c[1] \in Byte
                      /\ c[3] \in {"imp", "acc", "imm", "rel"} \cup MemoryModes
  BY DEF AllCases, Cases, Byte, MemoryModes

LEMMA CyclesTyped == \A op \in Byte : cycles[op + 1] \in Nat
  BY DEF cycles, Byte

(* Which operations take which modes. *)
LEMMA CaseModes ==
  \A c \in AllCases :
    /\ c[2] \in {"STA", "STX", "STY", "JMP", "JSR"} => c[3] \in MemoryModes
    /\ c[2] \in {"ASL", "ROL", "LSR", "ROR", "INC", "DEC"} => c[3] \in MemoryModes \cup {"acc"}
    /\ c[2] \in {"ORA", "EOR", "AND"} => c[3] \in MemoryModes \cup {"imm"}
  BY DEF AllCases, Cases, MemoryModes

LEMMA CaseOfTyped ==
  ASSUME NEW op \in Byte
  PROVE  CaseOf(op) \in AllCases /\ CaseOf(op)[1] = op
<1>1. CASE op \in Implemented
  <2>1. PICK c \in Cases : c[1] = op
    BY <1>1 DEF Implemented
  <2>2. QED BY <2>1, <1>1 DEF CaseOf, AllCases
<1>2. CASE op \notin Implemented
  BY <1>2 DEF CaseOf, AllCases
<1> QED BY <1>1, <1>2

(* An operation that is no branch has no relative mode, and every branch has. *)
LEMMA CaseBranches ==
  \A c \in AllCases : c[3] = "rel" <=> c[2] \in {"BNE", "BEQ", "BPL", "BMI", "BVC", "BVS", "BCC", "BCS"}
  BY DEF AllCases, Cases

-----------------------------------------------------------------------------
(* Bits *)

LEMMA FlagsAre == Flags = {"C", "Z", "I", "D", "B", "U", "V", "N"}
  BY DEF Flags, FlagBit

LEMMA FlagByteTyped == \A P : FlagByte(P) \in Byte
  BY DEF FlagByte, ByteOf, FlagBit, Byte

(* push and pull of the flags (BRK and RTI, PHP and PLP). *)
LEMMA FlagsOfByte ==
  ASSUME NEW P \in SUBSET Flags
  PROVE  FlagSet(FlagByte(P)) = P
<1>1. PICK c \in 0..1, z \in 0..1, i \in 0..1, d \in 0..1, b \in 0..1, u \in 0..1, v \in 0..1, n \in 0..1 :
        /\ c = IF "C" \in P THEN 1 ELSE 0
        /\ z = IF "Z" \in P THEN 1 ELSE 0
        /\ i = IF "I" \in P THEN 1 ELSE 0
        /\ d = IF "D" \in P THEN 1 ELSE 0
        /\ b = IF "B" \in P THEN 1 ELSE 0
        /\ u = IF "U" \in P THEN 1 ELSE 0
        /\ v = IF "V" \in P THEN 1 ELSE 0
        /\ n = IF "N" \in P THEN 1 ELSE 0
  OBVIOUS
<1>2. PICK s \in Nat : s = c + 2*z + 4*i + 8*d + 16*b + 32*u + 64*v + 128*n
  OBVIOUS
<1>3. FlagByte(P) = s
  BY <1>1, <1>2 DEF FlagByte, ByteOf, FlagBit
<1>4. /\ (s \div 1) % 2 = c /\ (s \div 2) % 2 = z
      /\ (s \div 4) % 2 = i /\ (s \div 8) % 2 = d
      /\ (s \div 16) % 2 = b /\ (s \div 32) % 2 = u
      /\ (s \div 64) % 2 = v /\ (s \div 128) % 2 = n
  BY <1>2
<1>5. \A f \in Flags : Bit(s, FlagBit[f]) <=> f \in P
  BY <1>1, <1>4, FlagsAre DEF Bit, FlagBit
<1>6. QED BY <1>3, <1>5 DEF FlagSet

LEMMA CombinedTyped ==
  ASSUME NEW op \in {"ORA", "EOR", "AND"}, NEW v
  PROVE  Combined(op, v) \in Byte
<1>1. CASE op = "ORA" BY <1>1 DEF Combined, BitByBit, ByteOf, FlagBit, Byte
<1>2. CASE op = "EOR" BY <1>2 DEF Combined, BitByBit, ByteOf, FlagBit, Byte
<1>3. CASE op = "AND" BY <1>3 DEF Combined, BitByBit, ByteOf, FlagBit, Byte
<1> QED BY <1>1, <1>2, <1>3

-----------------------------------------------------------------------------
(* Memory *)

RamTyped(m) == DOMAIN m \subseteq 0..(RamSize - 1) /\ \A a \in DOMAIN m : m[a] \in Byte

LEMMA ProgramTyped ==
  ASSUME CPUInv
  PROVE  program.bytes \subseteq Byte /\ program.ops \subseteq Byte
  BY CPUAssumption, ByteIs DEF CPUInv, NoRom

LEMMA CellTyped ==
  ASSUME NEW m, RamTyped(m)
  PROVE  \A a : Cell(m, a) \in Byte
  BY ByteIs DEF Cell, RamTyped

LEMMA ReadTyped ==
  ASSUME CPUInv
  PROVE  \A a : emu_read(a) \subseteq Byte
<1>1. \A a : Cell(RAM, a) \in Byte
  BY CellTyped DEF CPUInv, TypeOK, RamTyped
<1>2. QED BY <1>1, ProgramTyped, ByteIs DEF emu_read

LEMMA OpcodesTyped ==
  ASSUME CPUInv
  PROVE  Opcodes \subseteq Byte
  BY ProgramTyped, ReadTyped DEF Opcodes

LEMMA WordTyped ==
  \A lo, hi \in Byte : Word(lo, hi) \in Address
  BY ByteIs, AddressIs DEF Word

(* The two bytes of an address, pushed and pulled. *)
LEMMA WordOfBytes ==
  \A w \in Address : w \div 256 \in Byte /\ w % 256 \in Byte /\ Word(w % 256, w \div 256) = w
  BY ByteIs, AddressIs DEF Word

LEMMA Plus16Typed ==
  \A a, n \in Int : Plus16(a, n) \in Address
  BY AddressIs DEF Plus16

LEMMA Next16Typed ==
  ASSUME r \in Registers, NEW n \in Int
  PROVE  Next16(n) \in Address
<1>1. r.PC \in Int BY AddressIs DEF Registers
<1>2. QED BY <1>1, Plus16Typed DEF Next16

LEMMA WordsTyped ==
  ASSUME CPUInv
  PROVE  \A a : Words(a) \subseteq Address
  BY ReadTyped, WordTyped DEF Words

LEMMA AddressesTyped ==
  ASSUME CPUInv, NEW mode \in MemoryModes
  PROVE  Addresses(mode) \subseteq Address
<1> USE ReadTyped, WordsTyped
<1>1. r.X \in Byte /\ r.Y \in Byte
  BY DEF CPUInv, TypeOK, Registers
<1>2. \A w \in Address, x \in Byte : Plus16(w, x) \in Address
  BY ByteIs, AddressIs, Plus16Typed
<1>3. \A b, x \in Byte : (b + x) % 256 \in Address
  BY ByteIs, AddressIs
<1>4. Byte \subseteq Address
  BY ByteIs, AddressIs
<1>5. CASE mode = "zp"   BY <1>4, <1>5 DEF Addresses
<1>6. CASE mode = "zpx"  BY <1>1, <1>3, <1>6 DEF Addresses
<1>7. CASE mode = "abs"  BY <1>7 DEF Addresses
<1>8. CASE mode = "absx" BY <1>1, <1>2, <1>8 DEF Addresses
<1>9. CASE mode = "ind"  BY <1>9 DEF Addresses
<1>10. CASE mode = "indx" BY <1>10 DEF Addresses
<1>11. CASE mode = "indy" BY <1>1, <1>2, <1>11 DEF Addresses
<1> QED BY <1>5, <1>6, <1>7, <1>8, <1>9, <1>10, <1>11 DEF MemoryModes

LEMMA InputsTyped ==
  ASSUME CPUInv
  PROVE  \A mode : Inputs(mode) \subseteq Byte
  BY ReadTyped DEF Inputs

LEMMA WriteTyped ==
  ASSUME CPUInv, NEW w, \A x \in DOMAIN w : x \in Address /\ w[x] \in Byte
  PROVE  RamTyped(emu_write(w))
  BY SMTT(30), AddressIs, SizesAre DEF CPUInv, TypeOK, RamTyped, emu_write

(* A store of one byte. *)
LEMMA StoreTyped ==
  ASSUME CPUInv, NEW a \in Address, NEW v \in Byte
  PROVE  RamTyped(emu_write([x \in {a} |-> v]))
  BY WriteTyped

LEMMA PushEffect ==
  ASSUME CPUInv, NEW s \in Seq(Byte), Len(s) \in 1..3
  PROVE  /\ RamTyped(push_stack(s))
         /\ \A i \in 1..Len(s) : Cell(push_stack(s), StackCell(1 - i)) = s[i]
         /\ \A a \in DOMAIN push_stack(s) \ Stack : a \in DOMAIN RAM /\ push_stack(s)[a] = RAM[a]
<1> DEFINE C == {StackCell(1 - i) : i \in 1..Len(s)}
           at(a) == CHOOSE i \in 1..Len(s) : StackCell(1 - i) = a
           w == [a \in C |-> s[at(a)]]
<1>1. r.SP \in Int /\ 0 <= r.SP /\ r.SP <= 255
  BY ByteIs DEF CPUInv, TypeOK, Registers
<1>2. \A i \in 1..Len(s) : StackCell(1 - i) \in Stack /\ StackCell(1 - i) \in Address
  BY <1>1, StackIs, AddressIs DEF StackCell
<1>3. \A i, j \in 1..Len(s) : StackCell(1 - i) = StackCell(1 - j) => i = j
  <2>1. \A p \in Int : \A i, j \in 1..3 : (p + (1 - i)) % 256 = (p + (1 - j)) % 256 => i = j
    OBVIOUS
  <2>2. \A i \in 1..Len(s) : i \in 1..3
    <3>1. PICK n : n = Len(s)
      OBVIOUS
    <3>2. n \in 1..3
      BY <3>1
    <3>3. \A i \in 1..n : i \in 1..3
      BY <3>2, Z3
    <3>4. QED BY <3>1, <3>3
  <2>3. \A i \in 1..Len(s) : (r.SP + (1 - i)) % 256 \in Int
    BY <1>1
  <2>4. SUFFICES ASSUME NEW i \in 1..Len(s), NEW j \in 1..Len(s), StackCell(1 - i) = StackCell(1 - j)
                 PROVE  i = j
    OBVIOUS
  <2>5. (r.SP + (1 - i)) % 256 = (r.SP + (1 - j)) % 256
    BY <2>3, <2>4 DEF StackCell
  <2>6. i \in 1..3 /\ j \in 1..3 /\ r.SP \in Int
    BY <1>1, <2>2
  <2>7. QED BY ONLY ZenonT(30), <2>1, <2>5, <2>6
<1>4. \A i \in 1..Len(s) : at(StackCell(1 - i)) = i
  BY <1>3
<1>5. push_stack(s) = emu_write(w)
  BY DEF push_stack
<1>6. \A i \in 1..Len(s) : w[StackCell(1 - i)] = s[i] /\ s[i] \in Byte
  <2> SUFFICES ASSUME NEW i \in 1..Len(s)
               PROVE  w[StackCell(1 - i)] = s[i] /\ s[i] \in Byte
    OBVIOUS
  <2>1. StackCell(1 - i) \in C /\ at(StackCell(1 - i)) = i
    BY <1>4
  <2>2. s[i] \in Byte
    OBVIOUS
  <2> HIDE DEF at, C
  <2>3. QED BY <2>1, <2>2
<1>7. DOMAIN w = C
  OBVIOUS
<1> HIDE DEF at, w
<1>8. RamTyped(push_stack(s))
  BY <1>2, <1>5, <1>6, <1>7, WriteTyped
<1>9. \A a \in Stack : a < RamSize
  BY StackIs, SizesAre
<1>10. \A i \in 1..Len(s) : Cell(push_stack(s), StackCell(1 - i)) = s[i]
  BY <1>2, <1>5, <1>6, <1>7, <1>9 DEF Cell, emu_write
<1>11. \A a \in DOMAIN push_stack(s) \ Stack : a \in DOMAIN RAM /\ push_stack(s)[a] = RAM[a]
  BY <1>2, <1>5, <1>7 DEF emu_write
<1> QED BY <1>8, <1>10, <1>11

-----------------------------------------------------------------------------
(* What a case of the switch may change. *)

(* The registers that it may change, but for the program counter. *)
Touched(c) ==
  CASE c[2] \in {"LDA", "TXA", "TYA", "ORA", "EOR", "AND", "ADC", "SBC"} -> {"A", "P"}
    [] c[2] \in {"LDX", "TAX", "TSX", "INX", "DEX"} -> {"X", "P"}
    [] c[2] \in {"LDY", "TAY", "INY"} -> {"Y", "P"}
    [] c[2] \in {"TXS", "JSR", "RTS", "BRK", "PHA", "PHP"} -> {"SP"}
    [] c[2] \in {"RTI", "PLP"} -> {"SP", "P"}
    [] c[2] = "PLA" -> {"A", "SP", "P"}
    [] c[2] \in {"ASL", "ROL", "LSR", "ROR", "INC", "DEC"} -> IF c[3] = "acc" THEN {"A", "P"} ELSE {"P"}
    [] c[2] \in {"SEC", "CLC", "CLV", "SEI", "CLI", "SED", "CMP", "CPX", "CPY", "BIT"} -> {"P"}
    [] OTHER -> {}

(* Whether it writes memory. *)
Tracked(c) ==
  \/ c[2] \in {"STA", "STX", "STY", "JSR", "BRK", "PHA", "PHP"}
  \/ c[2] \in {"ASL", "ROL", "LSR", "ROR", "INC", "DEC"} /\ c[3] # "acc"
  \/ c[2] \in {"ORA", "EOR", "AND"} /\ c[3] # "imm"

Effects(c) ==
  /\ r' \in Registers /\ RamTyped(RAM') /\ input' \in Byte
  /\ c[2] \notin Jumps /\ ~Taken(c[2]) => r'.PC = Next16(Length(c[3]))
  /\ \A reg \in {"P", "SP", "Y", "X", "A"} : reg \notin Touched(c) => r'[reg] = r[reg]
  /\ writes_tracked' = Tracked(c)

LEMMA LengthTyped == \A mode : Length(mode) \in 1..3
  BY DEF Length

LEMMA FlagTyped ==
  ASSUME NEW P \in SUBSET Flags, NEW f \in Flags, NEW on
  PROVE  set_status_flag(P, f, on) \in SUBSET Flags
  BY DEF set_status_flag

LEMMA Flags3Typed ==
  ASSUME NEW P \in SUBSET Flags, NEW f \in Flags, NEW g \in Flags, NEW h \in Flags, NEW x, NEW y, NEW z
  PROVE  set_status_flag(set_status_flag(set_status_flag(P, f, x), g, y), h, z) \in SUBSET Flags
<1>1. PICK Q \in SUBSET Flags : Q = set_status_flag(P, f, x)
  BY FlagTyped
<1>2. PICK R \in SUBSET Flags : R = set_status_flag(Q, g, y)
  BY FlagTyped
<1>3. set_status_flag(R, h, z) \in SUBSET Flags
  BY FlagTyped
<1>4. QED BY <1>1, <1>2, <1>3

LEMMA ZNTyped ==
  ASSUME NEW P \in SUBSET Flags, NEW v
  PROVE  ZN(P, v) \in SUBSET Flags
  BY FlagsAre, FlagTyped DEF ZN

LEMMA AfterIs ==
  ASSUME CPUInv, NEW c
  PROVE  /\ After(c) \in Registers /\ After(c).PC = Next16(Length(c[3]))
         /\ After(c).A = r.A /\ After(c).X = r.X /\ After(c).Y = r.Y
         /\ After(c).SP = r.SP /\ After(c).P = r.P
<1>1. r \in Registers
  BY DEF CPUInv, TypeOK
<1>2. Next16(Length(c[3])) \in Address
  BY <1>1, LengthTyped, Next16Typed
<1>3. QED BY <1>1, <1>2 DEF After, Registers

(* q is r behind the instruction, with v in reg and the flags of v. *)
Sets(q, c, reg, v) ==
  /\ q \in Registers /\ q.PC = Next16(Length(c[3])) /\ q[reg] = v /\ q.P = ZN(r.P, v)
  /\ q.SP = r.SP
  /\ \A x \in {"A", "X", "Y"} : x # reg => q[x] = r[x]

LEMMA SetRegisterIs ==
  ASSUME CPUInv, NEW c, NEW reg \in {"A", "X", "Y"}, NEW v \in Byte
  PROVE  Sets(SetRegister(c, reg, v), c, reg, v)
<1> DEFINE q == SetRegister(c, reg, v)
<1>1. ZN(r.P, v) \in SUBSET Flags
  BY ZNTyped DEF CPUInv, TypeOK, Registers
<1>2. PICK a : a = After(c)
  OBVIOUS
<1>3. /\ a \in Registers /\ a.PC = Next16(Length(c[3]))
      /\ a.A = r.A /\ a.X = r.X /\ a.Y = r.Y /\ a.SP = r.SP /\ a.P = r.P
  BY <1>2, AfterIs
<1>4. PICK P : P = ZN(r.P, v)
  OBVIOUS
<1>5. q = [a EXCEPT ![reg] = v, !.P = P]
  BY <1>2, <1>4 DEF SetRegister
<1>6. CASE reg = "A" BY <1>1, <1>3, <1>4, <1>5, <1>6 DEF Registers, Sets
<1>7. CASE reg = "X" BY <1>1, <1>3, <1>4, <1>5, <1>7 DEF Registers, Sets
<1>8. CASE reg = "Y" BY <1>1, <1>3, <1>4, <1>5, <1>8 DEF Registers, Sets
<1> QED BY <1>6, <1>7, <1>8

LEMMA RamUnchanged ==
  ASSUME CPUInv, NoWrite
  PROVE  RamTyped(RAM') /\ writes_tracked' = FALSE
  BY DEF CPUInv, TypeOK, RamTyped, NoWrite

LEMMA InputUnchanged ==
  ASSUME CPUInv, UNCHANGED input
  PROVE  input' \in Byte
  BY DEF CPUInv

LEMMA LDEffects ==
  ASSUME CPUInv, NEW c \in AllCases, LD(c)
  PROVE  Effects(c)
<1>1. PICK v \in Byte, reg \in {"A", "X", "Y"} : r' = SetRegister(c, reg, v) /\ Touched(c) = {reg, "P"}
  BY InputsTyped DEF LD, Touched
<1>3. /\ r' \in Registers /\ r'.PC = Next16(Length(c[3])) /\ r'.SP = r.SP
      /\ \A x \in {"A", "X", "Y"} : x # reg => r'[x] = r[x]
  <2>1. Sets(r', c, reg, v)
    BY <1>1, SetRegisterIs
  <2>2. QED BY <2>1 DEF Sets
<1>4. Tracked(c) = FALSE
  BY DEF LD, Tracked
<1>5. RamTyped(RAM') /\ writes_tracked' = FALSE /\ input' \in Byte
  BY RamUnchanged, InputUnchanged DEF LD
<1>6. QED BY <1>1, <1>3, <1>4, <1>5 DEF Effects

LEMMA STEffects ==
  ASSUME CPUInv, NEW c \in AllCases, ST(c)
  PROVE  Effects(c)
<1> DEFINE reg == CASE c[2] = "STA" -> "A" [] c[2] = "STX" -> "X" [] c[2] = "STY" -> "Y"
<1>1. c[2] \in {"STA", "STX", "STY"} /\ r' = After(c) /\ input' \in Byte
  BY InputUnchanged DEF ST
<1>2. PICK a \in Address : RAM' = emu_write([x \in {a} |-> r[reg]])
  BY <1>1, CaseModes, AddressesTyped DEF ST
<1>3. r[reg] \in Byte
  BY <1>1 DEF CPUInv, TypeOK, Registers
<1>4. RamTyped(RAM')
  BY <1>2, <1>3, StoreTyped
<1>5. Tracked(c) /\ writes_tracked' = TRUE
  BY <1>1 DEF ST, Tracked
<1>6. QED BY <1>1, <1>4, <1>5, AfterIs DEF Effects

LEMMA TransferEffects ==
  ASSUME CPUInv, NEW c \in AllCases, Transfer(c)
  PROVE  Effects(c)
<1>1. RamTyped(RAM') /\ writes_tracked' = FALSE /\ input' \in Byte
  BY RamUnchanged, InputUnchanged DEF Transfer
<1>2. Tracked(c) = FALSE
  BY DEF Transfer, Tracked
<1>3. r.A \in Byte /\ r.X \in Byte /\ r.Y \in Byte /\ r.SP \in Byte
  BY DEF CPUInv, TypeOK, Registers
<1>4. \A x \in Byte : (x + 1) % 256 \in Byte /\ (x - 1) % 256 \in Byte
  BY ByteIs
<1>5. CASE c[2] = "TXS"
  <2>1. r' = [After(c) EXCEPT !.SP = r.X]
    BY <1>5 DEF Transfer
  <2>2. Touched(c) = {"SP"}
    BY <1>5 DEF Touched
  <2>3. PICK a : a = After(c)
    OBVIOUS
  <2>4. r' \in Registers /\ r'.PC = Next16(Length(c[3])) /\ r'.A = r.A /\ r'.X = r.X /\ r'.Y = r.Y /\ r'.P = r.P
    BY <1>3, <2>1, <2>3, AfterIs DEF Registers
  <2>5. QED BY <1>1, <1>2, <2>2, <2>4 DEF Effects
<1>6. CASE c[2] # "TXS"
  <2>1. PICK reg \in {"A", "X", "Y"}, v \in Byte : Touched(c) = {reg, "P"} /\ r' = SetRegister(c, reg, v)
    <3>1. CASE c[2] \in {"TXA", "TYA"}
      BY <1>3, <3>1 DEF Transfer, Touched
    <3>2. CASE c[2] \in {"TAX", "TSX", "INX", "DEX"}
      BY <1>3, <1>4, <3>2 DEF Transfer, Touched
    <3>3. CASE c[2] \in {"TAY", "INY"}
      BY <1>3, <1>4, <3>3 DEF Transfer, Touched
    <3>4. QED BY <1>6, <3>1, <3>2, <3>3 DEF Transfer
  <2>2. /\ r' \in Registers /\ r'.PC = Next16(Length(c[3])) /\ r'.SP = r.SP
        /\ \A x \in {"A", "X", "Y"} : x # reg => r'[x] = r[x]
    <3>1. Sets(r', c, reg, v)
      BY <2>1, SetRegisterIs
    <3>2. QED BY <3>1 DEF Sets
  <2>3. QED BY <1>1, <1>2, <2>1, <2>2 DEF Effects
<1> QED BY <1>5, <1>6

(* A case that changes the flags and no other register. *)
LEMMA FlagsOnly ==
  ASSUME CPUInv, NEW c, NEW P \in SUBSET Flags, r' = [After(c) EXCEPT !.P = P]
  PROVE  /\ r' \in Registers /\ r'.PC = Next16(Length(c[3])) /\ r'.P = P
         /\ r'.A = r.A /\ r'.X = r.X /\ r'.Y = r.Y /\ r'.SP = r.SP
<1>1. PICK a : a = After(c)
  OBVIOUS
<1>2. QED BY <1>1, AfterIs DEF Registers

LEMMA FlagOpEffects ==
  ASSUME CPUInv, NEW c \in AllCases, FlagOp(c)
  PROVE  Effects(c)
<1>1. RamTyped(RAM') /\ writes_tracked' = FALSE /\ input' \in Byte
  BY RamUnchanged, InputUnchanged DEF FlagOp
<1>2. Tracked(c) = FALSE
  BY DEF FlagOp, Tracked
<1>3. CASE c[2] \in {"NOP", "HLT", "unknown"}
  <2>1. r' = After(c)
    BY <1>3 DEF FlagOp
  <2>2. QED BY <1>1, <1>2, <2>1, AfterIs DEF Effects
<1>4. CASE c[2] \notin {"NOP", "HLT", "unknown"}
  <2>1. r.P \in SUBSET Flags
    BY DEF CPUInv, TypeOK, Registers
  <2>2. PICK P \in SUBSET Flags : r' = [After(c) EXCEPT !.P = P]
    BY <1>4, <2>1, FlagsAre DEF FlagOp
  <2>3. Touched(c) = {"P"}
    BY <1>4 DEF FlagOp, Touched
  <2>4. QED BY <1>1, <1>2, <2>2, <2>3, FlagsOnly DEF Effects
<1> QED BY <1>3, <1>4

-----------------------------------------------------------------------------
(* Branches, jumps and the stack. *)

LEMMA SPTyped ==
  ASSUME CPUInv, NEW i \in Int
  PROVE  SP(i) \in Byte
<1>1. r.SP \in Int
  BY ByteIs DEF CPUInv, TypeOK, Registers
<1>2. QED BY <1>1, ByteIs DEF SP

(* The RAM after a push changes in the stack's page alone. *)
InPage(m) == \A a \in DOMAIN m \ Stack : a \in DOMAIN RAM /\ m[a] = RAM[a]

LEMMA Push1 ==
  ASSUME CPUInv, NEW x \in Byte
  PROVE  /\ RamTyped(push_stack(<<x>>)) /\ InPage(push_stack(<<x>>))
         /\ Cell(push_stack(<<x>>), StackCell(0)) = x
<1> DEFINE s == <<x>>
<1>1. s \in Seq(Byte) /\ Len(s) = 1 /\ Len(s) \in 1..3 /\ s[1] = x
  OBVIOUS
<1> HIDE DEF s
<1>2. /\ RamTyped(push_stack(s))
      /\ \A i \in 1..Len(s) : Cell(push_stack(s), StackCell(1 - i)) = s[i]
      /\ InPage(push_stack(s))
  BY <1>1, PushEffect DEF InPage
<1>3. Cell(push_stack(s), StackCell(1 - 1)) = x
  BY <1>1, <1>2
<1>4. QED BY <1>2, <1>3 DEF s

LEMMA Push2 ==
  ASSUME CPUInv, NEW x \in Byte, NEW y \in Byte
  PROVE  /\ RamTyped(push_stack(<<x, y>>)) /\ InPage(push_stack(<<x, y>>))
         /\ Cell(push_stack(<<x, y>>), StackCell(0)) = x
         /\ Cell(push_stack(<<x, y>>), StackCell(-1)) = y
<1> DEFINE s == <<x, y>>
<1>1. s \in Seq(Byte) /\ Len(s) = 2 /\ Len(s) \in 1..3 /\ s[1] = x /\ s[2] = y
  OBVIOUS
<1> HIDE DEF s
<1>2. /\ RamTyped(push_stack(s))
      /\ \A i \in 1..Len(s) : Cell(push_stack(s), StackCell(1 - i)) = s[i]
      /\ InPage(push_stack(s))
  BY <1>1, PushEffect DEF InPage
<1>3. Cell(push_stack(s), StackCell(1 - 1)) = x
  BY <1>1, <1>2
<1>4. Cell(push_stack(s), StackCell(1 - 2)) = y
  BY <1>1, <1>2
<1>5. QED BY <1>2, <1>3, <1>4 DEF s

LEMMA Push3 ==
  ASSUME CPUInv, NEW x \in Byte, NEW y \in Byte, NEW z \in Byte
  PROVE  /\ RamTyped(push_stack(<<x, y, z>>)) /\ InPage(push_stack(<<x, y, z>>))
         /\ Cell(push_stack(<<x, y, z>>), StackCell(0)) = x
         /\ Cell(push_stack(<<x, y, z>>), StackCell(-1)) = y
         /\ Cell(push_stack(<<x, y, z>>), StackCell(-2)) = z
<1> DEFINE s == <<x, y, z>>
<1>1. s \in Seq(Byte) /\ Len(s) = 3 /\ Len(s) \in 1..3 /\ s[1] = x /\ s[2] = y /\ s[3] = z
  OBVIOUS
<1> HIDE DEF s
<1>2. /\ RamTyped(push_stack(s))
      /\ \A i \in 1..Len(s) : Cell(push_stack(s), StackCell(1 - i)) = s[i]
      /\ InPage(push_stack(s))
  BY <1>1, PushEffect DEF InPage
<1>3. Cell(push_stack(s), StackCell(1 - 1)) = x
  BY <1>1, <1>2
<1>4. Cell(push_stack(s), StackCell(1 - 2)) = y
  BY <1>1, <1>2
<1>5. Cell(push_stack(s), StackCell(1 - 3)) = z
  BY <1>1, <1>2
<1>6. QED BY <1>2, <1>3, <1>4, <1>5 DEF s

LEMMA PullTyped ==
  ASSUME CPUInv, NEW i
  PROVE  pull_stack(i) \in Byte
  BY CellTyped DEF CPUInv, TypeOK, RamTyped, pull_stack

LEMMA BranchEffects ==
  ASSUME CPUInv, NEW c \in AllCases, Branch(c)
  PROVE  Effects(c)
<1>1. RamTyped(RAM') /\ writes_tracked' = FALSE /\ input' \in Byte
  BY RamUnchanged, InputUnchanged DEF Branch
<1>2. c[2] \in {"BNE", "BEQ", "BPL", "BMI", "BVC", "BVS", "BCC", "BCS"}
  BY CaseBranches DEF Branch
<1>3. Tracked(c) = FALSE
  BY <1>2 DEF Tracked
<1>4. CASE Taken(c[2])
  <2>1. PICK b \in Byte : r' = [r EXCEPT !.PC = Next16(2 + (IF b >= Sign THEN b - 256 ELSE b))]
    BY <1>4, InputsTyped DEF Branch
  <2>2. 2 + (IF b >= Sign THEN b - 256 ELSE b) \in Int
    BY ByteIs
  <2>3. Next16(2 + (IF b >= Sign THEN b - 256 ELSE b)) \in Address
    BY <2>2, Next16Typed DEF CPUInv, TypeOK
  <2>4. r' \in Registers /\ r'.A = r.A /\ r'.X = r.X /\ r'.Y = r.Y /\ r'.SP = r.SP /\ r'.P = r.P
    BY <2>1, <2>3 DEF CPUInv, TypeOK, Registers
  <2>5. QED BY <1>1, <1>3, <1>4, <2>4 DEF Effects
<1>5. CASE ~Taken(c[2])
  <2>1. r' = After(c)
    BY <1>5 DEF Branch
  <2>2. QED BY <1>1, <1>3, <2>1, AfterIs DEF Effects
<1> QED BY <1>4, <1>5

LEMMA JMPEffects ==
  ASSUME CPUInv, NEW c \in AllCases, JMP(c)
  PROVE  Effects(c)
<1>1. RamTyped(RAM') /\ writes_tracked' = FALSE /\ input' \in Byte
  BY RamUnchanged, InputUnchanged DEF JMP
<1>2. Tracked(c) = FALSE /\ c[2] \in Jumps
  BY DEF Tracked, JMP, Jumps
<1>3. PICK a \in Address : r' = [r EXCEPT !.PC = a]
  BY AddressesTyped, CaseModes DEF JMP
<1>4. r' \in Registers /\ r'.A = r.A /\ r'.X = r.X /\ r'.Y = r.Y /\ r'.SP = r.SP /\ r'.P = r.P
  BY <1>3 DEF CPUInv, TypeOK, Registers
<1>5. QED BY <1>1, <1>2, <1>4 DEF Effects

LEMMA JSREffects ==
  ASSUME CPUInv, NEW c \in AllCases, JSR(c)
  PROVE  Effects(c) /\ InPage(RAM') /\ r'.SP = SP(-2)
<1>1. /\ RAM' = push_stack(<<Next16(2) \div 256, Next16(2) % 256>>)
      /\ c[2] = "JSR" /\ writes_tracked' = TRUE /\ input' \in Byte
  BY InputUnchanged DEF JSR
<1>2. Next16(2) \in Address
  BY Next16Typed DEF CPUInv, TypeOK
<1>3. RamTyped(RAM') /\ InPage(RAM')
  BY <1>1, <1>2, WordOfBytes, Push2
<1>4. PICK a \in Address : r' = [r EXCEPT !.PC = a, !.SP = SP(-2)]
  BY AddressesTyped DEF JSR, MemoryModes
<1>5. r' \in Registers /\ r'.A = r.A /\ r'.X = r.X /\ r'.Y = r.Y /\ r'.SP = SP(-2) /\ r'.P = r.P
  <2>1. PICK sp \in Byte : sp = SP(-2)
    BY SPTyped
  <2>2. QED BY <1>4, <2>1 DEF CPUInv, TypeOK, Registers
<1>6. Tracked(c) = TRUE /\ c[2] \in Jumps /\ Touched(c) = {"SP"}
  BY <1>1 DEF Tracked, Jumps, Touched
<1>7. QED BY <1>1, <1>3, <1>5, <1>6 DEF Effects

LEMMA RTSEffects ==
  ASSUME CPUInv, NEW c \in AllCases, RTS(c)
  PROVE  Effects(c)
<1>1. RamTyped(RAM') /\ writes_tracked' = FALSE /\ input' \in Byte
  BY RamUnchanged, InputUnchanged DEF RTS
<1>2. Tracked(c) = FALSE /\ c[2] \in Jumps /\ Touched(c) = {"SP"}
  BY DEF Tracked, RTS, Jumps, Touched
<1>3. PICK w \in Address : w = Word(pull_stack(1), pull_stack(2))
  BY PullTyped, WordTyped
<1>4. PICK pc \in Address : pc = Plus16(w, 1)
  BY AddressIs, Plus16Typed
<1>5. PICK sp \in Byte : sp = SP(2)
  BY SPTyped
<1>6. r' \in Registers /\ r'.A = r.A /\ r'.X = r.X /\ r'.Y = r.Y /\ r'.P = r.P
  BY <1>3, <1>4, <1>5 DEF RTS, CPUInv, TypeOK, Registers
<1>7. QED BY <1>1, <1>2, <1>6 DEF Effects

LEMMA BRKEffects ==
  ASSUME CPUInv, NEW c \in AllCases, BRK(c)
  PROVE  Effects(c) /\ InPage(RAM') /\ r'.SP = SP(-3)
<1>1. /\ RAM' = push_stack(<<Next16(2) \div 256, Next16(2) % 256, FlagByte(r.P)>>)
      /\ c[2] = "BRK" /\ writes_tracked' = TRUE /\ input' \in Byte
  BY InputUnchanged DEF BRK
<1>2. Next16(2) \in Address
  BY Next16Typed DEF CPUInv, TypeOK
<1>3. RamTyped(RAM') /\ InPage(RAM')
  BY <1>1, <1>2, WordOfBytes, FlagByteTyped, Push3
<1>4. PICK a \in Address : r' = [r EXCEPT !.PC = a, !.SP = SP(-3)]
  <2>1. PICK a \in Words(IRQ_VECTOR) : r' = [r EXCEPT !.PC = a, !.SP = SP(-3)]
    BY DEF BRK
  <2>2. a \in Address
    BY WordsTyped
  <2>3. QED BY <2>1, <2>2
<1>5. r' \in Registers /\ r'.A = r.A /\ r'.X = r.X /\ r'.Y = r.Y /\ r'.SP = SP(-3) /\ r'.P = r.P
  <2>1. PICK sp \in Byte : sp = SP(-3)
    BY SPTyped
  <2>2. QED BY <1>4, <2>1 DEF CPUInv, TypeOK, Registers
<1>6. Tracked(c) = TRUE /\ c[2] \in Jumps /\ Touched(c) = {"SP"}
  BY <1>1 DEF Tracked, Jumps, Touched
<1>7. QED BY <1>1, <1>3, <1>5, <1>6 DEF Effects

LEMMA RTIEffects ==
  ASSUME CPUInv, NEW c \in AllCases, RTI(c)
  PROVE  Effects(c)
<1>1. RamTyped(RAM') /\ writes_tracked' = FALSE /\ input' \in Byte
  BY RamUnchanged, InputUnchanged DEF RTI
<1>2. Tracked(c) = FALSE /\ c[2] \in Jumps /\ Touched(c) = {"SP", "P"}
  BY DEF Tracked, RTI, Jumps, Touched
<1>3. Word(pull_stack(2), pull_stack(3)) \in Address /\ FlagSet(pull_stack(1)) \in SUBSET Flags
  BY PullTyped, WordTyped DEF FlagSet
<1>4. PICK P \in SUBSET Flags, w \in Address : r' = [r EXCEPT !.P = P, !.PC = w, !.SP = SP(3)]
  BY <1>3 DEF RTI
<1>5. r' \in Registers /\ r'.A = r.A /\ r'.X = r.X /\ r'.Y = r.Y
  <2>1. PICK sp \in Byte : sp = SP(3)
    BY SPTyped
  <2>2. QED BY <1>4, <2>1 DEF CPUInv, TypeOK, Registers
<1>6. QED BY <1>1, <1>2, <1>5 DEF Effects

LEMMA PushPullEffects ==
  ASSUME CPUInv, NEW c \in AllCases, PushPull(c)
  PROVE  /\ Effects(c)
         /\ c[2] \in {"PHA", "PHP"} => InPage(RAM') /\ r'.SP = SP(-1)
<1>1. input' \in Byte
  BY InputUnchanged DEF PushPull
<1>2. PICK a : a = After(c)
  OBVIOUS
<1>3. /\ a \in Registers /\ a.PC = Next16(Length(c[3]))
      /\ a.A = r.A /\ a.X = r.X /\ a.Y = r.Y /\ a.SP = r.SP /\ a.P = r.P
  BY <1>2, AfterIs
<1>4. CASE c[2] \in {"PHA", "PHP"}
  <2>1. PICK x \in Byte : RAM' = push_stack(<<x>>)
    <3>1. r.A \in Byte
      BY DEF CPUInv, TypeOK, Registers
    <3>2. QED BY <1>4, <3>1, FlagByteTyped DEF PushPull
  <2>2. writes_tracked' = TRUE /\ r' = [a EXCEPT !.SP = SP(-1)]
    BY <1>2, <1>4 DEF PushPull
  <2>3. PICK sp \in Byte : sp = SP(-1)
    BY SPTyped
  <2>4. /\ r' \in Registers /\ r'.PC = Next16(Length(c[3])) /\ r'.SP = SP(-1)
        /\ r'.A = r.A /\ r'.X = r.X /\ r'.Y = r.Y /\ r'.P = r.P
    BY <1>3, <2>2, <2>3 DEF Registers
  <2>5. Tracked(c) = TRUE /\ Touched(c) = {"SP"}
    BY <1>4 DEF Tracked, Touched
  <2>6. RamTyped(RAM') /\ InPage(RAM')
    BY <2>1, Push1
  <2>7. QED BY <1>1, <2>2, <2>4, <2>5, <2>6 DEF Effects
<1>5. CASE c[2] = "PLA"
  <2>1. NoWrite /\ r' = [SetRegister(c, "A", pull_stack(1)) EXCEPT !.SP = SP(1)]
    BY <1>5 DEF PushPull
  <2>2. PICK sp \in Byte : sp = SP(1)
    BY SPTyped
  <2>3. PICK v \in Byte : v = pull_stack(1)
    BY PullTyped
  <2>4. PICK q : q = SetRegister(c, "A", v)
    OBVIOUS
  <2>5. Sets(q, c, "A", v)
    BY <2>4, SetRegisterIs
  <2>6. r' = [q EXCEPT !.SP = sp]
    BY <2>1, <2>2, <2>3, <2>4
  <2>7. r' \in Registers /\ r'.PC = Next16(Length(c[3])) /\ r'.X = r.X /\ r'.Y = r.Y
    BY <2>5, <2>6 DEF Sets, Registers
  <2>8. Tracked(c) = FALSE /\ Touched(c) = {"A", "SP", "P"}
    BY <1>5 DEF Tracked, Touched
  <2>9. QED BY <1>1, <1>5, <2>1, <2>7, <2>8, RamUnchanged DEF Effects
<1>6. CASE c[2] = "PLP"
  <2>1. NoWrite /\ r' = [After(c) EXCEPT !.P = FlagSet(pull_stack(1)), !.SP = SP(1)]
    BY <1>6 DEF PushPull
  <2>2. PICK sp \in Byte : sp = SP(1)
    BY SPTyped
  <2>3. PICK P \in SUBSET Flags : P = FlagSet(pull_stack(1))
    BY DEF FlagSet
  <2>4. r' = [a EXCEPT !.P = P, !.SP = sp]
    BY <1>2, <2>1, <2>2, <2>3
  <2>5. /\ r' \in Registers /\ r'.PC = Next16(Length(c[3]))
        /\ r'.A = r.A /\ r'.X = r.X /\ r'.Y = r.Y
    BY <1>3, <2>4 DEF Registers
  <2>6. Tracked(c) = FALSE /\ Touched(c) = {"SP", "P"}
    BY <1>6 DEF Tracked, Touched
  <2>7. QED BY <1>1, <1>6, <2>1, <2>5, <2>6, RamUnchanged DEF Effects
<1> QED BY <1>4, <1>5, <1>6 DEF PushPull

-----------------------------------------------------------------------------
(* Arithmetic and logic. *)

Shifts == {"ASL", "ROL", "LSR", "ROR", "INC", "DEC"}

LEMMA ModifiedTyped ==
  ASSUME NEW op \in Shifts, NEW mode, NEW v \in Byte
  PROVE  Modified(op, mode, v).v \in Byte
<1>1. Carry \in Int /\ 0 <= Carry /\ Carry <= 1
  BY DEF Carry
<1>2. v \in Int /\ 0 <= v /\ v <= 255
  BY ByteIs
<1>3. CASE op = "ASL" BY <1>2, <1>3, ByteIs DEF Modified
<1>4. CASE op = "ROL" BY <1>1, <1>2, <1>4, ByteIs DEF Modified
<1>5. CASE op = "LSR" BY <1>2, <1>5, ByteIs DEF Modified
<1>6. CASE op = "ROR" BY <1>1, <1>2, <1>6, ByteIs, SizesAre DEF Modified
<1>7. CASE op = "INC" BY <1>2, <1>7, ByteIs DEF Modified
<1>8. CASE op = "DEC" BY <1>2, <1>8, ByteIs DEF Modified
<1> QED BY <1>3, <1>4, <1>5, <1>6, <1>7, <1>8 DEF Shifts

(* A case that sets A and the flags and no other register. *)
LEMMA AccumulatorOnly ==
  ASSUME CPUInv, NEW c, NEW v \in Byte, NEW P \in SUBSET Flags, r' = [After(c) EXCEPT !.A = v, !.P = P]
  PROVE  /\ r' \in Registers /\ r'.PC = Next16(Length(c[3])) /\ r'.A = v /\ r'.P = P
         /\ r'.X = r.X /\ r'.Y = r.Y /\ r'.SP = r.SP
<1>1. PICK a : a = After(c)
  OBVIOUS
<1>2. QED BY <1>1, AfterIs DEF Registers

LEMMA ModifyEffects ==
  ASSUME CPUInv, NEW c \in AllCases, Modify(c)
  PROVE  Effects(c)
<1>1. c[2] \in Shifts /\ input' \in Byte
  BY InputUnchanged DEF Modify, Shifts
<1>2. \A on, v : ZN(set_status_flag(r.P, "C", on), v) \in SUBSET Flags
  BY FlagsAre, FlagTyped, ZNTyped DEF CPUInv, TypeOK, Registers
<1>3. r.A \in Byte
  BY DEF CPUInv, TypeOK, Registers
<1>4. CASE c[3] = "acc"
  <2>1. PICK m : m = Modified(c[2], "acc", r.A)
    OBVIOUS
  <2>2. /\ r' = [After(c) EXCEPT !.A = m.v, !.P = ZN(set_status_flag(r.P, "C", m.C), m.v)]
        /\ NoWrite
    BY <1>4, <2>1 DEF Modify
  <2>3. PICK v \in Byte : v = m.v
    BY <1>1, <1>3, <2>1, ModifiedTyped
  <2>4. PICK P \in SUBSET Flags : P = ZN(set_status_flag(r.P, "C", m.C), m.v)
    BY <1>2
  <2>5. r' = [After(c) EXCEPT !.A = v, !.P = P]
    BY <2>2, <2>3, <2>4
  <2>6. Tracked(c) = FALSE /\ Touched(c) = {"A", "P"}
    BY <1>1, <1>4 DEF Tracked, Touched, Shifts
  <2>7. /\ r' \in Registers /\ r'.PC = Next16(Length(c[3]))
        /\ r'.X = r.X /\ r'.Y = r.Y /\ r'.SP = r.SP
    BY <2>5, AccumulatorOnly
  <2>8. QED BY <1>1, <2>2, <2>6, <2>7, RamUnchanged DEF Effects
<1>5. CASE c[3] # "acc"
  <2>1. PICK a \in Addresses(c[3]) : \E v \in emu_read(a) :
          LET m == Modified(c[2], c[3], v) IN
          /\ RAM' = emu_write([x \in {a} |-> m.v])
          /\ writes_tracked' = TRUE
          /\ r' = [After(c) EXCEPT !.P = ZN(set_status_flag(r.P, "C", m.C), m.v)]
    BY <1>5 DEF Modify
  <2>2. PICK v \in emu_read(a) :
          LET m == Modified(c[2], c[3], v) IN
          /\ RAM' = emu_write([x \in {a} |-> m.v])
          /\ writes_tracked' = TRUE
          /\ r' = [After(c) EXCEPT !.P = ZN(set_status_flag(r.P, "C", m.C), m.v)]
    BY <2>1
  <2>3. PICK m :
          /\ m = Modified(c[2], c[3], v)
          /\ RAM' = emu_write([x \in {a} |-> m.v])
          /\ writes_tracked' = TRUE
          /\ r' = [After(c) EXCEPT !.P = ZN(set_status_flag(r.P, "C", m.C), m.v)]
    BY <2>2
  <2>4. a \in Address
    BY <1>1, <1>5, CaseModes, AddressesTyped DEF Shifts
  <2>5. m.v \in Byte
    BY <1>1, <2>3, ReadTyped, ModifiedTyped
  <2>6. RamTyped(RAM')
    BY <2>3, <2>4, <2>5, StoreTyped
  <2>7. PICK P \in SUBSET Flags : P = ZN(set_status_flag(r.P, "C", m.C), m.v)
    BY <1>2
  <2>8. Tracked(c) = TRUE /\ Touched(c) = {"P"}
    BY <1>1, <1>5 DEF Tracked, Touched, Shifts
  <2>9. /\ r' \in Registers /\ r'.PC = Next16(Length(c[3]))
        /\ r'.A = r.A /\ r'.X = r.X /\ r'.Y = r.Y /\ r'.SP = r.SP
    BY <2>3, <2>7, FlagsOnly
  <2> QED BY <1>1, <2>3, <2>6, <2>8, <2>9 DEF Effects
<1> QED BY <1>4, <1>5

LEMMA CombineEffects ==
  ASSUME CPUInv, NEW c \in AllCases, Combine(c)
  PROVE  Effects(c)
<1>1. c[2] \in {"ORA", "EOR", "AND"} /\ input' \in Byte
  BY InputUnchanged DEF Combine
<1>2. Touched(c) = {"A", "P"}
  BY <1>1 DEF Touched
<1>3. \A v : Combined(c[2], v) \in Byte
  BY <1>1, CombinedTyped
<1>4. PICK w \in Byte : r' = SetRegister(c, "A", w)
  BY <1>3 DEF Combine
<1>5. Sets(r', c, "A", w)
  BY <1>4, SetRegisterIs
<1>6. /\ r' \in Registers /\ r'.PC = Next16(Length(c[3]))
      /\ r'.X = r.X /\ r'.Y = r.Y /\ r'.SP = r.SP
  BY <1>5 DEF Sets
<1>7. CASE c[3] = "imm"
  <2>1. NoWrite
    BY <1>7 DEF Combine
  <2>2. Tracked(c) = FALSE
    BY <1>1, <1>7 DEF Tracked
  <2>3. QED BY <1>1, <1>2, <1>6, <2>1, <2>2, RamUnchanged DEF Effects
<1>8. CASE c[3] # "imm"
  <2>1. PICK a \in Addresses(c[3]) : \E v : RAM' = emu_write([x \in {a} |-> Combined(c[2], v)])
    BY <1>8 DEF Combine
  <2>2. a \in Address
    BY <1>1, <1>8, CaseModes, AddressesTyped
  <2>3. RamTyped(RAM')
    BY <1>3, <2>1, <2>2, StoreTyped
  <2>4. Tracked(c) = TRUE /\ writes_tracked' = TRUE
    BY <1>1, <1>8 DEF Tracked, Combine
  <2>5. QED BY <1>1, <1>2, <1>6, <2>3, <2>4 DEF Effects
<1> QED BY <1>7, <1>8

(* The carry is what was set last: the flags of the result leave it alone. *)
LEMMA CarryAfter ==
  ASSUME NEW P, NEW on, NEW v
  PROVE  "C" \in ZN(set_status_flag(P, "C", on), v) <=> on
  BY DEF ZN, set_status_flag

LEMMA SumFlagsAre ==
  ASSUME CPUInv, NEW op, NEW sum \in Int, NEW o
  PROVE  /\ SumFlags(op, sum, o) \in SUBSET Flags
         /\ "C" \in SumFlags(op, sum, o) <=> IF op = "ADC" THEN sum > 255 ELSE sum >= 0
<1> DEFINE on == IF op = "ADC" THEN sum > 255 ELSE sum >= 0
<1>2. r.P \in SUBSET Flags /\ {"C", "V"} \subseteq Flags
  BY FlagsAre DEF CPUInv, TypeOK, Registers
<1>3. SumFlags(op, sum, o) = ZN(set_status_flag(set_status_flag(r.P, "V", o), "C", on), sum % 256)
  BY DEF SumFlags
<1> HIDE DEF on
<1>4. PICK Q \in SUBSET Flags : Q = set_status_flag(r.P, "V", o)
  BY <1>2, FlagTyped
<1>5. PICK R \in SUBSET Flags : R = set_status_flag(Q, "C", on)
  BY <1>2, FlagTyped
<1>6. ZN(R, sum % 256) \in SUBSET Flags
  BY ZNTyped
<1>7. "C" \in ZN(R, sum % 256) <=> on
  BY <1>5, CarryAfter
<1>8. QED BY <1>3, <1>4, <1>5, <1>6, <1>7 DEF on

LEMMA ADC_SBCEffects ==
  ASSUME CPUInv, NEW c \in AllCases, ADC_SBC(c)
  PROVE  /\ Effects(c)
         /\ r'.A = Sum(c[2], input') % 256
         /\ "C" \in r'.P <=> (IF c[2] = "ADC" THEN Sum(c[2], input') > 255 ELSE Sum(c[2], input') >= 0)
<1>1. c[2] \in {"ADC", "SBC"} /\ input' \in Byte /\ NoWrite
  BY InputsTyped DEF ADC_SBC
<1>2. PICK sum \in Int : sum = Sum(c[2], input')
  <2>1. r.A \in Int /\ Carry \in Int /\ input' \in Int
    BY <1>1, ByteIs DEF CPUInv, TypeOK, Registers, Carry
  <2>2. QED BY <2>1 DEF Sum
<1>3. PICK o : r' = [After(c) EXCEPT !.A = sum % 256, !.P = SumFlags(c[2], sum, o)]
  BY <1>2 DEF ADC_SBC
<1>4. PICK x \in Byte : x = sum % 256
  BY ByteIs
<1>5. PICK P \in SUBSET Flags : P = SumFlags(c[2], sum, o)
  BY SumFlagsAre
<1>6. r' = [After(c) EXCEPT !.A = x, !.P = P]
  BY <1>3, <1>4, <1>5
<1>7. /\ r' \in Registers /\ r'.PC = Next16(Length(c[3])) /\ r'.A = x /\ r'.P = P
      /\ r'.X = r.X /\ r'.Y = r.Y /\ r'.SP = r.SP
  BY <1>6, AccumulatorOnly
<1>8. Tracked(c) = FALSE /\ Touched(c) = {"A", "P"}
  BY <1>1 DEF Tracked, Touched
<1>9. Effects(c)
  BY <1>1, <1>7, <1>8, RamUnchanged DEF Effects
<1>10. "C" \in P <=> (IF c[2] = "ADC" THEN sum > 255 ELSE sum >= 0)
  BY <1>5, SumFlagsAre
<1>11. QED BY <1>2, <1>4, <1>7, <1>9, <1>10

LEMMA CMPEffects ==
  ASSUME CPUInv, NEW c \in AllCases, CMP(c)
  PROVE  Effects(c)
<1>1. c[2] \in {"CMP", "CPX", "CPY"} /\ input' \in Byte /\ NoWrite
  BY InputUnchanged DEF CMP
<1>2. \A x, v : CMPFlags(x, v) \in SUBSET Flags
  <2>1. r.P \in SUBSET Flags /\ {"C", "Z", "N"} \subseteq Flags
    BY FlagsAre DEF CPUInv, TypeOK, Registers
  <2>2. QED BY <2>1, Flags3Typed DEF CMPFlags
<1>3. PICK P \in SUBSET Flags : r' = [After(c) EXCEPT !.P = P]
  BY <1>2 DEF CMP
<1>4. Tracked(c) = FALSE /\ Touched(c) = {"P"}
  BY <1>1 DEF Tracked, Touched
<1>5. QED BY <1>1, <1>3, <1>4, FlagsOnly, RamUnchanged DEF Effects

LEMMA BITEffects ==
  ASSUME CPUInv, NEW c \in AllCases, BIT(c)
  PROVE  Effects(c)
<1>1. c[2] = "BIT" /\ input' \in Byte /\ NoWrite
  BY InputUnchanged DEF BIT
<1>2. \A x, y, z : set_status_flag(set_status_flag(set_status_flag(r.P, "Z", x), "N", y), "V", z) \in SUBSET Flags
  <2>1. r.P \in SUBSET Flags /\ {"C", "Z", "N", "V"} \subseteq Flags
    BY FlagsAre DEF CPUInv, TypeOK, Registers
  <2>2. QED BY <2>1, Flags3Typed
<1>3. PICK P \in SUBSET Flags : r' = [After(c) EXCEPT !.P = P]
  BY ZenonT(30), <1>2 DEF BIT
<1>4. Tracked(c) = FALSE /\ Touched(c) = {"P"}
  BY <1>1 DEF Tracked, Touched
<1>5. QED BY <1>1, <1>3, <1>4, FlagsOnly, RamUnchanged DEF Effects

LEMMA InstructionEffects ==
  ASSUME CPUInv, NEW c \in AllCases, Instruction(c)
  PROVE  Effects(c)
  BY LDEffects, STEffects, TransferEffects, FlagOpEffects, BranchEffects, JMPEffects, JSREffects,
     RTSEffects, BRKEffects, RTIEffects, PushPullEffects, ModifyEffects, CombineEffects,
     ADC_SBCEffects, CMPEffects, BITEffects
     DEF Instruction

-----------------------------------------------------------------------------
(* A step: its case, and the action that a case selects. *)

LEMMA StepIs ==
  ASSUME CPUInv, emulate_CPU
  PROVE  \E op \in Byte, c \in AllCases :
           /\ c = CaseOf(op) /\ c[1] = op
           /\ Instruction(c) /\ cur_opcode' = op
           /\ CPU_halted' \in BOOLEAN /\ total_CPU_cycles' \in Nat
           /\ frames' = Kept(c) \cup Pushes(c) /\ program' = program
<1>1. PICK op \in Opcodes :
        /\ Instruction(CaseOf(op)) /\ cur_opcode' = op
        /\ CPU_halted' = (CaseOf(op)[2] = "HLT")
        /\ total_CPU_cycles' = total_CPU_cycles + cycles[op + 1] + (IF Taken(CaseOf(op)[2]) THEN 1 ELSE 0)
        /\ frames' = Kept(CaseOf(op)) \cup Pushes(CaseOf(op))
  BY DEF emulate_CPU
<1>2. op \in Byte
  BY OpcodesTyped
<1>3. CaseOf(op) \in AllCases /\ CaseOf(op)[1] = op
  BY <1>2, CaseOfTyped
<1>4. total_CPU_cycles' \in Nat
  <2>1. total_CPU_cycles \in Nat /\ cycles[op + 1] \in Nat
    BY <1>2, CyclesTyped DEF CPUInv, TypeOK
  <2>2. QED BY <1>1, <2>1
<1>5. program' = program
  BY DEF emulate_CPU
<1>6. CPU_halted' \in BOOLEAN
  BY <1>1
<1>7. QED BY <1>1, <1>2, <1>3, <1>4, <1>5, <1>6

LEMMA Selected ==
  ASSUME NEW c \in AllCases, Instruction(c)
  PROVE  /\ c[2] = "JSR" => JSR(c)
         /\ c[2] = "RTS" => RTS(c)
         /\ c[2] = "BRK" => BRK(c)
         /\ c[2] = "RTI" => RTI(c)
         /\ c[2] \in {"PHA", "PHP", "PLA", "PLP"} => PushPull(c)
         /\ c[2] \in {"ADC", "SBC"} => ADC_SBC(c)
         /\ c[2] \in Shifts => Modify(c)
<1>1. c[2] \in {"JSR", "RTS", "BRK", "RTI", "PHA", "PHP", "PLA", "PLP", "ADC", "SBC"} \cup Shifts => ~Branch(c)
  BY CaseBranches DEF Branch, Shifts
<1>2. ASSUME c[2] \in {"JSR", "RTS", "BRK", "RTI", "PHA", "PHP", "PLA", "PLP", "ADC", "SBC"} \cup Shifts
      PROVE  ~LD(c) /\ ~ST(c) /\ ~Transfer(c) /\ ~FlagOp(c) /\ ~JMP(c) /\ ~Combine(c) /\ ~CMP(c) /\ ~BIT(c)
  <2>1. ~LD(c) /\ ~ST(c)
    BY <1>2 DEF LD, ST, Shifts
  <2>2. ~Transfer(c)
    BY <1>2 DEF Transfer, Shifts
  <2>3. ~FlagOp(c)
    BY <1>2 DEF FlagOp, Shifts
  <2>4. ~JMP(c) /\ ~Combine(c) /\ ~CMP(c) /\ ~BIT(c)
    BY <1>2 DEF JMP, Combine, CMP, BIT, Shifts
  <2>5. QED BY <2>1, <2>2, <2>3, <2>4
<1>3. /\ JSR(c) => c[2] = "JSR"
      /\ RTS(c) => c[2] = "RTS"
      /\ BRK(c) => c[2] = "BRK"
      /\ RTI(c) => c[2] = "RTI"
      /\ PushPull(c) => c[2] \in {"PHA", "PHP", "PLA", "PLP"}
      /\ ADC_SBC(c) => c[2] \in {"ADC", "SBC"}
      /\ Modify(c) => c[2] \in Shifts
  BY DEF JSR, RTS, BRK, RTI, PushPull, ADC_SBC, Modify, Shifts
<1>4. QED BY <1>1, <1>2, <1>3 DEF Instruction, Shifts

-----------------------------------------------------------------------------
(* Frames *)

LEMMA FrameCellsAre ==
  ASSUME CPUInv, NEW f
  PROVE  /\ f.sp = SP(-1) => FrameCell(f, 1) = StackCell(0)
         /\ f.sp = SP(-2) => FrameCell(f, 1) = StackCell(-1) /\ FrameCell(f, 2) = StackCell(0)
         /\ f.sp = SP(-3) => /\ FrameCell(f, 1) = StackCell(-2) /\ FrameCell(f, 2) = StackCell(-1)
                             /\ FrameCell(f, 3) = StackCell(0)
<1>1. r.SP \in Int
  BY ByteIs DEF CPUInv, TypeOK, Registers
<1>2. \A p, n, i \in Int : (((p + (-n)) % 256) + i) % 256 = (p + (i - n)) % 256
  OBVIOUS
<1>3. QED BY <1>1, <1>2 DEF FrameCell, SP, StackCell

LEMMA JSRFrame ==
  ASSUME CPUInv, NEW c \in AllCases, JSR(c),
         NEW f, f = [by |-> "JSR", sp |-> r'.SP, size |-> 2, val |-> Next16(3)]
  PROVE  FrameHolds(f)'
<1>1. r'.SP = SP(-2) /\ SP(-2) \in Byte
  BY JSREffects, SPTyped
<1>2. Next16(2) \in Address
  BY Next16Typed DEF CPUInv, TypeOK
<1>3. PICK hi \in Byte, lo \in Byte : hi = Next16(2) \div 256 /\ lo = Next16(2) % 256 /\ Word(lo, hi) = Next16(2)
  BY <1>2, WordOfBytes
<1>4. RAM' = push_stack(<<hi, lo>>)
  BY <1>3 DEF JSR
<1>5. Cell(RAM', StackCell(0)) = hi /\ Cell(RAM', StackCell(-1)) = lo
  BY <1>4, Push2
<1>6. FrameCell(f, 1) = StackCell(-1) /\ FrameCell(f, 2) = StackCell(0)
  BY <1>1, FrameCellsAre
<1>7. Plus16(Next16(2), 1) = Next16(3)
  <2>1. r.PC \in Int
    BY AddressIs DEF CPUInv, TypeOK, Registers
  <2>2. QED BY <2>1 DEF Next16, Plus16
<1>8. Cell(RAM', FrameCell(f, 1)) = lo /\ Cell(RAM', FrameCell(f, 2)) = hi
  BY <1>5, <1>6
<1>9. f.by = "JSR" /\ f.sp \in Byte /\ f.size = 2 /\ f.val = Plus16(Word(lo, hi), 1)
  BY <1>1, <1>3, <1>7
<1>10. QED BY <1>8, <1>9 DEF FrameHolds

LEMMA BRKFrame ==
  ASSUME CPUInv, NEW c \in AllCases, BRK(c),
         NEW f, f = [by |-> "BRK", sp |-> r'.SP, size |-> 3, val |-> <<Next16(2), r.P>>]
  PROVE  FrameHolds(f)'
<1>1. r'.SP = SP(-3) /\ SP(-3) \in Byte
  BY BRKEffects, SPTyped
<1>2. Next16(2) \in Address
  BY Next16Typed DEF CPUInv, TypeOK
<1>3. PICK hi \in Byte, lo \in Byte : hi = Next16(2) \div 256 /\ lo = Next16(2) % 256 /\ Word(lo, hi) = Next16(2)
  BY <1>2, WordOfBytes
<1>4. PICK p \in Byte : p = FlagByte(r.P)
  BY FlagByteTyped
<1>5. RAM' = push_stack(<<hi, lo, p>>)
  BY <1>3, <1>4 DEF BRK
<1>6. Cell(RAM', StackCell(0)) = hi /\ Cell(RAM', StackCell(-1)) = lo /\ Cell(RAM', StackCell(-2)) = p
  BY <1>5, Push3
<1>7. FrameCell(f, 1) = StackCell(-2) /\ FrameCell(f, 2) = StackCell(-1) /\ FrameCell(f, 3) = StackCell(0)
  BY <1>1, FrameCellsAre
<1>8. Cell(RAM', FrameCell(f, 1)) = p /\ Cell(RAM', FrameCell(f, 2)) = lo /\ Cell(RAM', FrameCell(f, 3)) = hi
  BY <1>6, <1>7
<1>9. FlagSet(p) = r.P
  BY <1>4, FlagsOfByte DEF CPUInv, TypeOK, Registers
<1>10. f.by = "BRK" /\ f.sp \in Byte /\ f.size = 3 /\ f.val = <<Word(lo, hi), FlagSet(p)>>
  BY <1>1, <1>3, <1>9
<1>11. QED BY <1>8, <1>10 DEF FrameHolds

LEMMA PHFrame ==
  ASSUME CPUInv, NEW c \in AllCases, PushPull(c), NEW x \in Byte, RAM' = push_stack(<<x>>),
         c[2] \in {"PHA", "PHP"}, NEW f, f.sp = r'.SP
  PROVE  f.sp \in Byte /\ Cell(RAM', FrameCell(f, 1)) = x
<1>1. r'.SP = SP(-1) /\ SP(-1) \in Byte
  BY PushPullEffects, SPTyped
<1>2. Cell(RAM', StackCell(0)) = x
  BY Push1
<1>3. FrameCell(f, 1) = StackCell(0)
  BY <1>1, FrameCellsAre
<1>4. QED BY <1>1, <1>2, <1>3

LEMMA PushedFrames ==
  ASSUME CPUInv, NEW c \in AllCases, Instruction(c)
  PROVE  \A f \in Pushes(c) : FrameHolds(f)'
<1> SUFFICES ASSUME NEW f \in Pushes(c)
             PROVE  FrameHolds(f)'
  OBVIOUS
<1>1. CASE c[2] = "JSR"
  BY <1>1, Selected, JSRFrame DEF Pushes
<1>2. CASE c[2] = "BRK"
  BY <1>2, Selected, BRKFrame DEF Pushes
<1>3. CASE c[2] = "PHA"
  <2>1. f = [by |-> "PHA", sp |-> r'.SP, size |-> 1, val |-> r.A]
    BY <1>3 DEF Pushes
  <2>2. PushPull(c)
    BY <1>3, Selected
  <2>3. PICK x \in Byte : x = r.A /\ RAM' = push_stack(<<x>>)
    BY <1>3, <2>2 DEF PushPull, CPUInv, TypeOK, Registers
  <2>4. f.sp \in Byte /\ Cell(RAM', FrameCell(f, 1)) = x
    BY <1>3, <2>1, <2>2, <2>3, PHFrame
  <2>5. QED BY <2>1, <2>3, <2>4 DEF FrameHolds
<1>4. CASE c[2] = "PHP"
  <2>1. f = [by |-> "PHP", sp |-> r'.SP, size |-> 1, val |-> r.P]
    BY <1>4 DEF Pushes
  <2>2. PushPull(c)
    BY <1>4, Selected
  <2>3. PICK x \in Byte : x = FlagByte(r.P \cup {"B", "U"}) /\ RAM' = push_stack(<<x>>)
    BY <1>4, <2>2, FlagByteTyped DEF PushPull
  <2>4. f.sp \in Byte /\ Cell(RAM', FrameCell(f, 1)) = x
    BY <1>4, <2>1, <2>2, <2>3, PHFrame
  <2>5. FlagSet(x) = r.P \cup {"B", "U"}
    <3>1. r.P \cup {"B", "U"} \in SUBSET Flags
      BY FlagsAre DEF CPUInv, TypeOK, Registers
    <3>2. QED BY <2>3, <3>1, FlagsOfByte
  <2>6. f.val \ {"B", "U"} = FlagSet(x) \ {"B", "U"}
    BY <2>1, <2>5
  <2>7. QED BY <2>1, <2>4, <2>6 DEF FrameHolds
<1> QED BY <1>1, <1>2, <1>3, <1>4 DEF Pushes

LEMMA KeptFrames ==
  ASSUME CPUInv, NEW c, NEW f \in Kept(c)
  PROVE  FrameHolds(f)'
<1>1. FrameHolds(f) /\ \A i \in 1..f.size : Cell(RAM', FrameCell(f, i)) = Cell(RAM, FrameCell(f, i))
  BY DEF CPUInv, Kept
<1>2. CASE f.by = "JSR" BY <1>1, <1>2 DEF FrameHolds
<1>3. CASE f.by = "BRK" BY <1>1, <1>3 DEF FrameHolds
<1>4. CASE f.by = "PHA" BY <1>1, <1>4 DEF FrameHolds
<1>5. CASE f.by = "PHP" BY <1>1, <1>5 DEF FrameHolds
<1> QED BY <1>1, <1>2, <1>3, <1>4, <1>5 DEF FrameHolds

-----------------------------------------------------------------------------
LEMMA CPUInitInv ==
  ASSUME Init
  PROVE  CPUInv
<1>1. program \in Programs \cup {NoRom} /\ program.bytes \subseteq Byte
  BY CPUAssumption, ByteIs DEF Init, NoRom
<1>2. PICK w \in Address, P \in SUBSET Flags :
        r = [A |-> 0, X |-> 0, Y |-> 0, SP |-> 253, PC |-> w, P |-> P]
  BY <1>1, WordTyped, FlagsAre DEF Init
<1>3. r \in Registers
  BY <1>2, ByteIs DEF Registers
<1>4. /\ DOMAIN RAM = {} /\ CPU_halted \in BOOLEAN /\ total_CPU_cycles \in Nat
      /\ cur_opcode \in Byte /\ input \in Byte /\ frames = {}
  <2>1. CPU_halted \in BOOLEAN /\ frames = {}
    BY DEF Init
  <2>2. total_CPU_cycles \in Nat /\ cur_opcode \in Byte /\ input \in Byte
    BY ByteIs DEF Init
  <2>3. DOMAIN RAM = {}
    BY DEF Init
  <2>4. QED BY <2>1, <2>2, <2>3
<1>5. QED BY <1>1, <1>3, <1>4 DEF CPUInv, TypeOK

LEMMA CPUNextInv ==
  ASSUME CPUInv, [Next]_vars
  PROVE  CPUInv'
<1>1. CASE emulate_CPU
  <2>1. PICK op \in Byte, c \in AllCases :
           /\ c = CaseOf(op) /\ c[1] = op
           /\ Instruction(c) /\ cur_opcode' = op
           /\ CPU_halted' \in BOOLEAN /\ total_CPU_cycles' \in Nat
           /\ frames' = Kept(c) \cup Pushes(c) /\ program' = program
    BY <1>1, StepIs
  <2>2. r' \in Registers /\ RamTyped(RAM') /\ input' \in Byte
    BY <2>1, InstructionEffects DEF Effects
  <2>3. \A f \in frames' : FrameHolds(f)'
    BY <2>1, KeptFrames, PushedFrames
  <2>4. TypeOK'
    BY <2>1, <2>2 DEF TypeOK, RamTyped
  <2>5. program' \in Programs \cup {NoRom}
    BY <2>1 DEF CPUInv
  <2>6. QED BY <2>1, <2>2, <2>3, <2>4, <2>5 DEF CPUInv
<1>2. CASE UNCHANGED vars
  <2>1. TypeOK'
    BY <1>2 DEF CPUInv, TypeOK, vars
  <2>2. \A f \in frames' : FrameHolds(f)'
    BY <1>2 DEF CPUInv, vars, FrameHolds
  <2>3. QED BY <1>2, <2>1, <2>2 DEF CPUInv, vars
<1> QED BY <1>1, <1>2 DEF Next, emu_run_end

(* The inductive invariant: the state is typed and every frame on the       *)
(* stack holds what was pushed.                                             *)
THEOREM CPUInvariant == Spec => []CPUInv
<1>1. Init => CPUInv
  BY CPUInitInv
<1>2. CPUInv /\ [Next]_vars => CPUInv'
  BY CPUNextInv
<1> QED BY <1>1, <1>2, PTL DEF Spec

(* Registers stay bytes, the program counter 16 bits wide, and RAM within   *)
(* its 2 KiB, whatever ROM is run.                                          *)
THEOREM CPUTypeOK == Spec => []TypeOK
<1>1. CPUInv => TypeOK
  BY DEF CPUInv
<1> QED BY <1>1, CPUInvariant, PTL

LEMMA PullStep ==
  ASSUME CPUInv, emulate_CPU, NEW f \in frames, f.sp = r.SP
  PROVE  /\ Op(cur_opcode') = "RTS" /\ f.by = "JSR" => r'.PC = f.val
         /\ Op(cur_opcode') = "RTI" /\ f.by = "BRK" => <<r'.PC, r'.P>> = f.val
         /\ Op(cur_opcode') = "PLA" /\ f.by = "PHA" => r'.A = f.val
         /\ Op(cur_opcode') = "PLP" /\ f.by = "PHP" => r'.P \ {"B", "U"} = f.val \ {"B", "U"}
<1>1. PICK c \in AllCases : Instruction(c) /\ Op(cur_opcode') = c[2]
  BY StepIs DEF Op
<1>2. FrameHolds(f)
  BY DEF CPUInv
<1>3. \A i : Cell(RAM, FrameCell(f, i)) = pull_stack(i)
  BY DEF FrameCell, pull_stack, StackCell
<1>4. r \in Registers
  BY DEF CPUInv, TypeOK
<1>5. ASSUME c[2] = "RTS", f.by = "JSR" PROVE r'.PC = f.val
  <2>1. r' = [r EXCEPT !.PC = Plus16(Word(pull_stack(1), pull_stack(2)), 1), !.SP = SP(2)]
    BY <1>1, <1>5, Selected DEF RTS
  <2>2. f.val = Plus16(Word(pull_stack(1), pull_stack(2)), 1)
    BY <1>2, <1>3, <1>5 DEF FrameHolds
  <2>3. PICK w, sp : w = Plus16(Word(pull_stack(1), pull_stack(2)), 1) /\ sp = SP(2)
    OBVIOUS
  <2>4. r'.PC = w
    BY <1>4, <2>1, <2>3 DEF Registers
  <2>5. QED BY <2>2, <2>3, <2>4
<1>6. ASSUME c[2] = "RTI", f.by = "BRK" PROVE <<r'.PC, r'.P>> = f.val
  <2>1. r' = [r EXCEPT !.P = FlagSet(pull_stack(1)), !.PC = Word(pull_stack(2), pull_stack(3)), !.SP = SP(3)]
    BY <1>1, <1>6, Selected DEF RTI
  <2>2. f.val = <<Word(pull_stack(2), pull_stack(3)), FlagSet(pull_stack(1))>>
    BY <1>2, <1>3, <1>6 DEF FrameHolds
  <2>3. PICK w, P, sp : w = Word(pull_stack(2), pull_stack(3)) /\ P = FlagSet(pull_stack(1)) /\ sp = SP(3)
    OBVIOUS
  <2>4. r'.PC = w /\ r'.P = P
    BY <1>4, <2>1, <2>3 DEF Registers
  <2>5. QED BY <2>2, <2>3, <2>4
<1>7. ASSUME c[2] = "PLA", f.by = "PHA" PROVE r'.A = f.val
  <2>1. PICK v \in Byte : v = pull_stack(1)
    BY PullTyped
  <2>2. PICK q : q = SetRegister(c, "A", v)
    OBVIOUS
  <2>3. PICK sp : sp = SP(1)
    OBVIOUS
  <2>4. r' = [q EXCEPT !.SP = sp]
    BY <1>1, <1>7, <2>1, <2>2, <2>3, Selected DEF PushPull
  <2>5. Sets(q, c, "A", v)
    BY <2>2, SetRegisterIs
  <2>6. r'.A = v
    BY <2>4, <2>5 DEF Sets, Registers
  <2>7. f.val = v
    BY <1>2, <1>3, <1>7, <2>1 DEF FrameHolds
  <2>8. QED BY <2>6, <2>7
<1>8. ASSUME c[2] = "PLP", f.by = "PHP" PROVE r'.P \ {"B", "U"} = f.val \ {"B", "U"}
  <2>1. PICK P : P = FlagSet(pull_stack(1))
    OBVIOUS
  <2>2. PICK sp : sp = SP(1)
    OBVIOUS
  <2>3. PICK a : a = After(c)
    OBVIOUS
  <2>4. r' = [a EXCEPT !.P = P, !.SP = sp]
    BY <1>1, <1>8, <2>1, <2>2, <2>3, Selected DEF PushPull
  <2>5. a \in Registers
    BY <2>3, AfterIs
  <2>6. r'.P = P
    BY <2>4, <2>5 DEF Registers
  <2>7. f.val \ {"B", "U"} = P \ {"B", "U"}
    BY <1>2, <1>3, <1>8, <2>1 DEF FrameHolds
  <2>8. QED BY <2>6, <2>7
<1> QED BY <1>1, <1>5, <1>6, <1>7, <1>8

(* What a program pushed and did not overwrite since is what it pulls, also *)
(* across the wrap of the stack and for any nesting: RTS returns behind its *)
(* JSR, RTI behind its BRK with the flags of then, PLA and PLP restore A    *)
(* and the flags.                                                           *)
THEOREM PullsPushed == Spec => PullsWhatWasPushed
<1> DEFINE A == \A f \in frames : f.sp = r.SP =>
       /\ Op(cur_opcode') = "RTS" /\ f.by = "JSR" => r'.PC = f.val
       /\ Op(cur_opcode') = "RTI" /\ f.by = "BRK" => <<r'.PC, r'.P>> = f.val
       /\ Op(cur_opcode') = "PLA" /\ f.by = "PHA" => r'.A = f.val
       /\ Op(cur_opcode') = "PLP" /\ f.by = "PHP" => r'.P \ {"B", "U"} = f.val \ {"B", "U"}
<1>1. CPUInv /\ [Next]_vars => [A]_vars
  BY PullStep DEF Next, emu_run_end
<1> QED BY <1>1, CPUInvariant, PTL DEF Spec, PullsWhatWasPushed

LEMMA PushStep ==
  ASSUME CPUInv, emulate_CPU, Op(cur_opcode') \in {"JSR", "BRK", "PHA", "PHP"}
  PROVE  \A a \in DOMAIN RAM' \ Stack : a \in DOMAIN RAM /\ RAM'[a] = RAM[a]
<1>1. PICK c \in AllCases : Instruction(c) /\ Op(cur_opcode') = c[2]
  BY StepIs DEF Op
<1>2. JSR(c) \/ BRK(c) \/ (PushPull(c) /\ c[2] \in {"PHA", "PHP"})
  BY <1>1, Selected
<1>3. InPage(RAM')
  BY <1>2, JSREffects, BRKEffects, PushPullEffects
<1>4. QED BY <1>3 DEF InPage

(* A push, wherever the stack pointer is, changes the stack's page alone.   *)
THEOREM PushesInPage == Spec => PushesStayInPage
<1> DEFINE A == Op(cur_opcode') \in {"JSR", "BRK", "PHA", "PHP"} =>
                  \A a \in DOMAIN RAM' \ Stack : a \in DOMAIN RAM /\ RAM'[a] = RAM[a]
<1>1. CPUInv /\ [Next]_vars => [A]_vars
  BY PushStep DEF Next, emu_run_end
<1> QED BY <1>1, CPUInvariant, PTL DEF Spec, PushesStayInPage

-----------------------------------------------------------------------------
(* Arithmetic *)

LEMMA CaseOfImplemented ==
  ASSUME NEW op \in Implemented
  PROVE  CaseOf(op) \in Cases /\ CaseOf(op)[1] = op
<1>1. PICK c \in Cases : c[1] = op
  BY DEF Implemented
<1>2. QED BY <1>1 DEF CaseOf

LEMMA AccumulatorShifts ==
  /\ CaseOf(10)[2] = "ASL" /\ CaseOf(10)[3] = "acc"
  /\ CaseOf(42)[2] = "ROL" /\ CaseOf(42)[3] = "acc"
<1>1. \A c \in Cases : /\ c[1] = 10 => c[2] = "ASL" /\ c[3] = "acc"
                       /\ c[1] = 42 => c[2] = "ROL" /\ c[3] = "acc"
  BY DEF Cases
<1>2. <<10, "ASL", "acc">> \in Cases /\ <<42, "ROL", "acc">> \in Cases
  BY DEF Cases
<1>3. 10 \in Implemented
  <2>1. <<10, "ASL", "acc">>[1] = 10
    OBVIOUS
  <2>2. QED BY <1>2, <2>1 DEF Implemented
<1>4. 42 \in Implemented
  <2>1. <<42, "ROL", "acc">>[1] = 42
    OBVIOUS
  <2>2. QED BY <1>2, <2>1 DEF Implemented
<1>5. QED BY <1>1, <1>3, <1>4, CaseOfImplemented

(* ASL A and ROL A. *)
LEMMA ShiftStep ==
  ASSUME CPUInv, NEW c \in AllCases, Modify(c), c[2] \in {"ASL", "ROL"}, c[3] = "acc"
  PROVE  /\ r'.A = IF c[2] = "ASL" THEN (2 * r.A) % 256 ELSE ((2 * r.A) % 256) + Carry
         /\ "C" \in r'.P <=> r.A >= Sign
<1>1. PICK m : m = Modified(c[2], "acc", r.A)
  OBVIOUS
<1>2. r' = [After(c) EXCEPT !.A = m.v, !.P = ZN(set_status_flag(r.P, "C", m.C), m.v)]
  BY <1>1 DEF Modify
<1>3. m.v \in Byte
  BY <1>1, ModifiedTyped DEF Shifts, CPUInv, TypeOK, Registers
<1>4. PICK P \in SUBSET Flags : P = ZN(set_status_flag(r.P, "C", m.C), m.v)
  BY FlagsAre, FlagTyped, ZNTyped DEF CPUInv, TypeOK, Registers
<1>5. PICK v \in Byte : v = m.v
  BY <1>3
<1>6. r' = [After(c) EXCEPT !.A = v, !.P = P]
  BY <1>2, <1>4, <1>5
<1>7. r'.A = v /\ r'.P = P
  <2>1. /\ r' \in Registers /\ r'.PC = Next16(Length(c[3])) /\ r'.A = v /\ r'.P = P
        /\ r'.X = r.X /\ r'.Y = r.Y /\ r'.SP = r.SP
    BY <1>6, AccumulatorOnly
  <2>2. QED BY <2>1
<1>8. "C" \in P <=> m.C
  BY <1>4, CarryAfter
<1>9. /\ m.v = IF c[2] = "ASL" THEN (2 * r.A) % 256 ELSE ((2 * r.A) % 256) + Carry
      /\ m.C <=> r.A >= Sign
  <2>1. CASE c[2] = "ASL" BY <1>1, <2>1 DEF Modified
  <2>2. CASE c[2] = "ROL" BY <1>1, <2>2 DEF Modified
  <2>3. QED BY <2>1, <2>2
<1>10. QED BY <1>5, <1>7, <1>8, <1>9

(* The step of ArithmeticExact. *)
Exact == LET old == IF "C" \in r.P THEN 1 ELSE 0
             new == IF "C" \in r'.P THEN 1 ELSE 0
         IN /\ Op(cur_opcode') = "ADC" => r'.A + 256 * new = r.A + input' + old
            /\ Op(cur_opcode') = "SBC" => r'.A - 256 * (1 - new) = r.A - input' - (1 - old)
            /\ cur_opcode' = 10 => r'.A + 256 * new = 2 * r.A
            /\ cur_opcode' = 42 => r'.A + 256 * new = 2 * r.A + old

LEMMA ArithmeticStep ==
  ASSUME CPUInv, emulate_CPU
  PROVE  Exact
<1>1. PICK c \in AllCases : Instruction(c) /\ Op(cur_opcode') = c[2] /\ CaseOf(cur_opcode') = c
  BY StepIs DEF Op
<1>2. PICK old : old \in 0..1 /\ old = IF "C" \in r.P THEN 1 ELSE 0
  OBVIOUS
<1>3. PICK new : new \in 0..1 /\ new = IF "C" \in r'.P THEN 1 ELSE 0
  OBVIOUS
<1>4. PICK a : a = r.A /\ a \in Int /\ 0 <= a /\ a <= 255
  BY ByteIs DEF CPUInv, TypeOK, Registers
<1>5. ASSUME c[2] \in {"ADC", "SBC"}
      PROVE  /\ c[2] = "ADC" => r'.A + 256 * new = a + input' + old
             /\ c[2] = "SBC" => r'.A - 256 * (1 - new) = a - input' - (1 - old)
  <2>1. ADC_SBC(c)
    BY <1>1, <1>5, Selected
  <2>2. PICK i : i = input' /\ i \in Int /\ 0 <= i /\ i <= 255
    BY <2>1, ADC_SBCEffects, ByteIs DEF Effects
  <2>3. /\ r'.A = Sum(c[2], i) % 256
        /\ "C" \in r'.P <=> (IF c[2] = "ADC" THEN Sum(c[2], i) > 255 ELSE Sum(c[2], i) >= 0)
    BY <2>1, <2>2, ADC_SBCEffects
  <2>4. CASE c[2] = "ADC"
    <3>1. Sum(c[2], i) = a + i + old
      BY <1>2, <1>4, <2>4 DEF Sum, Carry
    <3>2. r'.A = (a + i + old) % 256 /\ (new = 1 <=> a + i + old > 255)
      BY <1>3, <2>3, <2>4, <3>1
    <3>3. r'.A + 256 * new = a + i + old
      BY <1>2, <1>3, <1>4, <2>2, <3>2
    <3>4. QED BY <2>2, <2>4, <3>3
  <2>5. CASE c[2] = "SBC"
    <3>1. Sum(c[2], i) = a - i - (1 - old)
      BY <1>2, <1>4, <2>5 DEF Sum, Carry
    <3>2. r'.A = (a - i - (1 - old)) % 256 /\ (new = 1 <=> a - i - (1 - old) >= 0)
      BY <1>3, <2>3, <2>5, <3>1
    <3>3. r'.A - 256 * (1 - new) = a - i - (1 - old)
      BY <1>2, <1>3, <1>4, <2>2, <3>2
    <3>4. QED BY <2>2, <2>5, <3>3
  <2>6. QED BY <1>5, <2>4, <2>5
<1>6. ASSUME cur_opcode' \in {10, 42}
      PROVE  /\ cur_opcode' = 10 => r'.A + 256 * new = 2 * a
             /\ cur_opcode' = 42 => r'.A + 256 * new = 2 * a + old
  <2>1. /\ c[3] = "acc" /\ c[2] \in {"ASL", "ROL"}
        /\ cur_opcode' = 10 => c[2] = "ASL"
        /\ cur_opcode' = 42 => c[2] = "ROL"
    BY <1>1, <1>6, AccumulatorShifts
  <2>2. Modify(c)
    BY <1>1, <2>1, Selected DEF Shifts
  <2>3. /\ r'.A = IF c[2] = "ASL" THEN (2 * a) % 256 ELSE ((2 * a) % 256) + old
        /\ new = 1 <=> a >= 128
    BY <1>2, <1>3, <1>4, <2>1, <2>2, ShiftStep, SizesAre DEF Carry
  <2>4. /\ ((2 * a) % 256) + 256 * new = 2 * a
        /\ ((2 * a) % 256) + old + 256 * new = 2 * a + old
    BY <1>2, <1>3, <1>4, <2>3
  <2>5. CASE c[2] = "ASL" BY <1>6, <2>1, <2>3, <2>4, <2>5
  <2>6. CASE c[2] = "ROL" BY <1>6, <2>1, <2>3, <2>4, <2>6
  <2>7. QED BY <2>1, <2>5, <2>6
<1>7. QED BY <1>1, <1>2, <1>3, <1>4, <1>5, <1>6 DEF Exact

(* With the carry as a ninth bit, ADC and SBC are exact for all operands,   *)
(* and ASL A and ROL A double A exactly, although ADC_op and SBC_op change  *)
(* A twice before they set it.                                              *)
THEOREM ExactArithmetic == Spec => ArithmeticExact
<1>1. CPUInv /\ [Next]_vars => [Exact]_vars
  BY ArithmeticStep DEF Next, emu_run_end
<1> QED BY <1>1, CPUInvariant, PTL DEF Spec, ArithmeticExact, Exact

-----------------------------------------------------------------------------
(* The switch against the table, row by row. *)

LEMMA TableLengths ==
  \A c \in Cases : c[2] \notin Jumps => num_bytes[c[1] + 1] = Length(c[3])
  BY DEF Cases, Jumps, num_bytes, Length

LEMMA TableRegisters ==
  \A c \in Cases : c[1] # \h88 =>
    \A reg \in Touched(c) : Bit(reg_write_bitflag[c[1] + 1], RegisterBit[reg])
  BY DEF Cases, Touched, Bit, reg_write_bitflag, RegisterBit

StoringLogic == {c[1] : c \in {x \in Cases : x[2] \in {"ORA", "EOR", "AND"} /\ x[3] # "imm"}}

LEMMA TableWrites ==
  \A c \in Cases : Tracked(c) <=> c[1] \in writes_mem \cup StoringLogic
<1>1. \A c, d \in Cases : c[1] = d[1] => c[2] = d[2] /\ c[3] = d[3]
  BY DEF Cases
<1>2. \A c \in Cases : c[1] \in StoringLogic <=> c[2] \in {"ORA", "EOR", "AND"} /\ c[3] # "imm"
  BY <1>1 DEF StoringLogic
<1>3. \A c \in Cases : ~(c[2] \in {"ORA", "EOR", "AND"} /\ c[3] # "imm") =>
        (Tracked(c) <=> c[1] \in writes_mem)
  BY DEF Cases, Tracked, writes_mem
<1>4. QED BY <1>2, <1>3 DEF Tracked

(* The case of a step whose opcode has one. *)
LEMMA ImplementedStep ==
  ASSUME CPUInv, emulate_CPU, cur_opcode' \in Implemented
  PROVE  \E c \in Cases : c[1] = cur_opcode' /\ c[2] = Op(cur_opcode') /\ Effects(c)
<1>1. PICK c \in AllCases : c = CaseOf(cur_opcode') /\ Instruction(c)
  BY StepIs
<1>2. c \in Cases /\ c[1] = cur_opcode'
  BY <1>1, CaseOfImplemented
<1>3. QED BY <1>1, <1>2, InstructionEffects DEF Op

(* Every instruction of the switch, but jumps and taken branches, moves the *)
(* program counter by the table's num_bytes.                                *)
THEOREM LengthsAgree == Spec => LengthsMatchTable
<1> DEFINE A == cur_opcode' \in Implemented /\ Op(cur_opcode') \notin Jumps /\ ~Taken(Op(cur_opcode'))
                  => r'.PC = Next16(num_bytes[cur_opcode' + 1])
<1>1. ASSUME CPUInv, emulate_CPU
      PROVE  A
  <2> SUFFICES ASSUME cur_opcode' \in Implemented, Op(cur_opcode') \notin Jumps, ~Taken(Op(cur_opcode'))
               PROVE  r'.PC = Next16(num_bytes[cur_opcode' + 1])
    OBVIOUS
  <2>1. PICK c \in Cases : c[1] = cur_opcode' /\ c[2] = Op(cur_opcode') /\ Effects(c)
    BY <1>1, ImplementedStep
  <2>2. r'.PC = Next16(Length(c[3]))
    BY <2>1 DEF Effects
  <2>3. num_bytes[c[1] + 1] = Length(c[3])
    BY <2>1, TableLengths
  <2>4. QED BY <2>1, <2>2, <2>3
<1>2. CPUInv /\ [Next]_vars => [A]_vars
  BY <1>1 DEF Next, emu_run_end
<1> QED BY <1>2, CPUInvariant, PTL DEF Spec, LengthsMatchTable

(* No instruction of the switch but 0x88 changes a register that the table  *)
(* does not name as written.                                                *)
THEOREM RegistersAgree == Spec => RegistersMatchTable
<1> DEFINE A == cur_opcode' \in Implemented \ {\h88} =>
                  \A reg \in DOMAIN RegisterBit :
                    r'[reg] = r[reg] \/ Bit(reg_write_bitflag[cur_opcode' + 1], RegisterBit[reg])
<1>1. ASSUME CPUInv, emulate_CPU
      PROVE  A
  <2> SUFFICES ASSUME cur_opcode' \in Implemented \ {\h88}, NEW reg \in DOMAIN RegisterBit, r'[reg] # r[reg]
               PROVE  Bit(reg_write_bitflag[cur_opcode' + 1], RegisterBit[reg])
    OBVIOUS
  <2>1. PICK c \in Cases : c[1] = cur_opcode' /\ c[2] = Op(cur_opcode') /\ Effects(c)
    BY <1>1, ImplementedStep
  <2>2. reg \in {"P", "SP", "Y", "X", "A"}
    BY DEF RegisterBit
  <2>3. reg \in Touched(c)
    BY <2>1, <2>2 DEF Effects
  <2>4. QED BY <2>1, <2>3, TableRegisters
<1>2. CPUInv /\ [Next]_vars => [A]_vars
  BY <1>1 DEF Next, emu_run_end
<1> QED BY <1>2, CPUInvariant, PTL DEF Spec, RegistersMatchTable

(* The tracker reports a write exactly for the opcodes whose row says so    *)
(* and for ORA, EOR and AND on memory.                                      *)
THEOREM WritesAgree == Spec => []WritesMatchTable
<1>1. Init => WritesMatchTable
  BY DEF Init, WritesMatchTable
<1>2. CPUInv /\ WritesMatchTable /\ [Next]_vars => WritesMatchTable'
  <2> SUFFICES ASSUME CPUInv, WritesMatchTable, [Next]_vars
               PROVE  WritesMatchTable'
    OBVIOUS
  <2>1. CASE emulate_CPU
    <3>1. SUFFICES ASSUME cur_opcode' \in Implemented
                   PROVE  writes_tracked' = (cur_opcode' \in writes_mem \cup StoringLogic)
      BY DEF WritesMatchTable, StoringLogic
    <3>2. PICK c \in Cases : c[1] = cur_opcode' /\ c[2] = Op(cur_opcode') /\ Effects(c)
      BY <2>1, <3>1, ImplementedStep
    <3>3. writes_tracked' = Tracked(c) /\ Tracked(c) \in BOOLEAN
      BY <3>2 DEF Effects, Tracked
    <3>4. Tracked(c) <=> cur_opcode' \in writes_mem \cup StoringLogic
      BY <3>2, TableWrites
    <3>5. QED BY <3>3, <3>4
  <2>2. CASE UNCHANGED vars
    BY <2>2 DEF WritesMatchTable, vars
  <2>3. QED BY <2>1, <2>2 DEF Next, emu_run_end
<1> QED BY <1>1, <1>2, CPUInvariant, PTL DEF Spec
=============================================================================

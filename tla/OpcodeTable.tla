---------------------------- MODULE OpcodeTable -----------------------------
(* The data of the emulated CPU: opcode_table (opcode_table.c) and the      *)
(* labels of the switch in emulate_CPU (emulator.c).                        *)
EXTENDS Integers

(* opcode_table[opcode].num_bytes, at index opcode + 1. *)
num_bytes ==
  <<1, 2, 1, 2, 2, 2, 2, 2, 1, 2, 1, 2, 3, 3, 3, 3,
    2, 2, 1, 2, 2, 2, 2, 2, 1, 3, 1, 3, 3, 3, 3, 3,
    3, 2, 1, 2, 2, 2, 2, 2, 1, 2, 1, 2, 3, 3, 3, 3,
    2, 2, 1, 2, 2, 2, 2, 2, 1, 3, 1, 3, 3, 3, 3, 3,
    1, 2, 1, 2, 2, 2, 2, 2, 1, 2, 1, 2, 3, 3, 3, 3,
    2, 2, 1, 2, 2, 2, 2, 2, 1, 3, 1, 3, 3, 3, 3, 3,
    1, 2, 1, 2, 2, 2, 2, 2, 1, 2, 1, 2, 3, 3, 3, 3,
    2, 2, 1, 2, 2, 2, 2, 2, 1, 3, 1, 3, 3, 3, 3, 3,
    2, 2, 2, 2, 2, 2, 2, 2, 1, 2, 1, 2, 3, 3, 3, 3,
    2, 2, 1, 2, 2, 2, 2, 2, 1, 3, 1, 1, 3, 3, 3, 3,
    2, 2, 2, 2, 2, 2, 2, 2, 1, 2, 1, 2, 3, 3, 3, 3,
    2, 2, 1, 2, 2, 2, 2, 2, 1, 3, 1, 3, 3, 3, 3, 3,
    2, 2, 2, 2, 2, 2, 2, 2, 1, 2, 1, 2, 3, 3, 3, 3,
    2, 2, 1, 2, 2, 2, 2, 2, 1, 3, 1, 3, 3, 3, 3, 3,
    2, 2, 2, 2, 2, 2, 2, 2, 1, 2, 1, 2, 3, 3, 3, 3,
    2, 2, 1, 2, 2, 2, 2, 2, 1, 3, 1, 3, 3, 3, 3, 3>>

(* opcode_table[opcode].cycles, at index opcode + 1. *)
cycles ==
  <<7, 6, 2, 8, 3, 3, 5, 5, 3, 2, 2, 2, 4, 4, 6, 6,
    2, 5, 0, 8, 4, 4, 6, 6, 2, 4, 2, 7, 4, 4, 7, 7,
    6, 6, 0, 8, 3, 3, 5, 5, 4, 2, 2, 2, 4, 4, 6, 6,
    2, 5, 0, 8, 4, 4, 6, 6, 2, 4, 2, 7, 4, 4, 7, 7,
    6, 6, 0, 8, 3, 3, 5, 5, 3, 2, 2, 2, 3, 4, 6, 6,
    3, 5, 0, 8, 4, 4, 6, 6, 2, 4, 2, 7, 4, 4, 7, 7,
    6, 6, 0, 8, 3, 3, 5, 5, 4, 2, 2, 2, 5, 4, 6, 6,
    2, 5, 0, 8, 4, 4, 6, 6, 2, 4, 2, 7, 4, 4, 7, 7,
    2, 6, 2, 6, 3, 3, 3, 3, 2, 2, 2, 2, 4, 4, 4, 4,
    3, 6, 0, 6, 4, 4, 4, 4, 2, 5, 2, 5, 5, 5, 5, 5,
    2, 6, 2, 6, 3, 3, 3, 3, 2, 2, 2, 2, 4, 4, 4, 4,
    2, 5, 0, 5, 4, 4, 4, 4, 2, 4, 2, 4, 4, 4, 4, 4,
    2, 6, 2, 8, 3, 3, 5, 5, 2, 2, 2, 2, 4, 4, 6, 6,
    2, 5, 0, 8, 4, 4, 6, 6, 2, 4, 2, 7, 4, 4, 7, 7,
    2, 6, 2, 8, 3, 3, 5, 5, 2, 2, 2, 2, 4, 4, 6, 6,
    2, 5, 0, 8, 4, 4, 6, 6, 2, 4, 2, 7, 4, 4, 7, 7>>

(* The opcodes with opcode_table[opcode].writes_mem. *)
writes_mem ==
  {\h00, \h03, \h06, \h07, \h08, \h0E, \h0F, \h13, \h16, \h17, \h1B, \h1E, \h1F, \h20,
   \h23, \h26, \h27, \h2E, \h2F, \h33, \h36, \h37, \h3B, \h3E, \h3F, \h43, \h46, \h47,
   \h48, \h4E, \h4F, \h53, \h56, \h57, \h5B, \h5E, \h5F, \h63, \h66, \h67, \h6E, \h6F,
   \h73, \h76, \h77, \h7B, \h7E, \h7F, \h81, \h83, \h84, \h85, \h86, \h87, \h8C, \h8D,
   \h8E, \h8F, \h91, \h93, \h94, \h95, \h96, \h97, \h99, \h9B, \h9C, \h9D, \h9E, \h9F,
   \hC3, \hC6, \hC7, \hCE, \hCF, \hD3, \hD6, \hD7, \hDB, \hDE, \hDF, \hE3, \hE6, \hE7,
   \hEE, \hEF, \hF3, \hF6, \hF7, \hFB, \hFE, \hFF}

(* opcode_table[opcode].reg_write_bitflag, at index opcode + 1. *)
reg_write_bitflag ==
  <<2, 1, 0, 1, 0, 17, 1, 17, 2, 17, 17, 1, 0, 17, 1, 17,
    0, 1, 0, 1, 0, 17, 1, 17, 1, 17, 0, 17, 0, 17, 1, 17,
    2, 17, 0, 17, 1, 17, 1, 17, 3, 17, 17, 1, 1, 17, 1, 17,
    0, 17, 0, 17, 0, 17, 1, 17, 1, 17, 0, 17, 0, 17, 1, 17,
    3, 1, 0, 1, 0, 17, 1, 17, 2, 17, 17, 17, 0, 17, 1, 17,
    0, 1, 0, 1, 0, 17, 1, 17, 1, 17, 0, 17, 0, 17, 1, 17,
    2, 17, 0, 17, 0, 17, 1, 17, 19, 17, 17, 17, 0, 17, 1, 17,
    0, 17, 0, 17, 0, 17, 1, 17, 1, 17, 0, 17, 0, 17, 1, 17,
    0, 0, 0, 0, 0, 0, 0, 0, 5, 0, 17, 17, 0, 0, 0, 0,
    0, 0, 0, 0, 0, 0, 0, 0, 17, 0, 2, 2, 0, 0, 0, 0,
    5, 17, 9, 25, 5, 17, 9, 25, 5, 17, 9, 25, 5, 17, 9, 25,
    0, 17, 0, 25, 5, 17, 9, 25, 1, 17, 9, 27, 5, 17, 9, 25,
    1, 1, 0, 1, 1, 1, 1, 1, 5, 1, 9, 9, 1, 1, 1, 1,
    0, 1, 0, 1, 0, 1, 1, 1, 1, 1, 0, 1, 0, 1, 1, 1,
    1, 17, 0, 17, 1, 17, 1, 17, 9, 17, 0, 17, 1, 17, 1, 17,
    0, 17, 0, 17, 0, 17, 1, 17, 1, 17, 0, 17, 0, 17, 1, 17>>

(* What the cases of the switch do, and how they find their operand.  The   *)
(* case of 0x88, DEY, is the code of DEX.                                   *)
Cases ==
  {<<\hA0, "LDY", "imm">>, <<\hA2, "LDX", "imm">>, <<\hA9, "LDA", "imm">>, <<\hA5, "LDA", "zp">>,
   <<\hB5, "LDA", "zpx">>, <<\hAD, "LDA", "abs">>, <<\hBD, "LDA", "absx">>, <<\h85, "STA", "zp">>,
   <<\h95, "STA", "zpx">>, <<\h8D, "STA", "abs">>, <<\h9D, "STA", "absx">>, <<\h91, "STA", "indy">>,
   <<\h81, "STA", "indx">>, <<\h86, "STX", "zp">>, <<\h8E, "STX", "abs">>, <<\h84, "STY", "zp">>,
   <<\h8C, "STY", "abs">>, <<\hD0, "BNE", "rel">>, <<\hF0, "BEQ", "rel">>, <<\h10, "BPL", "rel">>,
   <<\h30, "BMI", "rel">>, <<\h50, "BVC", "rel">>, <<\h70, "BVS", "rel">>, <<\h90, "BCC", "rel">>,
   <<\hB0, "BCS", "rel">>, <<\h48, "PHA", "imp">>, <<\h68, "PLA", "imp">>, <<\h08, "PHP", "imp">>,
   <<\h28, "PLP", "imp">>, <<\h20, "JSR", "abs">>, <<\h60, "RTS", "imp">>, <<\h4C, "JMP", "abs">>,
   <<\h6C, "JMP", "ind">>, <<\h00, "BRK", "imp">>, <<\h40, "RTI", "imp">>, <<\hE8, "INX", "imp">>,
   <<\hCA, "DEX", "imp">>, <<\h88, "DEX", "imp">>, <<\hC8, "INY", "imp">>, <<\hAA, "TAX", "imp">>,
   <<\hA8, "TAY", "imp">>, <<\h8A, "TXA", "imp">>, <<\h98, "TYA", "imp">>, <<\h9A, "TXS", "imp">>,
   <<\hBA, "TSX", "imp">>, <<\h38, "SEC", "imp">>, <<\h18, "CLC", "imp">>, <<\hB8, "CLV", "imp">>,
   <<\h78, "SEI", "imp">>, <<\h58, "CLI", "imp">>, <<\hF8, "SED", "imp">>, <<\hEA, "NOP", "imp">>,
   <<\h02, "HLT", "imp">>, <<\h0A, "ASL", "acc">>, <<\h06, "ASL", "zp">>, <<\h0E, "ASL", "abs">>,
   <<\h4A, "LSR", "acc">>, <<\h46, "LSR", "zp">>, <<\h4E, "LSR", "abs">>, <<\h2A, "ROL", "acc">>,
   <<\h26, "ROL", "zp">>, <<\h2E, "ROL", "abs">>, <<\h66, "ROR", "zp">>, <<\h6E, "ROR", "abs">>,
   <<\h09, "ORA", "imm">>, <<\h05, "ORA", "zp">>, <<\h0D, "ORA", "abs">>, <<\h49, "EOR", "imm">>,
   <<\h45, "EOR", "zp">>, <<\h4D, "EOR", "abs">>, <<\h29, "AND", "imm">>, <<\h25, "AND", "zp">>,
   <<\h2D, "AND", "abs">>, <<\hE6, "INC", "zp">>, <<\hEE, "INC", "abs">>, <<\hFE, "INC", "absx">>,
   <<\hC6, "DEC", "zp">>, <<\hCE, "DEC", "abs">>, <<\h69, "ADC", "imm">>, <<\h75, "ADC", "zpx">>,
   <<\h65, "ADC", "zp">>, <<\h6D, "ADC", "abs">>, <<\hE9, "SBC", "imm">>, <<\hE5, "SBC", "zp">>,
   <<\hED, "SBC", "abs">>, <<\hC9, "CMP", "imm">>, <<\hC5, "CMP", "zp">>, <<\hCD, "CMP", "abs">>,
   <<\hE0, "CPX", "imm">>, <<\hE4, "CPX", "zp">>, <<\hEC, "CPX", "abs">>, <<\hC0, "CPY", "imm">>,
   <<\hC4, "CPY", "zp">>, <<\hCC, "CPY", "abs">>, <<\h24, "BIT", "zp">>, <<\h2C, "BIT", "abs">>}

Implemented == {c[1] : c \in Cases}
=============================================================================

---------------------------- MODULE Disassembler ----------------------------
(***************************************************************************)
(* The x86 disassembler (crates/abi/src/asm.rs): how many bytes each       *)
(* instruction takes.  Bytes are numbers; the input is revealed one byte   *)
(* at a time, as `advance` reads it.  Which instruction and which          *)
(* registers the bytes stand for is left out.                              *)
(***************************************************************************)
EXTENDS Integers, FiniteSets

CONSTANTS Bytes,     \* the bytes that occur in the input
          Lengths    \* how long the input may be

ASSUME BytesAssumption == Bytes \subseteq 0 .. 255 /\ Lengths \subseteq Nat

VARIABLES
  length,    \* of the input
  offset,    \* Disassembler::offset
  stage,     \* what is read next; "idle" between two calls of `next`, "end" once
             \* one has returned an Err
  todo,      \* bytes of a displacement or an immediate still to read
  inst,      \* what is known of the instruction
  error      \* the DisassemblyError

disVars == <<length, offset, stage, todo, inst, error>>

NoByte == 256
Fresh == [start |-> 0, prefixes |-> {}, rex |-> NoByte, map |-> "one", opcode |-> NoByte,
          modrm |-> NoByte, sib |-> NoByte]

DisInit ==
  /\ length \in Lengths /\ offset = 0 /\ stage = "idle" /\ todo = 0
  /\ inst = Fresh /\ error = "none"

-----------------------------------------------------------------------------
(* ModRm, Sib and Rex                                                        *)
Md(byte) == byte \div 64
Reg(byte) == (byte \div 8) % 8
Rm(byte) == byte % 8
IsMemory(modrm) == Md(modrm) # 3
HasSib(modrm) == IsMemory(modrm) /\ Rm(modrm) = 4
DispSize(modrm) ==
  CASE Md(modrm) = 0 /\ Rm(modrm) = 5 -> 4
    [] Md(modrm) = 1 -> 1
    [] Md(modrm) = 2 -> 4
    [] OTHER -> 0

\* Mutant: a base of 5 is RBP whatever the mode.
SibDispSizeRbp(sib, modrm) ==
  CASE Md(modrm) = 1 -> 1
    [] Md(modrm) = 2 -> 4
    [] OTHER -> 0

SibDispSize(sib, modrm) ==
  CASE Md(modrm) = 0 /\ sib % 8 = 5 -> 4
    [] Md(modrm) = 1 -> 1
    [] Md(modrm) = 2 -> 4
    [] OTHER -> 0
IsRexPrefix(byte) == byte \div 16 = 4
RexW(i) == i.rex # NoByte /\ (i.rex \div 8) % 2 = 1

-----------------------------------------------------------------------------
(* The opcodes of `next`, by what follows them                               *)
Arithmetic == {1, 9, 11, 33, 35, 41, 49, 57}
Transfer == 132 .. 139 \union {141}
Group1 == {128, 129, 131}
Group2 == {192, 193}
Group3 == {246, 247}
Group4 == {254}
Group5 == {255}
WithModRm == Arithmetic \union Transfer \union Group1 \union Group2 \union Group3 \union Group4 \union Group5
PushPop == 80 .. 95
Exchange == 144 .. 151
Flags == 248 .. 253
Alone == PushPop \union Exchange \union Flags \union {195, 203, 204, 241, 244, 245} \union 236 .. 239
Jcc == 112 .. 127
Short == {28, 106, 205, 235} \union Jcc \union 228 .. 231
Long == {104, 233}
MovImm == 184 .. 191
RetImm == {194, 202}
NotEncodable == 64 .. 79 \union {96, 97, 130, 206, 234}
Refused == {196, 197, 240}   \* VEX and LOCK

(* parse_0f_instruction, after 0F and after 0F 01                            *)
Alone0f == {5, 7, 162} \union 49 .. 53
Operand0f == 64 .. 79 \union 144 .. 159 \union {188, 189}
Register0f == 199
Group7Alone == {200, 201, 238, 248, 249}
RdMsrList == 198

(* The extensions of a group's opcode that are instructions                  *)
Extensions(i) ==
  CASE i.map = "0f" -> IF i.opcode = Register0f THEN {6, 7} ELSE 0 .. 7
    [] i.opcode \in Group2 -> {4, 5, 7}
    [] i.opcode \in Group3 -> {0, 2, 3, 4, 5, 7}
    [] i.opcode \in Group4 -> {0, 1}
    [] i.opcode \in Group5 -> 0 .. 6
    [] OTHER -> 0 .. 7

(* Bytes of the immediate: without, and behind, an operand                    *)
ImmediateSize(i) ==
  CASE i.map = "0f" -> 0
    [] i.opcode \in Short \union {128, 131} \union Group2 -> 1
    [] i.opcode \in Long \union {129} -> 4
    [] i.opcode \in MovImm -> IF i.rex # NoByte THEN 8 ELSE 4
    [] i.opcode \in Group3 /\ Reg(i.modrm) = 0 ->
         IF i.opcode = 246 THEN 1
         ELSE IF RexW(i) THEN 8
         ELSE IF 102 \in i.prefixes THEN 2 ELSE 4
    [] OTHER -> 0

-----------------------------------------------------------------------------
Go(next, i, n) == stage' = next /\ inst' = i /\ todo' = n /\ UNCHANGED error
Reject(how, i) == stage' = "end" /\ inst' = i /\ todo' = 0 /\ error' = how

(* A call of `next`                                                          *)
NextCall ==
  /\ stage = "idle"
  /\ IF offset = length THEN Reject("partial", Fresh) ELSE Go("prefix", Fresh, 0)
  /\ UNCHANGED <<length, offset>>

(* advance: the offset may be behind the end                                 *)
AtEnd == offset >= length

(* How an instruction ends: operand, immediate, the match on the extension   *)
Complete(i) ==
  IF i.modrm # NoByte /\ Reg(i.modrm) \notin Extensions(i) THEN Reject("invalid", i)
  ELSE Go("idle", i, 0)
EndOperand(i) ==
  IF ImmediateSize(i) = 0 THEN Complete(i) ELSE Go("immediate", i, ImmediateSize(i))
Displacement(i, n) == IF n = 0 THEN EndOperand(i) ELSE Go("displacement", i, n)

OneByteOpcode(byte) ==
  LET i == [inst EXCEPT !.opcode = byte, !.start = offset]
  IN  CASE byte = 15 -> Go("0f", [i EXCEPT !.map = "0f"], 0)
        [] byte \in WithModRm -> Go("modrm", i, 0)
        [] byte \in Alone \union Short \union Long \union MovImm -> EndOperand(i)
        [] byte \in RetImm -> Go("skip", i, 0)
        [] byte \in NotEncodable -> Reject("invalid", i)
        [] OTHER -> Reject("unsupported", i)

TwoByteOpcode(byte) ==
  LET i == [inst EXCEPT !.opcode = byte]
  IN  CASE byte = 1 -> Go("group7", i, 0)
        [] byte \in Alone0f -> Go("idle", i, 0)
        [] byte \in Operand0f \union {Register0f} -> Go("modrm", i, 0)
        [] OTHER -> Reject("unsupported", i)

GroupSeven(byte) ==
  IF byte \in Group7Alone \/ (byte = RdMsrList /\ 242 \in inst.prefixes) THEN Go("idle", inst, 0)
  ELSE Reject(IF IsMemory(byte) THEN "unsupported" ELSE "invalid", inst)

Prefix(byte) ==
  CASE byte \in {102, 242, 243} -> Go("prefix", [inst EXCEPT !.prefixes = @ \union {byte}], 0)
    [] IsRexPrefix(byte) -> Go("opcode", [inst EXCEPT !.rex = byte], 0)
    [] byte \in Refused -> Reject("unsupported", inst)
    [] OTHER -> OneByteOpcode(byte)

(* parse_rm64_operand; 0F C7 has registers only                              *)
ModRmByte(byte) ==
  LET i == [inst EXCEPT !.modrm = byte]
  IN  IF ~IsMemory(byte) \/ (i.map = "0f" /\ i.opcode = Register0f) THEN EndOperand(i)
      ELSE IF HasSib(byte) THEN Go("sib", i, 0)
      ELSE Displacement(i, DispSize(byte))

SibByte(byte) == Displacement([inst EXCEPT !.sib = byte], SibDispSize(byte, inst.modrm))

(* A byte of a displacement or an immediate                                  *)
NumberByte ==
  IF todo > 1 THEN Go(stage, inst, todo - 1)
  ELSE IF stage = "displacement" THEN EndOperand(inst) ELSE Complete(inst)

Advance ==
  /\ stage \notin {"idle", "end", "skip"}
  /\ IF AtEnd THEN Reject("partial", inst) /\ UNCHANGED offset
     ELSE /\ offset' = offset + 1
          /\ \E byte \in Bytes :
               CASE stage = "prefix" -> Prefix(byte)
                 [] stage = "opcode" -> OneByteOpcode(byte)
                 [] stage = "0f"     -> TwoByteOpcode(byte)
                 [] stage = "group7" -> GroupSeven(byte)
                 [] stage = "modrm"  -> ModRmByte(byte)
                 [] stage = "sib"    -> SibByte(byte)
                 [] OTHER -> NumberByte
  /\ UNCHANGED length

(* RET imm16 skips its operand without looking at it.                        *)
SkipImmediate ==
  /\ stage = "skip" /\ offset' = offset + 2 /\ Go("idle", inst, 0)
  /\ UNCHANGED length

DisNext == NextCall \/ Advance \/ SkipImmediate

-----------------------------------------------------------------------------
(* The length of an instruction by the rules of the encoding, not by the      *)
(* code: how many bytes the opcode has, what the ModR/M and SIB bytes ask     *)
(* for, and the immediate of the instruction.  An immediate of the operand's  *)
(* size has two bytes with the prefix 66, which REX.W overrides, and four     *)
(* otherwise; only MOV has one of eight, with REX.W.                          *)
EncodedOperand(i) ==
  LET displacement == IF Md(i.modrm) = 1 THEN 1
                      ELSE IF Md(i.modrm) = 2 \/ (Md(i.modrm) = 0 /\ 5 \in {Rm(i.modrm), i.sib % 8})
                      THEN 4 ELSE 0
  IN  IF i.modrm = NoByte THEN 0
      ELSE IF Md(i.modrm) = 3 THEN 1
      ELSE 1 + (IF Rm(i.modrm) = 4 THEN 1 ELSE 0) + displacement
EncodedImmediate(i) ==
  LET sized == IF 102 \in i.prefixes /\ ~RexW(i) THEN 2 ELSE 4
      test == i.opcode \in Group3 /\ Reg(i.modrm) = 0
  IN  CASE i.map = "0f" -> 0
        [] i.opcode \in Short \union {128, 131} \union Group2 \/ (test /\ i.opcode = 246) -> 1
        [] i.opcode \in RetImm -> 2
        [] i.opcode = 233 -> 4
        [] i.opcode \in {104, 129} \/ (test /\ i.opcode = 247) -> sized
        [] i.opcode \in MovImm -> IF RexW(i) THEN 8 ELSE sized
        [] OTHER -> 0
EncodedLength(i) ==
  (IF i.map = "one" THEN 1 ELSE IF i.opcode = 1 THEN 3 ELSE 2)
    + EncodedOperand(i) + EncodedImmediate(i)

(* Where the code departs from the encoding: any REX prefix, not only REX.W,  *)
(* gives MOV an immediate of eight bytes; TEST r/m64 is read with eight bytes *)
(* and has four; the prefix 66 is not heeded for the immediates of MOV, PUSH  *)
(* and group 1; and 0F C7 is taken to have a register where it has memory.    *)
Misread(i) ==
  \/ /\ i.map = "one"
     /\ \/ i.opcode \in MovImm /\ i.rex # NoByte /\ ~RexW(i)
        \/ i.opcode = 247 /\ Reg(i.modrm) = 0 /\ RexW(i)
        \/ i.opcode \in MovImm \union {104, 129} /\ 102 \in i.prefixes /\ ~RexW(i)
  \/ i.map = "0f" /\ i.opcode = Register0f /\ EncodedOperand(i) > 1

(* Between two calls, an instruction has taken as many bytes as its encoding  *)
(* has, so that the next one is decoded from its first byte; except for the   *)
(* instructions above, for each of which it has not.  The disassembler does   *)
(* not read behind the input, and its offset is behind it only after a RET    *)
(* imm16 whose operand is cut off; then the next call still ends the          *)
(* disassembly, though its own test for the end is an equality.               *)
DecodedLength ==
  /\ stage = "idle" /\ inst # Fresh =>
       (offset = inst.start + EncodedLength(inst) <=> ~Misread(inst))
  /\ \/ offset <= length
     \/ inst.opcode \in RetImm \union {NoByte} /\ offset <= length + 2
=============================================================================

------------------------------ MODULE ByteCode ------------------------------
(***************************************************************************)
(* The instructions the compiler writes and the virtual machine runs       *)
(* (common/inst.c). An image is a sequence of instructions; the machine    *)
(* and every jump count it in bytes: one for the instruction, four for     *)
(* each integer behind it, the size of its type for a constant.            *)
(*                                                                         *)
(* Three tables give the bytes behind an instruction, and each is a switch *)
(* of its own: what compile() adds to program->Array.number, what          *)
(* CodeWrite() writes and what the machine and its lister read.            *)
(***************************************************************************)
EXTENDS Integers, Sequences

Instr(op) == [op |-> op, a |-> 0, b |-> 0, c |-> 0]
InstrI(op, a) == [Instr(op) EXCEPT !.a = a]
InstrII(op, a, b) == [InstrI(op, a) EXCEPT !.b = b]
InstrIII(op, a, b, c) == [InstrII(op, a, b) EXCEPT !.c = c]

\* i_load, l_load, ...: the constant stands in the code
Load(type, n) == [op |-> "load", type |-> type, a |-> n]
\* i_ADD, l_LT, ...: an operation on two values of a type
Calc(type, f) == [op |-> "calc", type |-> type, f |-> f]
\* i_PRINT, l_PRINT, ...
Show(type) == [op |-> "PRINT", type |-> type]

INT == 4
sizeOf(type) == CASE type \in {"_Integer", "_Float"} -> 4
                  [] type \in {"_Long", "_Double"} -> 8
                  [] type = "_Char" -> 1
                  [] type = "_String" -> 1   \* a string of no letters: its NUL

(* manage() and the emit macros: what an instruction adds to `number', the *)
(* position every jump and call is computed from.                          *)
Counted(i) ==
  1 + CASE i.op = "load" -> sizeOf(i.type)
        [] i.op \in {"calc", "PRINT", "EOE", "EOC", "EOA", "COND", "STARTIMP",
                     "GLOBAL", "GLOBAL_END", "RET", "MPOP", "HALT"} -> 0
        [] i.op \in {"MSET", "MSUB", "GET", "GET_L", "GET_G", "DEFINE",
                     "DEFINE_L", "DEFINE_G", "ENTRY", "JUMP", "JUMPF",
                     "MKCORE", "MKTHREAD", "break", "continue"} -> INT
        [] i.op \in {"CALL", "MPICK", "TRANS", "COPYCORE", "SETTHREAD"} -> 2 * INT
        [] i.op \in {"CALL_P", "SETCORE"} -> 3 * INT
        [] i.op = "fatal" -> 0

(* CodeWrite: the integers, or the constant, it writes behind each.        *)
Written(i) ==
  1 + CASE i.op = "load" -> sizeOf(i.type)
        [] i.op \in {"CALL_P", "SETCORE"} -> INT + INT + INT
        [] i.op \in {"TRANS", "COPYCORE", "SETTHREAD", "CALL", "MPICK"} -> INT + INT
        [] i.op \in {"MKCORE", "MKTHREAD", "GET", "GET_L", "GET_G", "DEFINE",
                     "DEFINE_L", "DEFINE_G", "ENTRY", "MSUB", "MSET", "JUMPF",
                     "JUMP"} -> INT
        [] OTHER -> 0

(* printByteCode, and the cases of main_execute and sub_execute alike: the *)
(* operands they take before the next instruction.                         *)
Read(i) ==
  1 + CASE i.op = "load" -> sizeOf(i.type)
        [] i.op \in {"MKCORE", "MKTHREAD", "GET", "GET_L", "GET_G", "DEFINE",
                     "DEFINE_L", "DEFINE_G", "ENTRY", "MSUB", "MSET", "JUMPF",
                     "JUMP"} -> INT
        [] i.op \in {"TRANS", "COPYCORE", "SETTHREAD", "CALL", "MPICK"} -> 2 * INT
        [] i.op \in {"SETCORE", "CALL_P"} -> 3 * INT
        [] OTHER -> 0

(* The position behind the first n instructions of a program.              *)
Number(code) ==
  LET number[n \in 0 .. Len(code)] ==
        IF n = 0 THEN 0 ELSE number[n - 1] + Counted(code[n])
  IN  number
Bytes(code) == Number(code)[Len(code)]
=============================================================================

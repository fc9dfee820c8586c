------------------------------ MODULE ArmBits ------------------------------
(***************************************************************************)
(* Bit-field utilities, the register snapshot and the outcome builders     *)
(* shared by every handler of ARM_decode_table.c.                          *)
(*                                                                         *)
(* Instruction words are kept at their real 32 bits, as functions from bit *)
(* positions to {0,1}: the handlers only ever read them through bit() and  *)
(* bitrng().  Register contents (data words) are W-bit unsigned integers:  *)
(* TLC's integers stop at 2^31, so the data path of the 32-bit build is    *)
(* run at width W, and every 32-bit constant of the code is scaled with it *)
(* (0xffffffff = Ones, bit 31 = bit W-1, a shift by 32 = a shift by W,     *)
(* a "& 0x1f" shift mask = "% W").                                         *)
(*                                                                         *)
(* bit(), bitrng(), sx32(), will_branch() and the set_*_addr() builders    *)
(* other than set_addr_lin() live in instr_util.c, which is not part of    *)
(* the sources: they are modelled from the spec (sections 2, 3, 4.3).      *)
(***************************************************************************)
EXTENDS Integers, Bitwise

CONSTANT W            \* data word width of the model (32 in the build)
ASSUME W \in {8, 16}

WordLimit == 2^W
Word == 0 .. WordLimit - 1
Ones == WordLimit - 1                      \* (~0), 0xffffffff
U(x) == x % WordLimit                      \* arithmetic on unsigned int wraps
SInt(x) == IF x >= 2^(W-1) THEN x - WordLimit ELSE x   \* (int) cast
BNot(x) == Ones - x                        \* ~x

(* Shifts as the ARM build executes them: a register shift by W or more    *)
(* yields 0 (LSL/LSR) or the sign fill (ASR), the A32 shifter's behaviour  *)
(* for the C shifts whose count reaches the word width.                    *)
Shl(x, n) == IF n >= W THEN 0 ELSE (x % 2^(W - n)) * 2^n
Shr(x, n) == IF n >= W THEN 0 ELSE x \div 2^n
Asr(x, n) == U(SInt(x) \div 2^(IF n >= W THEN W - 1 ELSE n))

(* Logical || of two words, as C evaluates it: 0 or 1.                      *)
LogOr(a, b) == IF a # 0 \/ b # 0 THEN 1 ELSE 0

wbit(x, k) == (x \div 2^k) % 2
wbitrng(x, h, l) == (x \div 2^l) % 2^(h - l + 1)

-----------------------------------------------------------------------------
(* 32-bit instruction words.                                               *)
InstrWord == [0 .. 31 -> {0, 1}]

bit(instr, k) == instr[k]
RECURSIVE BitsFrom(_, _, _)
BitsFrom(instr, h, l) == IF h < l THEN 0
                         ELSE instr[h] * 2^(h - l) + BitsFrom(instr, h - 1, l)
bitrng(instr, h, l) == BitsFrom(instr, h, l)

(* sx32(instr, h, l): the field h..l sign-extended, as a (signed) int.      *)
sx32(instr, h, l) == bitrng(instr, h, l) - instr[h] * 2^(h - l + 1)

(* A 32-bit constant written as two 16-bit halves, e.g. Hex32(\h0FE0, 0).  *)
Hex32(hi, lo) == [k \in 0 .. 31 |-> IF k < 16 THEN (lo \div 2^k) % 2
                                               ELSE (hi \div 2^(k - 16)) % 2]

(* An instruction assembled from fields <<high bit, low bit, value>> that  *)
(* together cover bits 31..0.                                              *)
Encode(fields) ==
    [k \in 0 .. 31 |->
        LET f == CHOOSE f \in {fields[j] : j \in DOMAIN fields} :
                     f[2] <= k /\ k <= f[1]
        IN (f[3] \div 2^(k - f[2])) % 2]

-----------------------------------------------------------------------------
(* The register snapshot rpi2_reg_context: storage[0..15] (r15 = PC), and  *)
(* the fields of CPSR / SPSR the decoder reads: mode = bits 4-0, T = bit 5,*)
(* GE[3:0] = bits 19-16, N Z C V = bits 31-28.                              *)
Modes == [usr |-> 16, fiq |-> 17, irq |-> 18, svc |-> 19, mon |-> 22,
          abt |-> 23, hyp |-> 26, und |-> 27, sys |-> 31]
PSR == [mode : {Modes[m] : m \in DOMAIN Modes},
        n : {0, 1}, z : {0, 1}, c : {0, 1}, v : {0, 1}, t : {0, 1}, ge : 0 .. 15]
(* rpi2_neon_context.storage as words: S0-S3 (= D0, D1) of the register  *)
(* file; a word holds four bytes of W/4 bits, a halfword W/2 bits.         *)
NeonWords == 0 .. 3
(* Target memory, read by the load handlers through unsigned char and    *)
(* unsigned int pointer casts of a computed address: bytes of W/4 bits at *)
(* every address of the W-bit space.                                        *)
ByteBits == W \div 4
MemByte == 0 .. 2^ByteBits - 1
(* The security state and the control bits the status and exception     *)
(* handlers read through get_security_state(), get_NSACR() bit 19 (RFR),   *)
(* get_SCR() bits 0 (NS), 7 (SCD) and 8 (HCE), and get_HCR() bits 19      *)
(* (TSC) and 27 (TGE).                                                      *)
Security == [secure : {0, 1}, rfr : {0, 1}, ns : {0, 1}, scd : {0, 1}, hce : {0, 1},
             tsc : {0, 1}, tge : {0, 1}]
Context == [r : [0 .. 15 -> Word], cpsr : PSR, spsr : PSR, neon : [NeonWords -> Word],
            mem : [Word -> MemByte], sec : Security]

(* Operand read "tmp = storage[n]; if (n == 15) tmp += 8;": the PC reads   *)
(* two words ahead.                                                        *)
ReadReg(ctx, n) == IF n = 15 THEN U(ctx.r[15] + 8) ELSE ctx.r[n]

(* will_branch(instr): the condition field against CPSR.NZCV; 1111 is the  *)
(* unconditional space and always passes.                                  *)
will_branch(instr, cpsr) ==
    LET cond == bitrng(instr, 31, 28)
        base == CASE cond \div 2 = 0 -> cpsr.z = 1
                  [] cond \div 2 = 1 -> cpsr.c = 1
                  [] cond \div 2 = 2 -> cpsr.n = 1
                  [] cond \div 2 = 3 -> cpsr.v = 1
                  [] cond \div 2 = 4 -> cpsr.c = 1 /\ cpsr.z = 0
                  [] cond \div 2 = 5 -> cpsr.n = cpsr.v
                  [] cond \div 2 = 6 -> cpsr.z = 0 /\ cpsr.n = cpsr.v
                  [] OTHER           -> TRUE
    IN IF cond % 2 = 1 /\ cond # 15 THEN ~base ELSE base

-----------------------------------------------------------------------------
(* instr_next_addr_t and its builders.                                     *)
Flags == {"ARM", "THUMB", "UNDEF"}
Result == [address : Word, flag : Flags, unpred : BOOLEAN]

set_addr_lin == [address |-> Ones, flag |-> "ARM", unpred |-> FALSE]
set_arm_addr(a) == [address |-> a, flag |-> "ARM", unpred |-> FALSE]
set_thumb_addr(a) == [address |-> a, flag |-> "THUMB", unpred |-> FALSE]
set_undef_addr == [address |-> Ones, flag |-> "UNDEF", unpred |-> FALSE]
set_unpred_addr(r) == [r EXCEPT !.unpred = TRUE]

(* The low-bit state selection repeated in the data-processing and load   *)
(* handlers: bit 0 set -> Thumb, bits 1-0 clear -> ARM, else Thumb flagged *)
(* UNPREDICTABLE.                                                          *)
Interwork(a) ==
    IF wbit(a, 0) = 1 THEN set_thumb_addr(a)
    ELSE IF a % 4 = 0 THEN set_arm_addr(a)
    ELSE set_unpred_addr(set_thumb_addr(a))
=============================================================================

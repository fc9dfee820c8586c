---------------------------- MODULE ArmDataMisc ----------------------------
(***************************************************************************)
(* arm_core_data_misc(): MOVW/MOVT, CLZ, BFC/BFI, RBIT, REV/REV16/REVSH,   *)
(* SBFX/UBFX, SEL and USAD8/USADA8.  Every case computes only when bits    *)
(* 15-12 (its Rd, as the code reads it) are the PC, and then flags the     *)
(* result UNPREDICTABLE; otherwise it is linear.  At width W a byte is     *)
(* W/4 bits (ByteBits) and a halfword W/2, so "0x0000ff00" is byte 1 and   *)
(* "(~0) << 16" is Shl(Ones, 2 * ByteBits).                                *)
(***************************************************************************)
EXTENDS ArmBits

(* bits(instr, 0x000f0fff) of instr_util.c: the masked bits packed        *)
(* together, imm4:imm12.                                                   *)
MovImm16(instr) == bitrng(instr, 19, 16) * 2^12 + bitrng(instr, 11, 0)

(* A C shift "x << n" by a variable count, as the A32 LSL by register      *)
(* executes it: the count's bottom byte, and 0 from W on.  A negative      *)
(* count (msb < lsb) is the unsigned wrap-around of the C expression.      *)
LslReg(x, n) == Shl(x, n % 256)

(* "tmp4 = (~0) << width; tmp4 = (~tmp4) << lsb": the pick mask of a field.*)
PickMask(width, lsb) == LslReg(BNot(LslReg(Ones, width)), lsb)

(* Mutant: the bit tested one position too low.                           *)
RECURSIVE LeadingZeros_low(_, _)
LeadingZeros_low(x, k) ==
    IF k = W \/ (k < W - 1 /\ wbit(x, W - 2 - k) = 1) THEN k ELSE LeadingZeros_low(x, k + 1)

(* The CLZ loop: "for (tmp3 = 0; tmp3 < 32; tmp3++) if (tmp2 & (1 <<      *)
(* (31 - tmp3))) break;".                                                  *)
RECURSIVE LeadingZeros(_, _)
LeadingZeros(x, k) ==
    IF k = W \/ wbit(x, W - 1 - k) = 1 THEN k ELSE LeadingZeros(x, k + 1)

(* One stage of the RBIT swap network: blocks of s bits trade places with *)
(* their neighbours ("((x & 0xaaaaaaaa) >> 1) | ((x & 0x55555555) << 1)"  *)
(* for s = 1).  HiBlocks(s) is the 0xaaaaaaaa, 0xcccccccc, ... mask.       *)
RECURSIVE BlockMask(_, _)
BlockMask(s, k) == IF k = W THEN 0 ELSE ((k \div s) % 2) * 2^k + BlockMask(s, k + 1)
HiBlocks(s) == BlockMask(s, 0)
SwapStage(x, s) == Shr(x & HiBlocks(s), s) | Shl(x & BNot(HiBlocks(s)), s)

(* Mutant: the network stops before the last stage (the half-word swap).  *)
RECURSIVE Rbit_short(_, _)
Rbit_short(x, s) == IF 2 * s >= W THEN x ELSE Rbit_short(SwapStage(x, s), 2 * s)

(* The stages for s = 1, 2, 4, ... W/2 (five of them at W = 32).           *)
RECURSIVE Rbit(_, _)
Rbit(x, s) == IF s >= W THEN x ELSE Rbit(SwapStage(x, s), 2 * s)

(* Rbit over every word, computed once (TLC evaluates a constant function *)
(* a single time; the nested bitwise recursion is slow to re-evaluate).    *)
RbitOf == [x \in Word |-> Rbit(x, 1)]

(* Byte k of a word, and a word of four bytes.                             *)
ByteOf(x, k) == wbitrng(x, ByteBits * (k + 1) - 1, ByteBits * k)
ByteAt(b, k) == b * 2^(ByteBits * k)

(* REVSH: the sign from bit 7, then the two low bytes swapped.             *)
Revsh(x) ==
    (IF wbit(x, ByteBits - 1) = 1 THEN Shl(Ones, 2 * ByteBits) ELSE 0)
    + ByteAt(ByteOf(x, 0), 1) + ByteOf(x, 1)

(* SBFX/UBFX: the field widthm1 + 1 wide at lsb, shifted down, and for    *)
(* SBFX sign-extended from its top bit.                                    *)
BitFieldExtract(instr, extra, x) ==
    LET w == bitrng(instr, 20, 16)
        lsb == bitrng(instr, 11, 7)
        v == Shr(x & PickMask(w + 1, lsb), lsb)
    IN IF extra = "arm_cmisc_sbfx" /\ wbit(v, w) = 1 THEN v | LslReg(Ones, w + 1) ELSE v

(* SEL: byte k from Rn if CPSR.GE[k] is set, else from Rm.                 *)
Sel(ge, rn, rm) ==
    LET pick(k) == IF wbit(ge, k) = 1 THEN ByteOf(rn, k) ELSE ByteOf(rm, k)
    IN ByteAt(pick(3), 3) + ByteAt(pick(2), 2) + ByteAt(pick(1), 1) + pick(0)

(* USAD8: the sum of the four absolute byte differences.                   *)
Sad(a, b) ==
    LET d(k) == IF ByteOf(b, k) < ByteOf(a, k) THEN ByteOf(a, k) - ByteOf(b, k)
                ELSE ByteOf(b, k) - ByteOf(a, k)
    IN d(0) + d(1) + d(2) + d(3)

(* The value each case computes with bits 15-12 = PC.  The MOVT branch     *)
(* tests "instr == arm_cmisc_movt", an instruction word against an enum    *)
(* value, so MOVT returns the immediate like MOVW.  BFC and BFI read the    *)
(* PC as Rd (+ 8); BFI inserts bits lsb..msb of Rn (bits 3-0), not its low *)
(* bits.  USAD8/USADA8 take Rm from 11-8 and Rn from 3-0, and USADA8 adds *)
(* storage[15] as Ra.                                                       *)
MiscValue(instr, extra, ctx) ==
    LET msb == bitrng(instr, 20, 16)
        lsb == bitrng(instr, 11, 7)
        pc == ReadReg(ctx, 15)
        rm == ReadReg(ctx, bitrng(instr, 3, 0))
    IN CASE extra \in {"arm_cmisc_movw", "arm_cmisc_movt"} -> U(MovImm16(instr))
         [] extra = "arm_cmisc_clz" -> LeadingZeros(rm, 0)
         [] extra = "arm_cmisc_bfc" -> pc & BNot(PickMask(msb - lsb + 1, lsb))
         [] extra = "arm_cmisc_bfi" ->
              (pc & BNot(PickMask(msb - lsb + 1, lsb))) | (rm & PickMask(msb - lsb + 1, lsb))
         [] extra = "arm_cmisc_rbit" -> RbitOf[rm]
         [] extra = "arm_cmisc_revsh" -> Revsh(rm)
         [] extra \in {"arm_cmisc_sbfx", "arm_cmisc_ubfx"} -> BitFieldExtract(instr, extra, rm)
         [] extra = "arm_cmisc_sel" ->
              Sel(ctx.cpsr.ge, ReadReg(ctx, bitrng(instr, 19, 16)), rm)
         [] extra = "arm_cmisc_usad8" -> Sad(ReadReg(ctx, bitrng(instr, 11, 8)), rm)
         [] extra = "arm_cmisc_usada8" ->
              U(Sad(ReadReg(ctx, bitrng(instr, 11, 8)), rm) + ctx.r[15])

MiscExtras == {"arm_cmisc_movw", "arm_cmisc_movt", "arm_cmisc_clz", "arm_cmisc_bfc",
               "arm_cmisc_bfi", "arm_cmisc_rbit", "arm_cmisc_revsh", "arm_cmisc_sbfx",
               "arm_cmisc_ubfx", "arm_cmisc_sel", "arm_cmisc_usad8", "arm_cmisc_usada8"}

(* REV and REV16 compute the reversed word but never call set_arm_addr:   *)
(* the flag is overlaid on the initial set_undef_addr().  The default      *)
(* case leaves that undef unflagged.                                        *)
arm_core_data_misc(instr, extra, ctx) ==
    CASE extra \notin MiscExtras \cup {"arm_cmisc_rev", "arm_cmisc_rev16"} -> set_undef_addr
      [] bitrng(instr, 15, 12) # 15 -> set_addr_lin
      [] extra \in {"arm_cmisc_rev", "arm_cmisc_rev16"} -> set_unpred_addr(set_undef_addr)
      [] OTHER -> set_unpred_addr(set_arm_addr(MiscValue(instr, extra, ctx)))
=============================================================================

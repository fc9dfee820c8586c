------------------------------- MODULE ArmVfp -------------------------------
(***************************************************************************)
(* arm_vfp_xfer_reg(): the VFP/NEON core-register transfers VMOV (two     *)
(* singles, doubleword, single, scalar), VDUP, VMRS and VMSR.  The        *)
(* handler collects "und" and "unp" counts and applies them last:          *)
(* UNDEFINED wins, otherwise UNPREDICTABLE is or-ed onto the result.  The *)
(* system registers VMRS reads with inline assembly are a parameter       *)
(* (sysreg): any value the hardware may hold.                             *)
(***************************************************************************)
EXTENDS ArmBits

HalfWord == W \div 2

(* Mutant: Dn taken as a word index, storage[Dn] for storage[Dn * 2].    *)
DByte_word(ctx, n, k) ==
    (ctx.neon[n + k \div 4] \div 2^(ByteBits * (k % 4))) % 2^ByteBits

(* Byte k of doubleword Dn, read as a byte array from storage[Dn * 2].  *)
DByte(ctx, n, k) ==
    (ctx.neon[2 * n + k \div 4] \div 2^(ByteBits * (k % 4))) % 2^ByteBits

(* instr_util.c: sign extension of a byte and of a halfword to a word.    *)
instr_util_signx_byte(x) == IF x >= 2^(ByteBits - 1) THEN U(x - 2^ByteBits) ELSE x
instr_util_signx_short(x) == IF x >= 2^(HalfWord - 1) THEN U(x - 2^HalfWord) ELSE x

(* "if (und) ...; else if (unp) ...": the counts applied to a result.      *)
Finish(r, und, unp) ==
    IF und THEN set_undef_addr ELSE IF unp THEN set_unpred_addr(r) ELSE r

(* VMOV between two core registers and two singles (ss) or a doubleword.  *)
(* The register index tmp3 is only used for a read whose value is never   *)
(* returned; its "== 31" test is kept because it sets unp.                 *)
VmovPair(instr, extra) ==
    LET t == bitrng(instr, 15, 12)
        t2 == bitrng(instr, 19, 16)
        toArm == bit(instr, 20) = 1
        ssIndex == bitrng(instr, 7, 0) * 2 + bit(instr, 5)
        unp == \/ toArm /\ t = t2
               \/ extra = "arm_vfpxfer_vmov_ss" /\ ssIndex = 31
               \/ 15 \in {t, t2}
        r == IF 15 \in {t, t2} /\ toArm THEN set_undef_addr ELSE set_addr_lin
    IN Finish(r, FALSE, unp)

(* VMRS to the PC of FPSID, MVFR1, MVFR0 or FPEXC: the register's value,  *)
(* flagged; of FPSCR (reg 1): unflagged; of any other register: UNDEFINED. *)
VmrsR(instr, sysreg) ==
    IF bitrng(instr, 15, 12) # 15 THEN set_addr_lin
    ELSE CASE bitrng(instr, 19, 16) \in {0, 6, 7, 8} -> set_unpred_addr(set_arm_addr(sysreg))
           [] bitrng(instr, 19, 16) = 1 -> set_arm_addr(sysreg)
           [] OTHER -> set_undef_addr

(* VMOV core register to scalar (dx, falling through) and scalar to core  *)
(* register (dt_dx): the lane is selected by opc1 (22-21) and opc2 (6-5),  *)
(* and read as one byte of Dn (bits 19-16) at the lane index.             *)
VmovScalar(instr, extra, ctx) ==
    LET t == bitrng(instr, 15, 12)
        opc1 == bitrng(instr, 22, 21)
        opc2 == bitrng(instr, 6, 5)
        n == bitrng(instr, 19, 16)
        uns == bit(instr, 23) = 1
        undDx == extra = "arm_vfpxfer_vmov_dx" /\ bit(instr, 22) = 0 /\ opc2 = 2
        undLane == opc1 < 2 /\ opc2 % 2 = 0 /\ (opc2 >= 2 \/ uns)
        val == CASE opc1 >= 2 ->
                      LET b == DByte(ctx, n, (opc1 % 2) * 4 + opc2)
                      IN IF uns THEN b ELSE instr_util_signx_byte(b)
                 [] opc2 % 2 = 1 ->
                      LET b == DByte(ctx, n, (opc1 % 2) * 2 + opc2 \div 2)
                      IN IF uns THEN b ELSE instr_util_signx_short(b)
                 [] OTHER -> DByte(ctx, n, opc1 % 2)
    IN IF undDx \/ undLane THEN set_undef_addr
       ELSE IF t = 15 THEN set_unpred_addr(set_arm_addr(val))
       ELSE set_addr_lin

arm_vfp_xfer_reg(instr, extra, ctx, sysreg) ==
    LET t == bitrng(instr, 15, 12)
    IN CASE extra \in {"arm_vfpxfer_vmov_d", "arm_vfpxfer_vmov_ss"} -> VmovPair(instr, extra)
         [] extra = "arm_vfpxfer_vmrs_fpscr" -> set_addr_lin
         [] extra \in {"arm_vfpxfer_vmsr_fpscr", "arm_vfpxfer_vmsr_r"} ->
                Finish(set_addr_lin, FALSE, t = 15)
         [] extra = "arm_vfpxfer_vmrs_r" -> VmrsR(instr, sysreg)
         [] extra = "arm_vfpxfer_vdup" ->
                Finish(set_addr_lin, bit(instr, 22) = 1 /\ bit(instr, 5) = 1, FALSE)
         [] extra \in {"arm_vfpxfer_vmov_dx", "arm_vfpxfer_vmov_dt_dx"} ->
                VmovScalar(instr, extra, ctx)
         [] extra = "arm_vfpxfer_vmov_s" ->
                IF bit(instr, 20) = 1 /\ t = 15
                THEN set_arm_addr(ctx.neon[bitrng(instr, 19, 16)])
                ELSE set_addr_lin
         [] OTHER -> set_undef_addr
=============================================================================

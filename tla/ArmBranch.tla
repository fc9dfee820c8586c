----------------------------- MODULE ArmBranch -----------------------------
(***************************************************************************)
(* arm_branch(): B, BL, BLX (immediate) and BX, BLX, BXJ (register).       *)
(***************************************************************************)
EXTENDS ArmBits

(* Mutant: the target kept at full width, without the truncation of the   *)
(* (unsigned int) result to the word.                                      *)
BranchTarget_wide(instr, ctx) == ctx.r[15] + 8 + sx32(instr, 23, 0) * 4

(* Target of B/BL: (int)r15 + 8 + (sx32(instr, 23, 0) << 2).             *)
BranchTarget(instr, ctx) == U(ctx.r[15] + 8 + sx32(instr, 23, 0) * 4)

(* Target of BLX (immediate): the H bit (24) supplies address bit 1.      *)
BlxTarget(instr, ctx) ==
    U(ctx.r[15] + 8 + (U(sx32(instr, 23, 0) * 4) + bit(instr, 24) * 2))

(* BX/BLX/BXJ: bit 0 of Rm selects Thumb, bits 1-0 = 00 ARM, 10 neither;   *)
(* Rm = PC is always UNPREDICTABLE.                                        *)
BranchExchange(instr, ctx) ==
    LET a == ctx.r[bitrng(instr, 3, 0)]
        r == IF wbit(a, 0) = 1 THEN set_thumb_addr(a - 1)
             ELSE IF wbit(a, 1) = 0 THEN set_arm_addr(a - (a % 4))
             ELSE set_unpred_addr(set_addr_lin)
    IN IF bitrng(instr, 3, 0) = 15 THEN set_unpred_addr(r) ELSE r

(* Mutant: the will_branch() test left out.                                *)
arm_branch_nocond(instr, extra, ctx) ==
    CASE extra \in {"arm_bra_b_lbl", "arm_bra_bl_lbl"} ->
              set_arm_addr(BranchTarget(instr, ctx))
      [] extra = "arm_bra_blx_lbl" -> set_thumb_addr(BlxTarget(instr, ctx))
      [] extra \in {"arm_bra_bx_r", "arm_bra_blx_r", "arm_bra_bxj_r"} ->
              BranchExchange(instr, ctx)
      [] OTHER -> set_undef_addr

arm_branch(instr, extra, ctx) ==
    IF ~will_branch(instr, ctx.cpsr) THEN set_addr_lin
    ELSE CASE extra \in {"arm_bra_b_lbl", "arm_bra_bl_lbl"} ->
                  set_arm_addr(BranchTarget(instr, ctx))
           [] extra = "arm_bra_blx_lbl" ->
                  set_thumb_addr(BlxTarget(instr, ctx))
           [] extra \in {"arm_bra_bx_r", "arm_bra_blx_r", "arm_bra_bxj_r"} ->
                  BranchExchange(instr, ctx)
           [] OTHER -> set_undef_addr
=============================================================================

------------------------------- MODULE ArmPar -------------------------------
(***************************************************************************)
(* arm_core_data_par(): the 36 parallel add/subtract forms, a prefix (Q,   *)
(* S, SH signed; U, UQ, UH unsigned) and a kind (ADD16, SUB16, ASX, SAX,   *)
(* ADD8, SUB8).  Rn = bits 19-16, Rd = 15-12, Rm = 3-0.  Only Rd = PC      *)
(* computes, and the result is then always flagged UNPREDICTABLE.  At      *)
(* width W the halfwords are HalfBits wide and the bytes ByteBits, so the  *)
(* 16 of "instr_util_ssat(x, 16)" is HalfBits and the 8 ByteBits.          *)
(***************************************************************************)
EXTENDS ArmPack, Sequences

(* instr_util.c: instr_util_signx_byte() as the int the cases store, and  *)
(* four bytes packed into a word.                                          *)
SignedByte(b) == IF b >= 2^(ByteBits - 1) THEN b - 2^ByteBits ELSE b
instr_util_ustuffs8(b3, b2, b1, b0) ==
    (b3 % 2^ByteBits) * 2^(3 * ByteBits) + (b2 % 2^ByteBits) * 2^(2 * ByteBits)
    + (b1 % 2^ByteBits) * 2^ByteBits + (b0 % 2^ByteBits)
instr_util_ustuffu8(b3, b2, b1, b0) == instr_util_ustuffs8(b3, b2, b1, b0)

ParPrefixes == {"q", "s", "sh", "u", "uq", "uh"}
ParKinds == {"add16", "sub16", "asx", "sax", "add8", "sub8"}
ParExtras == {"arm_par_" \o p \o k : p \in ParPrefixes, k \in ParKinds}
ParPrefix(extra) == CHOOSE p \in ParPrefixes : \E k \in ParKinds : extra = "arm_par_" \o p \o k
ParKind(extra) == CHOOSE k \in ParKinds : \E p \in ParPrefixes : extra = "arm_par_" \o p \o k
ParSigned(p) == p \in {"q", "s", "sh"}

(* Lane k of a word as the cases read it: instr_util_shgethi/shgetlo and  *)
(* instr_util_signx_byte for the signed prefixes, "(x >> 16) & 0xffff" and *)
(* "(x >> 8) & 0xff" for the unsigned.                                     *)
HalfLane(p, x, k) ==
    CASE ParSigned(p) /\ k = 1 -> instr_util_shgethi(x)
      [] ParSigned(p) -> instr_util_shgetlo(x)
      [] OTHER -> wbitrng(x, HalfBits * (k + 1) - 1, HalfBits * k)
ByteLane(p, x, k) ==
    LET b == wbitrng(x, ByteBits * (k + 1) - 1, ByteBits * k)
    IN IF ParSigned(p) THEN SignedByte(b) ELSE b

(* Mutant: the signed halving as a division rounding toward zero.         *)
ParAdjust_trunc(p, v, bits) ==
    CASE p = "q" -> instr_util_ssat(v, bits)
      [] p = "uq" -> instr_util_usat(SInt(U(v)), bits)
      [] p = "sh" -> IF v < 0 THEN -((-v) \div 2) ELSE v \div 2
      [] p = "uh" -> Shr(U(v), 1)
      [] OTHER -> v

(* What a prefix does to a lane's sum or difference v: Q saturates it in  *)
(* int; UQ saturates the unsigned int result read back as int; SH shifts   *)
(* the int right (arithmetic); UH shifts the unsigned int, wrapped below 0,*)
(* right; S and U keep it, the packing drops the carry.                    *)
ParAdjust(p, v, bits) ==
    CASE p = "q" -> instr_util_ssat(v, bits)
      [] p = "uq" -> instr_util_usat(SInt(U(v)), bits)
      [] p = "sh" -> v \div 2
      [] p = "uh" -> Shr(U(v), 1)
      [] OTHER -> v

(* The halfword results <<high, low>> as the cases form them: SHSUB16      *)
(* adds ("stmp1 = shgethi + shgethi"); ASX puts Rn.lo + Rm.hi high and     *)
(* Rn.hi - Rm.lo low; SAX forms Rn.hi + Rm.lo and Rn.lo - Rm.hi and packs  *)
(* them high, low except QSAX and SSAX, which pack (stmp2, stmp1).         *)
Par16Pair(extra, n, m) ==
    LET p == ParPrefix(extra)
        nH == HalfLane(p, n, 1)
        nL == HalfLane(p, n, 0)
        mH == HalfLane(p, m, 1)
        mL == HalfLane(p, m, 0)
    IN CASE ParKind(extra) = "add16" \/ extra = "arm_par_shsub16" -> <<nH + mH, nL + mL>>
         [] ParKind(extra) = "sub16" -> <<nH - mH, nL - mL>>
         [] ParKind(extra) = "asx" -> <<nL + mH, nH - mL>>
         [] p \in {"q", "s"} -> <<nL - mH, nH + mL>>
         [] OTHER -> <<nH + mL, nL - mH>>

(* tmp4 of a case: the lanes adjusted by the prefix and packed.            *)
ParValue(extra, n, m) ==
    LET p == ParPrefix(extra)
        b(k) == ParAdjust(p, IF ParKind(extra) = "add8"
                             THEN ByteLane(p, n, k) + ByteLane(p, m, k)
                             ELSE ByteLane(p, n, k) - ByteLane(p, m, k), ByteBits)
        h == Par16Pair(extra, n, m)
    IN IF ParKind(extra) \in {"add8", "sub8"}
       THEN instr_util_ustuffs8(b(3), b(2), b(1), b(0))
       ELSE instr_util_ustuffs16(ParAdjust(p, h[1], HalfBits), ParAdjust(p, h[2], HalfBits))

(* Rd = PC: Rn and Rm read with PC + 8; the default case ("shouldn't get  *)
(* here") leaves tmp4 unassigned, a garbage value.                         *)
arm_core_data_par(instr, extra, ctx, garbage) ==
    IF bitrng(instr, 15, 12) # 15 THEN set_addr_lin
    ELSE set_unpred_addr(set_arm_addr(
             IF extra \in ParExtras
             THEN ParValue(extra, ReadReg(ctx, bitrng(instr, 19, 16)),
                           ReadReg(ctx, bitrng(instr, 3, 0)))
             ELSE garbage))
=============================================================================

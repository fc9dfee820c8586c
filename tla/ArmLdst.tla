------------------------------- MODULE ArmLdst -------------------------------
(***************************************************************************)
(* arm_core_ldst(): LDR/STR/LDRB/STRB and the unprivileged ...T forms,     *)
(* with an immediate or a shifted-register offset.  Rn = bits 19-16, Rt = *)
(* 15-12, Rm = 3-0; I = bit 25, P U B W L = bits 24-20.  Only a PC base or *)
(* a PC transfer register computes; loads read the memory snapshot.        *)
(***************************************************************************)
EXTENDS ArmBits

(* The byte and the word read through an unsigned char or unsigned int  *)
(* pointer cast of address a: the word is four bytes from a, little-end. *)
LoadByte(ctx, a) == ctx.mem[a]
LoadWord(ctx, a) ==
    LoadByte(ctx, a) + LoadByte(ctx, U(a + 1)) * 2^ByteBits
    + LoadByte(ctx, U(a + 2)) * 2^(2 * ByteBits) + LoadByte(ctx, U(a + 3)) * 2^(3 * ByteBits)
(* "if (bit(instr, 22)) byte else word".                                   *)
LdstLoad(instr, ctx, a) ==
    IF bit(instr, 22) = 1 THEN LoadByte(ctx, a) ELSE LoadWord(ctx, a)

(* The register offset, Rm read without the PC's + 8 and shifted by the    *)
(* switch on bits 6-5: LSR #0 is 0, ASR #0 is ASR #31, ROR #0 is RRX, and  *)
(* ROR #n merges its halves with || through the mask (~0) << n.            *)
LdstRegOffset(instr, ctx) ==
    LET x == ctx.r[bitrng(instr, 3, 0)]
        n == bitrng(instr, 11, 7)
        mask == Shl(Ones, n)
    IN CASE bitrng(instr, 6, 5) = 0 -> Shl(x, n)
         [] bitrng(instr, 6, 5) = 1 -> IF n = 0 THEN 0 ELSE Shr(x, n)
         [] bitrng(instr, 6, 5) = 2 -> Asr(x, IF n = 0 THEN W - 1 ELSE n)
         [] OTHER ->
              IF n = 0 THEN Shr(x, 1) + ctx.cpsr.c * 2^(W - 1)
              ELSE LogOr(Shr(x, n) & BNot(mask), Shl(x, W - n) & mask)

(* Mutant: post-indexing reads the updated address, as pre-indexing does. *)
LdstTarget_postupd(instr, ctx, off) ==
    LET n == bitrng(instr, 19, 16)
        t == bitrng(instr, 15, 12)
        a == IF bit(instr, 23) = 1 THEN U(ctx.r[n] + off) ELSE U(ctx.r[n] - off)
        pw == bit(instr, 24) * 2 + bit(instr, 21)
        v == IF bit(instr, 20) = 1 THEN LdstLoad(instr, ctx, a) ELSE ctx.r[t]
    IN CASE pw = 0 -> set_arm_addr(IF n = 15 THEN a ELSE v)
         [] pw \in {1, 2} -> IF t = 15 THEN set_arm_addr(v) ELSE set_addr_lin
         [] OTHER -> LET v0 == IF a = 15 THEN a ELSE ctx.r[t]
                         v3 == IF t = 15 /\ bit(instr, 20) = 1 THEN v ELSE v0
                     IN IF v3 = ctx.r[t] THEN set_addr_lin ELSE set_arm_addr(v3)

(* The switch on bits(instr, 0x01200000), P:W, once Rn or Rt is the PC.    *)
(* a is Rn's snapshot value (no + 8) plus or minus the offset (U).          *)
(* 0, post-indexing: the updated base when Rn is the PC, else the word     *)
(* loaded from (Rn), or for a store the unchanged Rt.  1 and 2, user and   *)
(* offset: with Rt = PC the word loaded from a (or the unchanged Rt),      *)
(* otherwise linear.  3, pre-indexing: "if (tmp3 == 15)" compares the      *)
(* address with 15; a loaded value equal to the old Rt counts as linear.   *)
LdstTarget(instr, ctx, off) ==
    LET n == bitrng(instr, 19, 16)
        t == bitrng(instr, 15, 12)
        a == IF bit(instr, 23) = 1 THEN U(ctx.r[n] + off) ELSE U(ctx.r[n] - off)
        pw == bit(instr, 24) * 2 + bit(instr, 21)
        load(addr) == IF bit(instr, 20) = 1 THEN LdstLoad(instr, ctx, addr) ELSE ctx.r[t]
    IN CASE pw = 0 -> set_arm_addr(IF n = 15 THEN a ELSE load(ctx.r[n]))
         [] pw \in {1, 2} -> IF t = 15 THEN set_arm_addr(load(a)) ELSE set_addr_lin
         [] OTHER -> LET v0 == IF a = 15 THEN a ELSE ctx.r[t]
                         v == IF t = 15 /\ bit(instr, 20) = 1 THEN load(a) ELSE v0
                     IN IF v = ctx.r[t] THEN set_addr_lin ELSE set_arm_addr(v)

(* unp counts "wback && n == t" from W alone, and for the register form,   *)
(* once the PC is involved, "wback && n == 15" tested on Rt and m == 15.   *)
(* A result other than the linear sentinel address goes through the low-   *)
(* bit state selection, so a target equal to 0xffffffff stays linear.      *)
arm_core_ldst(instr, ctx) ==
    LET n == bitrng(instr, 19, 16)
        t == bitrng(instr, 15, 12)
        wb == bit(instr, 21) = 1
        reg == bit(instr, 25) = 1
        pcInvolved == 15 \in {n, t}
        unp == \/ wb /\ n = t
               \/ pcInvolved /\ reg /\ ((wb /\ t = 15) \/ bitrng(instr, 3, 0) = 15)
        off == IF reg THEN LdstRegOffset(instr, ctx) ELSE bitrng(instr, 11, 0)
        r == IF pcInvolved THEN LdstTarget(instr, ctx, off) ELSE set_addr_lin
        r2 == IF r.address # Ones THEN Interwork(r.address) ELSE r
    IN IF unp THEN set_unpred_addr(r2) ELSE r2
=============================================================================

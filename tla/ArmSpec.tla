------------------------------ MODULE ArmSpec ------------------------------
(***************************************************************************)
(* The architectural next-PC of the A32 instructions the decoder is asked  *)
(* about, written from spec.md (sections 3, 4.3, 4.5, 8) and the ARM       *)
(* Architecture Reference Manual, independently of ARM_decode_table.c.     *)
(*                                                                         *)
(* An instruction is an architectural record (an "op"): its class and its  *)
(* fields.  OpInstr(op) assembles the 32-bit word the decoder receives,    *)
(* ArchOutcome(op, ctx) is what the next PC must be, and Conforms(r, a)    *)
(* says when a decoder result r is an acceptable report of outcome a.     *)
(***************************************************************************)
EXTENDS ArmBits, FiniteSets

AL == 14                                   \* the "always" condition

(* The data-processing opcodes, bits 24-21.                                *)
OpAND == 0   OpEOR == 1   OpSUB == 2   OpRSB == 3
OpADD == 4   OpADC == 5   OpSBC == 6   OpRSC == 7
OpTST == 8   OpTEQ == 9   OpCMP == 10  OpCMN == 11
OpORR == 12  OpMOV == 13  OpBIC == 14  OpMVN == 15
TestOps == {OpTST, OpTEQ, OpCMP, OpCMN}

(* Shift types, bits 6-5.                                                  *)
LSL == 0   LSR == 1   ASR == 2   ROR == 3

(* Multiplies: bits 27-20 by kind (+ S for MUL/MLA) and bits 7-4 with the  *)
(* x (bit 5) and y (bit 6) half selectors; x is also SMMUL's R and SMUAD's *)
(* M.  Ra is 0000 for MUL, SMULW, SMUL and 1111 for SMMUL, SMUAD, SMUSD.   *)
MacTop == [mul |-> 0, mla |-> 2, mls |-> 6, smlaw |-> \h12, smulw |-> \h12,
           smla |-> \h10, smul |-> \h16, smmla |-> \h75, smmul |-> \h75,
           smmls |-> \h75, smlad |-> \h70, smuad |-> \h70, smlsd |-> \h70,
           smusd |-> \h70]
MacLow(op) ==
    CASE op.kind \in {"mul", "mla", "mls"} -> 9
      [] op.kind = "smlaw" -> 8 + 4 * op.y
      [] op.kind = "smulw" -> 10 + 4 * op.y
      [] op.kind \in {"smla", "smul"} -> 8 + 4 * op.y + 2 * op.x
      [] op.kind \in {"smmla", "smmul", "smlad", "smuad"} -> 1 + 2 * op.x
      [] op.kind = "smmls" -> 13 + 2 * op.x
      [] op.kind \in {"smlsd", "smusd"} -> 5 + 2 * op.x
MacInstr(op) ==
    Encode(<< <<31, 28, op.cond>>,
              <<27, 20, MacTop[op.kind] + (IF op.kind \in {"mul", "mla"} THEN op.S ELSE 0)>>,
              <<19, 16, op.Rd>>,
              <<15, 12, CASE op.kind \in {"mul", "smulw", "smul"} -> 0
                          [] op.kind \in {"smmul", "smuad", "smusd"} -> 15
                          [] OTHER -> op.Ra>>,
              <<11, 8, op.Rm>>, <<7, 4, MacLow(op)>>, <<3, 0, op.Rn>> >>)

(* The 64-bit multiplies: cond 0000 0100 (UMAAL), 0000 1UA0 (UMULL, UMLAL, *)
(* SMULL, SMLAL), 0001 0100 (SMLAL<x><y>, low 1 y x 0) and 0111 0100       *)
(* (SMLALD, SMLSLD, low 0 sub M 1), then RdHi RdLo Rm low Rn.               *)
MacdTop == [umaal |-> \h04, umull |-> \h08, umlal |-> \h0A, smull |-> \h0C, smlal |-> \h0E,
            smlalxy |-> \h14, smlald |-> \h74, smlsld |-> \h74]
MacdInstr(op) ==
    Encode(<< <<31, 28, op.cond>>, <<27, 20, MacdTop[op.kind]>>, <<19, 16, op.RdHi>>,
              <<15, 12, op.RdLo>>, <<11, 8, op.Rm>>,
              <<7, 4, CASE op.kind = "smlalxy" -> 8 + 4 * op.y + 2 * op.x
                        [] op.kind = "smlald" -> 1 + 2 * op.x
                        [] op.kind = "smlsld" -> 5 + 2 * op.x
                        [] OTHER -> 9>>,
              <<3, 0, op.Rn>> >>)

(* Saturation: QADD..QDSUB are cond 00010 op 0 Rn Rd 0000 0101 Rm; SSAT    *)
(* and USAT cond 011010U1 sat_imm Rd imm5 sh 01 Rn; SSAT16 and USAT16      *)
(* cond 01101U10 sat_imm Rd 1111 0011 Rn.                                  *)
QTop == [qadd |-> \h10, qsub |-> \h12, qdadd |-> \h14, qdsub |-> \h16]
SatInstr(op) ==
    IF op.kind \in DOMAIN QTop
    THEN Encode(<< <<31, 28, op.cond>>, <<27, 20, QTop[op.kind]>>, <<19, 16, op.Rn>>,
                   <<15, 12, op.Rd>>, <<11, 4, 5>>, <<3, 0, op.Rm>> >>)
    ELSE LET u == IF op.kind \in {"usat", "usat16"} THEN 1 ELSE 0
         IN IF op.kind \in {"ssat", "usat"}
            THEN Encode(<< <<31, 28, op.cond>>, <<27, 23, 13>>, <<22, 22, u>>,
                           <<21, 21, 1>>, <<20, 16, op.sat>>, <<15, 12, op.Rd>>,
                           <<11, 7, op.imm5>>, <<6, 6, op.sh>>, <<5, 4, 1>>,
                           <<3, 0, op.Rn>> >>)
            ELSE Encode(<< <<31, 28, op.cond>>, <<27, 20, \h6A + 4 * u>>,
                           <<19, 16, op.sat>>, <<15, 12, op.Rd>>, <<11, 4, \hF3>>,
                           <<3, 0, op.Rn>> >>)

(* VFP/NEON core-register transfers.  V is Vm, Vn or Vd and M the bit    *)
(* that extends it (M, N or D); op = 1 moves to the core registers.        *)
VfpInstr(op) ==
    CASE op.kind \in {"vmov_ss", "vmov_d"} ->
           Encode(<< <<31, 28, op.cond>>, <<27, 21, \h62>>, <<20, 20, op.op>>,
                     <<19, 16, op.Rt2>>, <<15, 12, op.Rt>>,
                     <<11, 8, IF op.kind = "vmov_ss" THEN 10 ELSE 11>>, <<7, 6, 0>>,
                     <<5, 5, op.M>>, <<4, 4, 1>>, <<3, 0, op.V>> >>)
      [] op.kind = "vmov_s" ->
           Encode(<< <<31, 28, op.cond>>, <<27, 21, \h70>>, <<20, 20, op.op>>,
                     <<19, 16, op.V>>, <<15, 12, op.Rt>>, <<11, 8, 10>>,
                     <<7, 7, op.M>>, <<6, 0, \h10>> >>)
      [] op.kind = "vdup" ->
           Encode(<< <<31, 28, op.cond>>, <<27, 23, \h1D>>, <<22, 22, op.B>>,
                     <<21, 20, 0>>, <<19, 16, op.V>>, <<15, 12, op.Rt>>, <<11, 8, 11>>,
                     <<7, 6, 0>>, <<5, 5, op.E>>, <<4, 0, \h10>> >>)
      [] op.kind \in {"vmov_dx", "vmov_dt_dx"} ->
           Encode(<< <<31, 28, op.cond>>, <<27, 24, 14>>, <<23, 23, op.U>>,
                     <<22, 21, op.opc1>>, <<20, 20, op.op>>, <<19, 16, op.V>>,
                     <<15, 12, op.Rt>>, <<11, 8, 11>>, <<7, 7, op.M>>,
                     <<6, 5, op.opc2>>, <<4, 0, \h10>> >>)
      [] op.kind \in {"vmrs", "vmsr"} ->
           Encode(<< <<31, 28, op.cond>>, <<27, 20, IF op.kind = "vmrs" THEN \hEF ELSE \hEE>>,
                     <<19, 16, op.reg>>, <<15, 12, op.Rt>>, <<11, 0, \hA10>> >>)

(* Coprocessor instructions; cond = 1111 gives the "2" forms.  Rt2 is the *)
(* second register of MCRR/MRRC and the base register of LDC/STC.         *)
CopInstr(op) ==
    LET L == IF op.kind \in {"mrrc", "mrc", "ldc"} THEN 1 ELSE 0
    IN CASE op.kind \in {"mcrr", "mrrc"} ->
              Encode(<< <<31, 28, op.cond>>, <<27, 21, 98>>, <<20, 20, L>>,
                        <<19, 16, op.Rt2>>, <<15, 12, op.Rt>>,
                        <<11, 8, op.coproc>>, <<7, 0, 0>> >>)
         [] op.kind \in {"mcr", "mrc"} ->
              Encode(<< <<31, 28, op.cond>>, <<27, 24, 14>>, <<23, 21, 0>>,
                        <<20, 20, L>>, <<19, 16, 0>>, <<15, 12, op.Rt>>,
                        <<11, 8, op.coproc>>, <<7, 5, 0>>, <<4, 4, 1>>,
                        <<3, 0, 0>> >>)
         [] op.kind = "cdp" ->
              Encode(<< <<31, 28, op.cond>>, <<27, 24, 14>>, <<23, 12, 0>>,
                        <<11, 8, op.coproc>>, <<7, 0, 0>> >>)
         [] op.kind \in {"ldc", "stc"} ->
              Encode(<< <<31, 28, op.cond>>, <<27, 25, 6>>, <<24, 21, op.pudw>>,
                        <<20, 20, L>>, <<19, 16, op.Rt2>>, <<15, 12, 0>>,
                        <<11, 8, op.coproc>>, <<7, 0, 1>> >>)

(* SETEND, CLREX, the barriers (full system), PLD/PLDW/PLI with an         *)
(* immediate or a register offset, and SWP/SWPB (R is B, Rm is Rt2).       *)
MiscInstr(op) ==
    CASE op.kind = "setend" -> Encode(<< <<31, 16, \hF101>>, <<15, 0, 0>> >>)
      [] op.kind = "clrex" -> Encode(<< <<31, 16, \hF57F>>, <<15, 0, \hF01F>> >>)
      [] op.kind = "dsb" -> Encode(<< <<31, 16, \hF57F>>, <<15, 0, \hF04F>> >>)
      [] op.kind = "dmb" -> Encode(<< <<31, 16, \hF57F>>, <<15, 0, \hF05F>> >>)
      [] op.kind = "isb" -> Encode(<< <<31, 16, \hF57F>>, <<15, 0, \hF06F>> >>)
      [] op.kind \in {"pld_imm", "pld_r"} ->
           Encode(<< <<31, 26, 61>>, <<25, 25, IF op.kind = "pld_r" THEN 1 ELSE 0>>,
                     <<24, 23, 3>>, <<22, 22, op.R>>, <<21, 20, 1>>,
                     <<19, 16, op.Rn>>, <<15, 12, 15>>,
                     <<11, 4, IF op.kind = "pld_r" THEN 0 ELSE 1>>,
                     <<3, 0, IF op.kind = "pld_r" THEN op.Rm ELSE 0>> >>)
      [] op.kind \in {"pli_imm", "pli_r"} ->
           Encode(<< <<31, 26, 61>>, <<25, 25, IF op.kind = "pli_r" THEN 1 ELSE 0>>,
                     <<24, 23, 1>>, <<22, 20, 5>>, <<19, 16, op.Rn>>,
                     <<15, 12, 15>>, <<11, 4, IF op.kind = "pli_r" THEN 0 ELSE 1>>,
                     <<3, 0, IF op.kind = "pli_r" THEN op.Rm ELSE 0>> >>)
      [] op.kind = "swp" ->
           Encode(<< <<31, 28, op.cond>>, <<27, 23, 2>>, <<22, 22, op.R>>,
                     <<21, 20, 0>>, <<19, 16, op.Rn>>, <<15, 12, op.Rt>>,
                     <<11, 4, 9>>, <<3, 0, op.Rm>> >>)

(* LDR/STR/LDRB/STRB: I = 0 takes imm12, I = 1 Rm shifted by imm5.        *)
LdstInstr(op) ==
    Encode(<< <<31, 28, op.cond>>, <<27, 26, 1>>, <<25, 25, op.I>>, <<24, 24, op.P>>,
              <<23, 23, op.U>>, <<22, 22, op.B>>, <<21, 21, op.W>>, <<20, 20, op.L>>,
              <<19, 16, op.Rn>>, <<15, 12, op.Rt>>,
              <<11, 0, IF op.I = 0 THEN op.imm12
                       ELSE op.imm5 * 128 + op.type * 32 + op.Rm>> >>)

(* LDM/STM: B I M W L = P U S W L, the list as a set of register numbers. *)
LdmInstr(op) ==
    Encode(<< <<31, 28, op.cond>>, <<27, 25, 4>>, <<24, 24, op.P>>, <<23, 23, op.U>>,
              <<22, 22, op.S>>, <<21, 21, op.W>>, <<20, 20, op.L>>, <<19, 16, op.Rn>>,
              <<15, 0, LET RECURSIVE ListBits(_)
                           ListBits(k) == IF k < 0 THEN 0
                                          ELSE (IF k \in op.list THEN 2^k ELSE 0) + ListBits(k - 1)
                       IN ListBits(15)>> >>)

(* LDRH/STRH, LDRSB, LDRSH: op2 = bits 6-5 by kind, I = 1 splits imm8    *)
(* into imm4H:imm4L, I = 0 takes Rm with bits 11-8 zero.                   *)
ExtraKindOp2 == [h |-> 1, sb |-> 2, sh |-> 3]
ExtraLdstInstr(op) ==
    Encode(<< <<31, 28, op.cond>>, <<27, 25, 0>>, <<24, 24, op.P>>, <<23, 23, op.U>>,
              <<22, 22, op.I>>, <<21, 21, op.W>>, <<20, 20, op.L>>, <<19, 16, op.Rn>>,
              <<15, 12, op.Rt>>, <<11, 8, IF op.I = 1 THEN op.imm8 \div 16 ELSE 0>>,
              <<7, 7, 1>>, <<6, 5, ExtraKindOp2[op.kind]>>, <<4, 4, 1>>,
              <<3, 0, IF op.I = 1 THEN op.imm8 % 16 ELSE op.Rm>> >>)

(* LDRD/STRD: the same layout with L = 0, op2 = 2 for LDRD and 3 for STRD. *)
DualInstr(op) ==
    ExtraLdstInstr([op EXCEPT !.kind = IF op.kind = "ldrd" THEN "sb" ELSE "sh", !.L = 0])

(* LDREX/STREX{,D,B,H}: bits 27-23 = 00011, bits 22-21 the size (word,     *)
(* doubleword, byte, halfword), bits 11-4 = 11111001; a load has Rt at     *)
(* 15-12 and 1111 at 3-0, a store the status Rd at 15-12 and Rt at 3-0.   *)
ExclSize == [ex |-> 0, exd |-> 1, exb |-> 2, exh |-> 3]
ExclInstr(op) ==
    Encode(<< <<31, 28, op.cond>>, <<27, 23, 3>>, <<22, 21, ExclSize[op.kind]>>,
              <<20, 20, op.L>>, <<19, 16, op.Rn>>,
              <<15, 12, IF op.L = 1 THEN op.Rt ELSE op.Rd>>, <<11, 4, \h00F9>>,
              <<3, 0, IF op.L = 1 THEN 15 ELSE op.Rt>> >>)

(* CPS: 1111 00010000 imod M 0 0000000 A I F 0 mode.  MRS and MSR        *)
(* (banked register): cond 00010 R b21 0 SYSm<3:0> Rd-or-1111 001 SYSm<4>  *)
(* 0000 and 0000-or-Rn, b21 = 0 for MRS and 1 for MSR.                      *)
CpsInstr(op) ==
    Encode(<< <<31, 20, \hF10>>, <<19, 18, op.imod>>, <<17, 17, op.M>>, <<16, 9, 0>>,
              <<8, 6, op.aif>>, <<5, 5, 0>>, <<4, 0, op.mode>> >>)
BankedInstr(op) ==
    LET msr == op.cls = "MsrB"
    IN Encode(<< <<31, 28, op.cond>>, <<27, 23, 2>>, <<22, 22, op.R>>,
                 <<21, 21, IF msr THEN 1 ELSE 0>>, <<20, 20, 0>>, <<19, 16, op.SYSm % 16>>,
                 <<15, 12, IF msr THEN 15 ELSE op.Rd>>, <<11, 9, 1>>, <<8, 8, op.SYSm \div 16>>,
                 <<7, 4, 0>>, <<3, 0, IF msr THEN op.Rn ELSE 0>> >>)

(* The bit-field, reverse, select and sum-of-differences ops (one op record *)
(* with Rd, Rn, Rm, Ra, msb, lsb and imm; msb is widthminus1 for SBFX and  *)
(* UBFX): MOVW/MOVT cond 0011 0x00 imm4 Rd imm12; CLZ cond 0001 0110 1111  *)
(* Rd 1111 0001 Rm; BFC/BFI cond 0111 110 msb Rd lsb 001 Rn (1111 for BFC);*)
(* SBFX/UBFX cond 0111 1U1 widthm1 Rd lsb 101 Rn; RBIT, REV, REV16, REVSH  *)
(* cond 0110 1x11 1111 Rd 1111 x011 Rm; SEL cond 0110 1000 Rn Rd 1111 1011 *)
(* Rm; USAD8/USADA8 cond 0111 1000 Rd Ra Rm 0001 Rn (Ra = 1111: USAD8).   *)
DMiscTop == [clz |-> \h16, rbit |-> \h6F, rev |-> \h6B, rev16 |-> \h6B, revsh |-> \h6F,
             sel |-> \h68]
DMiscLow == [clz |-> \hF1, rbit |-> \hF3, rev |-> \hF3, rev16 |-> \hFB, revsh |-> \hFB,
             sel |-> \hFB]
DMiscInstr(op) ==
    CASE op.kind \in {"movw", "movt"} ->
           Encode(<< <<31, 28, op.cond>>, <<27, 20, IF op.kind = "movw" THEN \h30 ELSE \h34>>,
                     <<19, 16, op.imm \div 2^12>>, <<15, 12, op.Rd>>, <<11, 0, op.imm % 2^12>> >>)
      [] op.kind \in {"bfc", "bfi", "sbfx", "ubfx"} ->
           Encode(<< <<31, 28, op.cond>>,
                     <<27, 21, CASE op.kind \in {"bfc", "bfi"} -> \h3E
                                 [] op.kind = "sbfx" -> \h3D
                                 [] OTHER -> \h3F>>,
                     <<20, 16, op.msb>>, <<15, 12, op.Rd>>, <<11, 7, op.lsb>>,
                     <<6, 4, IF op.kind \in {"bfc", "bfi"} THEN 1 ELSE 5>>,
                     <<3, 0, IF op.kind = "bfc" THEN 15 ELSE op.Rn>> >>)
      [] op.kind \in {"usad8", "usada8"} ->
           Encode(<< <<31, 28, op.cond>>, <<27, 20, \h78>>, <<19, 16, op.Rd>>,
                     <<15, 12, IF op.kind = "usad8" THEN 15 ELSE op.Ra>>, <<11, 8, op.Rm>>,
                     <<7, 4, 1>>, <<3, 0, op.Rn>> >>)
      [] OTHER ->
           Encode(<< <<31, 28, op.cond>>, <<27, 20, DMiscTop[op.kind]>>,
                     <<19, 16, IF op.kind = "sel" THEN op.Rn ELSE 15>>, <<15, 12, op.Rd>>,
                     <<11, 4, DMiscLow[op.kind]>>, <<3, 0, op.Rm>> >>)

(* The pack and extend ops (one op record with Rd, Rn, Rm, imm, tb, rot):  *)
(* PKHBT/PKHTB cond 0110 1000 Rn Rd imm5 tb 01 Rm; SXTAB16, SXTAB, SXTAH,  *)
(* UXTAB16, UXTAB, UXTAH cond 0110 1 U sz Rn Rd rot 00 0111 Rm, where U =  *)
(* bit 22 is 1 for the unsigned forms, sz = bits 21-20 is 00 (dual byte),  *)
(* 10 (byte) or 11 (halfword), and Rn = 1111 is SXTB16, SXTB, ..., UXTH.   *)
PackTop == [sxtab16 |-> \h68, sxtab |-> \h6A, sxtah |-> \h6B,
            uxtab16 |-> \h6C, uxtab |-> \h6E, uxtah |-> \h6F]
PackInstr(op) ==
    IF op.kind = "pkh"
    THEN Encode(<< <<31, 28, op.cond>>, <<27, 20, \h68>>, <<19, 16, op.Rn>>,
                   <<15, 12, op.Rd>>, <<11, 7, op.imm>>, <<6, 6, op.tb>>, <<5, 4, 1>>,
                   <<3, 0, op.Rm>> >>)
    ELSE Encode(<< <<31, 28, op.cond>>, <<27, 20, PackTop[op.kind]>>, <<19, 16, op.Rn>>,
                   <<15, 12, op.Rd>>, <<11, 10, op.rot>>, <<9, 4, 7>>, <<3, 0, op.Rm>> >>)

(* The parallel add/subtract ops (prefix pre, kind, Rd, Rn, Rm): cond      *)
(* 0110 0 U op1 Rn Rd 1111 op2 1 Rm, U = 1 for the unsigned prefixes, op1  *)
(* 01 plain, 10 saturating, 11 halving; op2 000 ADD16, 001 ASX, 010 SAX,   *)
(* 011 SUB16, 100 ADD8, 111 SUB8.                                          *)
ParOp1 == [s |-> 1, q |-> 2, sh |-> 3, u |-> 1, uq |-> 2, uh |-> 3]
ParOp2 == [add16 |-> 0, asx |-> 1, sax |-> 2, sub16 |-> 3, add8 |-> 4, sub8 |-> 7]
ParUnsigned(op) == op.pre \in {"u", "uq", "uh"}
ParInstr(op) ==
    Encode(<< <<31, 28, op.cond>>, <<27, 23, 12>>, <<22, 22, IF ParUnsigned(op) THEN 1 ELSE 0>>,
              <<21, 20, ParOp1[op.pre]>>, <<19, 16, op.Rn>>, <<15, 12, op.Rd>>,
              <<11, 8, 15>>, <<7, 5, ParOp2[op.kind]>>, <<4, 4, 1>>, <<3, 0, op.Rm>> >>)

(* The exception-generating and -returning ops (kind, and for RFE/SRS P,   *)
(* U, W, Rn and the SRS target mode): ERET cond 0001 0110 0000 0000 0000    *)
(* 0110 1110; BKPT, HVC cond 0001 0010 / 0100 imm12 0111 imm4; SMC cond    *)
(* 0001 0110 0000 0000 0000 0111 imm4; SVC cond 1111 imm24; RFE 1111 100P  *)
(* U0W1 Rn 0000 1010 0000 0000; SRS 1111 100P U1W0 1101 0000 0101 000      *)
(* mode.  The immediates are 0.                                            *)
ExcInstr(op) ==
    CASE op.kind = "eret" -> Encode(<< <<31, 28, op.cond>>, <<27, 0, \h160006E>> >>)
      [] op.kind \in {"bkpt", "hvc"} ->
           Encode(<< <<31, 28, op.cond>>, <<27, 20, IF op.kind = "bkpt" THEN \h12 ELSE \h14>>,
                     <<19, 8, 0>>, <<7, 4, 7>>, <<3, 0, 0>> >>)
      [] op.kind = "smc" -> Encode(<< <<31, 28, op.cond>>, <<27, 0, \h1600070>> >>)
      [] op.kind = "svc" -> Encode(<< <<31, 28, op.cond>>, <<27, 24, 15>>, <<23, 0, 0>> >>)
      [] op.kind = "rfe" ->
           Encode(<< <<31, 25, \h7C>>, <<24, 24, op.P>>, <<23, 23, op.U>>, <<22, 22, 0>>,
                     <<21, 21, op.W>>, <<20, 20, 1>>, <<19, 16, op.Rn>>, <<15, 0, \hA00>> >>)
      [] op.kind = "srs" ->
           Encode(<< <<31, 25, \h7C>>, <<24, 24, op.P>>, <<23, 23, op.U>>, <<22, 22, 1>>,
                     <<21, 21, op.W>>, <<20, 16, \h0D>>, <<15, 5, \h28>>, <<4, 0, op.mode>> >>)

(* Extension-register loads and stores: cond 110 P U D W L Rn Vd 101 sz  *)
(* imm8, with D = 0 (VLDR/VSTR P = 1 W = 0, VPUSH/VPOP and VLDM/VSTM the  *)
(* others).                                                                *)
VldxInstr(op) ==
    Encode(<< <<31, 28, op.cond>>, <<27, 25, 6>>, <<24, 24, op.P>>, <<23, 23, op.U>>,
              <<22, 22, 0>>, <<21, 21, op.W>>, <<20, 20, op.L>>, <<19, 16, op.Rn>>,
              <<15, 12, op.Vd>>, <<11, 9, 5>>, <<8, 8, op.sz>>, <<7, 0, op.imm8>> >>)

(* Element and structure loads and stores: 1111 0100 A D L 0 Rn Vd B lo  *)
(* Rm with D = 0, Vd = 0; B is type (A = 0) or size:n-1 (A = 1), lo the   *)
(* size:align, index_align or size:T:a field.                              *)
ElemInstr(op) ==
    Encode(<< <<31, 24, \hF4>>, <<23, 23, op.A>>, <<22, 22, 0>>, <<21, 21, op.L>>,
              <<20, 20, 0>>, <<19, 16, op.Rn>>, <<15, 12, 0>>, <<11, 8, op.B>>,
              <<7, 4, op.lo>>, <<3, 0, op.Rm>> >>)

(* One form per SIMD handler (VAND, VCEQ, VMLA, VPADD, VCNT, VSHL, all    *)
(* 1111 001x with D = N = M = 0) and the VFP VDIV and VCMP (cond 1110,     *)
(* coprocessor 10/11 with sz in bit 8).                                    *)
SimdTop == [vand |-> \hF20, vceq |-> \hF30, vmla |-> \hF20, vpadd |-> \hF20, vshl |-> \hF20]
SimdOpc == [vand |-> \h11, vceq |-> \h81, vmla |-> \h90, vpadd |-> \hB1, vshl |-> \h40]
SimdInstr(op) ==
    CASE op.kind = "vcnt" ->
           Encode(<< <<31, 20, \hF3B>>, <<19, 18, op.size>>, <<17, 16, 0>>,
                     <<15, 12, op.Vd>>, <<11, 7, 10>>, <<6, 6, op.Q>>, <<5, 4, 0>>,
                     <<3, 0, op.Vm>> >>)
      [] op.kind \in {"vdiv", "vcmp"} ->
           Encode(<< <<31, 28, op.cond>>, <<27, 20, IF op.kind = "vdiv" THEN \hE8 ELSE \hEB>>,
                     <<19, 16, IF op.kind = "vdiv" THEN op.Vn ELSE 4>>, <<15, 12, op.Vd>>,
                     <<11, 9, 5>>, <<8, 8, op.size % 2>>,
                     <<7, 4, IF op.kind = "vdiv" THEN 0 ELSE 4>>, <<3, 0, op.Vm>> >>)
      [] OTHER ->
           Encode(<< <<31, 20, SimdTop[op.kind] + (IF op.kind = "vand" THEN 0 ELSE op.size)>>,
                     <<19, 16, op.Vn>>, <<15, 12, op.Vd>>, <<11, 8, SimdOpc[op.kind] \div 16>>,
                     <<7, 7, 0>>, <<6, 6, op.Q>>, <<5, 5, 0>>, <<4, 4, SimdOpc[op.kind] % 16>>,
                     <<3, 0, op.Vm>> >>)

(* The NEON forms arm_mux decodes: 1111 001U 1D imm3 000 Vd opc 0 Q op 1 *)
(* Vm for the modified immediates (imm3 = 000, opc = cmode) and the shifts *)
(* (opc 0000 VSHR, 100x VSHRN and kin with B in bit 6, 1010 VSHLL/VMOVL); *)
(* VMOVN 1111 0011 1D11 size 10 Vd 0010 op M 0 Vm (op in opc) and VORR     *)
(* (register) 1111 0010 0D10 Vn Vd 0001 N Q M 1 Vm.  D = N = M = 0.        *)
NeonInstr(op) ==
    CASE op.kind = "vmovn" ->
           Encode(<< <<31, 20, \hF3B>>, <<19, 18, op.size>>, <<17, 16, 2>>,
                     <<15, 12, op.Vd>>, <<11, 8, 2>>, <<7, 6, op.opc>>, <<5, 4, 0>>,
                     <<3, 0, op.Vm>> >>)
      [] op.kind = "vorr_r" ->
           Encode(<< <<31, 20, \hF22>>, <<19, 16, op.Vn>>, <<15, 12, op.Vd>>,
                     <<11, 8, 1>>, <<7, 7, 0>>, <<6, 6, op.Q>>, <<5, 5, 0>>,
                     <<4, 4, 1>>, <<3, 0, op.Vm>> >>)
      [] OTHER ->
           Encode(<< <<31, 25, \h79>>, <<24, 24, op.U>>, <<23, 23, 1>>, <<22, 22, 0>>,
                     <<21, 19, op.imm3>>, <<18, 16, 0>>, <<15, 12, op.Vd>>,
                     <<11, 8, op.opc>>, <<7, 7, 0>>, <<6, 6, op.Q>>, <<5, 5, op.op5>>,
                     <<4, 4, 1>>, <<3, 0, op.Vm>> >>)

OpInstr(op) ==
    CASE op.cls = "B" ->
           Encode(<< <<31, 28, op.cond>>, <<27, 25, 5>>, <<24, 24, op.L>>,
                     <<23, 0, op.imm24>> >>)
      [] op.cls = "BLXi" ->
           Encode(<< <<31, 28, 15>>, <<27, 25, 5>>, <<24, 24, op.H>>,
                     <<23, 0, op.imm24>> >>)
      [] op.cls = "BXr" ->
           Encode(<< <<31, 28, op.cond>>, <<27, 20, 18>>, <<19, 8, 4095>>,
                     <<7, 4, op.op1>>, <<3, 0, op.Rm>> >>)
      [] op.cls = "DPi" ->
           Encode(<< <<31, 28, op.cond>>, <<27, 25, 1>>, <<24, 21, op.opc>>,
                     <<20, 20, op.S>>, <<19, 16, op.Rn>>, <<15, 12, op.Rd>>,
                     <<11, 8, op.rot>>, <<7, 0, op.imm8>> >>)
      [] op.cls = "DPr" ->
           Encode(<< <<31, 28, op.cond>>, <<27, 25, 0>>, <<24, 21, op.opc>>,
                     <<20, 20, op.S>>, <<19, 16, op.Rn>>, <<15, 12, op.Rd>>,
                     <<11, 7, op.imm5>>, <<6, 5, op.type>>, <<4, 4, 0>>,
                     <<3, 0, op.Rm>> >>)
      [] op.cls = "DPrsr" ->
           Encode(<< <<31, 28, op.cond>>, <<27, 25, 0>>, <<24, 21, op.opc>>,
                     <<20, 20, op.S>>, <<19, 16, op.Rn>>, <<15, 12, op.Rd>>,
                     <<11, 8, op.Rs>>, <<7, 7, 0>>, <<6, 5, op.type>>,
                     <<4, 4, 1>>, <<3, 0, op.Rm>> >>)
      [] op.cls = "Udf" ->
           Encode(<< <<31, 28, op.cond>>, <<27, 20, \h7F>>, <<19, 8, op.imm12>>, <<7, 4, 15>>,
                     <<3, 0, op.imm4>> >>)
      [] op.cls = "Hint" ->
           Encode(<< <<31, 28, op.cond>>, <<27, 8, \h320F0>>, <<7, 0, op.hint>> >>)
      [] op.cls = "Div" ->                 \* SDIV (U = 0), UDIV (U = 1)
           Encode(<< <<31, 28, op.cond>>, <<27, 22, 28>>, <<21, 21, op.U>>,
                     <<20, 20, 1>>, <<19, 16, op.Rd>>, <<15, 12, 15>>,
                     <<11, 8, op.Rm>>, <<7, 4, 1>>, <<3, 0, op.Rn>> >>)
      [] op.cls = "Cop" -> CopInstr(op)
      [] op.cls = "Misc" -> MiscInstr(op)
      [] op.cls = "Mac" -> MacInstr(op)
      [] op.cls = "Macd" -> MacdInstr(op)
      [] op.cls = "Sat" -> SatInstr(op)
      [] op.cls = "DMisc" -> DMiscInstr(op)
      [] op.cls = "Pack" -> PackInstr(op)
      [] op.cls = "Par" -> ParInstr(op)
      [] op.cls = "Exc" -> ExcInstr(op)
      [] op.cls = "Vfp" -> VfpInstr(op)
      [] op.cls = "Ldst" -> LdstInstr(op)
      [] op.cls = "Ldm" -> LdmInstr(op)
      [] op.cls = "ExtraLdst" -> ExtraLdstInstr(op)
      [] op.cls = "Dual" -> DualInstr(op)
      [] op.cls = "Excl" -> ExclInstr(op)
      [] op.cls = "Cps" -> CpsInstr(op)
      [] op.cls \in {"MrsB", "MsrB"} -> BankedInstr(op)
      [] op.cls = "Vldx" -> VldxInstr(op)
      [] op.cls = "Elem" -> ElemInstr(op)
      [] op.cls = "Simd" -> SimdInstr(op)
      [] op.cls = "Neon" -> NeonInstr(op)
      [] op.cls = "Mrs" ->
           Encode(<< <<31, 28, op.cond>>, <<27, 23, 2>>, <<22, 22, op.R>>,
                     <<21, 16, 15>>, <<15, 12, op.Rd>>, <<11, 0, 0>> >>)

-----------------------------------------------------------------------------
(* The A32 shifter at width W (a shift "by 32" is a shift by W).            *)
ArchRor(x, n) == Shr(x, n % W) + Shl(x, W - (n % W))
ArchRrx(x, c) == c * 2^(W - 1) + x \div 2

(* DecodeImmShift: LSR/ASR #0 encode a shift by 32, ROR #0 encodes RRX.    *)
ArchShiftImm(x, type, imm5, c) ==
    CASE type = LSL -> Shl(x, imm5)
      [] type = LSR -> Shr(x, IF imm5 = 0 THEN W ELSE imm5)
      [] type = ASR -> Asr(x, IF imm5 = 0 THEN W ELSE imm5)
      [] type = ROR -> IF imm5 = 0 THEN ArchRrx(x, c) ELSE ArchRor(x, imm5)

(* Register-specified amounts use Rs<7:0>.                                 *)
ArchShiftReg(x, type, rs) ==
    LET n == rs % 256
    IN CASE type = LSL -> Shl(x, n)
         [] type = LSR -> Shr(x, n)
         [] type = ASR -> Asr(x, n)
         [] type = ROR -> ArchRor(x, n)

(* ARMExpandImm: imm8 rotated right by twice the rotation field.           *)
ArchExpandImm(rot, imm8) == ArchRor(imm8, 2 * rot)

ArchALU(opc, a, b, c) ==
    CASE opc = OpAND -> a & b
      [] opc = OpEOR -> a ^^ b
      [] opc = OpSUB -> U(a - b)
      [] opc = OpRSB -> U(b - a)
      [] opc = OpADD -> U(a + b)
      [] opc = OpADC -> U(a + b + c)
      [] opc = OpSBC -> U(a - b - 1 + c)
      [] opc = OpRSC -> U(b - a - 1 + c)
      [] opc = OpORR -> a | b
      [] opc = OpMOV -> b
      [] opc = OpBIC -> a & BNot(b)
      [] opc = OpMVN -> BNot(b)

-----------------------------------------------------------------------------
(* Architectural outcomes.                                                 *)
Linear == [kind |-> "linear"]
Undefined == [kind |-> "undef"]
Unpredictable == [kind |-> "unpred"]
Jump(flag, a) == [kind |-> "jump", flag |-> flag, address |-> a]
(* UNPREDICTABLE with the best-effort target the spec prescribes.          *)
UnpredAt(flag, a) == [kind |-> "unpred_at", flag |-> flag, address |-> a]

(* Writing a computed value to the PC without S (spec 4.5, ALUWritePC):    *)
(* bit 0 selects Thumb, bits 1-0 = 00 ARM, anything else unpredictable.    *)
ArchWritePC(a) ==
    IF wbit(a, 0) = 1 THEN Jump("THUMB", a - 1)
    ELSE IF a % 4 = 0 THEN Jump("ARM", a) ELSE Unpredictable

(* Exception return (S set, Rd = PC): UNDEFINED in Hyp, UNPREDICTABLE in   *)
(* User and System mode, otherwise the SPSR's T bit picks the state.       *)
ArchExceptionReturn(a, ctx) ==
    CASE ctx.cpsr.mode = Modes.hyp -> Undefined
      [] ctx.cpsr.mode \in {Modes.usr, Modes.sys} -> Unpredictable
      [] ctx.spsr.t = 1 -> Jump("THUMB", a)
      [] OTHER -> Jump("ARM", a)

(* The value a data-processing op computes.                                *)
DPResult(op, ctx) ==
    LET a == ReadReg(ctx, op.Rn)
        c == ctx.cpsr.c
        b == CASE op.cls = "DPi" -> ArchExpandImm(op.rot, op.imm8)
               [] op.cls = "DPr" ->
                    ArchShiftImm(ReadReg(ctx, op.Rm), op.type, op.imm5, c)
               [] op.cls = "DPrsr" ->
                    ArchShiftReg(ctx.r[op.Rm], op.type, ctx.r[op.Rs])
    IN ArchALU(op.opc, a, b, c)

DPOutcome(op, ctx) ==
    CASE op.Rd # 15 \/ op.opc \in TestOps -> Linear
      [] op.cls = "DPrsr" -> Unpredictable
      [] op.S = 0 -> ArchWritePC(DPResult(op, ctx))
      [] OTHER -> ArchExceptionReturn(DPResult(op, ctx), ctx)

(* BX/BLX/BXJ (register), spec 4.3: Rm = PC is always UNPREDICTABLE.       *)
BXOutcome(op, ctx) ==
    IF op.Rm = 15 THEN Unpredictable ELSE ArchWritePC(ctx.r[op.Rm])

(* ConditionPassed(): the condition field against APSR.NZCV.               *)
ArchCondPassed(cond, p) ==
    LET base == CASE cond \div 2 = 0 -> p.z = 1
                  [] cond \div 2 = 1 -> p.c = 1
                  [] cond \div 2 = 2 -> p.n = 1
                  [] cond \div 2 = 3 -> p.v = 1
                  [] cond \div 2 = 4 -> p.c = 1 /\ p.z = 0
                  [] cond \div 2 = 5 -> p.n = p.v
                  [] cond \div 2 = 6 -> p.z = 0 /\ p.n = p.v
                  [] cond \div 2 = 7 -> TRUE
    IN IF cond % 2 = 1 /\ cond < 15 THEN ~base ELSE base

(* Spec 4.4: reserved coprocessors and LDC/STC with P U D W = 0000 are     *)
(* UNDEFINED; LDC/STC otherwise, and a transfer whose general register is  *)
(* the PC, are UNPREDICTABLE; the rest do not touch the PC.  These are     *)
(* decode-time classifications, made whatever the condition.              *)
CopDecode(op) ==
    CASE op.coproc \in {8, 9, 12, 13} -> Undefined
      [] op.kind \in {"ldc", "stc"} /\ op.pudw = 0 -> Undefined
      [] op.kind \in {"ldc", "stc"} -> Unpredictable
      [] op.kind \in {"mcrr", "mrrc"} /\ 15 \in {op.Rt, op.Rt2} -> Unpredictable
      [] op.kind \in {"mcr", "mrc"} /\ op.Rt = 15 -> Unpredictable
      [] OTHER -> Linear

(* SDIV/UDIV (spec 4.5, ARM ARM): Rd, Rn or Rm = PC is UNPREDICTABLE at    *)
(* decode; with Rd = PC the best-effort target is the quotient (rounded   *)
(* toward zero, 0 for a zero divisor) of the operands read with PC + 8.    *)
ArchQuotient(op, ctx) ==
    LET m == ReadReg(ctx, op.Rm)
        n == ReadReg(ctx, op.Rn)
        sm == SInt(m)
        sn == SInt(n)
        q == IF op.U = 1 THEN (IF m = 0 THEN 0 ELSE n \div m)
             ELSE IF sm = 0 THEN 0
             ELSE LET a == IF sn < 0 THEN -sn ELSE sn
                      b == IF sm < 0 THEN -sm ELSE sm
                  IN IF (sn < 0) = (sm < 0) THEN a \div b ELSE -(a \div b)
    IN U(q)
DivDecode(op, ctx) ==
    CASE op.Rd = 15 -> UnpredAt("ARM", ArchQuotient(op, ctx))
      [] 15 \in {op.Rm, op.Rn} -> Unpredictable
      [] OTHER -> Linear

(* ARM ARM: PLD/PLDW (register) is UNPREDICTABLE for m = 15 and for       *)
(* n = 15 when it is PLDW (R = 0); PLI (register) for m = 15; SWP/SWPB for *)
(* t, t2 or n = 15 and for n = t or n = t2.  The rest never touch the PC.  *)
MiscDecode(op) ==
    CASE op.kind = "pld_r" /\ (op.Rm = 15 \/ (op.Rn = 15 /\ op.R = 0)) -> Unpredictable
      [] op.kind = "pli_r" /\ op.Rm = 15 -> Unpredictable
      [] op.kind = "swp" /\ (15 \in {op.Rn, op.Rt, op.Rm} \/ op.Rn \in {op.Rt, op.Rm}) ->
             Unpredictable
      [] OTHER -> Linear

(* MRS: Rd = PC is UNPREDICTABLE (decode); reading the SPSR in User or     *)
(* System mode is UNPREDICTABLE (spec 4.7); otherwise the PC is untouched. *)
MrsOutcome(op, ctx) ==
    IF op.R = 1 /\ ctx.cpsr.mode \in {Modes.usr, Modes.sys} THEN Unpredictable
    ELSE Linear

(* The multiplies of the ARM ARM at width W: halfwords are W/2 bits, the  *)
(* "top 32 bits" of SMMUL are the top W bits of the 2W-bit product, and    *)
(* SMULW keeps bits W/2 .. 3W/2 - 1 of its product.  Operands are read     *)
(* with PC + 8.                                                            *)
ArchHalf(x, hi) ==
    LET h == IF hi = 1 THEN x \div 2^(W \div 2) ELSE x % 2^(W \div 2)
    IN IF h >= 2^(W \div 2 - 1) THEN h - 2^(W \div 2) ELSE h
ArchMac(op, ctx) ==
    LET un == ReadReg(ctx, op.Rn)
        um == ReadReg(ctx, op.Rm)
        n == SInt(un)
        m == SInt(um)
        a == SInt(ReadReg(ctx, op.Ra))
        mx == IF op.x = 1 THEN ArchRor(um, W \div 2) ELSE um
        dual == ArchHalf(un, 0) * ArchHalf(mx, 0)
        dualhi == ArchHalf(un, 1) * ArchHalf(mx, 1)
        round == op.x * 2^(W - 1)
    IN U(CASE op.kind = "mul" -> un * um
           [] op.kind = "mla" -> un * um + a
           [] op.kind = "mls" -> a - un * um
           [] op.kind = "smulw" -> (n * ArchHalf(um, op.y)) \div 2^(W \div 2)
           [] op.kind = "smlaw" -> (n * ArchHalf(um, op.y) + a * 2^(W \div 2)) \div 2^(W \div 2)
           [] op.kind = "smul" -> ArchHalf(un, op.x) * ArchHalf(um, op.y)
           [] op.kind = "smla" -> ArchHalf(un, op.x) * ArchHalf(um, op.y) + a
           [] op.kind = "smmul" -> (n * m + round) \div 2^W
           [] op.kind = "smmla" -> (a * 2^W + n * m + round) \div 2^W
           [] op.kind = "smmls" -> (a * 2^W - n * m + round) \div 2^W
           [] op.kind = "smuad" -> dual + dualhi
           [] op.kind = "smusd" -> dual - dualhi
           [] op.kind = "smlad" -> dual + dualhi + a
           [] op.kind = "smlsd" -> dual - dualhi + a)
(* d, n or m = 15, and a = 15 where Ra is an operand, are UNPREDICTABLE at *)
(* decode; with Rd = PC the best-effort target is the product (spec 4.5).  *)
MacDecode(op, ctx) ==
    CASE op.Rd = 15 -> UnpredAt("ARM", ArchMac(op, ctx))
      [] 15 \in {op.Rn, op.Rm} -> Unpredictable
      [] op.kind \in {"mla", "mls", "smlaw", "smla"} /\ op.Ra = 15 -> Unpredictable
      [] OTHER -> Linear

(* The 64-bit multiplies of the ARM ARM at width W: a 2W-bit result, the  *)
(* accumulating forms adding RdHi:RdLo (UMAAL: RdHi and RdLo as two        *)
(* words), SMLALD/SMLSLD summing the halfword products with Rm's halves    *)
(* swapped by M (x).  Rn and Rm are read with PC + 8; RdHi and RdLo are    *)
(* destinations, and a PC among them is read as stored.  With RdHi or RdLo *)
(* the PC the best-effort target is the half written to it (spec 4.5).    *)
ArchMacd(op, ctx) ==
    LET n == ReadReg(ctx, op.Rn)
        m == ReadReg(ctx, op.Rm)
        acc == ctx.r[op.RdHi] * 2^W + ctx.r[op.RdLo]
        mx == IF op.x = 1 THEN ArchRor(m, W \div 2) ELSE m
        lo == ArchHalf(n, 0) * ArchHalf(mx, 0)
        hi == ArchHalf(n, 1) * ArchHalf(mx, 1)
        v == CASE op.kind = "smull" -> SInt(n) * SInt(m)
               [] op.kind = "umull" -> n * m
               [] op.kind = "smlal" -> SInt(n) * SInt(m) + acc
               [] op.kind = "umlal" -> n * m + acc
               [] op.kind = "umaal" -> n * m + ctx.r[op.RdHi] + ctx.r[op.RdLo]
               [] op.kind = "smlalxy" -> ArchHalf(n, op.x) * ArchHalf(m, op.y) + acc
               [] op.kind = "smlald" -> lo + hi + acc
               [] op.kind = "smlsld" -> lo - hi + acc
        r == v % 2^(2 * W)
    IN IF op.RdHi = 15 THEN r \div 2^W ELSE r % 2^W
(* dLo, dHi, n or m = 15, and dHi = dLo, are UNPREDICTABLE at decode.      *)
MacdDecode(op, ctx) ==
    CASE 15 \in {op.RdHi, op.RdLo} -> UnpredAt("ARM", ArchMacd(op, ctx))
      [] 15 \in {op.Rn, op.Rm} \/ op.RdHi = op.RdLo -> Unpredictable
      [] OTHER -> Linear

(* QADD: SignedSat(Rm + Rn), QSUB: SignedSat(Rm - Rn), QDADD/QDSUB: Rm plus *)
(* or minus SignedSat(2 * Rn), saturated again, all on signed words.  For  *)
(* SSAT/USAT and their 16-bit forms no target is prescribed: Rd = PC is    *)
(* UNPREDICTABLE.  d, n or m = 15 is UNPREDICTABLE at decode.              *)
ArchSignedSat(x) ==
    IF x > 2^(W - 1) - 1 THEN 2^(W - 1) - 1 ELSE IF x < -(2^(W - 1)) THEN -(2^(W - 1)) ELSE x
ArchQ(op, ctx) ==
    LET n == SInt(ReadReg(ctx, op.Rn))
        m == SInt(ReadReg(ctx, op.Rm))
    IN U(CASE op.kind = "qadd" -> ArchSignedSat(m + n)
           [] op.kind = "qsub" -> ArchSignedSat(m - n)
           [] op.kind = "qdadd" -> ArchSignedSat(m + ArchSignedSat(2 * n))
           [] op.kind = "qdsub" -> ArchSignedSat(m - ArchSignedSat(2 * n)))
SatDecode(op, ctx) ==
    CASE op.Rd = 15 /\ op.kind \in DOMAIN QTop -> UnpredAt("ARM", ArchQ(op, ctx))
      [] 15 \in {op.Rd, op.Rn} -> Unpredictable
      [] op.kind \in DOMAIN QTop /\ op.Rm = 15 -> Unpredictable
      [] OTHER -> Linear

(* The bit-field, reverse, select and sum-of-differences ops: d = 15 is   *)
(* UNPREDICTABLE, and so are m = 15 and n = 15 where the op reads them, a  *)
(* field with msb < lsb (BFC/BFI) or reaching past the word (SBFX/UBFX).  *)
(* With a well-formed field and d = 15 the target is the value the ARM ARM *)
(* pseudo-code writes, operands (Rd of BFC/BFI and MOVT included) read     *)
(* with PC + 8.  Bytes are W/4 bits, halfwords W/2.                        *)
ArchByte(x, k) == wbitrng(x, (W \div 4) * (k + 1) - 1, (W \div 4) * k)
ArchBytes(b0, b1, b2, b3) ==
    b0 + b1 * 2^(W \div 4) + b2 * 2^(2 * (W \div 4)) + b3 * 2^(3 * (W \div 4))
ArchClz(x) == CHOOSE n \in 0 .. W : x < 2^(W - n) /\ (n = W \/ x >= 2^(W - n - 1))
ArchBitReverse(x) == CHOOSE y \in Word : \A k \in 0 .. W - 1 : wbit(y, W - 1 - k) = wbit(x, k)
ArchField(x, msb, lsb) == (x \div 2^lsb) % 2^(msb - lsb + 1)
ArchSignExtend(v, bits) == U(IF v >= 2^(bits - 1) THEN v - 2^bits ELSE v)
ArchAbsDiff(a, b) == IF a >= b THEN a - b ELSE b - a
DMiscReadsRm == {"clz", "rbit", "rev", "rev16", "revsh", "sel", "usad8", "usada8"}
DMiscReadsRn == {"bfi", "sbfx", "ubfx", "sel", "usad8", "usada8"}
DMiscFieldOK(op) ==
    CASE op.kind \in {"bfc", "bfi"} -> op.msb >= op.lsb
      [] op.kind \in {"sbfx", "ubfx"} -> op.lsb + op.msb <= W - 1
      [] OTHER -> TRUE
ArchDMisc(op, ctx) ==
    LET d == ReadReg(ctx, 15)
        n == ReadReg(ctx, op.Rn)
        m == ReadReg(ctx, op.Rm)
        half == W \div 2
    IN CASE op.kind = "movw" -> U(op.imm)
         [] op.kind = "movt" -> (op.imm % 2^half) * 2^half + (d % 2^half)
         [] op.kind = "clz" -> ArchClz(m)
         [] op.kind = "bfc" -> d - ArchField(d, op.msb, op.lsb) * 2^op.lsb
         [] op.kind = "bfi" ->
              d - ArchField(d, op.msb, op.lsb) * 2^op.lsb
                + (n % 2^(op.msb - op.lsb + 1)) * 2^op.lsb
         [] op.kind = "rbit" -> ArchBitReverse(m)
         [] op.kind = "rev" ->
              ArchBytes(ArchByte(m, 3), ArchByte(m, 2), ArchByte(m, 1), ArchByte(m, 0))
         [] op.kind = "rev16" ->
              ArchBytes(ArchByte(m, 1), ArchByte(m, 0), ArchByte(m, 3), ArchByte(m, 2))
         [] op.kind = "revsh" ->
              ArchSignExtend(ArchBytes(ArchByte(m, 1), ArchByte(m, 0), 0, 0), half)
         [] op.kind = "sbfx" -> ArchSignExtend(ArchField(n, op.lsb + op.msb, op.lsb), op.msb + 1)
         [] op.kind = "ubfx" -> ArchField(n, op.lsb + op.msb, op.lsb)
         [] op.kind = "sel" ->
              LET b(k) == ArchByte(IF wbit(ctx.cpsr.ge, k) = 1 THEN n ELSE m, k)
              IN ArchBytes(b(0), b(1), b(2), b(3))
         [] op.kind \in {"usad8", "usada8"} ->
              U((IF op.kind = "usada8" THEN ReadReg(ctx, op.Ra) ELSE 0)
                + ArchAbsDiff(ArchByte(n, 0), ArchByte(m, 0))
                + ArchAbsDiff(ArchByte(n, 1), ArchByte(m, 1))
                + ArchAbsDiff(ArchByte(n, 2), ArchByte(m, 2))
                + ArchAbsDiff(ArchByte(n, 3), ArchByte(m, 3)))
DMiscDecode(op, ctx) ==
    CASE op.Rd = 15 /\ DMiscFieldOK(op) -> UnpredAt("ARM", ArchDMisc(op, ctx))
      [] \/ op.Rd = 15 \/ ~DMiscFieldOK(op)
         \/ op.kind \in DMiscReadsRm /\ op.Rm = 15
         \/ op.kind \in DMiscReadsRn /\ op.Rn = 15 -> Unpredictable
      [] OTHER -> Linear

(* The pack and extend ops: d = 15 and m = 15 are UNPREDICTABLE, and n =  *)
(* 15 for PKH.  With d = 15 the target is the value the ARM ARM writes,    *)
(* operands read with PC + 8: PKHBT the top half of Rm LSL imm5 over Rn's  *)
(* bottom half; PKHTB Rn's top half over the bottom half of Rm ASR imm5,   *)
(* imm5 = 0 meaning ASR #32.  An extend rotates Rm right by 8 * rot bits   *)
(* (ByteBits * rot at width W), sign- or zero-extends byte 0, halfword 0,  *)
(* or bytes 0 and 2 into halves, and adds Rn (halfwise for the dual form)  *)
(* unless Rn is 1111.                                                       *)
PackSigned(op) == op.kind \in {"sxtab16", "sxtab", "sxtah"}
PackExtend(op, v, bits) == IF PackSigned(op) THEN ArchSignExtend(v, bits) ELSE v
ArchPack(op, ctx) ==
    LET n == IF op.Rn = 15 THEN 0 ELSE ReadReg(ctx, op.Rn)
        m == ReadReg(ctx, op.Rm)
        half == W \div 2
        byte == W \div 4
        r == ArchRor(m, byte * op.rot)
        lanes(lo, hi) ==
            ((ArchField(n, half - 1, 0) + lo) % 2^half)
            + ((ArchField(n, W - 1, half) + hi) % 2^half) * 2^half
    IN CASE op.kind = "pkh" /\ op.tb = 0 ->
              (Shl(m, op.imm) \div 2^half) * 2^half + (ReadReg(ctx, op.Rn) % 2^half)
         [] op.kind = "pkh" ->
              (ReadReg(ctx, op.Rn) \div 2^half) * 2^half
              + (Asr(m, IF op.imm = 0 THEN W ELSE op.imm) % 2^half)
         [] op.kind \in {"sxtab16", "uxtab16"} ->
              lanes(PackExtend(op, ArchByte(r, 0), byte) % 2^half,
                    PackExtend(op, ArchByte(r, 2), byte) % 2^half)
         [] op.kind \in {"sxtab", "uxtab"} -> U(n + PackExtend(op, ArchByte(r, 0), byte))
         [] OTHER -> U(n + PackExtend(op, (r % 2^half), half))
PackDecode(op, ctx) ==
    CASE op.Rd = 15 -> UnpredAt("ARM", ArchPack(op, ctx))
      [] op.Rm = 15 \/ (op.kind = "pkh" /\ op.Rn = 15) -> Unpredictable
      [] OTHER -> Linear

(* The parallel ops: lane k of Rn and Rm (PC + 8), signed for S, Q, SH and *)
(* unsigned for U, UQ, UH; ADD16/SUB16 pair the halves lane by lane, ASX   *)
(* puts Rn.lo - Rm.hi low and Rn.hi + Rm.lo high, SAX Rn.lo + Rm.hi low    *)
(* and Rn.hi - Rm.lo high.  Q and UQ saturate each lane to its width, SH   *)
(* and UH keep bits lane:1 of the full sum or difference, S and U its low  *)
(* bits.  d, n or m = 15 is UNPREDICTABLE.                                 *)
ParLaneOf(op, x, k, bits) ==
    LET v == ArchField(x, bits * (k + 1) - 1, bits * k)
    IN IF ~ParUnsigned(op) /\ v >= 2^(bits - 1) THEN v - 2^bits ELSE v
ParFinish(op, v, bits) ==
    (CASE op.pre = "q" -> IF v > 2^(bits - 1) - 1 THEN 2^(bits - 1) - 1
                          ELSE IF v < -(2^(bits - 1)) THEN -(2^(bits - 1)) ELSE v
       [] op.pre = "uq" -> IF v > 2^bits - 1 THEN 2^bits - 1 ELSE IF v < 0 THEN 0 ELSE v
       [] op.pre \in {"sh", "uh"} -> v \div 2
       [] OTHER -> v) % 2^bits
ArchPar(op, ctx) ==
    LET n == ReadReg(ctx, op.Rn)
        m == ReadReg(ctx, op.Rm)
        half == W \div 2
        byte == W \div 4
        nb(k) == ParLaneOf(op, n, k, byte)
        mb(k) == ParLaneOf(op, m, k, byte)
        b(k) == ParFinish(op, IF op.kind = "add8" THEN nb(k) + mb(k) ELSE nb(k) - mb(k), byte)
        nL == ParLaneOf(op, n, 0, half)
        nH == ParLaneOf(op, n, 1, half)
        mL == ParLaneOf(op, m, 0, half)
        mH == ParLaneOf(op, m, 1, half)
        lohi == CASE op.kind = "add16" -> <<nL + mL, nH + mH>>
                  [] op.kind = "sub16" -> <<nL - mL, nH - mH>>
                  [] op.kind = "asx" -> <<nL - mH, nH + mL>>
                  [] op.kind = "sax" -> <<nL + mH, nH - mL>>
    IN IF op.kind \in {"add8", "sub8"} THEN ArchBytes(b(0), b(1), b(2), b(3))
       ELSE ParFinish(op, lohi[1], half) + ParFinish(op, lohi[2], half) * 2^half
ParDecode(op, ctx) ==
    CASE op.Rd = 15 -> UnpredAt("ARM", ArchPar(op, ctx))
      [] op.Rn = 15 \/ op.Rm = 15 -> Unpredictable
      [] OTHER -> Linear

(* Spec 4.8 and the ARM ARM: the transfers never move the PC, except that *)
(* a VMOV to a core register that is the PC is UNPREDICTABLE with the      *)
(* lane it reads as target (the later write when both registers are the    *)
(* PC).  Register files: S[k] is neon[k], D[k] is S[2k+1]:S[2k]; a lane   *)
(* of esize bits (W/4, W/2 or W) is sign- or zero-extended by U.           *)
ArchLane(ctx, n, esize, idx, uns) ==
    LET d == ctx.neon[2 * n] + ctx.neon[2 * n + 1] * 2^W
        e == (d \div 2^(esize * idx)) % 2^esize
    IN IF uns = 0 /\ e >= 2^(esize - 1) THEN U(e - 2^esize) ELSE e
VfpDecode(op, ctx) ==
    LET toArm == op.op = 1
        pc == 15 \in {op.Rt, op.Rt2}
    IN CASE op.kind \in {"vmov_ss", "vmov_d"} ->
              LET m == IF op.kind = "vmov_ss" THEN 2 * op.V + op.M ELSE 16 * op.M + op.V
                  lane == IF op.kind = "vmov_ss"
                          THEN ctx.neon[IF op.Rt2 = 15 THEN m + 1 ELSE m]
                          ELSE ctx.neon[2 * m + (IF op.Rt2 = 15 THEN 1 ELSE 0)]
              IN CASE pc /\ toArm -> UnpredAt("ARM", lane)
                   [] pc \/ (toArm /\ op.Rt = op.Rt2) \/ (op.kind = "vmov_ss" /\ m = 31) ->
                        Unpredictable
                   [] OTHER -> Linear
         [] op.kind = "vmov_s" ->
              IF op.Rt # 15 THEN Linear
              ELSE IF toArm THEN UnpredAt("ARM", ctx.neon[2 * op.V + op.M]) ELSE Unpredictable
         [] op.kind = "vdup" ->
              IF op.B = 1 /\ op.E = 1 THEN Undefined
              ELSE IF op.Rt = 15 THEN Unpredictable ELSE Linear
         [] op.kind \in {"vmov_dx", "vmov_dt_dx"} ->
              LET small == op.opc1 < 2
                  esize == CASE ~small -> W \div 4
                             [] op.opc2 % 2 = 1 -> W \div 2
                             [] OTHER -> W
                  idx == CASE ~small -> (op.opc1 % 2) * 4 + op.opc2
                           [] op.opc2 % 2 = 1 -> (op.opc1 % 2) * 2 + op.opc2 \div 2
                           [] OTHER -> op.opc1 % 2
              IN CASE small /\ op.opc2 = 2 -> Undefined
                   [] toArm /\ small /\ op.opc2 = 0 /\ op.U = 1 -> Undefined
                   [] op.Rt # 15 -> Linear
                   [] toArm -> UnpredAt("ARM", ArchLane(ctx, 16 * op.M + op.V, esize, idx,
                                                        IF esize = W THEN 1 ELSE op.U))
                   [] OTHER -> Unpredictable
         [] op.kind = "vmrs" ->
              IF op.Rt = 15 /\ op.reg # 1 THEN Unpredictable ELSE Linear
         [] op.kind = "vmsr" ->
              IF op.Rt = 15 THEN Unpredictable ELSE Linear

(* LDR/STR and the byte and unprivileged forms (ARM ARM A8.8, spec 4.6).  *)
(* wback = (P = 0 or W = 1); the base is read with PC + 8 and the access  *)
(* uses the offset address when P = 1, the base when P = 0.  At decode,  *)
(* a PC base under writeback is UNPREDICTABLE with the updated base as     *)
(* target (spec 4.6, like LDM's); Rm = PC, wback with n = t, a byte        *)
(* transfer of the PC and LDRT to the PC are UNPREDICTABLE.  Then a load   *)
(* to the PC writes the loaded word as BXWritePC does, from an aligned     *)
(* address only; anything else leaves the PC alone.                        *)
ArchMemWord(ctx, a) ==
    ctx.mem[a] + ctx.mem[U(a + 1)] * 2^ByteBits + ctx.mem[U(a + 2)] * 2^(2 * ByteBits)
    + ctx.mem[U(a + 3)] * 2^(3 * ByteBits)
ArchOffsetAddr(op, ctx) ==
    LET off == IF op.I = 0 THEN op.imm12
               ELSE ArchShiftImm(ctx.r[op.Rm], op.type, op.imm5, ctx.cpsr.c)
    IN IF op.U = 1 THEN U(ReadReg(ctx, op.Rn) + off) ELSE U(ReadReg(ctx, op.Rn) - off)
LdstDecode(op, ctx) ==
    LET wback == op.P = 0 \/ op.W = 1
        nb == ArchOffsetAddr(op, ctx)
    IN CASE wback /\ op.Rn = 15 -> UnpredAt(IF nb % 4 = 0 THEN "ARM" ELSE "THUMB", nb)
         [] \/ op.I = 1 /\ op.Rm = 15
            \/ wback /\ op.Rn = op.Rt
            \/ op.B = 1 /\ op.Rt = 15
            \/ op.P = 0 /\ op.W = 1 /\ op.L = 1 /\ op.Rt = 15 -> Unpredictable
         [] OTHER -> Linear
LdstOutcome(op, ctx) ==
    LET a == IF op.P = 1 THEN ArchOffsetAddr(op, ctx) ELSE ReadReg(ctx, op.Rn)
    IN CASE op.L = 0 \/ op.Rt # 15 -> Linear
         [] a % 4 # 0 -> Unpredictable
         [] OTHER -> ArchWritePC(ArchMemWord(ctx, a))

(* LDRH/STRH/LDRSB/LDRSH and their T forms (ARM ARM A8.8.80-82, 88-90,    *)
(* 92-94, 216-218, spec 4.6).  None may load the PC: Rt = PC is            *)
(* UNPREDICTABLE, as are Rm = PC, wback with Rn = Rt, and a T form in Hyp *)
(* mode; a PC base under writeback is UNPREDICTABLE at the updated base,   *)
(* as for LDR.  Everything else, the PC-relative (literal) forms included, *)
(* leaves the PC alone.                                                     *)
ExtraLdstDecode(op, ctx) ==
    LET wback == op.P = 0 \/ op.W = 1
        off == IF op.I = 1 THEN op.imm8 ELSE ctx.r[op.Rm]
        nb == IF op.U = 1 THEN U(ReadReg(ctx, op.Rn) + off) ELSE U(ReadReg(ctx, op.Rn) - off)
    IN CASE wback /\ op.Rn = 15 -> UnpredAt(IF nb % 4 = 0 THEN "ARM" ELSE "THUMB", nb)
         [] \/ op.Rt = 15
            \/ op.I = 0 /\ op.Rm = 15
            \/ wback /\ op.Rn = op.Rt
            \/ op.P = 0 /\ op.W = 1 /\ ctx.cpsr.mode = Modes.hyp -> Unpredictable
         [] OTHER -> Linear

(* LDRD/STRD (ARM ARM A8.8.72-74, A8.8.210-211, spec 4.6): an odd Rt, the *)
(* T-like P = 0, W = 1, Rt2 = PC, a written-back base equal to Rt, Rt2 or  *)
(* the PC, and for the register form Rm = PC (and, for LDRD, Rm = Rt or    *)
(* Rt2) are UNPREDICTABLE at decode; neither writes the PC otherwise.     *)
DualDecode(op) ==
    LET wback == op.P = 0 \/ op.W = 1
    IN IF \/ op.Rt % 2 = 1
          \/ op.P = 0 /\ op.W = 1
          \/ op.Rt = 14
          \/ wback /\ op.Rn \in {op.Rt, op.Rt + 1, 15}
          \/ op.I = 0 /\ op.Rm = 15
          \/ op.I = 0 /\ op.kind = "ldrd" /\ op.Rm \in {op.Rt, op.Rt + 1}
       THEN Unpredictable ELSE Linear

(* LDREX*/STREX* (ARM ARM A8.8.75-78, A8.8.212-215): a PC base, register  *)
(* or status register, for the D forms an odd Rt or Rt = 14, and for a     *)
(* store a status register equal to Rn, Rt or (D) Rt2 are UNPREDICTABLE;   *)
(* a store never writes the PC and a load only an UNPREDICTABLE one.       *)
ExclDecode(op) ==
    LET d == op.kind = "exd"
    IN IF \/ 15 \in {op.Rn, op.Rt}
          \/ d /\ (op.Rt % 2 = 1 \/ op.Rt = 14)
          \/ op.L = 0 /\ (op.Rd \in {15, op.Rn, op.Rt} \/ (d /\ op.Rd = op.Rt + 1))
       THEN Unpredictable ELSE Linear

(* CPS (ARM ARM B9.3.2, B1.9.x mode changes, spec 4.8): the encoding      *)
(* checks are UNPREDICTABLE at decode in every mode; in User mode it is a  *)
(* NOP; a mode change is UNPREDICTABLE to a mode number that is not a mode *)
(* (User is left out of the ops), to Monitor from Non-secure, to FIQ from  *)
(* Non-secure with NSACR.RFR, and to Hyp except from Hyp or from Monitor   *)
(* with SCR.NS.  It never writes the PC.                                   *)
ArchModeChangeUnp(target, ctx) ==
    \/ target \notin {Modes[m] : m \in DOMAIN Modes}
    \/ target = Modes.mon /\ ctx.sec.secure = 0
    \/ target = Modes.fiq /\ ctx.sec.secure = 0 /\ ctx.sec.rfr = 1
    \/ target = Modes.hyp /\ ctx.cpsr.mode # Modes.hyp
       /\ ~(ctx.cpsr.mode = Modes.mon /\ ctx.sec.ns = 1)
CpsEncodingUnp(op) ==
    \/ op.mode # 0 /\ op.M = 0
    \/ op.imod \in {2, 3} /\ op.aif = 0
    \/ op.imod \in {0, 1} /\ op.aif # 0
    \/ op.imod = 0 /\ op.M = 0
    \/ op.imod = 1
CpsOutcome(op, ctx) ==
    CASE CpsEncodingUnp(op) -> Unpredictable
      [] ctx.cpsr.mode = Modes.usr -> Linear
      [] op.M = 1 /\ ArchModeChangeUnp(op.mode, ctx) -> Unpredictable
      [] OTHER -> Linear

(* MRS/MSR (banked register) (ARM ARM B9.3.9, B9.3.12, and the checks of  *)
(* BankedRegisterAccessValid and SPSRaccessValid), from a mode other than *)
(* Hyp (left out of the ops): UNPREDICTABLE in User mode; an SPSR other   *)
(* than those of FIQ, IRQ, SVC, ABT, UND, MON and HYP, or of the current  *)
(* mode; r8-r12_usr outside FIQ mode, SP_usr and LR_usr in System mode,   *)
(* the FIQ registers in FIQ mode or from Non-secure with NSACR.RFR; the    *)
(* registers of the current mode; the Monitor registers from Non-secure   *)
(* or Monitor mode, the Hyp registers outside Monitor mode; and the        *)
(* reserved encodings.                                                     *)
BankedMode(sysm) ==
    CASE sysm \div 8 = 0 -> Modes.usr
      [] sysm \div 8 = 1 -> Modes.fiq
      [] sysm \div 8 = 2 -> << Modes.irq, Modes.svc, Modes.abt, Modes.und >>[(sysm % 8) \div 2 + 1]
      [] sysm % 8 \in {4, 5} -> Modes.mon
      [] OTHER -> Modes.hyp
ArchBankedUnp(op, ctx) ==
    LET cur == ctx.cpsr.mode
        tm == BankedMode(op.SYSm)
        code == op.SYSm % 8
    IN \/ cur = Modes.usr
       \/ op.SYSm \in {7, 15} \/ op.SYSm \in 24 .. 27
       \/ op.R = 1 /\ op.SYSm \notin {14, 16, 18, 20, 22, 28, 30}
       \/ tm = cur /\ op.SYSm \div 8 # 0
       \/ op.R = 0 /\ op.SYSm < 5 /\ cur # Modes.fiq
       \/ op.R = 0 /\ op.SYSm \in {5, 6} /\ cur = Modes.sys
       \/ tm = Modes.fiq /\ ctx.sec.secure = 0 /\ ctx.sec.rfr = 1
       \/ tm = Modes.mon /\ ctx.sec.secure = 0
       \/ tm = Modes.hyp /\ code \in {6, 7} /\ cur # Modes.mon
BankedOutcome(op, ctx) ==
    IF ArchBankedUnp(op, ctx) THEN Unpredictable ELSE Linear

(* LDM/STM (ARM ARM A8.8.58-62, A8.8.199-202, B9.3.5-6, B9.3.13, spec     *)
(* 4.6).  At decode: an empty list is UNPREDICTABLE; so is a PC base,    *)
(* whose writeback target is the old PC value plus or minus four per      *)
(* register (spec 4.6's scenario); the user-register forms with W; a      *)
(* written-back base in the list of an LDM, or of an STM unless it is the *)
(* lowest register.  Then M = 1 is UNDEFINED in Hyp and UNPREDICTABLE in *)
(* User and System mode, and a load of the PC writes the word of its slot *)
(* (the highest address of the block) as BXWritePC, or, with M = 1, as an *)
(* exception return, whose ARM state branch clears bits 1-0.               *)
LdmDecode(op, ctx) ==
    LET c == Cardinality(op.list)
        pcLoad == op.L = 1 /\ 15 \in op.list
    IN CASE c = 0 -> Unpredictable
         [] op.Rn = 15 /\ op.W = 1 ->
              UnpredAt("ARM", U(IF op.U = 1 THEN ctx.r[15] + 4 * c ELSE ctx.r[15] - 4 * c))
         [] \/ op.Rn = 15
            \/ op.S = 1 /\ ~pcLoad /\ op.W = 1
            \/ op.W = 1 /\ op.Rn \in op.list
               /\ (op.L = 1 \/ \E k \in op.list : k < op.Rn) -> Unpredictable
         [] OTHER -> Linear
LdmOutcome(op, ctx) ==
    LET c == Cardinality(op.list)
        base == ctx.r[op.Rn]
        low == CASE op.P = 0 /\ op.U = 0 -> U(base - 4 * c + 4)
                 [] op.P = 0 -> base
                 [] op.U = 0 -> U(base - 4 * c)
                 [] OTHER -> U(base + 4)
        v == ArchMemWord(ctx, U(low + 4 * (c - 1)))
    IN CASE op.S = 1 /\ ctx.cpsr.mode = Modes.hyp -> Undefined
         [] op.S = 1 /\ ctx.cpsr.mode \in {Modes.usr, Modes.sys} -> Unpredictable
         [] op.L = 0 \/ 15 \notin op.list -> Linear
         [] op.S = 1 -> ArchExceptionReturn(IF ctx.spsr.t = 1 THEN v ELSE v - (v % 4), ctx)
         [] OTHER -> ArchWritePC(v)

(* Spec 4.3 and the ARM ARM: an exception-generating instruction is        *)
(* stepped over (the debugger runs the handler it calls, so the next PC is *)
(* linear) unless it is UNDEFINED: HVC in Secure state, in User mode or    *)
(* with SCR.HCE clear; SMC in User mode, or with SCR.SCD set in Non-secure *)
(* state (UNPREDICTABLE in Secure state) when no HCR.TSC trap takes it     *)
(* first.  ERET and RFE are exception returns, UNPREDICTABLE in User mode  *)
(* (and ERET in System mode), with the state from the SPSR (ERET: the lr)  *)
(* or from the word loaded after the target (RFE: from Rn - 8 when         *)
(* decrementing, plus 4 when P = U); RFE with Rn = PC is UNPREDICTABLE.    *)
(* In Hyp mode ERET returns to ELR_hyp, which the snapshot does not hold.  *)
(* SRS stores only: UNPREDICTABLE from User or System mode, to Hyp mode,   *)
(* and from Non-secure to Monitor mode or to FIQ mode with NSACR.RFR set;  *)
(* RFE and SRS are UNDEFINED in Hyp mode.                                  *)
ArchStateReturn(t, a) == IF t = 1 THEN Jump("THUMB", a - (a % 2)) ELSE Jump("ARM", a - (a % 4))
ArchRfeAddr(op, ctx) ==
    U((IF op.U = 1 THEN ctx.r[op.Rn] ELSE ctx.r[op.Rn] - 8) + (IF op.P = op.U THEN 4 ELSE 0))
ExcDecode(op, ctx) ==
    LET mode == ctx.cpsr.mode
        nonsecure == ctx.sec.secure = 0
    IN CASE op.kind \in {"bkpt", "svc"} -> Linear
         [] op.kind = "eret" ->
              IF mode \in {Modes.usr, Modes.sys, Modes.hyp} THEN Unpredictable
              ELSE ArchStateReturn(ctx.spsr.t, ctx.r[14])
         [] op.kind = "hvc" ->
              IF ctx.sec.secure = 1 \/ mode = Modes.usr \/ ctx.sec.hce = 0 THEN Undefined
              ELSE Linear
         [] op.kind = "smc" ->
              (CASE mode = Modes.usr -> Undefined
                 [] nonsecure /\ ctx.sec.tsc = 1 /\ mode # Modes.hyp -> Linear
                 [] ctx.sec.scd = 1 -> IF nonsecure THEN Undefined ELSE Unpredictable
                 [] OTHER -> Linear)
         [] mode = Modes.hyp -> Undefined
         [] op.kind = "rfe" ->
              IF mode = Modes.usr \/ op.Rn = 15 THEN Unpredictable
              ELSE ArchStateReturn(wbit(ArchMemWord(ctx, U(ArchRfeAddr(op, ctx) + 4)), 5),
                                   ArchMemWord(ctx, ArchRfeAddr(op, ctx)))
         [] op.kind = "srs" ->
              IF \/ mode \in {Modes.usr, Modes.sys}
                 \/ op.mode = Modes.hyp
                 \/ nonsecure /\ op.mode = Modes.mon
                 \/ nonsecure /\ op.mode = Modes.fiq /\ ctx.sec.rfr = 1
              THEN Unpredictable ELSE Linear

(* VLDR/VSTR, VPUSH/VPOP, VLDM/VSTM (ARM ARM A8.8.332-334, 367-369, 413): *)
(* P = U with W = 1 is UNDEFINED; a PC base with writeback, an empty list, *)
(* more than 16 doublewords or a list past D31/S31 is UNPREDICTABLE; the   *)
(* transfers never write the PC.                                           *)
VldxRegs(op) == IF op.sz = 1 THEN op.imm8 \div 2 ELSE op.imm8
VldxFirst(op) == IF op.sz = 1 THEN op.Vd ELSE 2 * op.Vd
VldxDecode(op) ==
    CASE op.P = 1 /\ op.W = 0 -> Linear
      [] op.P = op.U /\ op.W = 1 -> Undefined
      [] op.Rn = 15 /\ op.W = 1 -> Unpredictable
      [] \/ VldxRegs(op) = 0
         \/ op.sz = 1 /\ VldxRegs(op) > 16
         \/ VldxFirst(op) + VldxRegs(op) > 32 -> Unpredictable
      [] OTHER -> Linear

(* VLD1-VLD4/VST1-VST4 (A8.8.320-331, 404-411): the UNDEFINED encodings of *)
(* each form, then a PC base is UNPREDICTABLE; the loads never write the   *)
(* PC.  The one-lane VLD4/VST4 with size 10 is UNDEFINED only for          *)
(* index_align<1:0> = 11.                                                  *)
ElemUndefined(op) ==
    LET size == op.lo \div 4
        align == op.lo % 4
        lsize == op.B \div 4
        n == (op.B % 4) + 1
        ia == op.lo
    IN CASE op.A = 0 ->
              CASE op.B \in {2, 6, 7, 10} ->
                     (op.B \in {6, 7} /\ align \in {2, 3}) \/ (op.B = 10 /\ align = 3)
                [] op.B \in {3, 8, 9} -> size = 3 \/ (op.B \in {8, 9} /\ align = 3)
                [] op.B \in {4, 5} -> size = 3 \/ align \in {2, 3}
                [] op.B \in {0, 1} -> size = 3
                [] OTHER -> TRUE
         [] lsize = 3 ->
              \/ op.L = 0
              \/ n = 1 /\ (size = 3 \/ (size = 0 /\ op.lo % 2 = 1))
              \/ n = 2 /\ size = 3
              \/ n = 3 /\ (size = 3 \/ op.lo % 2 = 1)
              \/ n = 4 /\ size = 3 /\ op.lo % 2 = 0
         [] n = 1 ->
              \/ lsize = 0 /\ ia % 2 = 1
              \/ lsize = 1 /\ (ia \div 2) % 2 = 1
              \/ lsize = 2 /\ ((ia \div 4) % 2 = 1 \/ ia % 4 \in {1, 2})
         [] n = 2 -> lsize = 2 /\ (ia \div 2) % 2 = 1
         [] n = 3 -> (lsize \in {0, 1} /\ ia % 2 = 1) \/ (lsize = 2 /\ ia % 4 # 0)
         [] OTHER -> lsize = 2 /\ ia % 4 = 3
ElemDecode(op) ==
    CASE ElemUndefined(op) -> Undefined
      [] op.Rn = 15 -> Unpredictable
      [] OTHER -> Linear

(* The SIMD forms (A8.8.226, 291, 337, 360, 389, 396): a Q form with an    *)
(* odd register number, size 11 (except VAND and VSHL), VPADD with Q = 1   *)
(* and VCNT with size # 00 are UNDEFINED; VDIV and VCMP are not; none      *)
(* writes the PC.                                                          *)
SimdDecode(op) ==
    IF \/ op.kind \notin {"vdiv", "vcmp", "vpadd"} /\ op.Q = 1 /\ \E v \in {op.Vd, op.Vn, op.Vm} : v % 2 = 1
       \/ op.kind \in {"vceq", "vmla", "vpadd"} /\ op.size = 3
       \/ op.kind = "vpadd" /\ op.Q = 1
       \/ op.kind = "vcnt" /\ op.size # 0
    THEN Undefined ELSE Linear

(* The NEON forms of arm_mux (A8.8.216, 316, 339, 346, 374, 380, 387,    *)
(* 409): VMOV/VORR/VMVN/VBIC (immediate) are UNDEFINED for op = 1 with    *)
(* cmode 1111 and, like VSHR and VORR (register), for Q = 1 with an odd   *)
(* register; the narrowing shifts and moves for an odd Vm (VMOVN also for *)
(* size 11), the widening ones for an odd Vd.  None writes the PC.         *)
NeonUndefined(op) ==
    CASE op.kind = "modimm" -> (op.op5 = 1 /\ op.opc = 15) \/ (op.Q = 1 /\ op.Vd % 2 = 1)
      [] op.kind = "vshr" -> op.Q = 1 /\ (op.Vd % 2 = 1 \/ op.Vm % 2 = 1)
      [] op.kind = "vshrn" -> op.Vm % 2 = 1
      [] op.kind = "vshll" -> op.Vd % 2 = 1
      [] op.kind = "vmovn" -> op.size = 3 \/ op.Vm % 2 = 1
      [] OTHER -> op.Q = 1 /\ \E v \in {op.Vd, op.Vn, op.Vm} : v % 2 = 1
NeonDecode(op) == IF NeonUndefined(op) THEN Undefined ELSE Linear

(* SignExtend(imm24:'00') as an integer.                                   *)
Offset24(imm24) == (IF imm24 >= 2^23 THEN imm24 - 2^24 ELSE imm24) * 4

ArchOutcome(op, ctx) ==
    CASE op.cls = "Udf" -> Undefined        \* UDF, permanently undefined
      [] op.cls = "Cop" /\ CopDecode(op) # Linear -> CopDecode(op)
      [] op.cls = "Div" /\ DivDecode(op, ctx) # Linear -> DivDecode(op, ctx)
      [] op.cls = "Misc" /\ MiscDecode(op) # Linear -> MiscDecode(op)
      [] op.cls = "Mrs" /\ op.Rd = 15 -> Unpredictable
      [] op.cls = "Mac" /\ MacDecode(op, ctx) # Linear -> MacDecode(op, ctx)
      [] op.cls = "Macd" /\ MacdDecode(op, ctx) # Linear -> MacdDecode(op, ctx)
      [] op.cls = "Sat" /\ SatDecode(op, ctx) # Linear -> SatDecode(op, ctx)
      [] op.cls = "DMisc" /\ DMiscDecode(op, ctx) # Linear -> DMiscDecode(op, ctx)
      [] op.cls = "Pack" /\ PackDecode(op, ctx) # Linear -> PackDecode(op, ctx)
      [] op.cls = "Par" /\ ParDecode(op, ctx) # Linear -> ParDecode(op, ctx)
      [] op.cls = "Vfp" /\ VfpDecode(op, ctx) # Linear -> VfpDecode(op, ctx)
      [] op.cls = "Ldst" /\ LdstDecode(op, ctx) # Linear -> LdstDecode(op, ctx)
      [] op.cls = "Ldm" /\ LdmDecode(op, ctx) # Linear -> LdmDecode(op, ctx)
      [] op.cls = "ExtraLdst" -> ExtraLdstDecode(op, ctx)
      [] op.cls = "Dual" -> DualDecode(op)
      [] op.cls = "Excl" -> ExclDecode(op)
      [] op.cls = "Cps" -> CpsOutcome(op, ctx)
      [] op.cls = "MrsB" /\ op.Rd = 15 -> Unpredictable
      [] op.cls = "MsrB" /\ op.Rn = 15 -> Unpredictable
      [] op.cls = "BLXi" ->
           Jump("THUMB", U(ctx.r[15] + 8 + Offset24(op.imm24) + op.H * 2))
      [] op.cls = "Vldx" /\ VldxDecode(op) # Linear -> VldxDecode(op)
      [] op.cls = "Elem" -> ElemDecode(op)
      [] op.cls = "Simd" -> SimdDecode(op)
      [] op.cls = "Neon" -> NeonDecode(op)
      [] ~ArchCondPassed(op.cond, ctx.cpsr) -> Linear
      [] op.cls = "Exc" -> ExcDecode(op, ctx)
      [] op.cls = "B" -> Jump("ARM", U(ctx.r[15] + 8 + Offset24(op.imm24)))
      [] op.cls = "BXr" -> BXOutcome(op, ctx)
      [] op.cls = "Hint" -> Linear          \* NOP, YIELD, WFE, WFI, SEV
      [] op.cls \in {"Cop", "Div", "Misc", "Mac", "Macd", "Sat", "DMisc", "Pack", "Par", "Vfp", "Vldx"} -> Linear
      [] op.cls = "Mrs" -> MrsOutcome(op, ctx)
      [] op.cls = "Ldst" -> LdstOutcome(op, ctx)
      [] op.cls = "Ldm" -> LdmOutcome(op, ctx)
      [] op.cls \in {"MrsB", "MsrB"} -> BankedOutcome(op, ctx)
      [] OTHER -> DPOutcome(op, ctx)

(* A decoder result r reports outcome a: UNDEFINED and UNPREDICTABLE must  *)
(* be flagged, linear must be the sentinel, and a jump must carry the      *)
(* state and the address (for Thumb, up to bit 0) without the flag.  A     *)
(* jump to the next instruction may also be reported as linear.            *)
Conforms(r, a, ctx) ==
    CASE a.kind = "undef" -> r.flag = "UNDEF"
      [] a.kind = "unpred" -> r.unpred
      [] a.kind = "unpred_at" -> r.unpred /\ r.flag = a.flag /\ r.address = a.address
      [] a.kind = "linear" -> r = set_addr_lin
      [] a.kind = "jump" ->
           \/ /\ ~r.unpred
              /\ r.flag = a.flag
              /\ r.address \div 2 = a.address \div 2
              /\ a.flag = "ARM" => r.address = a.address
           \/ a.flag = "ARM" /\ a.address = U(ctx.r[15] + 4) /\ r = set_addr_lin

(* Conforms, except that a prescribed UNPREDICTABLE target need not carry *)
(* the flag: the value alone.                                              *)
ValueConforms(r, a, ctx) ==
    IF a.kind = "unpred_at" THEN r.flag = a.flag /\ r.address = a.address
    ELSE Conforms(r, a, ctx)
=============================================================================

---------------------------- MODULE MCArmDecoder ----------------------------
(***************************************************************************)
(* Model-checking instances of ArmDecoder.  Each run gives a set of        *)
(* architectural ops (ArmSpec) whose encodings are the instruction words   *)
(* of the call, and a set of register snapshots.  Registers other than r0, *)
(* r1 and the PC hold 0; the ops only name r0, r1 and r15.                 *)
(***************************************************************************)
EXTENDS ArmDecoder, ArmSpec, FiniteSets

CONSTANT Ops           \* the ops of the run
CONSTANT Admits(_, _)  \* the snapshots (of Contexts) a run gives each op

VARIABLE op            \* the op the call's instruction word encodes

(* Instrs is every word (InstrWord); a run calls the decoder on the words  *)
(* of its ops.                                                              *)
MCInit == op \in Ops /\ instr = OpInstr(op) /\ Init /\ Admits(op, ctx)
(* ArmDecoder's Next, action by action, with the op unchanged.            *)
MCNext ==
    \/ Miss /\ UNCHANGED op
    \/ NoMatch /\ UNCHANGED op
    \/ Call_arm_branch /\ UNCHANGED op
    \/ Call_arm_mux /\ UNCHANGED op
    \/ Call_arm_core_data_bit /\ UNCHANGED op
    \/ Call_arm_core_data_std_r /\ UNCHANGED op
    \/ Call_arm_core_data_std_sh /\ UNCHANGED op
    \/ Call_arm_core_data_std_i /\ UNCHANGED op
    \/ Call_arm_coproc /\ UNCHANGED op
    \/ Call_arm_core_data_div /\ UNCHANGED op
    \/ Call_arm_core_misc /\ UNCHANGED op
    \/ Call_arm_core_data_mac /\ UNCHANGED op
    \/ Call_arm_core_data_macd /\ UNCHANGED op
    \/ Call_arm_core_data_sat /\ UNCHANGED op
    \/ Call_arm_core_data_misc /\ UNCHANGED op
    \/ Call_arm_core_data_pack /\ UNCHANGED op
    \/ Call_arm_core_data_par /\ UNCHANGED op
    \/ Call_arm_core_exc /\ UNCHANGED op
    \/ Call_arm_vfp_xfer_reg /\ UNCHANGED op
    \/ Call_arm_core_ldst /\ UNCHANGED op
    \/ Call_arm_core_ldstm /\ UNCHANGED op
    \/ Call_arm_core_ldstrh /\ UNCHANGED op
    \/ Call_arm_core_ldstrsb /\ UNCHANGED op
    \/ Call_arm_core_ldstsh /\ UNCHANGED op
    \/ Call_arm_core_ldstrd /\ UNCHANGED op
    \/ Call_arm_core_ldstrex /\ UNCHANGED op
    \/ Call_arm_core_status /\ UNCHANGED op
    \/ Call_arm_fp /\ UNCHANGED op
    \/ Call_arm_v_bits /\ UNCHANGED op
    \/ Call_arm_v_comp /\ UNCHANGED op
    \/ Call_arm_v_mac /\ UNCHANGED op
    \/ Call_arm_v_misc /\ UNCHANGED op
    \/ Call_arm_v_par /\ UNCHANGED op
    \/ Call_arm_v_shift /\ UNCHANGED op
    \/ Call_arm_vfp_ldst_elem /\ UNCHANGED op
    \/ Call_arm_vfp_ldst_ext /\ UNCHANGED op
    \/ Returned /\ UNCHANGED op
MCSpec == MCInit /\ [][MCNext]_<<vars, op>> /\ WF_<<vars, op>>(MCNext)

NP_Pending == [address |-> 0, flag |-> "PENDING", unpred |-> FALSE]

(* The outcome of the call as the abstract specification sees it.          *)
NP_Outcome == IF done THEN retval ELSE NP_Pending
NP == INSTANCE ArmNextPC WITH outcome <- NP_Outcome

(* The decode call implements the abstract specification: it decides one   *)
(* outcome, eventually, and that outcome reports the architectural next PC *)
(* of the instruction under the snapshot (handler results through the      *)
(* table's first match, the mux's condition check and the interworking).   *)
ImplementsNextPC == NP!Spec

(* The safety half of ImplementsNextPC: whatever outcome the call decides  *)
(* reports the architectural next PC.  The two largest runs check this     *)
(* half alone; its liveness half, <>Decided, holds there as well, because  *)
(* the deadlock check finds any state with no decision and no step (Miss   *)
(* raises i, and every hit decides), at a fraction of the cost of TLC's   *)
(* liveness search over their many initial states.                         *)
ImplementsNextPCSafety == NP!Init /\ [][NP!Decide]_<<op, ctx, NP_Outcome>>

-----------------------------------------------------------------------------
(* Every op under every snapshot of the run.                               *)
AnyContext(o, c) == TRUE

(* Register snapshots.                                                     *)
MkPSR(mode, n, z, c, v, t) ==
    [mode |-> mode, n |-> n, z |-> z, c |-> c, v |-> v, t |-> t, ge |-> 0]
MkCtxN(r0, r1, pc, cpsr, spsr, neon) ==
    [r |-> [k \in 0 .. 15 |-> CASE k = 0 -> r0 [] k = 1 -> r1 [] k = 15 -> pc
                                [] OTHER -> 0],
     cpsr |-> cpsr, spsr |-> spsr, neon |-> neon, mem |-> [a \in Word |-> 0],
     sec |-> [secure |-> 1, rfr |-> 0, ns |-> 0, scd |-> 0, hce |-> 0, tsc |-> 0, tge |-> 0]]
(* Snapshots with the extension registers cleared.                         *)
MkCtx(r0, r1, pc, cpsr, spsr) == MkCtxN(r0, r1, pc, cpsr, spsr, [k \in NeonWords |-> 0])

(* Branches: every condition outcome, targets that wrap, and register      *)
(* targets of each low-bit class (Thumb, ARM, neither); and UDF, as A32   *)
(* UDF (cond AL, the udf entry) and in the unconditional space (cond 1111,*)
(* which no table entry matches).                                          *)
BranchOps ==
    [cls : {"B"}, cond : {0, 1, 10, AL}, L : {0, 1}, imm24 : {1, \hFFFFFE}]
    \cup [cls : {"BLXi"}, H : {0, 1}, imm24 : {1, \hFFFFFF}]
    \cup [cls : {"BXr"}, cond : {0, AL}, op1 : {1, 2, 3}, Rm : {0, 1, 15}]
    \cup [cls : {"Udf"}, cond : {AL, 15}, imm12 : {0, \h123}, imm4 : {0}]
BranchContexts ==
    {MkCtx(r0, \h81, pc, MkPSR(Modes.svc, n, z, 0, 0, 0), MkPSR(Modes.usr, 0, 0, 0, 0, 0)) :
        r0 \in {\h41, \h80, \h42}, pc \in {\h40, \hFC}, n \in {0, 1}, z \in {0, 1}}
(* Data processing, always executed.  r0, r1 and the PC give results of   *)
(* every low-bit class, c feeds ADC/SBC/RSC/RRX, and the mode and SPSR.T   *)
(* pairs are the four cases of an exception return: usr (SVC vector), hyp  *)
(* (UNDEFINED), svc with SPSR.T = 0 (ARM) and = 1 (Thumb).                 *)
ExcModes == {<<Modes.usr, 0>>, <<Modes.hyp, 0>>, <<Modes.svc, 0>>, <<Modes.svc, 1>>}
DPContexts ==
    {MkCtx(r0, r1, \h40, MkPSR(m[1], 0, 0, c, 0, 0), MkPSR(Modes.usr, 0, 0, 0, 0, m[2])) :
        r0 \in {\h05, \h80}, r1 \in {\h02, \hFD}, m \in ExcModes, c \in {0, 1}}

AluOps == {OpAND, OpEOR, OpSUB, OpRSB, OpADD, OpADC, OpSBC, OpRSC, OpORR, OpBIC}

(* The forms of each class: Rn = 0000 for MOV/MVN, Rd = 0000 for the      *)
(* tests (their S is 1).                                                   *)
DPForms(cls, opcs, S, Rn, Rd) ==
    {o \in cls :
        /\ o.opc \in opcs
        /\ o.S \in (IF o.opc \in TestOps THEN {1} ELSE S)
        /\ o.Rn \in (IF o.opc \in {OpMOV, OpMVN} THEN {0} ELSE Rn)
        /\ o.Rd \in (IF o.opc \in TestOps THEN {0} ELSE Rd)}

DPrAll == [cls : {"DPr"}, cond : {AL}, opc : 0 .. 15, S : {0, 1}, Rn : {0, 15},
           Rd : {0, 15}, imm5 : {0, 3}, type : {LSL, LSR, ASR, ROR}, Rm : {1, 15}]
DPiAll == [cls : {"DPi"}, cond : {AL}, opc : 0 .. 15, S : {0, 1}, Rn : {0, 15},
           Rd : {0, 15}, rot : {0, 2}, imm8 : {\h03, \h84}]
DPrsrAll == [cls : {"DPrsr"}, cond : {AL}, opc : 0 .. 15, S : {0, 1}, Rn : {0},
             Rd : {0, 15}, Rs : {1}, type : {LSL, ROR}, Rm : {0}]

(* Rd = PC, the forms the handlers compute as the architecture does:       *)
(* register operands other than ORR and ROR #n; the MOV-family shifts LSR, *)
(* ASR by a non-zero amount and RRX without S; immediates without rotation *)
(* for the ops that have an arm_ret_* entry; every register-shifted form.  *)
DPPCOps ==
    {o \in DPForms(DPrAll, (AluOps \ {OpORR}) \cup {OpMVN} \cup TestOps,
                    {0, 1}, {0, 15}, {15}) : o.type # ROR \/ o.imm5 = 0}
    \cup {o \in DPForms(DPrAll, {OpMOV}, {0}, {0}, {15}) :
            \/ o.type \in {LSR, ASR} /\ o.imm5 # 0
            \/ o.type = ROR /\ o.imm5 = 0}
    \cup {o \in DPForms(DPiAll, {OpEOR, OpSUB, OpRSB, OpADD, OpADC, OpSBC, OpRSC,
                                  OpBIC, OpMOV, OpMVN} \cup TestOps,
                          {0, 1}, {0, 15}, {15}) : o.rot = 0}
    \cup DPForms(DPrsrAll, 0 .. 15, {0, 1}, {0}, {15})
(* Rd other than the PC, every form: spec 8 says the result is linear.    *)
DPLinearOps ==
    DPForms(DPrAll, 0 .. 15, {0, 1}, {0, 15}, {0})
    \cup DPForms(DPiAll, 0 .. 15, {0, 1}, {0, 15}, {0})
    \cup DPForms(DPrsrAll, 0 .. 15, {0, 1}, {0}, {0})
DPLinearContexts ==
    {MkCtx(\h05, \hFD, \h40, MkPSR(m, 0, 0, 1, 0, 0), MkPSR(Modes.usr, 0, 0, 0, 0, 1)) :
        m \in {Modes.usr, Modes.svc}}

-----------------------------------------------------------------------------
(* Single instructions on which the code and the architecture disagree,   *)
(* run against r0 = 0x41 (Thumb), r1 = 0x80 (ARM), in svc and hyp, with   *)
(* Z and SPSR.T either way.                                                *)
FewContexts ==
    {MkCtx(\h41, \h80, \h40, MkPSR(m, 0, z, 0, 0, 0), MkPSR(Modes.usr, 0, 0, 0, 0, t)) :
        m \in {Modes.svc, Modes.hyp}, z \in {0, 1}, t \in {0, 1}}

Reg(cond, opc, S, Rn, Rd, imm5, type, Rm) ==
    [cls |-> "DPr", cond |-> cond, opc |-> opc, S |-> S, Rn |-> Rn, Rd |-> Rd,
     imm5 |-> imm5, type |-> type, Rm |-> Rm]

MovPCOps == {Reg(AL, OpMOV, 0, 0, 15, 0, LSL, 0), Reg(AL, OpMOV, 0, 0, 15, 1, LSL, 0)}
ExcRetOps == {Reg(AL, OpMOV, 1, 0, 15, 0, LSL, 1)}
OrrOps == {Reg(AL, OpORR, 0, 0, 15, 0, LSL, 1)}
RorOps == {Reg(AL, OpADD, 0, 0, 15, 3, ROR, 1)}
Shift32Ops == {Reg(AL, OpMOV, 0, 0, 15, 0, LSR, 1)}
CondMuxOps == {Reg(1, OpMOV, 1, 0, 15, 0, LSL, 1)}
CondDirectOps == {Reg(1, OpADD, 0, 0, 15, 0, LSL, 1)}
HintOps == [cls : {"Hint"}, cond : {AL}, hint : 0 .. 4]

-----------------------------------------------------------------------------
(* Coprocessor instructions, conditional (EQ, AL) and "2" forms, on an     *)
(* ordinary, a reserved and the debug coprocessor.  The forms on which the *)
(* handler and spec 4.4 agree: LDC/STC with every addressing mode,        *)
(* MCRR and MCR with r0 or the PC, MRRC/MRC with the PC, CDP on a reserved *)
(* coprocessor.                                                            *)
CopAll == [cls : {"Cop"}, cond : {0, AL, 15},
           kind : {"mcrr", "mrrc", "mcr", "mrc", "cdp", "ldc", "stc"},
           coproc : {5, 8, 14}, Rt : {0, 15}, Rt2 : {0, 15}, pudw : {0, 4, 9, 12}]
CopOps ==
    {o \in CopAll :
        /\ o.kind \in {"ldc", "stc"} => o.Rt = 0
        /\ o.kind \notin {"ldc", "stc"} => o.pudw = 0
        /\ o.kind \in {"mcr", "mrc", "cdp"} => o.Rt2 = 0
        /\ o.kind = "mrrc" => 15 \in {o.Rt, o.Rt2}
        /\ o.kind = "mrc" => o.Rt = 15
        /\ o.kind = "cdp" => o.coproc = 8 /\ o.Rt = 0}
CopContexts ==
    {MkCtx(\h41, \h80, \h40, MkPSR(Modes.svc, 0, z, 0, 0, 0), MkPSR(Modes.usr, 0, 0, 0, 0, 0)) :
        z \in {0, 1}}
CopUnpredOps ==
    {[cls |-> "Cop", cond |-> AL, kind |-> "mrc", coproc |-> 14, Rt |-> 0,
      Rt2 |-> 0, pudw |-> 0]}

(* SDIV/UDIV with r0, r1 or the PC as every operand.  The passing forms    *)
(* leave out UDIV with the PC as divisor, and the snapshots hold non-zero  *)
(* values of magnitude below 2^(W-2), of both signs, with PC = 0x10.       *)
DivAll == [cls : {"Div"}, cond : {AL}, U : {0, 1}, Rd : {0, 15},
           Rm : {0, 1, 15}, Rn : {0, 1, 15}]
DivOps == {o \in DivAll : o.Rd = 15 /\ o.U = 1 => o.Rm # 15}
DivContexts ==
    {MkCtx(r0, r1, \h10, MkPSR(Modes.svc, 0, 0, 0, 0, 0), MkPSR(Modes.usr, 0, 0, 0, 0, 0)) :
        r0 \in {\h07, \hFE, \hD0, \h2F}, r1 \in {\h07, \hFE, \hD0, \h2F}}
(* Zero, large and negative operands.                                     *)
DivEdgeContexts ==
    {MkCtx(r0, r1, \h10, MkPSR(Modes.svc, 0, 0, 0, 0, 0), MkPSR(Modes.usr, 0, 0, 0, 0, 0)) :
        r0 \in {0, \h80, \h64}, r1 \in {\h01, \hFD}}
Div(u, Rm, Rn) == [cls |-> "Div", cond |-> AL, U |-> u, Rd |-> 15, Rm |-> Rm, Rn |-> Rn]
SDivPCOps == {Div(0, 1, 0)}
UDivZeroOps == {Div(1, 0, 1)}
UDivPCOps == {Div(1, 15, 1)}
SDivWrapOps == {Div(0, 1, 0)}

-----------------------------------------------------------------------------
(* arm_core_misc: the unconditional hints and barriers, the preloads with  *)
(* r0 or the PC as base and r1 or the PC as offset, and SWP/SWPB with      *)
(* every register pattern over r0, r1 and the PC.  The passing forms leave *)
(* out the register preloads whose offset register is not the PC.          *)
MiscAll ==
    [cls : {"Misc"}, cond : {15}, kind : {"setend", "clrex", "dsb", "dmb", "isb"},
     R : {0}, Rn : {0}, Rm : {1}, Rt : {0}]
    \cup [cls : {"Misc"}, cond : {15}, kind : {"pld_imm", "pli_imm", "pld_r", "pli_r"},
         R : {0, 1}, Rn : {0, 15}, Rm : {1, 15}, Rt : {0}]
    \cup [cls : {"Misc"}, cond : {0, AL}, kind : {"swp"}, R : {0, 1},
         Rn : {0, 1, 15}, Rm : {0, 1, 15}, Rt : {0, 1, 15}]
MiscOps ==
    {o \in MiscAll :
        /\ o.kind \in {"pli_imm", "pli_r"} => o.R = 0
        /\ o.kind \in {"pld_imm", "pli_imm"} => o.Rm = 1
        /\ o.kind \in {"pld_r", "pli_r"} => o.Rm = 15}
MiscContexts == CopContexts
Misc(R, Rn, Rm) == [cls |-> "Misc", cond |-> 15, kind |-> "pld_r", R |-> R, Rn |-> Rn,
                    Rm |-> Rm, Rt |-> 0]
PldRegOps == {Misc(1, 0, 1)}
PldPCOps == {Misc(1, 15, 1)}

(* MRS of the CPSR or SPSR to r0 in privileged modes, either condition;    *)
(* and to the PC, and of the SPSR in user mode.                            *)
MrsOps == [cls : {"Mrs"}, cond : {0, AL}, R : {0, 1}, Rd : {0}]
MrsContexts ==
    {MkCtx(\h41, \h80, \h40, MkPSR(m, 0, z, 0, 0, 0), MkPSR(Modes.usr, 0, 0, 0, 0, 1)) :
        m \in {Modes.svc, Modes.hyp}, z \in {0, 1}}
MrsPCOps == {[cls |-> "Mrs", cond |-> AL, R |-> 0, Rd |-> 15]}
MrsSpsrOps == {[cls |-> "Mrs", cond |-> AL, R |-> 1, Rd |-> 0]}
UserContexts ==
    {MkCtx(\h41, \h80, \h40, MkPSR(m, 0, 0, 0, 0, 0), MkPSR(Modes.usr, 0, 0, 0, 0, 0)) :
        m \in {Modes.usr, Modes.sys}}

-----------------------------------------------------------------------------
(* The multiplies over r0, r1 and the PC.  Fields a kind does not encode  *)
(* are 0.  The passing forms leave out the PC as Rn, and SMMLS to the PC;  *)
(* the snapshots hold 0x05 and -3, whose products (and those with PC + 8) *)
(* fit in a word, with PC = 0x10.                                          *)
MacKinds == {"mul", "mla", "mls", "smulw", "smlaw", "smul", "smla", "smmul",
             "smmla", "smmls", "smuad", "smusd", "smlad", "smlsd"}
MacAll == [cls : {"Mac"}, cond : {AL}, kind : MacKinds, S : {0}, Rd : {0, 15},
           Ra : {0, 1}, Rm : {0, 1, 15}, Rn : {0, 1, 15}, x : {0, 1}, y : {0, 1}]
MacOps ==
    {o \in MacAll :
        /\ o.kind \notin {"mla", "mls", "smlaw", "smla", "smmla", "smmls", "smlad", "smlsd"} => o.Ra = 0
        /\ o.kind \in {"mul", "mla", "mls", "smulw", "smlaw"} => o.x = 0
        /\ o.kind \notin {"smulw", "smlaw", "smul", "smla"} => o.y = 0
        /\ o.Rn # 15
        /\ o.Rd # 15 => o.Rm # 15
        /\ o.kind = "smmls" => o.Rd # 15}
MacContexts ==
    {MkCtx(r0, r1, \h10, MkPSR(Modes.svc, 0, 0, 0, 0, 0), MkPSR(Modes.usr, 0, 0, 0, 0, 0)) :
        r0 \in {\h05, \hFD}, r1 \in {\h05, \hFD}}
(* Operands whose product needs more than a word.                         *)
MacWideContexts ==
    {MkCtx(\h13, \h0D, \h10, MkPSR(Modes.svc, 0, 0, 0, 0, 0), MkPSR(Modes.usr, 0, 0, 0, 0, 0))}
Mac(kind, Rd, Rm, Rn) ==
    [cls |-> "Mac", cond |-> AL, kind |-> kind, S |-> 0, Rd |-> Rd, Ra |-> 1, Rm |-> Rm,
     Rn |-> Rn, x |-> 0, y |-> 0]
SmmulOps == {Mac("smmul", 15, 0, 1)}
SmmlsOps == {Mac("smmls", 15, 0, 1)}
MulPCOps == {Mac("mul", 0, 15, 1)}

(* The 64-bit multiplies over r0, r1 and the PC, with the x and y bits     *)
(* where the kind encodes them.  The passing forms leave out RdHi = RdLo,  *)
(* a PC operand with no PC destination, SMLAL, UMLAL and SMLAL<x><y> to    *)
(* the PC, and RdHi = PC except for SMULL: the handler's low word is right *)
(* in every other form, its high word is not.                              *)
Macd(kind, RdHi, RdLo, Rm, Rn, x, y) ==
    [cls |-> "Macd", cond |-> AL, kind |-> kind, RdHi |-> RdHi, RdLo |-> RdLo, Rm |-> Rm,
     Rn |-> Rn, x |-> x, y |-> y]
MacdAll ==
    {Macd(k, dh, dl, m, n, x, y) :
        k \in {"smlalxy", "smlal", "smull", "umaal", "umlal", "umull", "smlald", "smlsld"},
        dh \in {0, 1, 15}, dl \in {0, 1, 15}, m \in {0, 1, 15}, n \in {0, 1}, x \in {0, 1},
        y \in {0, 1}}
MacdOps ==
    {o \in MacdAll :
        /\ o.kind \notin {"smlalxy", "smlald", "smlsld"} => o.x = 0
        /\ o.kind # "smlalxy" => o.y = 0
        /\ o.RdHi # o.RdLo
        /\ 15 \notin {o.RdHi, o.RdLo} => o.Rm # 15
        /\ o.kind \in {"smlal", "umlal", "smlalxy"} => 15 \notin {o.RdHi, o.RdLo}
        /\ o.RdHi = 15 => o.kind = "smull"}
(* Reproductions of the 64-bit forms MacdOps leaves out.                  *)
SmlalOps == {Macd("smlal", 0, 15, 0, 1, 0, 0), Macd("umlal", 0, 15, 0, 1, 0, 0)}
Smlal16Ops == {Macd("smlalxy", 0, 15, 0, 1, 0, 0)}
UmullHiOps == {Macd("umull", 15, 0, 0, 1, 0, 0)}
UmaalHiOps == {Macd("umaal", 15, 0, 0, 1, 0, 0)}
SmlaldHiOps == {Macd("smlald", 15, 0, 0, 1, 0, 0)}
SmullWideOps == {Macd("smull", 15, 0, 0, 1, 0, 0)}
MacdPCOps == {Macd("smull", 0, 1, 15, 0, 0, 0)}

(* The saturating operations over r0, r1 and the PC.  The passing forms   *)
(* are QADD and QDSUB on non-negative operands (0x05, 0x50, PC + 8 =       *)
(* 0x18: sums and doubles that saturate and ones that do not), QSUB and    *)
(* QDADD to r0, and SSAT/USAT/SSAT16/USAT16 with shifts of 0 and 2 either *)
(* way and saturation widths inside and beyond the word; the PC is an      *)
(* operand only when it is also Rd.                                        *)
QKinds == {"qadd", "qsub", "qdadd", "qdsub"}
SatAll ==
    [cls : {"Sat"}, cond : {AL}, kind : QKinds, Rd : {0, 15}, Rn : {0, 1, 15},
     Rm : {0, 1}, sat : {0}, imm5 : {0}, sh : {0}]
    \cup [cls : {"Sat"}, cond : {AL}, kind : {"ssat", "usat"}, Rd : {0, 15}, Rn : {0},
         Rm : {0}, sat : {3, 9}, imm5 : {0, 2}, sh : {0, 1}]
    \cup [cls : {"Sat"}, cond : {AL}, kind : {"ssat16", "usat16"}, Rd : {0, 15},
         Rn : {0, 15}, Rm : {0}, sat : {1, 3}, imm5 : {0}, sh : {0}]
SatOps ==
    {o \in SatAll : /\ o.kind \in {"qsub", "qdadd"} => o.Rd = 0
                    /\ o.Rd # 15 => o.Rn # 15}
SatContexts ==
    {MkCtx(r0, r1, \h10, MkPSR(Modes.svc, 0, 0, 0, 0, 0), MkPSR(Modes.usr, 0, 0, 0, 0, 0)) :
        r0 \in {\h05, \h50, \hFB}, r1 \in {\h05, \h50}}
SatPosContexts == {c \in SatContexts : c.r[0] # \hFB}
Q(kind) ==
    [cls |-> "Sat", cond |-> AL, kind |-> kind, Rd |-> 15, Rn |-> 0, Rm |-> 1, sat |-> 0,
     imm5 |-> 0, sh |-> 0]
QSubOps == {Q("qsub")}
QDAddOps == {Q("qdadd")}
QAddOps == {Q("qadd")}

(* The bit-field, reverse, select and sum-of-differences ops over r0, r1  *)
(* and the PC: every kind to r0 and to the PC, with the operands r0, r1   *)
(* and the PC, fields inside the word, empty (msb < lsb) and past its top, *)
(* immediates below 2^(W/2).  Fields a kind does not encode are 0.        *)
DMisc(kind, Rd, Rn, Rm, Ra, msb, lsb, imm) ==
    [cls |-> "DMisc", cond |-> AL, kind |-> kind, Rd |-> Rd, Rn |-> Rn, Rm |-> Rm, Ra |-> Ra,
     msb |-> msb, lsb |-> lsb, imm |-> imm]
DMiscAll ==
    {DMisc(k, d, 0, 0, 0, 0, 0, imm) : k \in {"movw", "movt"}, d \in {0, 15}, imm \in {3, 10}}
    \cup {DMisc(k, d, 0, m, 0, 0, 0, 0) :
             k \in {"clz", "rbit", "rev", "rev16", "revsh"}, d \in {0, 15}, m \in {0, 1, 15}}
    \cup {DMisc(k, d, IF k = "bfc" THEN 0 ELSE 1, 0, 0, msb, lsb, 0) :
             k \in {"bfc", "bfi"}, d \in {0, 15}, msb \in {2, 5}, lsb \in {0, 2, 4}}
    \cup {DMisc(k, d, n, 0, 0, w, lsb, 0) :
             k \in {"sbfx", "ubfx"}, d \in {0, 15}, n \in {0, 1, 15}, w \in {1, 4, 7}, lsb \in {0, 3}}
    \cup {DMisc("sel", d, n, m, 0, 0, 0, 0) : d \in {0, 15}, n \in {0, 15}, m \in {1, 15}}
    \cup {DMisc(k, d, 0, 1, IF k = "usad8" THEN 15 ELSE 1, 0, 0, 0) :
             k \in {"usad8", "usada8"}, d \in {0, 15}}
(* The forms the handler gets right: the PC as an operand only with the PC *)
(* as Rd, and none of the reproductions below.                             *)
DMiscBad(o) ==
    \/ o.Rd # 15 /\ DMiscDecode(o, MkCtx(0, 0, 0, MkPSR(Modes.svc, 0, 0, 0, 0, 0),
                                         MkPSR(Modes.usr, 0, 0, 0, 0, 0))) # Linear
    \/ o.Rd = 15 /\ o.kind \in {"movt", "rev", "rev16", "usada8"}
    \/ o.Rd = 15 /\ o.kind = "bfi" /\ o.lsb > 0 /\ o.msb >= o.lsb
    \/ o.Rd # 15 /\ o.kind = "usad8"
DMiscOps == {o \in DMiscAll : ~DMiscBad(o)}
(* r0 and r1 hold four distinct bytes (and zero, for CLZ), the PC reads   *)
(* 0x18, and GE selects alternate bytes either way.                        *)
DMiscContexts ==
    {MkCtx(r0, r1, \h10, [MkPSR(Modes.svc, 0, 0, 0, 0, 0) EXCEPT !.ge = ge],
           MkPSR(Modes.usr, 0, 0, 0, 0, 0)) :
        r0 \in {\h1B, \hA4}, r1 \in {0, \h6C}, ge \in {5, 12}}
(* Reproductions of the forms the passing set leaves out.                 *)
MovtPCOps == {DMisc("movt", 15, 0, 0, 0, 0, 0, 3)}
RevPCOps == {DMisc("rev", 15, 0, 0, 0, 0, 0, 0), DMisc("rev16", 15, 0, 0, 0, 0, 0, 0)}
BfiPCOps == {DMisc("bfi", 15, 1, 0, 0, 5, 2, 0)}
Usad8Ops == {DMisc("usad8", 0, 0, 1, 15, 0, 0, 0)}
Usada8PCOps == {DMisc("usada8", 15, 0, 1, 1, 0, 0, 0)}
ClzPCOps == {DMisc("clz", 0, 0, 15, 0, 0, 0, 0)}

(* The pack and extend ops over r0, r1 and the PC: PKH to r0 and to the   *)
(* PC with every operand, tb 0 and 1 and imm5 0 and 3; every extend kind   *)
(* to r0 and to the PC, accumulating r1 or not (Rn = 15), Rm r0, r1 or the *)
(* PC, and the rotations 0, 1 and 3.  Fields a kind does not encode are 0. *)
Pack(kind, Rd, Rn, Rm, imm, tb, rot) ==
    [cls |-> "Pack", cond |-> AL, kind |-> kind, Rd |-> Rd, Rn |-> Rn, Rm |-> Rm,
     imm |-> imm, tb |-> tb, rot |-> rot]
PackAll ==
    {Pack("pkh", d, n, m, imm, tb, 0) :
        d \in {0, 15}, n \in {0, 1, 15}, m \in {0, 1, 15}, imm \in {0, 3}, tb \in {0, 1}}
    \cup {Pack(k, d, n, m, 0, 0, rot) :
          k \in {"sxtab16", "sxtab", "sxtah", "uxtab16", "uxtab", "uxtah"},
          d \in {0, 15}, n \in {1, 15}, m \in {0, 1, 15}, rot \in {0, 1, 3}}
(* The forms the handler gets right: a PC operand only with the PC as Rd, *)
(* a rotation equal to the Rm number (mod 4), no UXTAB/UXTAH accumulation  *)
(* and no PKHTB #0 to the PC.                                              *)
PackBad(o) ==
    \/ o.Rd # 15 /\ PackDecode(o, MkCtx(0, 0, 0, MkPSR(Modes.svc, 0, 0, 0, 0, 0),
                                        MkPSR(Modes.usr, 0, 0, 0, 0, 0))) # Linear
    \/ o.Rd = 15 /\ o.kind # "pkh" /\ o.rot # o.Rm % 4
    \/ o.Rd = 15 /\ o.kind \in {"uxtab", "uxtah"} /\ o.Rn # 15
    \/ o.Rd = 15 /\ o.kind = "pkh" /\ o.tb = 1 /\ o.imm = 0
PackOps == {o \in PackAll : ~PackBad(o)}
(* PKH snapshots: r0 and r1 with the top bit set or clear, so ASR fills    *)
(* either way.  Extend snapshots: every byte's top bit clear (the PC reads *)
(* 0x14), the one case in which the handler's signed and unsigned forms    *)
(* agree with the architecture's; values with it set are reproduced.       *)
PkhContexts ==
    {MkCtx(r0, r1, \h10, MkPSR(Modes.svc, 0, 0, 0, 0, 0), MkPSR(Modes.usr, 0, 0, 0, 0, 0)) :
        r0 \in {\h1B, \hA4}, r1 \in {\h6C, \h93}}
ExtContexts ==
    {MkCtx(r0, r1, \h0C, MkPSR(Modes.svc, 0, 0, 0, 0, 0), MkPSR(Modes.usr, 0, 0, 0, 0, 0)) :
        r0 \in {\h15, \h41}, r1 \in {\h04, \h51}}
PackAdmits(o, c) == c \in IF o.kind = "pkh" THEN PkhContexts ELSE ExtContexts
(* Reproductions of the forms the passing set leaves out.                 *)
PkhtbZeroOps == {Pack("pkh", 15, 0, 1, 0, 1, 0)}
ExtRorOps == {Pack("sxtab", 15, 15, 1, 0, 0, 0)}
SxtbSignOps == {Pack("sxtab", 15, 15, 0, 0, 0, 0)}
UxtabSumOps == {Pack("uxtab", 15, 1, 0, 0, 0, 0)}
PackPCOps == {Pack("sxtab", 0, 15, 15, 0, 0, 3)}

(* The parallel add/subtract ops over r0, r1 and the PC: every prefix and *)
(* kind, to r0 and to the PC, Rn r0 or the PC and Rm r1 or the PC.         *)
Par(pre, kind, Rd, Rn, Rm) ==
    [cls |-> "Par", cond |-> AL, pre |-> pre, kind |-> kind, Rd |-> Rd, Rn |-> Rn, Rm |-> Rm]
ParAll ==
    {Par(p, k, d, n, m) : p \in {"s", "q", "sh", "u", "uq", "uh"},
                          k \in {"add16", "sub16", "asx", "sax", "add8", "sub8"},
                          d \in {0, 15}, n \in {0, 15}, m \in {1, 15}}
(* The forms the handler gets right: a PC operand only with the PC as Rd, *)
(* and with it neither an exchange form (ASX, SAX) nor SHSUB16.           *)
ParBad(o) ==
    \/ o.Rd # 15 /\ 15 \in {o.Rn, o.Rm}
    \/ o.Rd = 15 /\ o.kind \in {"asx", "sax"}
    \/ o.Rd = 15 /\ o.pre = "sh" /\ o.kind = "sub16"
ParOps == {o \in ParAll : ~ParBad(o)}
(* Snapshots whose byte and half lanes carry out, borrow, saturate both   *)
(* ways and are negative when read signed (the PC reads 0x18).             *)
ParContexts ==
    {MkCtx(r0, r1, \h10, MkPSR(Modes.svc, 0, 0, 0, 0, 0), MkPSR(Modes.usr, 0, 0, 0, 0, 0)) :
        r0 \in {\h3A, \hC5}, r1 \in {\h7E, \h92}}
(* Reproductions of the forms the passing set leaves out.                 *)
ShSub16Ops == {Par("sh", "sub16", 15, 0, 1)}
AsxOps == {Par("u", "asx", 15, 0, 1)}
SaxOps == {Par("q", "sax", 15, 0, 1)}
ParPCOps == {Par("s", "add8", 0, 15, 1)}

(* The VFP/NEON transfers over r0, r1, the PC and S0-S3 (D0, D1), every  *)
(* lane selector and the listed VMRS/VMSR registers.  Fields a kind does   *)
(* not encode are 0.  The passing forms leave out the moves to the PC of   *)
(* two registers, of a single and of a 16- or 32-bit scalar, and VDUP      *)
(* from the PC.                                                            *)
VfpRec(kind, o, Rt, Rt2, V, M, B, E, opc1, opc2, u, reg) ==
    [cls |-> "Vfp", cond |-> AL, kind |-> kind, op |-> o, Rt |-> Rt, Rt2 |-> Rt2,
     V |-> V, M |-> M, B |-> B, E |-> E, opc1 |-> opc1, opc2 |-> opc2, U |-> u, reg |-> reg]
VfpAll ==
    {VfpRec(k, o, t, t2, v, m, 0, 0, 0, 0, 0, 0) :
        k \in {"vmov_ss", "vmov_d"}, o \in {0, 1}, t \in {0, 1, 15}, t2 \in {0, 1, 15},
        v \in {0, 1}, m \in {0, 1}}
    \cup {VfpRec("vmov_s", o, t, 0, v, m, 0, 0, 0, 0, 0, 0) :
          o \in {0, 1}, t \in {0, 15}, v \in {0, 1}, m \in {0, 1}}
    \cup {VfpRec("vdup", 0, t, 0, 0, 0, b, e, 0, 0, 0, 0) : t \in {0, 15}, b \in {0, 1}, e \in {0, 1}}
    \cup {VfpRec("vmov_dx", 0, t, 0, v, 0, 0, 0, o1, o2, 0, 0) :
          t \in {0, 15}, v \in {0, 1}, o1 \in 0 .. 3, o2 \in 0 .. 3}
    \cup {VfpRec("vmov_dt_dx", 1, t, 0, v, 0, 0, 0, o1, o2, u, 0) :
          t \in {0, 15}, v \in {0, 1}, o1 \in 0 .. 3, o2 \in 0 .. 3, u \in {0, 1}}
    \cup {VfpRec(k, 0, t, 0, 0, 0, 0, 0, 0, 0, 0, r) :
          k \in {"vmrs", "vmsr"}, t \in {0, 15}, r \in {0, 1, 6, 7, 8}}
VfpOps ==
    {o \in VfpAll :
        /\ o.kind = "vmov_d" => o.M = 0
        /\ o.kind \in {"vmov_ss", "vmov_d"} /\ o.op = 1 => 15 \notin {o.Rt, o.Rt2}
        /\ o.kind = "vmov_s" => o.Rt # 15
        /\ o.kind = "vdup" /\ o.Rt = 15 => o.B = 1 /\ o.E = 1
        /\ o.kind = "vmov_dt_dx" /\ o.Rt = 15 /\ o.opc1 < 2 => o.opc2 = 2 \/ (o.opc2 = 0 /\ o.U = 1)}
(* Reproductions of the VFP transfers VfpOps leaves out, each a          *)
(* disagreement with the architecture TLC reports under ImplementsNextPC:  *)
(* a pair moved to the PC returns UNDEFINED (or-ed with UNPREDICTABLE),    *)
(* a single moved to the PC is not flagged, VDUP from the PC is not        *)
(* flagged, and a 16-bit scalar is read as one byte.                       *)
VmovPairPCOps == {o \in VfpAll : o.kind = "vmov_ss" /\ o.op = 1 /\ o.Rt = 15}
VmovSPCOps == {o \in VfpAll : o.kind = "vmov_s" /\ o.Rt = 15}
VdupPCOps == {o \in VfpAll : o.kind = "vdup" /\ o.Rt = 15 /\ ~(o.B = 1 /\ o.E = 1)}
ScalarHalfOps == {o \in VfpAll : o.kind = "vmov_dt_dx" /\ o.Rt = 15 /\ o.opc1 < 2 /\ o.opc2 = 1}
VfpContexts ==
    {MkCtxN(\h41, \h80, \h40, MkPSR(Modes.svc, 0, 0, 0, 0, 0), MkPSR(Modes.usr, 0, 0, 0, 0, 0),
            [k \in NeonWords |-> <<\hB4, \h5A, \h9C, \h27>>[k + 1]])}

(* Extension-register loads and stores from r0, SP and the PC with every  *)
(* P:U:W but 000 (the 64-bit transfers), both sizes, first register S0/D0  *)
(* or S30/D15 and 0, 2 or 4 as imm8, so the empty list, a list past the    *)
(* last register and the PC base with and without writeback all occur.    *)
(* VldxBad is where arm_vfp_ldst_ext disagrees with the architecture: a   *)
(* VLDM/VSTM from the PC, or with an empty or overlong list (VPUSH/VPOP   *)
(* flag the empty list only).                                              *)
Vldx(L, puw, Rn, Vd, sz, imm8) ==
    [cls |-> "Vldx", cond |-> AL, L |-> L, P |-> puw \div 4, U |-> (puw \div 2) % 2,
     W |-> puw % 2, Rn |-> Rn, Vd |-> Vd, sz |-> sz, imm8 |-> imm8]
VldxAll ==
    {Vldx(l, puw, n, d, z, m) :
        l \in {0, 1}, puw \in 1 .. 7, n \in {0, 13, 15}, d \in {0, 15}, z \in {0, 1},
        m \in {0, 2, 4}}
VpushForm(o) == o.Rn = 13 /\ o.W = 1 /\ o.P # o.L /\ o.U = o.L
VldxBad(o) ==
    /\ ~(o.P = 1 /\ o.W = 0)
    /\ ~(o.P = o.U /\ o.W = 1)
    /\ \/ o.Rn = 15
       \/ o.imm8 = 0 /\ ~VpushForm(o)
       \/ VldxFirst(o) + VldxRegs(o) > 32
VldxOps == {o \in VldxAll : ~VldxBad(o)}
(* Reproductions: VLDM/VSTM from the PC predicted as a jump to the PC or  *)
(* to the written-back PC, unflagged; an empty or overlong list not        *)
(* flagged.                                                                *)
VldmPCOps == {o \in VldxAll : VldxBad(o) /\ o.Rn = 15 /\ o.imm8 = 2 /\ o.Vd = 0}
VldmListOps == {o \in VldxAll : VldxBad(o) /\ o.Rn = 0}

(* Element and structure loads and stores from r0 and the PC, without     *)
(* writeback (Rm = 15), over every type or size:n-1 field and every low    *)
(* field.  arm_vfp_ldst_elem returns set_undef_addr() for all of them, so  *)
(* the passing set is the architecturally UNDEFINED forms; ElemLegalOps    *)
(* reproduces the rest.                                                    *)
ElemAll == [cls : {"Elem"}, cond : {15}, A : {0, 1}, L : {0, 1}, Rn : {0, 15},
            B : 0 .. 15, lo : 0 .. 15, Rm : {15}]
ElemOps == {o \in ElemAll : ElemDecode(o) = Undefined}
ElemLegalOps == {o \in ElemAll : ElemDecode(o) # Undefined /\ o.Rn = 0 /\ o.A = 0}

(* One form per SIMD handler and VDIV/VCMP, with Q 0 and 1, sizes 00, 01  *)
(* and 11 and an even or odd Vd.  The stubs return set_addr_lin() for      *)
(* all; SimdUndefOps reproduces the UNDEFINED forms.                       *)
SimdAll ==
    {[cls |-> "Simd", cond |-> IF k \in {"vdiv", "vcmp"} THEN AL ELSE 15, kind |-> k,
      Q |-> q, size |-> z, Vd |-> d, Vn |-> 0, Vm |-> 0] :
        k \in {"vand", "vceq", "vmla", "vpadd", "vcnt", "vshl", "vdiv", "vcmp"},
        q \in {0, 1}, z \in {0, 1, 3}, d \in {0, 1}}
SimdOps == {o \in SimdAll : SimdDecode(o) = Linear}
SimdUndefOps == {o \in SimdAll : SimdDecode(o) = Undefined}

(* The NEON forms arm_mux decodes, with Q 0 and 1 and even and odd        *)
(* registers: every op and the cmode values 0000, 0001, 1010, 1101, 1110   *)
(* and 1111 of the modified immediates, VSHR, the four narrowing shifts    *)
(* with U 0 and 1, VSHLL with imm3 001 (VMOVL) and 011, VMOVN with size 00 *)
(* and 11, and VORR (register).  NeonBad is where the mux disagrees with  *)
(* the architecture: the VORR/VMOV (immediate) and VSHR case accepts Q = 1 *)
(* only, VBIC/VMVN rejects cmode 1110 (VMOV.I64) and skips the Q check,    *)
(* and VORR (register) rejects an odd register whatever Q.                 *)
Neon(kind, u, imm3, opc, q, op5, vd, vn, vm, size) ==
    [cls |-> "Neon", cond |-> 15, kind |-> kind, U |-> u, imm3 |-> imm3, opc |-> opc,
     Q |-> q, op5 |-> op5, Vd |-> vd, Vn |-> vn, Vm |-> vm, size |-> size]
NeonAll ==
    {Neon("modimm", 0, 0, c, q, o, d, 0, 0, 0) :
        c \in {0, 1, 10, 13, 14, 15}, q \in {0, 1}, o \in {0, 1}, d \in {0, 1}}
    \cup {Neon("vshr", 0, 1, 0, q, 0, d, 0, m, 0) : q \in {0, 1}, d \in {0, 1}, m \in {0, 1}}
    \cup {Neon("vshrn", u, 1, c, b, 0, 0, 0, m, 0) :
          u \in {0, 1}, c \in {8, 9}, b \in {0, 1}, m \in {0, 1}}
    \cup {Neon("vshll", u, m, 10, 0, 0, d, 0, 0, 0) : u \in {0, 1}, m \in {1, 3}, d \in {0, 1}}
    \cup {Neon("vmovn", 0, 0, c, 0, 0, 0, 0, m, z) : c \in {0, 1}, m \in {0, 1}, z \in {0, 3}}
    \cup {Neon("vorr_r", 0, 0, 1, q, 0, d, n, m, 0) :
          q \in {0, 1}, d \in {0, 1}, n \in {0, 1}, m \in {0, 1}}
NeonBad(o) ==
    \/ o.kind \in {"modimm", "vshr"} /\ o.op5 = 0 /\ o.Q = 0
    \/ o.kind = "modimm" /\ o.op5 = 1 /\ NeonDecode(o) = Linear /\ o.opc = 14
    \/ o.kind = "modimm" /\ o.op5 = 1 /\ o.Q = 1 /\ o.Vd % 2 = 1 /\ o.opc < 14
    \/ o.kind = "vorr_r" /\ o.Q = 0 /\ \E v \in {o.Vd, o.Vn, o.Vm} : v % 2 = 1
NeonOps == {o \in NeonAll : ~NeonBad(o)}
(* Reproductions: VORR/VMOV (immediate) and VSHR with Q = 0, VMOV.I64,    *)
(* VMVN/VBIC of an odd quadword, VORR of odd doublewords, each predicted   *)
(* wrongly.                                                                *)
NeonQ0Ops == {o \in NeonAll : NeonBad(o) /\ o.kind \in {"modimm", "vshr"} /\ o.Q = 0}
VmovI64Ops == {o \in NeonAll : NeonBad(o) /\ o.opc = 14}
VbicOddOps == {o \in NeonAll : NeonBad(o) /\ o.op5 = 1 /\ o.opc < 14}
VorrRegOps == {o \in NeonAll : NeonBad(o) /\ o.kind = "vorr_r"}

(* Single loads and stores over r0, r1 and the PC as base and transfer   *)
(* register, with the immediate offsets 0 and 4 and the register offsets *)
(* r1 and the PC under every shift type by 0 and 2.                        *)
Ldst(I, P, u, B, wb, L, Rn, Rt, imm12, imm5, type, Rm) ==
    [cls |-> "Ldst", cond |-> AL, I |-> I, P |-> P, U |-> u, B |-> B, W |-> wb, L |-> L,
     Rn |-> Rn, Rt |-> Rt, imm12 |-> imm12, imm5 |-> imm5, type |-> type, Rm |-> Rm]
LdstAll ==
    {Ldst(0, p, u, b, w, l, n, t, imm, 0, 0, 0) :
        p \in {0, 1}, u \in {0, 1}, b \in {0, 1}, w \in {0, 1}, l \in {0, 1},
        n \in {0, 1, 15}, t \in {0, 1, 15}, imm \in {0, 4}}
    \cup {Ldst(1, p, u, b, w, l, n, t, 0, sh, ty, m) :
          p \in {0, 1}, u \in {0, 1}, b \in {0, 1}, w \in {0, 1}, l \in {0, 1},
          n \in {0, 1, 15}, t \in {0, 1, 15}, sh \in {0, 2}, ty \in 0 .. 3, m \in {1, 15}}
(* The forms the handler gets right: without the PC, linear (Rm = PC and  *)
(* post-indexing with Rn = Rt left out); LDR PC from an r0/r1 base by     *)
(* word, post-indexed, offset or pre-indexed; STR PC pre-indexed by an     *)
(* immediate; and a PC base without writeback and another Rt.  ROR #n      *)
(* register offsets are left out.                                          *)
LdstOps ==
    {o \in LdstAll :
        /\ o.I = 1 => o.type # 3 \/ o.imm5 = 0
        /\ CASE 15 \notin {o.Rn, o.Rt} -> o.Rm # 15 /\ (o.P = 0 /\ o.W = 0 => o.Rn # o.Rt)
             [] o.Rn # 15 /\ o.L = 1 ->
                  o.B = 0 /\ ~(o.P = 0 /\ o.W = 1) /\ (o.I = 1 /\ o.W = 1 => o.Rm = 15)
             [] o.Rn # 15 -> o.B = 0 /\ o.P = 1 /\ o.W = 1 /\ o.I = 0
             [] OTHER -> o.Rt # 15 /\ o.P = 1 /\ o.W = 0}
(* Memory holding the words ws in turn from address 0, at width W.        *)
MemOf(ws) ==
    [a \in Word |-> (ws[((a \div 4) % Len(ws)) + 1] \div 2^(ByteBits * (a % 4))) % 2^ByteBits]
MkCtxM(r0, r1, pc, cpsr, mem) ==
    [MkCtx(r0, r1, pc, cpsr, MkPSR(Modes.usr, 0, 0, 0, 0, 0)) EXCEPT !.mem = mem]
(* Bases and register offsets that stay word-aligned under every shift by *)
(* 0 and 2, C set for RRX, and memory holding a Thumb, an ARM and a        *)
(* misaligned target, none of them the PC or 0xff.                         *)
LdstContexts ==
    {MkCtxM(\h20, \h10, \h40, MkPSR(Modes.svc, 0, 0, 1, 0, 0),
            MemOf(<<\h81, \h24, \h5E, \h10>>))}
(* Memory holding the sentinel 0xff and the PC's own value.                *)
LdstEdgeContexts ==
    {MkCtxM(\h20, \h10, \h40, MkPSR(Modes.svc, 0, 0, 1, 0, 0),
            MemOf(<<\hFF, \h40, \h24, \h81>>))}
(* Reproductions of the load/store forms LdstOps leaves out.              *)
LdrOnesOps == {Ldst(0, 1, 1, 0, 0, 1, 0, 15, 0, 0, 0, 0)}
LdrSelfOps == {Ldst(0, 1, 1, 0, 1, 1, 0, 15, 4, 0, 0, 0)}
LdrLiteralOps == {Ldst(0, 1, 1, 0, 0, 1, 15, 15, 4, 0, 0, 0)}
StrPCOps == {Ldst(0, 1, 1, 0, 0, 0, 0, 15, 4, 0, 0, 0)}
LdstPCBaseOps == {Ldst(0, 0, 1, 0, 0, 1, 15, 0, 4, 0, 0, 0)}
LdrbPCOps == {Ldst(0, 1, 1, 1, 0, 1, 0, 15, 0, 0, 0, 0)}
LdstRorOps == {Ldst(1, 1, 1, 0, 0, 1, 0, 15, 0, 2, 3, 1)}
LdrtPCOps == {Ldst(0, 0, 1, 0, 1, 1, 0, 15, 4, 0, 0, 0)}
LdstPostSameOps == {Ldst(0, 0, 1, 0, 0, 1, 0, 0, 4, 0, 0, 0)}
LdstRegWbOps == {Ldst(1, 1, 1, 0, 1, 0, 0, 15, 0, 0, 0, 1)}
LdrCondOps == {[Ldst(0, 1, 1, 0, 0, 1, 0, 15, 4, 0, 0, 0) EXCEPT !.cond = 0]}

(* LDM/STM over the bases r0, SP and the PC and every list of r0, r1 and  *)
(* the PC, in the four addressing modes, with and without M and W; and   *)
(* POP/PUSH of r0, r1, SP and the PC.                                      *)
LdmOp(P, u, S, wb, L, Rn, list) ==
    [cls |-> "Ldm", cond |-> AL, P |-> P, U |-> u, S |-> S, W |-> wb, L |-> L,
     Rn |-> Rn, list |-> list]
LdmAll ==
    {LdmOp(p, u, m, w, l, n, list) : p \in {0, 1}, u \in {0, 1}, m \in {0, 1}, w \in {0, 1},
                                   l \in {0, 1}, n \in {0, 13, 15}, list \in SUBSET {0, 1, 15}}
PopPushAll ==
    {Ldst(0, 0, 1, 0, 0, 1, 13, t, 4, 0, 0, 0) : t \in {0, 1, 13, 15}}
    \cup {Ldst(0, 1, 0, 0, 1, 0, 13, t, 4, 0, 0, 0) : t \in {0, 1, 13, 15}}
(* The forms the handler gets right: an empty list only without M, for an *)
(* LDM or an SP or PC base; an SP base only with two registers or more; a PC  *)
(* base only without M, and loading the PC only with writeback; no        *)
(* written-back base in an LDM's list and no user-register form with W;  *)
(* and the PC loaded by a decrementing LDM only as the one register.       *)
LdmOps ==
    {o \in LdmAll :
        LET c == Cardinality(o.list)
            pcLoad == o.L = 1 /\ 15 \in o.list
        IN /\ c = 0 => o.S = 0 /\ (o.L = 1 \/ o.Rn # 0)
           /\ o.Rn = 13 => c # 1
           /\ o.Rn = 15 => o.S = 0 /\ (pcLoad => o.W = 1)
           /\ ~(o.L = 1 /\ o.W = 1 /\ o.Rn \in o.list)
           /\ ~(o.S = 1 /\ ~pcLoad /\ o.W = 1)
           /\ pcLoad /\ o.U = 0 /\ o.Rn # 15 => c = 1}
(* The snapshot: r0 = 0x20, r1 = 0x10, SP = 0x30, PC = 0x40, in mode md   *)
(* with the SPSR's T bit t, over the memory mem.                           *)
MkCtxL(md, t, mem) ==
    [MkCtxM(\h20, \h10, \h40, MkPSR(md, 0, 0, 0, 0, 0), mem)
        EXCEPT !.r[13] = \h30, !.spsr = MkPSR(Modes.svc, 0, 0, 0, 0, t)]
(* Memory of ARM addresses only, under an SPSR in ARM state, in a mode    *)
(* where M = 1 is legal, in User mode and in Hyp mode; and memory of a    *)
(* Thumb, an ARM and a misaligned word under either SPSR state.            *)
LdmArmContexts ==
    {MkCtxL(md, 0, MemOf(<<\h24, \h38, \h5C, \h10>>)) : md \in {Modes.svc, Modes.usr, Modes.hyp}}
LdmMixedContexts ==
    {MkCtxL(Modes.svc, t, MemOf(<<\h81, \h24, \h5E, \h10>>)) : t \in {0, 1}}
LdmContexts == LdmArmContexts \cup LdmMixedContexts
(* A plain LDM or a POP of the PC reads its state from the word only in   *)
(* the ARM-only snapshots.                                                 *)
LdmAdmits(o, c) ==
    IF (o.cls = "Ldst" /\ o.Rt = 15) \/ (o.cls = "Ldm" /\ o.S = 0 /\ o.L = 1 /\ 15 \in o.list)
    THEN c \in LdmArmContexts ELSE c \in LdmContexts
(* Reproductions of the LDM/STM/POP forms LdmOps leaves out.              *)
LdmSpsrOps == {LdmOp(0, 1, 0, 0, 1, 0, {15})}
LdmDecSlotOps == {LdmOp(1, 0, 0, 0, 1, 0, {1, 15})}
LdmPCBaseOps == {LdmOp(0, 1, 0, 0, 1, 15, {0, 15})}
LdmSPSingleOps == {LdmOp(0, 1, 0, 1, 1, 13, {0})}
LdmWbInListOps == {LdmOp(0, 1, 0, 1, 1, 0, {0, 1})}
LdmUserWbOps == {LdmOp(0, 1, 1, 1, 1, 0, {1})}
StmEmptyOps == {LdmOp(0, 1, 0, 0, 0, 0, {})}
PopPCOps == {Ldst(0, 0, 1, 0, 0, 1, 13, 15, 4, 0, 0, 0)}
LdmCondOps == {[LdmOp(0, 1, 0, 0, 1, 0, {15}) EXCEPT !.cond = 0]}

(* The halfword and signed loads and stores over r0, r1 and the PC as base *)
(* and transfer register: immediates 0, 4 and 0x12 (an offset past r15 as  *)
(* the storage index) and the register offsets r1 and the PC.             *)
ExtraLdst(kind, P, u, I, wb, L, Rn, Rt, imm8, Rm) ==
    [cls |-> "ExtraLdst", kind |-> kind, cond |-> AL, P |-> P, U |-> u, I |-> I, W |-> wb,
     L |-> L, Rn |-> Rn, Rt |-> Rt, imm8 |-> imm8, Rm |-> Rm]
ExtraLdstOf(k, ls) ==
    {ExtraLdst(k, p, u, 1, w, l, n, t, imm, 0) :
        p \in {0, 1}, u \in {0, 1}, w \in {0, 1}, l \in ls, n \in {0, 1, 15}, t \in {0, 1, 15},
        imm \in {0, 4, \h12}}
    \cup {ExtraLdst(k, p, u, 0, w, l, n, t, 0, m) :
          p \in {0, 1}, u \in {0, 1}, w \in {0, 1}, l \in ls, n \in {0, 1, 15}, t \in {0, 1, 15},
          m \in {1, 15}}
ExtraLdstAll == ExtraLdstOf("h", {0, 1}) \cup ExtraLdstOf("sb", {1}) \cup ExtraLdstOf("sh", {1})
(* The forms the handlers get right: without the PC, except Rm = PC and   *)
(* post-indexing with Rn = Rt; Rt = PC from an ordinary base; and Rt = PC *)
(* from a PC base by offset.                                                *)
ExtraLdstOps ==
    {o \in ExtraLdstAll :
        CASE 15 \notin {o.Rn, o.Rt} -> o.Rm # 15 /\ (o.P = 0 /\ o.W = 0 => o.Rn # o.Rt)
          [] o.Rn # 15 -> TRUE
          [] OTHER -> o.Rt = 15 /\ o.P = 1 /\ o.W = 0}
(* Reproductions of the halfword and signed forms ExtraLdstOps leaves out. *)
LdrhLiteralOps == {ExtraLdst("h", 1, 1, 1, 0, 1, 15, 0, 4, 0)}
LdrhPCWbOps == {ExtraLdst("h", 0, 1, 1, 0, 1, 15, 0, 4, 0)}
LdrhPostSameOps == {ExtraLdst("h", 0, 1, 1, 0, 1, 0, 0, 4, 0)}
LdrhRmPCOps == {ExtraLdst("h", 1, 1, 0, 0, 1, 0, 1, 0, 15)}
LdrhtHypOps == {ExtraLdst("h", 0, 1, 1, 1, 1, 1, 0, 4, 0)}

(* LDRD/STRD over r0, r1 and the PC as base and first register:           *)
(* immediates 0, 4 and 0x14, register offsets r3 and the PC.               *)
DualOp(kind, P, u, I, wb, Rn, Rt, imm8, Rm) ==
    [ExtraLdst(kind, P, u, I, wb, 0, Rn, Rt, imm8, Rm) EXCEPT !.cls = "Dual"]
DualAll ==
    {DualOp(k, p, u, 1, w, n, t, imm, 0) :
        k \in {"ldrd", "strd"}, p \in {0, 1}, u \in {0, 1}, w \in {0, 1}, n \in {0, 1, 15},
        t \in {0, 1, 15}, imm \in {0, 4, \h14}}
    \cup {DualOp(k, p, u, 0, w, n, t, 0, m) :
          k \in {"ldrd", "strd"}, p \in {0, 1}, u \in {0, 1}, w \in {0, 1}, n \in {0, 1, 15},
          t \in {0, 1, 15}, m \in {3, 15}}
(* The forms the handler gets right: an odd Rt (always counted) unless     *)
(* P:W = 0:1 makes it UNDEFINED; with Rt = r0, an ordinary base that W     *)
(* writes back (W alone is counted, and Rm = PC is not), or a PC base     *)
(* by offset, or pre-indexed with bit 22 set.                               *)
DualOps ==
    {o \in DualAll :
        /\ ~(o.P = 0 /\ o.W = 1 /\ 15 \in {o.Rn, o.Rt})
        /\ o.Rt = 0 =>
             IF o.Rn # 15 THEN (o.P = 1 \/ o.W = 1) /\ (o.I = 0 /\ o.Rm = 15 => o.W = 1)
             ELSE \/ o.P = 1 /\ o.W = 1 /\ o.I = 1
                  \/ o.P = 1 /\ o.W = 0 /\ (o.I = 0 => o.Rm # 15)}
(* Reproductions of the dual forms DualOps leaves out.                     *)
LdrdT2Ops == {DualOp("ldrd", 1, 1, 1, 0, 0, 14, 4, 0)}
LdrdLRBaseOps == {DualOp("ldrd", 1, 1, 1, 0, 14, 0, 4, 0)}
LdrdPostOps == {DualOp("ldrd", 0, 1, 1, 0, 1, 0, 4, 0)}
LdrdRmOps == {DualOp("ldrd", 1, 1, 0, 0, 1, 0, 0, 15)}
LdrdPCPostOps == {DualOp("ldrd", 0, 1, 1, 0, 15, 0, 4, 0)}
LdrdUserOps == {DualOp("ldrd", 0, 1, 1, 1, 1, 15, 4, 0)}

(* LDREX*/STREX* over r0 and the PC as base, r0, r1, r14 and the PC as    *)
(* transfer and status registers.                                          *)
ExclOp(kind, L, Rn, Rt, Rd) ==
    [cls |-> "Excl", kind |-> kind, cond |-> AL, L |-> L, Rn |-> Rn, Rt |-> Rt, Rd |-> Rd]
ExclAll ==
    {ExclOp(k, 1, n, t, 0) : k \in {"ex", "exd", "exb", "exh"}, n \in {0, 15}, t \in {0, 1, 14, 15}}
    \cup {ExclOp(k, 0, n, t, d) :
          k \in {"ex", "exd", "exb", "exh"}, n \in {0, 15}, t \in {0, 1, 14, 15}, d \in {0, 1, 15}}
(* The forms the handler gets right: every load but an LDREXD of an odd    *)
(* Rt, and the stores it counts UNPREDICTABLE (the others are arm(0)).     *)
ExclOps ==
    {o \in ExclAll :
        IF o.L = 1 THEN ~(o.kind = "exd" /\ o.Rt = 1 /\ o.Rn # 15)
        ELSE \/ 15 \in {o.Rn, o.Rt, o.Rd} \/ o.Rd = o.Rn
             \/ o.kind = "exd" /\ (o.Rt = 14 \/ o.Rt % 2 = 1)}
(* Reproductions of the exclusive forms ExclOps leaves out.                *)
StrexOps == {ExclOp("ex", 0, 0, 1, 2)}
StrexDTOps == {ExclOp("ex", 0, 1, 0, 0)}
LdrexdOddOps == {ExclOp("exd", 1, 0, 1, 0)}

(* The exception ops: ERET, BKPT, HVC, SMC, SVC; RFE in each addressing   *)
(* mode, with and without writeback, from r0 and from the PC; SRS (DB) to *)
(* SVC, FIQ, Monitor and Hyp mode.  Fields a kind does not encode are 0.  *)
ExcOp(kind, P, u, wb, Rn, mode) ==
    [cls |-> "Exc", cond |-> AL, kind |-> kind, P |-> P, U |-> u, W |-> wb, Rn |-> Rn,
     mode |-> mode]
ExcAll ==
    {ExcOp(k, 0, 0, 0, 0, 0) : k \in {"eret", "bkpt", "hvc", "smc", "svc"}}
    \cup {ExcOp("rfe", P, u, wb, n, 0) : P \in {0, 1}, u \in {0, 1}, wb \in {0, 1}, n \in {0, 15}}
    \cup {ExcOp("srs", 1, 0, 0, 0, m) : m \in {Modes.svc, Modes.fiq, Modes.mon, Modes.hyp}}
(* Every mode but Hyp under every consistent security state (as for CPS)  *)
(* and every SCR.SCD, SCR.HCE, HCR.TSC and HCR.TGE; lr and the SPSR name   *)
(* an ARM return, r0 = 0x20 is the RFE base, and memory holds ARM targets  *)
(* whose following word has T clear.                                       *)
ExcSecurity(m) ==
    {s \in Security :
        /\ m = Modes.mon => s.secure = 1
        /\ m # Modes.mon => s.ns = 1 - s.secure
        /\ m = Modes.fiq => ~(s.secure = 0 /\ s.rfr = 1)}
MkCtxE(m, s, t, lr, mem) ==
    [MkCtx(\h20, 0, \h40, MkPSR(m, 0, 0, 0, 0, 0), MkPSR(Modes.svc, 0, 0, 0, 0, t))
        EXCEPT !.sec = s, !.mem = mem, !.r[14] = lr]
ExcContexts ==
    UNION {{MkCtxE(m, s, 0, \h48, MemOf(<<\h40, \h84, \h1C, \hC8>>)) : s \in ExcSecurity(m)} :
           m \in {Modes.usr, Modes.fiq, Modes.svc, Modes.mon, Modes.sys}}
(* A Secure SVC-mode snapshot returning to Thumb: SPSR.T set, lr odd, and  *)
(* memory whose words have bit 5 (T) set.                                   *)
ExcThumbContexts ==
    {MkCtxE(Modes.svc, [secure |-> 1, rfr |-> 0, ns |-> 0, scd |-> 0, hce |-> 0, tsc |-> 0,
                        tge |-> 0], 1, \h49, MemOf(<<\h61, \hA4, \h3D, \hE9>>))}
(* The pairs the handler gets right: no ERET or RFE from User mode (nor    *)
(* ERET from System), no RFE from the PC or with P = 1 (DB, IB), no Secure *)
(* SMC with SCR.SCD set, no SRS to Monitor or FIQ mode from Non-secure,    *)
(* and no SRS from Non-secure FIQ mode, whose check_coproc_access() the    *)
(* snapshot does not hold.                                                 *)
ExcBad(o, c) ==
    LET m == c.cpsr.mode
        ns == c.sec.secure = 0
    IN \/ o.kind = "eret" /\ m \in {Modes.usr, Modes.sys}
       \/ o.kind = "rfe" /\ (m = Modes.usr \/ o.Rn = 15 \/ o.P = 1)
       \/ o.kind = "smc" /\ m # Modes.usr /\ ~ns /\ c.sec.scd = 1
       \/ o.kind = "srs" /\ ns /\ (o.mode \in {Modes.mon, Modes.fiq} \/ m = Modes.fiq)
ExcAdmits(o, c) == c \in ExcContexts /\ ~ExcBad(o, c)
ExcOps == ExcAll
(* Reproductions of the pairs ExcAdmits leaves out.                        *)
EretUsrOps == {ExcOp("eret", 0, 0, 0, 0, 0)}
EretThumbOps == {ExcOp("eret", 0, 0, 0, 0, 0)}
SmcScdOps == {ExcOp("smc", 0, 0, 0, 0, 0)}
RfeUsrOps == {ExcOp("rfe", 0, 1, 0, 0, 0)}
RfePCOps == {ExcOp("rfe", 0, 1, 0, 15, 0)}
RfeDBOps == {ExcOp("rfe", 1, 0, 0, 0, 0)}
RfeIBOps == {ExcOp("rfe", 1, 1, 0, 0, 0)}
RfeThumbOps == {ExcOp("rfe", 0, 1, 0, 0, 0)}
SrsMonOps == {ExcOp("srs", 1, 0, 0, 0, Modes.mon)}

(* CPS and MRS/MSR (banked) under every mode but Hyp and every consistent *)
(* security state: Monitor mode is Secure, SCR.NS is 1 exactly outside    *)
(* the Secure state except in Monitor mode, and FIQ mode is not entered   *)
(* from Non-secure with NSACR.RFR set; the SCR and HCR bits only the      *)
(* exception handler reads are clear.                                      *)
StatusSecurity(m) ==
    {s \in Security :
        /\ m = Modes.mon => s.secure = 1
        /\ m # Modes.mon => s.ns = 1 - s.secure
        /\ m = Modes.fiq => ~(s.secure = 0 /\ s.rfr = 1)
        /\ s.scd + s.hce + s.tsc + s.tge = 0}
StatusContexts ==
    UNION {{[MkCtx(\h41, \h80, \h40, MkPSR(m, 0, 0, 0, 0, 0), MkPSR(Modes.usr, 0, 0, 0, 0, 0))
              EXCEPT !.sec = s] : s \in StatusSecurity(m)} :
           m \in {Modes.usr, Modes.fiq, Modes.irq, Modes.svc, Modes.mon, Modes.sys}}
(* CPS: every imod, M and A:I:F class, to no mode, FIQ, SVC, MON, HYP and *)
(* a number that is no mode; all but imod = 00 with M = 0 and nothing     *)
(* set, whose check the handler's "(tmp2 = 0)" assignment skips.          *)
Cps(imod, M, aif, mode) == [cls |-> "Cps", imod |-> imod, M |-> M, aif |-> aif, mode |-> mode]
CpsAll ==
    {Cps(imod, M, aif, mode) :
        imod \in 0 .. 3, M \in {0, 1}, aif \in {0, 4},
        mode \in {0, Modes.fiq, Modes.svc, Modes.mon, Modes.hyp, 21}}
CpsOps == CpsAll \ {Cps(0, 0, 0, 0)}
(* Banked MRS/MSR: r8_usr, SP_usr, r8_fiq, LR_fiq, LR_irq, SP_irq, LR_mon,*)
(* ELR_hyp, SP_hyp and two reserved numbers, to or from r0 and the PC.    *)
Banked(kind, R, SYSm, reg) ==
    [cls |-> kind, cond |-> AL, R |-> R, SYSm |-> SYSm, Rd |-> reg, Rn |-> reg]
BankedAll ==
    {Banked(k, R, sysm, reg) :
        k \in {"MrsB", "MsrB"}, R \in {0, 1}, reg \in {0, 15},
        sysm \in {0, 5, 7, 8, 14, 16, 17, 24, 28, 30, 31}}
(* The accesses the handler lets through that the ARM ARM forbids: an     *)
(* SPSR number that is not an SPSR, r8-r12_usr outside FIQ mode, SP_usr   *)
(* and LR_usr from System mode, the FIQ registers from System mode in    *)
(* Non-secure with NSACR.RFR, Monitor's own registers, and MSR from the   *)
(* PC (the handler never reads Rn); and one it forbids that is allowed:   *)
(* the Monitor registers from Secure FIQ or System mode.                  *)
BankedGap(o, c) ==
    \/ o.R = 1 /\ o.SYSm \notin {7, 14, 16, 24, 28, 30}
    \/ o.R = 0 /\ o.SYSm < 5 /\ c.cpsr.mode \notin {Modes.usr, Modes.fiq}
    \/ o.R = 0 /\ o.SYSm \in {5, 6} /\ c.cpsr.mode = Modes.sys
    \/ o.SYSm \div 8 = 1 /\ c.cpsr.mode = Modes.sys /\ c.sec.secure = 0 /\ c.sec.rfr = 1
    \/ o.SYSm \in {28, 29} /\ c.cpsr.mode \in {Modes.mon, Modes.fiq, Modes.sys}
    \/ o.cls = "MsrB" /\ o.Rn = 15 /\ c.cpsr.mode # Modes.usr
StatusAdmits(o, c) ==
    /\ c \in StatusContexts
    /\ o.cls = "Cps" /\ CpsEncodingUnp(o) => c.cpsr.mode # Modes.usr
    /\ o.cls # "Cps" => ~BankedGap(o, c)
(* Reproductions of the status forms the filters leave out.               *)
CpsImodOps == {Cps(0, 0, 0, 0)}
CpsUserOps == {Cps(1, 0, 0, 0)}
BankedUsrOps == {Banked("MrsB", 0, 0, 0)}
BankedSpsrOps == {Banked("MrsB", 1, 17, 0)}
BankedMonOps == {Banked("MrsB", 0, 28, 0)}
BankedSysFiqOps == {Banked("MsrB", 0, 8, 0)}
BankedFiqMonOps == {Banked("MsrB", 0, 28, 0)}
MsrBankedPCOps == {Banked("MsrB", 0, 16, 15)}

(* The instructions that do not branch: coprocessor, misc, MRS, multiply, *)
(* saturate, bit-field and reverse, VFP transfer, single, extra and       *)
(* multiple load/store ops, and the status ops, each class under its own  *)
(* snapshots.                                                              *)
SystemOps ==
    CopOps \cup MiscOps \cup MrsOps \cup MacOps \cup MacdOps \cup SatOps \cup VfpOps \cup LdstOps
    \cup LdmOps \cup PopPushAll \cup ExtraLdstOps \cup DualOps \cup ExclOps
    \cup CpsOps \cup BankedAll \cup DMiscOps \cup PackOps \cup ParOps \cup ExcOps
    \cup VldxOps \cup ElemOps \cup SimdOps \cup NeonOps
SystemContexts ==
    MrsContexts \cup MacContexts \cup SatPosContexts \cup VfpContexts \cup LdstContexts
    \cup LdmContexts \cup StatusContexts \cup DMiscContexts \cup PkhContexts \cup ExtContexts
    \cup ParContexts \cup ExcContexts
SystemAdmits(o, c) ==
    CASE o.cls = "Ldm" \/ (o.cls = "Ldst" /\ o.Rn = 13) -> LdmAdmits(o, c)
      [] o.cls \in {"Mac", "Macd"} -> c \in MacContexts
      [] o.cls = "Sat" -> c \in SatPosContexts
      [] o.cls = "DMisc" -> c \in DMiscContexts
      [] o.cls = "Pack" -> PackAdmits(o, c)
      [] o.cls = "Par" -> c \in ParContexts
      [] o.cls = "Exc" -> ExcAdmits(o, c)
      [] o.cls \in {"Vfp", "Vldx", "Elem", "Simd", "Neon"} -> c \in VfpContexts
      [] o.cls \in {"Ldst", "ExtraLdst", "Dual", "Excl"} -> c \in LdstContexts
      [] o.cls \in {"Cps", "MrsB", "MsrB"} -> StatusAdmits(o, c)
      [] OTHER -> c \in MrsContexts

(* Spec 4.5 and the ARM ARM: the value a division, multiply or           *)
(* saturating operation writes to the PC, whether or not the handler      *)
(* flags it UNPREDICTABLE, is the architectural one: the quotient rounded *)
(* toward zero (0 for a zero divisor), the low or high word of the        *)
(* product, the saturated sum, of the operands read with PC + 8; with Rd  *)
(* not the PC the call is linear (flagged when an operand is the PC).  It *)
(* is about the handlers' rounding, their widening of products, their     *)
(* signedness and their PC offsets.                                       *)
ComputedValue == done => ValueConforms(retval, ArchOutcome(op, ctx), ctx)
====

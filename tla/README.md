# TLA+ model of the rpi_stub ARM next-address decoder

`src/ARM_decode_table.c` is the part of the Raspberry Pi 2 debugger stub that,
given an ARM instruction and the saved register snapshot
(`rpi2_reg_context`), predicts where execution goes next. It is used for
single-stepping. The file is one function call deep and purely sequential. A
decode call reads the instruction and the snapshot, writes nothing, and
returns an `instr_next_addr_t {address, flag}`:

- `flag` is ARM, THUMB or UNDEF, possibly or-ed with UNPRED;
- "linear execution" is the sentinel ARM/0xffffffff built by `set_addr_lin`.

There are no threads, interrupts, messages or persistent state. The hard
behaviours are therefore about control and data:

- the order of the table, where the first match wins;
- the forwarding through `arm_mux`;
- the conditions;
- word arithmetic at its edges (shifts by 0 and 32, rotates, wrap-around);
- the exception-return and interworking rules.

## Inventory of the source

| part | lines | state / role |
|---|---|---|
| `ARM_dec_tbl_entry_t`, `ARM_decode_table[]` | 80-96 | ordered {data, mask, extra, decoder}; contents in the generated `ARM_decode_table_data.h` (not in the repository) |
| `set_addr_lin`, `get_decode_table*` | 102-118 | linear sentinel; table address for the debugger |
| `ARM_decoder_dispatch` | 127-153 | scans the table, calls the first matching decoder, else UNDEFINED |
| `arm_mux` | 160-686 | sub-dispatcher for shared encodings (MOV/LSL, ROR/RRX, MSR, hints, NEON); forces linear on a failed condition, for ARM results only |
| `arm_branch` | 687-739 | B, BL, BLX, BX, BXJ |
| `arm_coproc` … `arm_core_data_sat` | 741-2252 | coprocessor, divide, multiply, misc, pack, parallel, saturate |
| `arm_core_data_bit`, `_std_r`, `_std_sh`, `_std_i` | 2253-2917 | shifts/MOV and the ALU ops; when Rd = PC they compute the target, and the `arm_ret_*` extras add interworking and exception return |
| `arm_core_exc` … `arm_core_status` | 2919-5036 | exceptions, loads/stores, misc, status registers |
| `arm_fp`, `v_*`, `arm_vfp_*` | 5037-5812 | floating point and SIMD |

Helpers outside `src/` are modelled from their documented behaviour and
marked `spec_modelled` in PROJECT.json. These are:

- `instr_util.c`: `bit`, `bitrng`, `sx32`, `will_branch`, `set_*_addr`;
- the generated table data.

## Modules

- **ArmBits**. Data words of width `W` (all runs use `W = 8`, a scaled-down
  32-bit word) and C's unsigned arithmetic on them. Shifts of `W` or more give
  0 (or the sign fill), and `||` is `LogOr`, giving 0/1. Instruction words stay
  32-bit functions `0..31 -> {0,1}`. The module also defines `bit`, `bitrng`,
  `sx32`, the register snapshot `Context` (r0-r15, CPSR, SPSR and the NEON
  storage as the four words S0-S3, and the target memory `mem`, one byte of
  `W/4` bits per address), `will_branch`, the result type with its
  builders, and `Interwork`, the low-bit state rule repeated in the handlers.
- **ArmBranch**. `arm_branch`.
- **ArmDataProc**. `arm_core_data_std_r`, `_std_sh`, `_std_i` and
  `arm_core_data_bit`, with one operator per block of each C function: the
  operand2 shifter (`StdRShift`, `StdShShift`, `StdIImm`, `BitValue`), the ALU
  switch (`StdAlu`) and the "check for UNPREDICTABLE" switch (`RetState`). The
  uninitialised `tmp3` of `arm_core_data_bit` is a parameter (`garbage`).
- **ArmMux**. `arm_mux`: one operator per case (MRS included), `MuxCase` for
  the switch, and `arm_mux` for the trailing condition check. The VST/VLD
  type switch (`MuxVldVst`) picks the structure count from the type field
  and forwards to `arm_vfp_ldst_elem`.
- **ArmCoproc**. `arm_coproc`: the classification of MCR/MRC, MCRR/MRRC,
  LDC/STC and CDP into linear, UNDEFINED or linear flagged UNPREDICTABLE.
- **ArmDiv**. `arm_core_data_div`: SDIV/UDIV, with C's truncating division,
  the code's rounding of negative quotients and the PC offset accumulator.
- **ArmMisc**. `arm_core_misc`: SETEND, CLREX, barriers, preloads and
  SWP/SWPB. The memory word SWP reads is a parameter.
- **ArmMac**. `arm_core_data_mac`: the multiply and multiply-accumulate
  families, products formed in `int` as the C code forms them (`IMul`).
- **ArmMacd**. `arm_core_data_macd`: the multiplies with a 64-bit result.
  `MacdValue` is the 2W-bit value of each extra, formed as the code forms
  it (in `int` or `unsigned int`, then widened; SMLAL and UMLAL adding the
  register numbers), and `MacdPick` takes the high word when RdHi is the
  PC, else the low word.
- **ArmSat**. `arm_core_data_sat`: QADD/QSUB/QDADD/QDSUB and
  SSAT/USAT/SSAT16/USAT16 with the `instr_util` saturation helpers.
- **ArmDataMisc**. `arm_core_data_misc`: MOVW/MOVT, CLZ, BFC/BFI, RBIT,
  REV/REV16/REVSH, SBFX/UBFX, SEL and USAD8/USADA8. One operator per
  computation (`LeadingZeros` for the CLZ loop, `SwapStage`/`Rbit` for the
  RBIT swap network, `PickMask` for the field masks, `Sel`, `Sad`) and
  `MiscValue` for the switch. As the code does, MOVT returns the bare
  immediate (its branch tests the instruction word against the enum), REV
  and REV16 flag the initial UNDEFINED result, and USAD8/USADA8 take their
  Rd from bits 15-12. SEL reads the CPSR GE bits, the `ge` field of the
  snapshot's PSR.
- **ArmPack**. `arm_core_data_pack`: PKHBT/PKHTB (`PkhValue`) and the
  twelve extend forms (`ExtValue`): the rotation, which the code takes from
  the Rm number (`instr_util_rorb`), the extract mask by size (`ExtMask`),
  the sign bits set when bit 22 is 1 (`SignBits`), and the Rn add
  (`ExtAdd`), which the bit-22 byte and halfword forms compute and drop.
  The halfword helpers come from `ArmSat`.
- **ArmPar**. `arm_core_data_par`: the 36 parallel add/subtract forms, split
  into a prefix (Q, S, SH, U, UQ, UH) and a kind (ADD16, SUB16, ASX, SAX,
  ADD8, SUB8). `HalfLane` and `ByteLane` read the lanes, signed or not,
  and `ParAdjust` applies the prefix: saturate, or halve after the sum.
  `Par16Pair` pairs the halves the way the cases do, SHSUB16's sums and
  the exchanged ASX/SAX pairings included. The default case gives a
  `Garbage` value; the table never reaches it.
- **ArmVfp**. `arm_vfp_xfer_reg`: VMOV (pair, single, scalar), VDUP, VMRS and
  VMSR, with the `und`/`unp` counts applied last (`Finish`). A lane is read
  as the byte array the code casts the storage to (`DByte`). The value VMRS
  reads from a system register is a parameter.
- **ArmVldst**. `arm_vfp_ldst_ext` and `arm_vfp_ldst_elem`. VLDR/VSTR are
  linear. VPUSH/VPOP count an empty list as UNPREDICTABLE. VLDM/VSTM count
  P:U:W = 001 and 111 as UNDEFINED, and with Rn = PC return the PC or the
  written-back PC as an ARM target (`VldmPUW`, `VldmPCTarget`). The element
  handler keeps each case's `und` count (`ElemUnd`). Its Rn block, the only
  code that assigns `retval`, follows the last `break` and is never reached,
  so the handler returns `set_undef_addr()` for every form.
- **ArmSimd**. `arm_fp` and `arm_v_bits` … `arm_v_shift`. Each one discards
  its arguments and returns `set_addr_lin()`, and is modelled as exactly that.
- **ArmLdst**. `arm_core_ldst`: LDR/STR/LDRB/STRB and the T forms. It has
  the register offset (`LdstRegOffset`), the P:W switch that picks the
  target once Rn or Rt is the PC (`LdstTarget`), and the `unp` count.
  Loads read the snapshot memory byte by byte, little-endian (`LoadWord`).
- **ArmLdstm**. `arm_core_ldstm`: POP/PUSH of one register (`PopPush`),
  STM and the user-register LDM (`StmOrUserRegs`), and LDM (`Ldm`). `Ldm`
  covers the PC-base writeback, the slot of the PC by addressing mode
  (`LdmSlot`), and the exception-return T-bit block (`LdmNewPC`). It also
  keeps the stale `tmp1` the later base checks read.
- **ArmLdstrh**. `arm_core_ldstrh`, `arm_core_ldstrsb` and
  `arm_core_ldstsh`, which share one body. It has the offset (`HOffset`),
  the `unp` counts (`HUnp`, `HHypUnp`), and the P:W switches for Rt = PC
  (`HLoadPC`) and Rn = PC (`HBaseWb`). Every address starts from
  `storage[offset]` (`HUpdated`), as the code indexes it. A read past r15
  is a `Garbage` value.
- **ArmLdstrd**. `arm_core_ldstrd` (LDRD/STRD). It has the counts before
  the PC block (`DualUnpBase`) and inside it (`DualUnpReg`), the offset
  (`DualOffset`), the P:W switch for a PC base (`DualPCBase`) and for an
  ordinary base (`DualRegBase`), and the aligned load of Rt or Rt2
  (`DualPick`). It keeps, as written, Rn tested where the comments mean t2,
  bit 22 read as the register form, and bit 5 read as a load on the
  ordinary-base path.
- **ArmLdstrex**. `arm_core_ldstrex` (LDREX/STREX and their D, B, H
  forms). A load of the PC reads the aligned base by size
  (`ExclusiveLoad`); a store is counted (`StrexUnp`) and returns
  `set_arm_addr(0)`.
- **ArmStatus**. `arm_core_status`. CPS (`arm_cps`) takes the early returns
  in the code's order: the User-mode NOP, then the encoding checks, of which
  `(tmp2 = 0)` assigns rather than compares, so only imod = 01 is caught
  there. The mode change is checked against the security state, NSACR.RFR
  and SCR.NS (`CpsModeUnp`). Banked MRS/MSR normalise SYSm to a mode and a
  register (`BankedTarget`); the switch on the current mode decides which
  of those are denied (`BankedDenied`); MRS to the PC returns the banked
  register, a `Garbage` value, flagged (`BankedAccess`). The snapshot field
  `sec` (in `ArmBits`) holds what `get_security_state()`, NSACR bit 19,
  SCR bits 0, 7 (SCD) and 8 (HCE) and HCR bits 19 (TSC) and 27 (TGE)
  return.
- **ArmExc**. `arm_core_exc`: ERET, BKPT, HVC, SMC, SVC, UDF, RFE and SRS,
  one operator per case (`Eret`, `Hvc`, `Smc`, `Rfe`, `Srs`), each
  following the case's chain of mode and security tests in the code's
  order. `RfeSlot` is the address the RFE switch loads from for each P:U.
  ELR_hyp and `check_coproc_access(16)`, registers the snapshot does not
  hold, are a `Garbage` value.
- **ArmTable**. The table as a sequence of entries, in the order the source
  comments require (Rd = PC and the more specific entries first). The
  unconditional NEON entries come before the data-processing and load/store
  entries, whose masks leave out the condition field. The VFP loads, stores
  and data-processing entries come before the generic coprocessor entries.
  `Matches` is the `(instr & mask) == data` test.
- **ArmDecoder**. The state machine of one `ARM_decoder_dispatch` call.
  Variables: `instr` and `ctx` (fixed for the call), the loop index `i`,
  `retval` and `done`. Actions: `Miss` (the iterations without a hit, from `i` up to the next
  entry that matches, `NextCandidate`: they change nothing but `i`, so one
  step takes them and the hit comes a few steps after the start), `NoMatch`
  (running off the end), one `Call_<decoder>` per decoder (the hit plus the
  whole call), and `Returned`, the returned call as a terminal stuttering step.
  The constant `Garbage` is the set of values an unassigned local, a memory
  word or a system register may hold. The system run uses `{0, 1}`, so
  every read of such a value is taken both even and odd (an ELR_hyp with
  bit 0 set, a VMRS or banked-register value); the other runs use `{0}`.
  SRS from Non-secure FIQ mode, whose flag depends on the parity of
  check_coproc_access(), stays outside the system run (`ExcBad`): the
  snapshot does not hold NSACR, so the reference cannot tell the cases
  apart.
- **ArmSpec**. The architectural reference, written from the ARM ARM and
  spec sections 3, 4 and 8, not from the code: architectural ops and their
  encodings (`OpInstr`), the shifter and ALU, the condition test, the
  per-class decode rules (`MacDecode`, `SatDecode`, `VfpDecode`, ...) and
  `ArchOutcome(op, ctx)`: linear, undefined, unpredictable, a jump in a state,
  an exception return, or UNPREDICTABLE at a given target. `Conforms` says when
  a returned `instr_next_addr_t` reports an outcome; `ValueConforms` is the
  same comparison without the UNPREDICTABLE flag. For the 64-bit multiplies the
  reference reads RdHi and RdLo as stored, PC included: they are the
  destinations, the ARM ARM leaves a PC among them UNPREDICTABLE, and the
  spec asks only for the half that lands in the PC.
- **ArmNextPC**. The abstract specification of a decode call: one `Decide`
  step picks an outcome that conforms to `ArchOutcome`, and eventually one is
  decided.
- **MCArmDecoder**. Composes the two. The ghost variable `op` fixes the
  architectural op and the call runs on `instr = OpInstr(op)`;
  `NP == INSTANCE ArmNextPC WITH outcome <- IF done THEN retval ELSE Pending`
  is the refinement mapping, and `ImplementsNextPC == NP!Spec` is checked as a
  PROPERTY. The constant `Admits(op, ctx)` restricts which snapshots an op
  is paired with (`AnyContext`, or `SystemAdmits`, which gives each class of
  the system run its own snapshots). The module also defines the op sets and
  snapshots of every run, and the reproduction sets of the table below.

## Properties

- `TypeOK` (ArmDecoder) is the type invariant.
- `ImplementsNextPC` is the main property. The decoder refines the abstract
  specification: every call returns, once, a result that reports the
  architectural next PC of the instruction under the snapshot. Its
  violations are concrete wrong predictions.
- `ImplementsNextPCSafety` is its safety half, `NP!Init` and
  `[][NP!Decide]_...`: whatever the call decides conforms. The two largest
  runs (dp_pc, system) check it alone. There the liveness half `<>Decided`
  adds nothing the deadlock check does not already give: `Miss` strictly
  raises `i` and every hit decides, so a state that is undecided and has no
  step is a deadlock, which TLC reports. Removing one `Call_*` disjunct from
  `MCNext` makes the system run report exactly that. TLC's liveness search
  over their tens of thousands of initial states costs about five times
  the safety search.
- `ComputedValue`: when the call has returned, the target it computes equals
  the architectural value (the quotient, product, or saturated result),
  whether or not the UNPREDICTABLE flag is set. It separates a wrong value
  from a missing flag.

Every property has a mutant in PROJECT.json: a plausible bug in a mapped
definition (a dropped rounding, a dropped alias check, a missing saturation,
a wrong lane index, ...) that TLC must catch under the run's configuration.

## Runs

| run | cfg | expect | what it shows |
|---|---|---|---|
| branch | MCBranch.cfg | pass | B/BL/BLX/BX under all condition outcomes, wrapping targets, Thumb/ARM/misaligned BX targets, UDF caught by the udf entry (cond AL) and, in the unconditional space (cond 1111), falling through the table |
| dp_pc | MCDataProcPC.cfg | pass | every data-processing class to the PC in the forms the handlers get right, with exception return in usr, hyp and svc with SPSR.T 0/1 (76k states, ImplementsNextPCSafety, about 20 s) |
| dp_linear | MCDataProcLinear.cfg | pass | all forms with Rd ≠ PC are linear |
| system | MCSystem.cfg | pass | coprocessor, misc, MRS, multiply, saturate, VFP transfer, miscellaneous data (CLZ, RBIT, REV, BFC/BFI, SBFX/UBFX, SEL, MOVW), PKH and extend, parallel add/subtract, ERET/BKPT/HVC/SMC/SVC/UDF/RFE/SRS, single, halfword, signed, dual and exclusive load/store, LDM/STM/POP/PUSH, 64-bit multiply, CPS and banked MRS/MSR, VLDR/VPUSH/VPOP/VLDM, NEON element load/store, VFP/SIMD data-processing and the NEON forms of `arm_mux` (VBIC/VMVN, VORR/VMOV, VSHR, VSHRN, VSHLL, VMOVN) each report the architectural next PC (57k states with `Garbage = {0, 1}`, ImplementsNextPCSafety, about 35 s) |
| div | MCDiv.cfg | pass | SDIV/UDIV to the PC compute the truncated quotient for both signs |
| mov_pc | MCMovPC.cfg | violation | MOV PC, Rm is predicted linear |
| exc_ret | MCExcRet.cfg | violation | MOVS PC, R1 with SPSR.T = 0 is UNDEFINED |
| cond_direct | MCCondDirect.cfg | violation | data-processing handlers ignore the condition |
| wfi | MCHints.cfg | violation | WFI is UNDEFINED |
| cop_unpred | MCCopUnpred.cfg | violation | MRC with an ordinary Rt is flagged UNPREDICTABLE |
| udiv_zero | MCUDivZero.cfg | violation | UDIV PC by zero yields 15, not 0 |
| pld_reg | MCPldReg.cfg | violation | PLD [R0, R1] is UNDEFINED |

The findings in PROJECT.json give the line of each bug.

**Further disagreements.** The passing runs leave out the forms below, where
the code and the architecture disagree. Each is reproduced with a cfg like
MCDiv.cfg (`Admits <- AnyContext`, `Garbage = {0}`) whose `Ops` and
`Contexts` are set as shown and which checks the one property named (an
INVARIANT for `ComputedValue`, a PROPERTY for `ImplementsNextPC`). The hazard
in PROJECT.json at (or naming) the line explains each one.

| line | `Ops <-` | `Contexts <-` | property violated | what |
|---|---|---|---|---|
| 2282 | `Shift32Ops` | `DPContexts` | ImplementsNextPC | LSR #32 shifts by 0 |
| 2505 | `RorOps` | `DPContexts` | ImplementsNextPC | ROR merges with `\|\|` |
| 2543 | `OrrOps` | `DPContexts` | ImplementsNextPC | ORR computed as AND |
| 676 | `CondMuxOps` | `DPContexts` | ImplementsNextPC | failed condition on a non-ARM mux result |
| 896 | `SDivWrapOps` | `DivEdgeContexts` | ComputedValue | doubling the dividend overflows |
| 899 | `SDivPCOps` | `DivContexts` | ImplementsNextPC | no UNPREDICTABLE flag |
| 913 | `UDivPCOps` | `DivContexts` | ComputedValue | PC offset carried into the dividend |
| 4554 | `PldPCOps` | `CopContexts` | ImplementsNextPC | PLD/PLDW bit inverted |
| 479 | `MrsPCOps` | `MrsContexts` | ImplementsNextPC | Rd read from the Thumb field |
| 468 | `MrsSpsrOps` | `UserContexts` | ImplementsNextPC | SPSR read in User mode not flagged |
| 1045 | `SmmulOps` | `MacWideContexts` | ComputedValue | product formed in int |
| 1058 | `SmmlsOps` | `MacContexts` | ComputedValue | rounding of SMMLS |
| 1110 | `MulPCOps` | `MacContexts` | ImplementsNextPC | PC operand not flagged |
| 1264 | `MacdPCOps` | `MacContexts` | ImplementsNextPC | SMULL with Rm = PC and no PC destination not flagged |
| 1168 | `SmlalOps` | `MacContexts` | ImplementsNextPC | SMLAL/UMLAL add the register numbers RdHi, RdLo |
| 1155 | `Smlal16Ops` | `MacContexts` | ImplementsNextPC | SMLAL<x><y> multiplies the full registers, adds RdHi + RdLo |
| 1212 | `UmullHiOps` | `MacContexts` | ImplementsNextPC | UMULL's high word is 0 (32-bit product) |
| 1186 | `UmaalHiOps` | `MacContexts` | ImplementsNextPC | UMAAL's high word from a signed int product |
| 1248 | `SmlaldHiOps` | `MacContexts` | ImplementsNextPC | SMLALD adds RdLo sign-extended |
| 1177 | `SmullWideOps` | `MacWideContexts` | ImplementsNextPC | SMULL's product wraps in int |
| 2154 | `QAddOps` | `SatContexts` | ComputedValue | unsigned operands |
| 2168 | `QSubOps, QDAddOps` | `SatContexts` | ComputedValue | QSUB/QDADD are copies with the wrong sign |
| 1289 | `MovtPCOps` | `DMiscContexts` | ImplementsNextPC | MOVT PC returns the bare immediate |
| 1462 | `RevPCOps` | `DMiscContexts` | ImplementsNextPC | REV/REV16 to the PC are UNDEFINED |
| 1382 | `BfiPCOps` | `DMiscContexts` | ImplementsNextPC | BFI inserts bits lsb..msb of Rn |
| 1568 | `Usad8Ops`, `Usada8PCOps` | `DMiscContexts` | ImplementsNextPC | Rd read from the Ra field |
| 1313 | `ClzPCOps` | `DMiscContexts` | ImplementsNextPC | CLZ r0, PC not flagged |
| 1639 | `PkhtbZeroOps` | `PkhContexts` | ImplementsNextPC | PKHTB ASR #32 shifts by 0 |
| 1699 | `ExtRorOps` | `ExtContexts` | ImplementsNextPC | extend rotated by the Rm number |
| 1720 | `SxtbSignOps` | `PkhContexts` | ImplementsNextPC | SXTB zero-extends (bit 22 read as signed) |
| 1765 | `UxtabSumOps` | `ExtContexts` | ImplementsNextPC | UXTAB drops the Rn add |
| 1693 | `PackPCOps` | `ExtContexts` | ImplementsNextPC | SXTB r0, PC not flagged |
| 1943 | `AsxOps`, `SaxOps` | `ParContexts` | ImplementsNextPC | ASX/SAX halves paired the other way round (all twelve forms) |
| 1848 | `ShSub16Ops` | `ParContexts` | ImplementsNextPC | SHSUB16 adds |
| 1811 | `ParPCOps` | `ParContexts` | ImplementsNextPC | SADD8 r0, PC, r1 not flagged |
| 2936 | `EretUsrOps` | `ExcContexts` | ImplementsNextPC | ERET from User/System UNDEFINED, not UNPREDICTABLE |
| 2940 | `EretThumbOps` | `ExcThumbContexts` | ImplementsNextPC | ERET ignores SPSR.T |
| 2993 | `SmcScdOps` | `ExcContexts` | ImplementsNextPC | Secure SMC with SCR.SCD stepped over, not flagged |
| 3083 | `RfeUsrOps` | `ExcContexts` | ImplementsNextPC | `cpsr & 0x01000020 == 0x01000020` parses as `cpsr & 1`: RFE from User not flagged |
| 3046 | `RfePCOps` | `ExcContexts` | ImplementsNextPC | RFE with Rn = PC not flagged, read without + 8 |
| 3066 | `RfeDBOps` | `ExcContexts` | ImplementsNextPC | RFEDB loads from Rn - 12 |
| 3071 | `RfeIBOps` | `ExcContexts` | ImplementsNextPC | RFEIB loads from Rn + 8 |
| 3078 | `RfeThumbOps` | `ExcThumbContexts` | ImplementsNextPC | RFE ignores the loaded SPSR's T bit |
| 3106 | `SrsMonOps` | `ExcContexts` | ImplementsNextPC | SRS tests the current mode, not the target, for Monitor/FIQ |
| 5554 | `VmovPairPCOps` | `VfpContexts` | ImplementsNextPC | pair to the PC is UNDEFINED |
| 5784 | `VmovSPCOps` | `VfpContexts` | ImplementsNextPC | single to the PC not flagged |
| 5679 | `VdupPCOps` | `VfpContexts` | ImplementsNextPC | VDUP from the PC not flagged |
| 5729 | `ScalarHalfOps` | `VfpContexts` | ImplementsNextPC | 16-bit scalar read as one byte |
| 3266 | `LdrLiteralOps` | `LdstContexts` | ImplementsNextPC | literal load without the PC's + 8 |
| 3345 | `LdrOnesOps`, `LdrSelfOps` | `LdstEdgeContexts` | ImplementsNextPC | loaded 0xff or the old Rt taken as linear |
| 3252 | `StrPCOps` | `LdstContexts` | ImplementsNextPC | STR PC predicted as a jump |
| 3220 | `LdstPCBaseOps` | `LdstContexts` | ImplementsNextPC | PC base with writeback not flagged |
| 3270 | `LdrbPCOps`, `LdrtPCOps` | `LdstContexts` | ImplementsNextPC | LDRB/LDRT to the PC not flagged |
| 3188 | `LdstRorOps` | `LdstContexts` | ImplementsNextPC | ROR offset merged with `\|\|` |
| 3149 | `LdstPostSameOps` | `LdstContexts` | ImplementsNextPC | post-indexed n = t counted from W alone |
| 3157 | `LdstRegWbOps` | `LdstContexts` | ImplementsNextPC | register-offset store of the PC with writeback |
| 3143 | `LdrCondOps` | `LdstContexts` | ImplementsNextPC | condition not tested |
| 3535 | `LdmSpsrOps` | `LdmMixedContexts` | ImplementsNextPC | every LDM of the PC takes the SPSR's state |
| 3555 | `LdmPCBaseOps` | `LdmArmContexts` | ImplementsNextPC | `tmp1` overwritten by the SPSR before the base checks |
| 3505 | `LdmDecSlotOps` | `LdmArmContexts` | ImplementsNextPC | decrementing modes read the wrong slot |
| 3559 | `LdmSPSingleOps` | `LdmArmContexts` | ImplementsNextPC | LDM SP!, {r0} flagged |
| 3382 | `LdmWbInListOps` | `LdmArmContexts` | ImplementsNextPC | written-back base in the list not flagged |
| 3439 | `LdmUserWbOps` | `LdmArmContexts` | ImplementsNextPC | user-register form with W not flagged |
| 3460 | `StmEmptyOps` | `LdmArmContexts` | ImplementsNextPC | empty STM list not flagged |
| 3397 | `PopPCOps` | `LdmMixedContexts` | ImplementsNextPC | POP {PC} without interworking |
| 3386 | `LdmCondOps` | `LdmArmContexts` | ImplementsNextPC | condition not tested |
| 4078 | `LdrhLiteralOps` | `LdstContexts` | ImplementsNextPC | LDRH r0, [PC, #4] predicted as a jump to 4 |
| 3984 | `LdrhPCWbOps` | `LdstContexts` | ImplementsNextPC | base read from `storage[offset]` |
| 3930 | `LdrhPostSameOps` | `LdstContexts` | ImplementsNextPC | post-indexed n = t not flagged |
| 3944 | `LdrhRmPCOps` | `LdstContexts` | ImplementsNextPC | Rm = PC flagged only with a PC base or Rt |
| 3975 | `LdrhtHypOps` | `LdmArmContexts` | ImplementsNextPC | LDRHT in Hyp flagged only with the PC |
| 3614 | `LdrdT2Ops` | `LdstContexts` | ImplementsNextPC | LDRD r14, [r0] loads the PC through Rt2, linear and unflagged |
| 3614 | `LdrdLRBaseOps` | `LdstContexts` | ImplementsNextPC | LDRD r0, [r14] flagged |
| 3616 | `LdrdPostOps` | `LdstContexts` | ImplementsNextPC | post-indexed n = t not flagged |
| 3621 | `LdrdRmOps` | `LdstContexts` | ImplementsNextPC | register form with Rm = PC not flagged (bit 22 swapped) |
| 3649 | `LdrdPCPostOps` | `LdstContexts` | ImplementsNextPC | PC base written back without the + 8, unflagged |
| 3746 | `LdrdUserOps` | `LdstContexts` | ImplementsNextPC | P:W = 0:1 with Rt = PC is UNDEFINED, not UNPREDICTABLE |
| 3895 | `StrexOps` | `LdstContexts` | ImplementsNextPC | STREX predicted as a jump to address 0 |
| 3885 | `StrexDTOps` | `LdstContexts` | ImplementsNextPC | STREX with Rd = Rt not flagged |
| 3835 | `LdrexdOddOps` | `LdstContexts` | ImplementsNextPC | LDREXD of an odd Rt not flagged |
| 4641 | `CpsImodOps` | `StatusContexts` | ImplementsNextPC | CPS with imod = 00 and M = 0 not flagged (`tmp2 = 0` assigns) |
| 4627 | `CpsUserOps` | `StatusContexts` | ImplementsNextPC | CPS with imod = 01 in User mode is a NOP, not flagged |
| 4991 | `BankedSysFiqOps` | `StatusContexts` | ImplementsNextPC | MSR r8_fiq from System mode in Non-secure with RFR not flagged |
| 4944 | `BankedMonOps` | `StatusContexts` | ImplementsNextPC | MRS of LR_mon from Monitor mode not flagged |
| 4847 | `BankedFiqMonOps` | `StatusContexts` | ImplementsNextPC | MSR LR_mon from Secure FIQ mode flagged |
| 4724 | `BankedUsrOps` | `StatusContexts` | ImplementsNextPC | MRS of r8_usr from SVC mode not flagged |
| 4812 | `BankedSpsrOps` | `StatusContexts` | ImplementsNextPC | MRS with R = 1 of SP_irq (no SPSR) not flagged |
| 4852 | `MsrBankedPCOps` | `StatusContexts` | ImplementsNextPC | MSR from the PC not flagged |
| 5354 | `ElemLegalOps` | `VfpContexts` | ImplementsNextPC | every element load/store predicted UNDEFINED (the Rn block is unreachable) |
| 5440 | `VldmPCOps` | `VfpContexts` | ImplementsNextPC | VLDM/VSTM from the PC predicted as a jump to the PC or the written-back PC |
| 5422 | `VldmListOps` | `VfpContexts` | ImplementsNextPC | an empty list, or one past the last register, not flagged |
| 5059 | `SimdUndefOps` | `VfpContexts` | ImplementsNextPC | UNDEFINED SIMD encodings predicted linear |
| 275 | `NeonQ0Ops` | `VfpContexts` | ImplementsNextPC | VORR/VMOV (immediate) and VSHR on doublewords (Q = 0) predicted UNDEFINED |
| 170 | `VmovI64Ops` | `VfpContexts` | ImplementsNextPC | VMOV.I64 (cmode 1110, op 1) predicted UNDEFINED |
| 170 | `VbicOddOps` | `VfpContexts` | ImplementsNextPC | VBIC/VMVN of an odd quadword register predicted linear |
| 592 | `VorrRegOps` | `VfpContexts` | ImplementsNextPC | VORR of odd doubleword registers predicted UNDEFINED |

**Bounds.**
- `W = 8` keeps every wrap-around, sign, saturation and rotate case at a
  fraction of the cost of 32 bits. Halfwords are `W/2` bits and NEON bytes
  `W/4` bits, so the lane, sign-extension and packing cases keep their shape.
- The snapshots hold values with bit 0 set (Thumb), bits 1-0 clear (ARM),
  `10` (misaligned) and the top bit set; branch offsets of ±1 word and the
  extreme offsets make targets wrap. Multiply and saturate snapshots are
  chosen so products and sums cross the signed range.
- The 64-bit multiply ops take every extra, RdHi and RdLo among r0, r1 and
  the PC, Rm among r0, r1 and the PC, and every x/y bit the kind encodes.
  The passing set keeps the low word of each form and the high word of
  SMULL, under the four multiply snapshots, whose small products fit a
  word; the high words the handler gets wrong are each reproduced.
- Registers other than r0, r1 and r15 hold 0, and the ops name only those.
  The NEON snapshot holds four distinct words, so a wrong lane or word index
  gives a different value.
- The modes cover each arm of the exception-return switch: usr, hyp, and svc
  with SPSR.T 0 and 1.
- Load/store snapshots hold memory words of each low-bit class. The LDM
  snapshots give r0, SP and the PC distinct word-aligned values, with four
  distinct memory words, so each slot of a block is told apart. They cover
  svc with SPSR.T 0 and 1, usr, and hyp. The ops cover every register list
  of r0, r1 and the PC (from 0 to 3 registers) and all four addressing modes.
- The dual ops take r0, r1 and the PC as base and first register (an even,
  an odd and the PC), every P, U, W, both offset forms and an immediate
  with a non-zero high nibble; the exclusive ops take every size, r0 and
  the PC as base, and r0, r1, r14 and the PC as Rt and Rd, which reaches
  each of the handler's counts alone.
- The status snapshots take every mode but Hyp with every security state
  that mode can be in: Monitor is Secure with SCR.NS 0 or 1, the other modes
  Secure or Non-secure with NSACR.RFR 0 or 1 (not FIQ in Non-secure with
  RFR). The CPS ops take every imod, M, A:I:F empty or not, and the targets
  none, FIQ, SVC, MON, HYP and a number that is no mode; the banked ops take
  one register of each group, both reserved groups, R = 0 and 1, and r0
  and the PC, so each arm of the mode switch is reached. Hyp as the current
  mode and CPS to User mode are left out: the rules for them are not
  settled here. `StatusAdmits` leaves out the pairs on which the handler
  disagrees with the ARM ARM (`BankedGap`), each reproduced above.
- The miscellaneous data ops take Rd r0 or the PC for every extra; MOVW and
  MOVT the immediates 3 and 10; CLZ, RBIT, REV, REV16 and REVSH Rm among
  r0, r1 and the PC; BFC/BFI msb 2 or 5 with lsb 0, 2 or 4 (so msb < lsb,
  an invalid field, is included); SBFX/UBFX widthm1 1, 4 or 7 (the last
  runs past the word) with lsb 0 or 3, from r0, r1 or the PC; SEL and
  USAD8/USADA8 the PC and ordinary registers as operands. The snapshots
  give r0 and r1 values with bits set in several bytes and GE the patterns 0101
  and 1100, so each byte of SEL is taken from both sides. `DMiscBad` leaves
  out the cases reproduced above.
- The pack ops take PKH to r0 and the PC with every operand among r0, r1
  and the PC, tb 0 and 1 and imm5 0 and 3, and every extend kind to r0 and
  the PC, with and without Rn (r1), Rm r0, r1 or the PC and rotations 0, 1
  and 3. PKH runs under snapshots with the top bit of r0 and r1 set and
  clear, so ASR fills both ways (`PkhContexts`). The extend forms run under
  snapshots whose every byte has its top bit clear (`ExtContexts`), the one
  case in which the handler's inverted sign choice agrees with the
  architecture's; the sign cases and the other disagreements are
  reproduced above (`PackBad` leaves them out).
- The parallel ops take every prefix and kind to r0 and to the PC, with Rn
  r0 or the PC and Rm r1 or the PC. The snapshots (`ParContexts`) give r0
  0x3A or 0xC5 and r1 0x7E or 0x92. At W = 8 the lanes are 4-bit halves
  and 2-bit bytes, and these values make lanes carry, borrow, saturate up
  and down, and read negative when signed. Odd negative sums are what
  halving rounds. `ParBad` leaves out the cases reproduced above.
- The exception ops take ERET, BKPT, HVC, SMC and SVC, RFE in its four
  addressing modes with and without writeback from r0 and the PC, and SRS
  to SVC, FIQ, Monitor and Hyp mode. The snapshots (`ExcContexts`) run in
  User, FIQ, SVC, Monitor and System mode under every combination of the
  security state, NSACR.RFR, SCR.SCD, SCR.HCE, HCR.TSC and HCR.TGE the mode
  allows, with lr 0x48 and memory holding distinct words at every RFE slot,
  so a wrong slot loads a different target. `ExcThumbContexts` returns to
  Thumb. `ExcBad` leaves out the cases reproduced above.
- The extension-register ops take r0, SP and the PC as base, every P:U:W
  but 000 (the 64-bit transfers, a different class), both sizes, S0/D0
  and S30/D15 as the first register, and imm8 0, 2 and 4. Together these
  reach the empty list, a list past the last register, the UNDEFINED P:U:W
  values, VPUSH/VPOP and the PC base with and without writeback.
  `VldxBad` leaves out the cases reproduced above. The element ops take
  both forms (A), loads and stores, r0 and the PC as base, and all 16 values
  of the type (or size:n-1) field and of the low field. That is every
  UNDEFINED condition of every form. The SIMD ops take one form per handler
  with Q 0 and 1, sizes 00, 01 and 11 and an even or odd register. None of
  these reads the snapshot beyond r15, so they share `VfpContexts`.
- The NEON ops of `arm_mux` take Q 0 and 1 and even and odd registers in
  every form. The modified immediates also take both op values and the
  cmode values 0000, 0001, 1010, 1101, 1110 and 1111, which gives each
  VMOV/VORR/VMVN/VBIC kind, VMOV.I64 and the UNDEFINED one. The narrowing
  shifts take U 0 and 1, VSHLL imm3 001 (VMOVL) and 011, and VMOVN size 00
  and 11. `NeonBad` leaves out the cases reproduced above.
- The shift amounts 0 and 3 cover the "shift by 0 encodes 32" edge and an
  ordinary shift.

**Fairness.** `WF` on the next-state relation: a call runs to completion,
since the loop is bounded and nothing blocks. The abstract `<>Decided` is then
implied.

## Not modelled

- `get_decode_table` and `get_decode_table_sz` return the table's address and
  size for the debugger. They have no decoding behaviour.
- The contents of `ARM_decode_table[]` come from the generated
  `ARM_decode_table_data.h`, which is not in the repository. `ArmTable`
  gives the entries of every handler from the ARM ARM encodings. One or more
  data-processing forms stand for each SIMD handler; since those handlers
  ignore the instruction, a form is enough to reach them.
- The entries of the NEON `arm_mux` cases are written from the encodings
  their comments name (`NeonMuxes`). The modified-immediate forms come
  before the shifts that share their space.
- Memory reads by the VFP loads and stores: no handler reads memory, so
  nothing is lost.

Every handler of `src/ARM_decode_table.c` is modelled. The remaining
limits are the bounds above and the table contents.

------------------------------- MODULE ArmSimd -------------------------------
(***************************************************************************)
(* arm_fp() and the Advanced SIMD handlers arm_v_bits(), arm_v_comp(),     *)
(* arm_v_mac(), arm_v_misc(), arm_v_par() and arm_v_shift().  Each one     *)
(* casts instr and extra to void and returns set_addr_lin(): no encoding   *)
(* is tested, so an UNDEFINED form (a Q form with an odd register, size    *)
(* 11, VPADD with Q = 1) is predicted to execute linearly.                 *)
(***************************************************************************)
EXTENDS ArmBits

(* VCMP, VCVT, VDIV, VFNMA/VFNMS: "(void) instr; (void) extra;".           *)
arm_fp(instr, extra) == set_addr_lin

(* VMOV (immediate/register), VAND, VBIC, VBIF, VBIT, VBSL, VEOR, VMVN,   *)
(* VORN.                                                                   *)
arm_v_bits(instr, extra) == set_addr_lin

(* VACGE, VACGT, VCEQ, VCGE, VCGT, VCLE, VCLT, VTST.                       *)
arm_v_comp(instr, extra) == set_addr_lin

arm_v_mac(instr, extra) == set_addr_lin
arm_v_misc(instr, extra) == set_addr_lin
arm_v_par(instr, extra) == set_addr_lin
arm_v_shift(instr, extra) == set_addr_lin
=============================================================================

------------------------------- MODULE Recogniser -------------------------------
(***************************************************************************)
(* Recogniser: the component for a native instruction, chosen by its id.   *)
(***************************************************************************)
EXTENDS MoveForms, LogicForms, ArithmeticForms, ControlForms

Recognise(I, known) ==
  CASE I.id = "nop"      -> RecogniseNOP(I)
    [] I.id = "mov"      -> RecogniseMOV(I)
    [] I.id = "movsxd"   -> RecogniseMOVSXD(I)
    [] I.id = "movzx"    -> RecogniseMOVZX(I)
    [] I.id = "movdqu"   -> RecogniseMOVDQU(I)
    [] I.id = "sete"     -> RecogniseSETE(I)
    [] I.id = "setne"    -> RecogniseSETNE(I)
    [] I.id = "pmovmskb" -> RecognisePMOVMSKB(I)
    [] I.id = "cmove"    -> RecogniseCMOVE(I)
    [] I.id = "cmova"    -> RecogniseCMOVA(I)
    [] I.id = "lea"      -> RecogniseLEA(I)
    [] I.id = "test"     -> RecogniseTEST(I)
    [] I.id = "cmp"      -> RecogniseSUB(I, TRUE)
    [] I.id = "pcmpeqb"  -> RecognisePCMPEQB(I)
    [] I.id = "cmpxchg"  -> RecogniseCMPXCHG(I)
    [] I.id = "inc"      -> RecogniseINC(I)
    [] I.id = "dec"      -> RecogniseDEC(I)
    [] I.id = "add"      -> RecogniseADD(I)
    [] I.id = "sub"      -> RecogniseSUB(I, FALSE)
    [] I.id = "neg"      -> RecogniseNEG(I)
    [] I.id = "div"      -> RecogniseDIV(I)
    [] I.id = "and"      -> RecogniseAND(I)
    [] I.id = "or"       -> RecogniseOR(I)
    [] I.id = "xor"      -> RecogniseXOR(I)
    [] I.id = "pxor"     -> RecognisePXOR(I)
    [] I.id = "sar"      -> RecogniseSAR(I)
    [] I.id = "shr"      -> RecogniseSHR(I)
    [] I.id = "shl"      -> RecogniseSHL(I)
    [] I.id = "rol"      -> RecogniseROL(I)
    [] I.id = "bsf"      -> RecogniseBSF(I)
    [] I.id = "jmp"      -> RecogniseJMP(I)
    [] I.id = "jne"      -> RecogniseJNE(I)
    [] I.id = "je"       -> RecogniseJE(I)
    [] I.id = "js"       -> RecogniseJS(I)
    [] I.id = "jns"      -> RecogniseJNS(I)
    [] I.id = "ja"       -> RecogniseJA(I)
    [] I.id = "jae"      -> RecogniseJAE(I)
    [] I.id = "jg"       -> RecogniseJG(I)
    [] I.id = "jle"      -> RecogniseJLE(I)
    [] I.id = "jb"       -> RecogniseJB(I)
    [] I.id = "jbe"      -> RecogniseJBE(I)
    [] I.id = "push"     -> RecognisePUSH(I)
    [] I.id = "pop"      -> RecognisePOP(I)
    [] I.id = "call"     -> RecogniseCALL(I)
    [] I.id = "ret"      -> RecogniseRET(I)
    [] I.id = "leave"    -> RecogniseLEAVE(I)
    [] I.id = "int"      -> RecogniseINT(I, known)
    [] I.id = "syscall"  -> RecogniseSYSCALL(I, known)
    [] OTHER             -> NotRecognised
=============================================================================

----------------------------- MODULE FmcProofs -----------------------------
(***************************************************************************)
(* Proofs about Fmc, for every set of pages, every timeout and every       *)
(* selection of driver functions, with a controller that may stall, fail   *)
(* and be reset at any point.                                              *)
(***************************************************************************)
EXTENDS Fmc, FiniteSetTheorems, TLAPS

(* Taking the least element out of a set of parts leaves parts. *)
LEMMA LeftShrinks ==
    ASSUME NEW S, NEW T \in SUBSET S, NEW x
    PROVE  T \ {x} \subseteq S
BY Zenon

(* A job built from well-typed parts is a job. *)
LEMMA JobOK ==
    ASSUME NEW k \in {"none", "erase", "program", "option", "optionErase"},
           NEW C \in SUBSET Cells, NEW o \in OptionBytes, NEW b \in BOOLEAN
    PROVE  Job(k, C, o, b) \in Jobs
BY Zenon DEF Job, Jobs

(* The option bytes after erasing, and after programming one of them. *)
LEMMA OptionOK ==
    /\ ErasedOption \in OptionBytes
    /\ NoJob \in Jobs
    /\ \A o \in OptionBytes : \A r \in {"FF", "A5", "00"} : [o EXCEPT !.rdp = r] \in OptionBytes
    /\ \A o \in OptionBytes : \A x \in {"USER", "DATA"} :
          [o EXCEPT !.written = @ \cup {x}] \in OptionBytes
    /\ \A o \in OptionBytes : \A P \in SUBSET Pages :
          [o EXCEPT !.wrp = @ \cup P] \in OptionBytes
<1>1. ErasedOption \in OptionBytes
  BY SMT DEF ErasedOption, OptionBytes
<1>2. NoJob \in Jobs
  BY <1>1, SMT DEF NoJob, Jobs
<1>3. QED
  BY <1>1, <1>2, SMT DEF OptionBytes

(* Whatever erase mode the controller carries out, it runs a job. *)
LEMMA StartEraseOK ==
    ASSUME TypeRegs, TypeCpu, StartErase PROVE running' \in Jobs
<1>1. call.pages \in SUBSET Pages
  BY SMT DEF TypeCpu, Calls, NoCall
<1>2. ASSUME NEW m \in EraseModes PROVE EraseJob(m) \in Jobs
  <2>1. call.pages \X {0, 1} \in SUBSET Cells /\ Cells \in SUBSET Cells /\ {} \in SUBSET Cells
    BY <1>1, Zenon DEF Cells
  <2>2. CASE m = "PAGEERA"
    BY <2>1, <2>2, JobOK, OptionOK DEF EraseJob
  <2>3. CASE m = "MASSERA"
    BY <2>1, <2>3, JobOK, OptionOK DEF EraseJob
  <2>4. CASE m = "OBE"
    BY <2>1, <2>4, JobOK, OptionOK DEF EraseJob
  <2>5. QED BY <2>2, <2>3, <2>4 DEF EraseModes
<1>3. PICK m \in ctrl' \cap EraseModes :
         running' = IF m = "OBE" /\ ~OBWEN' THEN running ELSE EraseJob(m)
  BY DEF StartErase
<1>4. QED BY <1>2, <1>3 DEF TypeRegs

(* Starting to program a half-word, or an option byte. *)
LEMMA StartProgramOK ==
    ASSUME TypeRegs, NEW c \in Cells, StartProgram(c) PROVE running' \in Jobs
<1>1. Job("program", {c}, ErasedOption, c \notin flash) \in Jobs
  <2>1. {c} \in SUBSET Cells /\ (c \notin flash) \in BOOLEAN
    OBVIOUS
  <2>2. QED BY <2>1, JobOK, OptionOK
<1>2. QED BY <1>1 DEF StartProgram, TypeRegs

LEMMA StartOptionOK ==
    ASSUME TypeRegs, NEW o \in OptionBytes, NEW b \in BOOLEAN, StartOption(o, b)
    PROVE  running' \in Jobs
<1>1. Job("option", {}, o, b) \in Jobs
  <2>1. {} \in SUBSET Cells
    OBVIOUS
  <2>2. QED BY <2>1, JobOK
<1>2. QED BY <1>1 DEF StartOption, TypeRegs

(* The effect of the running job keeps the memory well typed. *)
LEMMA EffectOK ==
    ASSUME TypeStored, TypeRegs, Effect PROVE flash' \subseteq Cells /\ option' \in OptionBytes
BY SMT DEF TypeStored, TypeRegs, Effect, Jobs

-----------------------------------------------------------------------------
(* Which function is running at each label, and which half-words are left. *)
PcOp ==
    /\ pc = "started" => call.op \in {"ErasePage", "EraseAllPage"}
    /\ pc = "program" => call.op \in ProgramOps /\ left \subseteq {0, 1}
    /\ pc \in {"erased", "written"} => call.op \in ReadOutOps
    /\ pc = "optioned" => call.op \in OptionOps
    /\ pc = "bytes" => call.op = "EnableWriteProtection"

TypeInv == TypeOK /\ PcOp

(* A wait starts from its whole timeout. *)
LEMMA LimitOK == Limit \in 0..Limit /\ {} \subseteq 0..3
BY FmcAssumption

(* The initial states. *)
LEMMA TypeInit == Init => TypeInv
<1> SUFFICES ASSUME Init PROVE TypeInv
  OBVIOUS
<1>1. TypeStored
  <2>1. PICK r \in {"A5", "00"} : option = [ErasedOption EXCEPT !.rdp = r]
    BY Zenon DEF Init
  <2>2. option \in OptionBytes
    BY <2>1, OptionOK, Zenon
  <2>3. option.wrp \subseteq Pages
    BY <2>2 DEF OptionBytes
  <2>4. flash \subseteq Cells /\ READPROT \in BOOLEAN /\ WRTPROT = option.wrp
    BY Zenon DEF Init
  <2>5. QED BY <2>2, <2>3, <2>4 DEF TypeStored
<1>2. TypeRegs
  BY OptionOK DEF Init, TypeRegs
<1>3. TypeCpu
  <2>1. /\ call = NoCall /\ pc = "idle" /\ wait = "no" /\ status = "COMPLETE"
        /\ timeOut = Limit /\ rdtemp = "A5" /\ left = {} /\ PRIMASK = FALSE
    BY Zenon DEF Init
  <2>2. QED BY <2>1, LimitOK, Zenon DEF TypeCpu, Labels, Statuses
<1>4. TypeCounts
  <2>1. asked = FALSE /\ obeLeft = FALSE /\ calls = 0 /\ resets = 0
    BY Zenon DEF Init
  <2>2. 0 \in 0..MaxCalls /\ 0 \in 0..MaxResets
    BY FmcAssumption
  <2>3. QED BY <2>1, <2>2 DEF TypeCounts
<1>5. PcOp
  BY DEF Init, PcOp
<1>6. QED BY <1>1, <1>2, <1>3, <1>4, <1>5 DEF TypeInv, TypeOK

(* The least half-word that is left is a half-word. *)
LEMMA MinHalf == ASSUME NEW S \in SUBSET {0, 1}, S # {} PROVE Min(S) \in {0, 1}
<1>1. \E x \in S : \A y \in S : x <= y
  <2>1. CASE 0 \in S
    BY <2>1
  <2>2. CASE 0 \notin S
    <3>1. S = {1}
      BY <2>2, Zenon
    <3>2. QED BY <3>1
  <2>3. QED BY <2>1, <2>2
<1>2. Min(S) \in S
  BY <1>1 DEF Min
<1>3. QED BY <1>2

(* What every action needs of the call it serves. *)
LEMMA CallOK ==
    ASSUME TypeCpu
    PROVE  call.pages \in SUBSET Pages /\ call.half \in SUBSET {0, 1}
BY SMT DEF TypeCpu, Calls, NoCall

-----------------------------------------------------------------------------
(* One step of any actor keeps the invariant. *)
LEMMA TypeStep == TypeInv /\ [Next]_vars => TypeInv'
<1> SUFFICES ASSUME TypeStored, TypeRegs, TypeCpu, TypeCounts, PcOp, [Next]_vars PROVE TypeInv'
  BY DEF TypeInv, TypeOK
<1>1. CASE Wait_Read
  <2>1. TypeStored'
    BY <1>1 DEF Wait_Read, TypeStored, stored
  <2>2. TypeRegs'
    BY <1>1 DEF Wait_Read, TypeRegs, regs
  <2>3. TypeCpu'
    BY <1>1, FmcAssumption DEF Wait_Read, FMC_ReadStatus, TypeCpu, Labels, Statuses
  <2>4. TypeCounts'
    BY <1>1 DEF Wait_Read, TypeCounts, counts
  <2>5. PcOp'
    BY <1>1 DEF Wait_Read, PcOp, TypeCpu
  <2>6. QED BY <2>1, <2>2, <2>3, <2>4, <2>5 DEF TypeInv, TypeOK
<1>2. CASE Wait_Loop
  <2>1. TypeStored'
    BY <1>2 DEF Wait_Loop, TypeStored, stored
  <2>2. TypeRegs'
    BY <1>2 DEF Wait_Loop, TypeRegs, regs
  <2>3. TypeCpu'
    BY <1>2, FmcAssumption DEF Wait_Loop, Spinning, FMC_ReadStatus, TypeCpu, Labels, Statuses
  <2>4. TypeCounts'
    BY <1>2 DEF Wait_Loop, TypeCounts, counts
  <2>5. PcOp'
    BY <1>2 DEF Wait_Loop, PcOp, TypeCpu
  <2>6. QED BY <2>1, <2>2, <2>3, <2>4, <2>5 DEF TypeInv, TypeOK
<1>3. CASE Wait_Return
  <2>1. TypeStored'
    BY <1>3 DEF Wait_Return, TypeStored, stored
  <2>2. TypeRegs'
    BY <1>3 DEF Wait_Return, TypeRegs, regs
  <2>3. TypeCpu'
    BY <1>3 DEF Wait_Return, TypeCpu, Labels, Statuses
  <2>4. TypeCounts'
    BY <1>3 DEF Wait_Return, TypeCounts, counts
  <2>5. PcOp'
    BY <1>3 DEF Wait_Return, PcOp, TypeCpu
  <2>6. QED BY <2>1, <2>2, <2>3, <2>4, <2>5 DEF TypeInv, TypeOK
<1>4. CASE NotStarted
  <2>1. TypeStored'
    BY <1>4 DEF NotStarted, TypeStored, stored
  <2>2. TypeRegs'
    BY <1>4 DEF NotStarted, TypeRegs, regs
  <2>3. TypeCpu'
    BY <1>4 DEF NotStarted, TypeCpu, At, Return, Labels, locals, Statuses
  <2>4. TypeCounts'
    BY <1>4 DEF NotStarted, TypeCounts, counts
  <2>5. PcOp'
    BY <1>4 DEF NotStarted, PcOp, TypeCpu, At, Return, locals
  <2>6. QED BY <2>1, <2>2, <2>3, <2>4, <2>5 DEF TypeInv, TypeOK
<1>5. CASE Erase_Start
  <2>1. TypeStored'
    BY <1>5 DEF Erase_Start, TypeStored, stored
  <2>2. TypeRegs'
    <3>1. running' \in Jobs
      BY <1>5, StartEraseOK DEF Erase_Start
    <3>2. QED BY <1>5, <3>1 DEF Erase_Start, EraseMode, TypeRegs, Modes, MainModes
  <2>3. TypeCpu'
    BY <1>5 DEF Erase_Start, TypeCpu, At, WaitThen, Labels, locals, Statuses
  <2>4. TypeCounts'
    BY <1>5 DEF Erase_Start, TypeCounts, counts
  <2>5. PcOp'
    BY <1>5 DEF Erase_Start, PcOp, TypeCpu, At, WaitThen, locals
  <2>6. QED BY <2>1, <2>2, <2>3, <2>4, <2>5 DEF TypeInv, TypeOK
<1>6. CASE Erase_End
  <2>1. TypeStored'
    BY <1>6 DEF Erase_End, TypeStored, stored
  <2>2. TypeRegs'
    BY <1>6 DEF Erase_End, TypeRegs
  <2>3. TypeCpu'
    BY <1>6 DEF Erase_End, TypeCpu, At, Return, Labels, locals, Statuses
  <2>4. TypeCounts'
    BY <1>6 DEF Erase_End, TypeCounts, counts
  <2>5. PcOp'
    BY <1>6 DEF Erase_End, PcOp, TypeCpu, At, Return, locals
  <2>6. QED BY <2>1, <2>2, <2>3, <2>4, <2>5 DEF TypeInv, TypeOK
<1>7. CASE Program_Start
  <2>1. TypeStored'
    BY <1>7 DEF Program_Start, TypeStored, stored
  <2>2. TypeRegs'
    BY <1>7 DEF Program_Start, TypeRegs, Modes, MainModes
  <2>3. TypeCpu'
    <3>1. left' \subseteq 0..3
      BY <1>7, CallOK DEF Program_Start
    <3>2. QED BY <1>7, <3>1 DEF Program_Start, TypeCpu, Labels
  <2>4. TypeCounts'
    BY <1>7 DEF Program_Start, TypeCounts, counts
  <2>5. PcOp'
    BY <1>7, CallOK DEF Program_Start, PcOp, At
  <2>6. QED BY <2>1, <2>2, <2>3, <2>4, <2>5 DEF TypeInv, TypeOK
<1>8. CASE Program_Half
  <2>1. TypeStored'
    BY <1>8 DEF Program_Half, TypeStored, stored
  <2>2. TypeRegs'
    <3>1. PICK page \in call.pages : UNCHANGED ctrl /\ StartProgram(<<page, Min(left)>>)
      BY <1>8 DEF Program_Half
    <3>2. Min(left) \in {0, 1}
      BY <1>8, MinHalf DEF Program_Half, At, PcOp
    <3>3. <<page, Min(left)>> \in Cells
      BY <3>1, <3>2, CallOK DEF Cells
    <3>4. running' \in Jobs
      BY <3>1, <3>3, StartProgramOK
    <3>5. QED BY <1>8, <3>1, <3>4 DEF Program_Half, TypeRegs
  <2>3. TypeCpu'
    BY <1>8 DEF Program_Half, TypeCpu, At, WaitThen, Labels, Statuses
  <2>4. TypeCounts'
    BY <1>8 DEF Program_Half, TypeCounts, counts
  <2>5. PcOp'
    BY <1>8 DEF Program_Half, PcOp, TypeCpu, At, WaitThen
  <2>6. QED BY <2>1, <2>2, <2>3, <2>4, <2>5 DEF TypeInv, TypeOK
<1>9. CASE Program_End
  <2>1. TypeStored'
    BY <1>9 DEF Program_End, TypeStored, stored
  <2>2. TypeRegs'
    BY <1>9 DEF Program_End, TypeRegs
  <2>3. TypeCpu'
    BY <1>9 DEF Program_End, TypeCpu, At, Return, Labels, locals, Statuses
  <2>4. TypeCounts'
    BY <1>9 DEF Program_End, TypeCounts, counts
  <2>5. PcOp'
    BY <1>9 DEF Program_End, PcOp, TypeCpu, At, Return, locals
  <2>6. QED BY <2>1, <2>2, <2>3, <2>4, <2>5 DEF TypeInv, TypeOK
<1>10. CASE ReadOut_Erase
  <2>1. TypeStored'
    BY <1>10 DEF ReadOut_Erase, TypeStored, stored
  <2>2. TypeRegs'
    <3>1. running' \in Jobs
      BY <1>10, StartEraseOK DEF ReadOut_Erase
    <3>2. QED BY <1>10, <3>1 DEF ReadOut_Erase, TypeRegs, Modes, MainModes
  <2>3. TypeCpu'
    BY <1>10 DEF ReadOut_Erase, TypeCpu, At, WaitThen, Labels, locals, Statuses
  <2>4. TypeCounts'
    BY <1>10 DEF ReadOut_Erase, TypeCounts, counts
  <2>5. PcOp'
    BY <1>10 DEF ReadOut_Erase, PcOp, TypeCpu, At, WaitThen, locals
  <2>6. QED BY <2>1, <2>2, <2>3, <2>4, <2>5 DEF TypeInv, TypeOK
<1>11. CASE ReadOut_Write
  <2>1. TypeStored'
    BY <1>11 DEF ReadOut_Write, TypeStored, stored
  <2>2. TypeRegs'
    <3>1. RdpValue \in {"FF", "A5", "00"}
      BY <1>11 DEF ReadOut_Write, RdpValue, At, PcOp, ReadOutOps, TypeCpu
    <3>2. [option EXCEPT !.rdp = RdpValue] \in OptionBytes
      BY <3>1, OptionOK, Zenon DEF TypeStored
    <3>3. (option.rdp = "FF") \in BOOLEAN
      OBVIOUS
    <3>4. running' \in Jobs
      BY <1>11, <3>2, <3>3, StartOptionOK, Zenon DEF ReadOut_Write
    <3>5. QED BY <1>11, <3>4 DEF ReadOut_Write, TypeRegs, Modes, MainModes
  <2>3. TypeCpu'
    BY <1>11 DEF ReadOut_Write, TypeCpu, At, WaitThen, Labels, locals, Statuses
  <2>4. TypeCounts'
    BY <1>11 DEF ReadOut_Write, TypeCounts, counts
  <2>5. PcOp'
    BY <1>11 DEF ReadOut_Write, PcOp, TypeCpu, At, WaitThen, locals
  <2>6. QED BY <2>1, <2>2, <2>3, <2>4, <2>5 DEF TypeInv, TypeOK
<1>12. CASE ReadOut_End
  <2>1. TypeStored'
    BY <1>12 DEF ReadOut_End, TypeStored, stored
  <2>2. TypeRegs'
    BY <1>12 DEF ReadOut_End, TypeRegs
  <2>3. TypeCpu'
    BY <1>12 DEF ReadOut_End, TypeCpu, At, Return, Labels, locals, Statuses
  <2>4. TypeCounts'
    BY <1>12 DEF ReadOut_End, TypeCounts, counts
  <2>5. PcOp'
    BY <1>12 DEF ReadOut_End, PcOp, TypeCpu, At, Return, locals
  <2>6. QED BY <2>1, <2>2, <2>3, <2>4, <2>5 DEF TypeInv, TypeOK
<1>13. CASE ReadOut_EraseFailed
  <2>1. TypeStored'
    BY <1>13 DEF ReadOut_EraseFailed, TypeStored, stored
  <2>2. TypeRegs'
    BY <1>13 DEF ReadOut_EraseFailed, TypeRegs
  <2>3. TypeCpu'
    BY <1>13 DEF ReadOut_EraseFailed, TypeCpu, At, Return, Labels, locals, Statuses
  <2>4. TypeCounts'
    BY <1>13 DEF ReadOut_EraseFailed, TypeCounts, counts
  <2>5. PcOp'
    BY <1>13 DEF ReadOut_EraseFailed, PcOp, TypeCpu, At, Return, locals
  <2>6. QED BY <2>1, <2>2, <2>3, <2>4, <2>5 DEF TypeInv, TypeOK
<1>14. CASE Option_Write
  <2>1. TypeStored'
    BY <1>14 DEF Option_Write, TypeStored, stored
  <2>2. TypeRegs'
    <3>1. OptionByte \in {"USER", "DATA"}
      BY DEF OptionByte
    <3>2. [option EXCEPT !.written = @ \cup {OptionByte}] \in OptionBytes
      BY <3>1, OptionOK, Zenon DEF TypeStored
    <3>3. (OptionByte \notin option.written) \in BOOLEAN
      OBVIOUS
    <3>4. running' \in Jobs
      BY <1>14, <3>2, <3>3, StartOptionOK, Zenon DEF Option_Write
    <3>5. QED BY <1>14, <3>4 DEF Option_Write, TypeRegs, Modes, MainModes
  <2>3. TypeCpu'
    BY <1>14 DEF Option_Write, TypeCpu, At, WaitThen, Labels, locals, Statuses
  <2>4. TypeCounts'
    BY <1>14 DEF Option_Write, TypeCounts, counts
  <2>5. PcOp'
    BY <1>14 DEF Option_Write, PcOp, TypeCpu, At, WaitThen, locals
  <2>6. QED BY <2>1, <2>2, <2>3, <2>4, <2>5 DEF TypeInv, TypeOK
<1>15. CASE Option_End
  <2>1. TypeStored'
    BY <1>15 DEF Option_End, TypeStored, stored
  <2>2. TypeRegs'
    BY <1>15 DEF Option_End, TypeRegs
  <2>3. TypeCpu'
    BY <1>15 DEF Option_End, TypeCpu, At, Return, Labels, locals, Statuses
  <2>4. TypeCounts'
    BY <1>15 DEF Option_End, TypeCounts, counts
  <2>5. PcOp'
    BY <1>15 DEF Option_End, PcOp, TypeCpu, At, Return, locals
  <2>6. QED BY <2>1, <2>2, <2>3, <2>4, <2>5 DEF TypeInv, TypeOK
<1>16. CASE Protect_Start
  <2>1. TypeStored'
    BY <1>16 DEF Protect_Start, TypeStored, stored
  <2>2. TypeRegs'
    BY <1>16 DEF Protect_Start, TypeRegs, Modes, MainModes
  <2>3. TypeCpu'
    <3>1. call.pages \in SUBSET Pages
      BY CallOK
    <3>2. { ByteOf[q] : q \in call.pages } \subseteq 0..3
      BY <3>1, FmcAssumption
    <3>3. QED BY <1>16, <3>2 DEF Protect_Start, At, TypeCpu, Labels
  <2>4. TypeCounts'
    BY <1>16 DEF Protect_Start, TypeCounts, counts
  <2>5. PcOp'
    BY <1>16 DEF Protect_Start, PcOp, TypeCpu, At
  <2>6. QED BY <2>1, <2>2, <2>3, <2>4, <2>5 DEF TypeInv, TypeOK
<1>17. CASE Protect_Byte
  <2>1. TypeStored'
    BY <1>17 DEF Protect_Byte, TypeStored, stored
  <2>2. TypeRegs'
    <3>1. InByte(call.pages, Min(left)) \in SUBSET Pages
      BY CallOK DEF InByte
    <3>2. [option EXCEPT !.wrp = @ \cup InByte(call.pages, Min(left))] \in OptionBytes
      BY <3>1, OptionOK, Zenon DEF TypeStored
    <3>3. (InByte(option.wrp, Min(left)) = {}) \in BOOLEAN
      OBVIOUS
    <3>4. running' \in Jobs
      BY <1>17, <3>2, <3>3, StartOptionOK, Zenon DEF Protect_Byte
    <3>5. QED BY <1>17, <3>4 DEF Protect_Byte, TypeRegs
  <2>3. TypeCpu'
    BY <1>17 DEF Protect_Byte, TypeCpu, At, WaitThen, Labels, Statuses
  <2>4. TypeCounts'
    BY <1>17 DEF Protect_Byte, TypeCounts, counts
  <2>5. PcOp'
    BY <1>17 DEF Protect_Byte, PcOp, TypeCpu, At, WaitThen
  <2>6. QED BY <2>1, <2>2, <2>3, <2>4, <2>5 DEF TypeInv, TypeOK
<1>18. CASE Protect_End
  <2>1. TypeStored'
    BY <1>18 DEF Protect_End, TypeStored, stored
  <2>2. TypeRegs'
    BY <1>18 DEF Protect_End, TypeRegs
  <2>3. TypeCpu'
    BY <1>18 DEF Protect_End, TypeCpu, At, Return, Labels, locals, Statuses
  <2>4. TypeCounts'
    BY <1>18 DEF Protect_End, TypeCounts, counts
  <2>5. PcOp'
    BY <1>18 DEF Protect_End, PcOp, TypeCpu, At, Return, locals
  <2>6. QED BY <2>1, <2>2, <2>3, <2>4, <2>5 DEF TypeInv, TypeOK
<1>19. CASE FMC_Unlock
  <2>1. TypeStored'
    BY <1>19 DEF FMC_Unlock, TypeStored, stored
  <2>2. TypeRegs'
    BY <1>19 DEF FMC_Unlock, TypeRegs
  <2>3. TypeCpu'
    BY <1>19 DEF FMC_Unlock, TypeCpu, Labels, locals, Statuses
  <2>4. TypeCounts'
    BY <1>19 DEF FMC_Unlock, TypeCounts, counts
  <2>5. PcOp'
    BY <1>19 DEF FMC_Unlock, PcOp, TypeCpu, locals
  <2>6. QED BY <2>1, <2>2, <2>3, <2>4, <2>5 DEF TypeInv, TypeOK
<1>20. CASE FMC_Lock
  <2>1. TypeStored'
    BY <1>20 DEF FMC_Lock, TypeStored, stored
  <2>2. TypeRegs'
    BY <1>20 DEF FMC_Lock, TypeRegs
  <2>3. TypeCpu'
    BY <1>20 DEF FMC_Lock, TypeCpu, Labels, locals, Statuses
  <2>4. TypeCounts'
    BY <1>20 DEF FMC_Lock, TypeCounts, counts
  <2>5. PcOp'
    BY <1>20 DEF FMC_Lock, PcOp, TypeCpu, locals
  <2>6. QED BY <2>1, <2>2, <2>3, <2>4, <2>5 DEF TypeInv, TypeOK
<1>21. ASSUME NEW flag \in SUBSET Flags, FMC_ClearStatusFlag(flag) PROVE TypeInv'
  <2>1. TypeStored' /\ TypeCounts'
    BY <1>21 DEF FMC_ClearStatusFlag, TypeStored, TypeCounts, stored, counts
  <2>2. TypeRegs'
    BY <1>21 DEF FMC_ClearStatusFlag, TypeRegs
  <2>3. TypeCpu' /\ PcOp'
    BY <1>21 DEF FMC_ClearStatusFlag, TypeCpu, PcOp, locals
  <2>4. QED BY <2>1, <2>2, <2>3 DEF TypeInv, TypeOK
<1>22. ASSUME NEW c \in Calls, Call(c) PROVE TypeInv'
  <2>1. TypeStored'
    BY <1>22 DEF Call, TypeStored, stored
  <2>2. TypeRegs'
    BY <1>22 DEF Call, TypeRegs
  <2>3. call' \in Calls /\ PRIMASK' \in BOOLEAN /\ rdtemp' \in {"A5", "00"}
    BY <1>22, Zenon DEF Call
  <2>4. TypeCpu'
    BY <1>22, <2>3 DEF Call, WaitThen, TypeCpu, Labels
  <2>5. TypeCounts'
    BY <1>22, FmcAssumption DEF Call, TypeCounts
  <2>6. PcOp'
    BY <1>22 DEF Call, WaitThen, PcOp
  <2>7. QED BY <2>1, <2>2, <2>4, <2>5, <2>6 DEF TypeInv, TypeOK
<1>23. CASE Hw_Done
  <2>1. TypeStored'
    BY <1>23, EffectOK DEF Hw_Done, TypeStored
  <2>2. TypeRegs'
    BY <1>23, OptionOK DEF Hw_Done, TypeRegs, Flags
  <2>3. TypeCpu'
    BY <1>23 DEF Hw_Done, TypeCpu, locals
  <2>4. TypeCounts'
    BY <1>23 DEF Hw_Done, TypeCounts, counts
  <2>5. PcOp'
    BY <1>23 DEF Hw_Done, PcOp, TypeCpu, locals
  <2>6. QED BY <2>1, <2>2, <2>3, <2>4, <2>5 DEF TypeInv, TypeOK
<1>24. CASE Hw_Error
  <2>1. TypeStored'
    BY <1>24 DEF Hw_Error, TypeStored, stored
  <2>2. TypeRegs'
    BY <1>24, OptionOK DEF Hw_Error, TypeRegs, Flags
  <2>3. TypeCpu'
    BY <1>24 DEF Hw_Error, TypeCpu, locals
  <2>4. TypeCounts'
    BY <1>24 DEF Hw_Error, TypeCounts, counts
  <2>5. PcOp'
    BY <1>24 DEF Hw_Error, PcOp, TypeCpu, locals
  <2>6. QED BY <2>1, <2>2, <2>3, <2>4, <2>5 DEF TypeInv, TypeOK
<1>25. CASE Reset
  <2>1. TypeStored'
    <3>1. flash' \subseteq Cells /\ option' \in OptionBytes
      BY <1>25, EffectOK DEF Reset, TypeStored
    <3>2. option'.wrp \subseteq Pages
      BY <3>1 DEF OptionBytes
    <3>3. QED BY <1>25, <3>1, <3>2 DEF Reset, Boot, TypeStored
  <2>2. TypeRegs'
    BY <1>25, OptionOK DEF Reset, Boot, TypeRegs
  <2>3. TypeCpu'
    BY <1>25, LimitOK, Zenon DEF Reset, Boot, TypeCpu, Labels, Statuses
  <2>4. TypeCounts'
    <3>1. obeLeft' = FALSE /\ asked' = asked /\ calls' = calls
      BY <1>25, Zenon DEF Reset
    <3>2. resets' \in 0..MaxResets
      BY <1>25, FmcAssumption DEF Reset, TypeCounts
    <3>3. QED BY <3>1, <3>2, Zenon DEF TypeCounts
  <2>5. PcOp'
    BY <1>25 DEF Reset, PcOp, TypeCpu, Boot, NoCall
  <2>6. QED BY <2>1, <2>2, <2>3, <2>4, <2>5 DEF TypeInv, TypeOK
<1>26. CASE UNCHANGED vars
  BY <1>26 DEF vars, stored, regs, locals, counts, TypeInv, TypeOK, TypeStored, TypeRegs,
     TypeCpu, TypeCounts, PcOp
<1>27. QED
  BY <1>1, <1>2, <1>3, <1>4, <1>5, <1>6, <1>7, <1>8, <1>9, <1>10, <1>11, <1>12, <1>13,
     <1>14, <1>15, <1>16, <1>17, <1>18, <1>19, <1>20, <1>21, <1>22, <1>23, <1>24, <1>25,
     <1>26 DEF Next, Driver, Caller, Controller

(* Type correctness: no register, option byte, local or counter of the     *)
(* flash driver leaves its range, in particular the countdown of           *)
(* FMC_WaitForLastOperation; and each label belongs to its function.       *)
THEOREM FmcTypeCorrect == Spec => []TypeOK
<1>1. TypeInv => TypeOK
  BY DEF TypeInv
<1>2. QED
  BY <1>1, TypeInit, TypeStep, PTL DEF Spec

-----------------------------------------------------------------------------
(* MainModesReleased.  Each main flash mode bit is set only at the label    *)
(* whose function clears it again.                                         *)
MainInv ==
    /\ "PG" \in ctrl => pc = "program"
    /\ "PAGEERA" \in ctrl => pc = "started" /\ call.op = "ErasePage"
    /\ "MASSERA" \in ctrl => pc = "started" /\ call.op = "EraseAllPage"

LEMMA MainStep == TypeInv /\ MainInv /\ [Next]_vars => MainInv'
<1> SUFFICES ASSUME PcOp, MainInv, [Next]_vars PROVE MainInv'
  BY DEF TypeInv
<1>1. CASE Wait_Read
  BY <1>1 DEF Wait_Read, regs, MainInv
<1>2. CASE Wait_Loop
  BY <1>2 DEF Wait_Loop, regs, MainInv
<1>3. CASE Wait_Return
  BY <1>3 DEF Wait_Return, regs, MainInv
<1>4. CASE NotStarted
  BY <1>4 DEF NotStarted, At, Return, regs, MainInv
<1>5. CASE Erase_Start
  BY <1>5 DEF Erase_Start, At, WaitThen, EraseMode, MainInv
<1>6. CASE Erase_End
  BY <1>6 DEF Erase_End, At, Return, EraseMode, MainInv, PcOp
<1>7. CASE Program_Start
  BY <1>7 DEF Program_Start, At, MainInv
<1>8. CASE Program_Half
  BY <1>8 DEF Program_Half, At, WaitThen, MainInv
<1>9. CASE Program_End
  BY <1>9 DEF Program_End, At, Return, MainInv
<1>10. CASE ReadOut_Erase
  BY <1>10 DEF ReadOut_Erase, At, WaitThen, MainInv
<1>11. CASE ReadOut_Write
  BY <1>11 DEF ReadOut_Write, At, WaitThen, MainInv
<1>12. CASE ReadOut_End
  BY <1>12 DEF ReadOut_End, At, Return, MainInv
<1>13. CASE ReadOut_EraseFailed
  BY <1>13 DEF ReadOut_EraseFailed, At, Return, MainInv
<1>14. CASE Option_Write
  BY <1>14 DEF Option_Write, At, WaitThen, MainInv
<1>15. CASE Option_End
  BY <1>15 DEF Option_End, At, Return, MainInv
<1>16. CASE Protect_Start
  BY <1>16 DEF Protect_Start, At, MainInv
<1>17. CASE Protect_Byte
  BY <1>17 DEF Protect_Byte, At, WaitThen, MainInv
<1>18. CASE Protect_End
  BY <1>18 DEF Protect_End, At, Return, MainInv
<1>19. CASE FMC_Unlock
  BY <1>19 DEF FMC_Unlock, MainInv
<1>20. CASE FMC_Lock
  BY <1>20 DEF FMC_Lock, MainInv
<1>21. ASSUME NEW flag \in SUBSET Flags, FMC_ClearStatusFlag(flag) PROVE MainInv'
  BY <1>21 DEF FMC_ClearStatusFlag, MainInv
<1>22. ASSUME NEW c \in Calls, Call(c) PROVE MainInv'
  BY <1>22 DEF Call, WaitThen, MainInv
<1>23. CASE Hw_Done
  BY <1>23 DEF Hw_Done, MainInv
<1>24. CASE Hw_Error
  BY <1>24 DEF Hw_Error, MainInv
<1>25. CASE Reset
  BY <1>25 DEF Reset, Boot, MainInv
<1>26. CASE UNCHANGED vars
  BY <1>26 DEF vars, regs, MainInv
<1>27. QED
  BY <1>1, <1>2, <1>3, <1>4, <1>5, <1>6, <1>7, <1>8, <1>9, <1>10, <1>11, <1>12, <1>13,
     <1>14, <1>15, <1>16, <1>17, <1>18, <1>19, <1>20, <1>21, <1>22, <1>23, <1>24, <1>25,
     <1>26 DEF Next, Driver, Caller, Controller

(* No way out of a driver function, neither an error nor a timeout, leaves *)
(* PG, PAGEERA or MASSERA set, for any number of pages and calls.          *)
THEOREM FmcMainModesReleased == Spec => []MainModesReleased
<1>1. Init => MainInv
  BY Zenon DEF Init, MainInv
<1>2. MainInv => MainModesReleased
  BY DEF MainInv, MainModesReleased, MainModes
<1>3. QED
  BY <1>1, <1>2, TypeInit, TypeStep, MainStep, PTL DEF Spec

-----------------------------------------------------------------------------
(* ProtectionKept.  The job under way and the value looked up by           *)
(* FMC_EraseOptionBytes have to agree with the protection loaded at boot.  *)
ProtectInv ==
    /\ ProtectionKept
    /\ READPROT /\ ~asked /\ running.kind \in {"option", "optionErase"} => running.opt.rdp # "A5"
    /\ pc # "idle" /\ call.op = "DisableReadOutProtection" => asked
    /\ READPROT /\ pc # "idle" /\ call.op = "EraseOptionBytes" => rdtemp = "00"

(* Erasing the option bytes never leaves 0xA5. *)
LEMMA EraseKeeps ==
    ASSUME StartErase, running.kind \in {"option", "optionErase"} => running.opt.rdp # "A5"
    PROVE  running'.kind \in {"option", "optionErase"} => running'.opt.rdp # "A5"
<1>1. ASSUME NEW m \in EraseModes PROVE EraseJob(m).opt.rdp # "A5"
  BY DEF EraseModes, EraseJob, Job, ErasedOption
<1>2. QED BY <1>1 DEF StartErase

LEMMA ProtectStep == TypeInv /\ ProtectInv /\ [Next]_vars => ProtectInv'
<1> SUFFICES ASSUME TypeInv, ProtectInv, [Next]_vars PROVE ProtectInv'
  OBVIOUS
<1>0. READPROT \in BOOLEAN /\ asked \in BOOLEAN /\ option \in OptionBytes /\ PcOp
  BY DEF TypeInv, TypeOK, TypeStored, TypeCounts
<1>1. CASE Wait_Read
  BY <1>1 DEF Wait_Read, stored, regs, counts, ProtectInv, ProtectionKept
<1>2. CASE Wait_Loop
  BY <1>2 DEF Wait_Loop, stored, regs, counts, ProtectInv, ProtectionKept
<1>3. CASE Wait_Return
  BY <1>3 DEF Wait_Return, stored, regs, counts, ProtectInv, ProtectionKept
<1>4. CASE NotStarted
  BY <1>4 DEF NotStarted, At, Return, stored, regs, locals, counts, ProtectInv, ProtectionKept
<1>5. CASE Erase_Start
  <2>1. READPROT /\ ~asked => (running'.kind \in {"option", "optionErase"} => running'.opt.rdp # "A5")
    BY <1>5, EraseKeeps DEF Erase_Start, ProtectInv
  <2>2. QED BY <1>5, <2>1 DEF Erase_Start, At, WaitThen, stored, locals, counts,
               ProtectInv, ProtectionKept
<1>6. CASE Erase_End
  BY <1>6 DEF Erase_End, At, Return, stored, locals, counts, ProtectInv, ProtectionKept
<1>7. CASE Program_Start
  BY <1>7 DEF Program_Start, At, stored, counts, ProtectInv, ProtectionKept
<1>8. CASE Program_Half
  <2>1. PICK page \in call.pages : UNCHANGED ctrl /\ StartProgram(<<page, Min(left)>>)
    BY <1>8 DEF Program_Half
  <2>2. running' = running \/ running'.kind = "program"
    BY <2>1 DEF StartProgram, Job
  <2>3. QED BY <1>8, <2>2 DEF Program_Half, At, WaitThen, stored, counts, ProtectInv,
               ProtectionKept
<1>9. CASE Program_End
  BY <1>9 DEF Program_End, At, Return, stored, locals, counts, ProtectInv, ProtectionKept
<1>10. CASE ReadOut_Erase
  <2>1. READPROT /\ ~asked => (running'.kind \in {"option", "optionErase"} => running'.opt.rdp # "A5")
    BY <1>10, EraseKeeps DEF ReadOut_Erase, ProtectInv
  <2>2. QED BY <1>10, <2>1 DEF ReadOut_Erase, At, WaitThen, stored, locals, counts,
               ProtectInv, ProtectionKept
<1>11. CASE ReadOut_Write
  <2>1. READPROT /\ ~asked => RdpValue = "00"
    BY <1>11, <1>0 DEF ReadOut_Write, At, RdpValue, PcOp, ReadOutOps, ProtectInv
  <2>2. [option EXCEPT !.rdp = RdpValue].rdp = RdpValue
    BY <1>0 DEF OptionBytes
  <2>3. QED BY <1>11, <2>1, <2>2 DEF ReadOut_Write, At, WaitThen, StartOption, Job,
               stored, locals, counts, ProtectInv, ProtectionKept
<1>12. CASE ReadOut_End
  BY <1>12 DEF ReadOut_End, At, Return, stored, locals, counts, ProtectInv, ProtectionKept
<1>13. CASE ReadOut_EraseFailed
  BY <1>13 DEF ReadOut_EraseFailed, At, Return, stored, locals, counts, ProtectInv,
     ProtectionKept
<1>14. CASE Option_Write
  <2>1. [option EXCEPT !.written = @ \cup {OptionByte}].rdp = option.rdp
    BY <1>0 DEF OptionBytes
  <2>2. QED BY <1>14, <2>1, <1>0 DEF Option_Write, At, WaitThen, StartOption, Job,
               stored, locals, counts, ProtectInv, ProtectionKept
<1>15. CASE Option_End
  BY <1>15 DEF Option_End, At, Return, stored, locals, counts, ProtectInv, ProtectionKept
<1>16. CASE Protect_Start
  BY <1>16 DEF Protect_Start, At, stored, counts, ProtectInv, ProtectionKept
<1>17. CASE Protect_Byte
  <2>1. [option EXCEPT !.wrp = @ \cup InByte(call.pages, Min(left))].rdp = option.rdp
    BY <1>0 DEF OptionBytes
  <2>2. QED BY <1>17, <2>1, <1>0 DEF Protect_Byte, At, WaitThen, StartOption, Job,
               stored, counts, ProtectInv, ProtectionKept
<1>18. CASE Protect_End
  BY <1>18 DEF Protect_End, At, Return, stored, locals, counts, ProtectInv, ProtectionKept
<1>19. CASE FMC_Unlock
  BY <1>19 DEF FMC_Unlock, stored, locals, counts, ProtectInv, ProtectionKept
<1>20. CASE FMC_Lock
  BY <1>20 DEF FMC_Lock, stored, locals, counts, ProtectInv, ProtectionKept
<1>21. ASSUME NEW flag \in SUBSET Flags, FMC_ClearStatusFlag(flag) PROVE ProtectInv'
  BY <1>21 DEF FMC_ClearStatusFlag, stored, locals, counts, ProtectInv, ProtectionKept
<1>22. ASSUME NEW c \in Calls, Call(c) PROVE ProtectInv'
  BY <1>22 DEF Call, FMC_GetReadProtectionStatus, stored, ProtectInv, ProtectionKept
<1>23. CASE Hw_Done
  <2>1. READPROT /\ ~asked => option'.rdp # "A5"
    BY <1>23 DEF Hw_Done, Effect, ProtectInv, ProtectionKept
  <2>2. QED BY <1>23, <2>1 DEF Hw_Done, NoJob, locals, counts, ProtectInv, ProtectionKept
<1>24. CASE Hw_Error
  BY <1>24 DEF Hw_Error, NoJob, stored, locals, counts, ProtectInv, ProtectionKept
<1>25. CASE Reset
  BY <1>25 DEF Reset, Boot, NoJob, NoCall, ProtectInv, ProtectionKept
<1>26. CASE UNCHANGED vars
  BY <1>26 DEF vars, stored, regs, locals, counts, ProtectInv, ProtectionKept
<1>27. QED
  BY <1>1, <1>2, <1>3, <1>4, <1>5, <1>6, <1>7, <1>8, <1>9, <1>10, <1>11, <1>12, <1>13,
     <1>14, <1>15, <1>16, <1>17, <1>18, <1>19, <1>20, <1>21, <1>22, <1>23, <1>24, <1>25,
     <1>26 DEF Next, Driver, Caller, Controller

(* A device that booted read protected keeps a protection byte other than  *)
(* 0xA5 through every sequence of calls without                            *)
(* FMC_DisableReadOutProtection, through failed and timed-out operations   *)
(* and through a reset between any two steps.                              *)
THEOREM FmcProtectionKept == Spec => []ProtectionKept
<1>1. Init => ProtectInv
  <2> SUFFICES ASSUME Init PROVE ProtectInv
    OBVIOUS
  <2>1. /\ READPROT = (option.rdp # "A5") /\ running = NoJob /\ pc = "idle"
    BY Zenon DEF Init
  <2>2. QED BY <2>1 DEF NoJob, ProtectInv, ProtectionKept
<1>2. ProtectInv => ProtectionKept
  BY DEF ProtectInv
<1>3. QED
  BY <1>1, <1>2, TypeInit, TypeStep, ProtectStep, PTL DEF Spec

-----------------------------------------------------------------------------
(* StartsClean.  What a wait that reports FMC_STATUS_COMPLETE has seen      *)
(* stays true until the function goes on, and the programming functions    *)
(* keep interrupts masked until they return.                               *)
CleanInv ==
    /\ pc # "idle" /\ wait # "read" /\ status = "COMPLETE" =>
          running.kind = "none" /\ sts \cap {"PE", "WPE"} = {}
    /\ pc # "idle" /\ call.op \in ProgramOps => PRIMASK

LEMMA CleanStep == TypeInv /\ CleanInv /\ [Next]_vars => CleanInv'
<1> SUFFICES ASSUME PcOp, CleanInv, [Next]_vars PROVE CleanInv'
  BY DEF TypeInv
<1>1. CASE Wait_Read
  BY <1>1 DEF Wait_Read, regs, FMC_ReadStatus, CleanInv
<1>2. CASE Wait_Loop
  BY <1>2 DEF Wait_Loop, regs, Spinning, FMC_ReadStatus, CleanInv
<1>3. CASE Wait_Return
  BY <1>3 DEF Wait_Return, regs, Spinning, CleanInv
<1>4. CASE NotStarted
  BY <1>4 DEF NotStarted, At, Return, regs, locals, CleanInv
<1>5. CASE Erase_Start
  BY <1>5 DEF Erase_Start, WaitThen, ProgramOps, CleanInv
<1>6. CASE Erase_End
  BY <1>6 DEF Erase_End, At, Return, locals, CleanInv
<1>7. CASE Program_Start
  BY <1>7 DEF Program_Start, At, CleanInv
<1>8. CASE Program_Half
  BY <1>8 DEF Program_Half, At, WaitThen, CleanInv
<1>9. CASE Program_End
  BY <1>9 DEF Program_End, At, Return, locals, CleanInv
<1>10. CASE ReadOut_Erase
  BY <1>10 DEF ReadOut_Erase, WaitThen, ReadOutOps, ProgramOps, CleanInv
<1>11. CASE ReadOut_Write
  BY <1>11 DEF ReadOut_Write, At, WaitThen, locals, CleanInv
<1>12. CASE ReadOut_End
  BY <1>12 DEF ReadOut_End, At, Return, locals, CleanInv
<1>13. CASE ReadOut_EraseFailed
  BY <1>13 DEF ReadOut_EraseFailed, At, Return, locals, CleanInv
<1>14. CASE Option_Write
  BY <1>14 DEF Option_Write, At, WaitThen, locals, CleanInv
<1>15. CASE Option_End
  BY <1>15 DEF Option_End, At, Return, locals, CleanInv
<1>16. CASE Protect_Start
  BY <1>16 DEF Protect_Start, At, CleanInv
<1>17. CASE Protect_Byte
  BY <1>17 DEF Protect_Byte, At, WaitThen, CleanInv
<1>18. CASE Protect_End
  BY <1>18 DEF Protect_End, At, Return, locals, CleanInv
<1>19. CASE FMC_Unlock
  BY <1>19 DEF FMC_Unlock, locals, CleanInv
<1>20. CASE FMC_Lock
  BY <1>20 DEF FMC_Lock, locals, CleanInv
<1>21. ASSUME NEW flag \in SUBSET Flags, FMC_ClearStatusFlag(flag) PROVE CleanInv'
  BY <1>21 DEF FMC_ClearStatusFlag, locals, CleanInv
<1>22. ASSUME NEW c \in Calls, Call(c) PROVE CleanInv'
  BY <1>22 DEF Call, WaitThen, CleanInv
<1>23. CASE Hw_Done
  BY <1>23 DEF Hw_Done, locals, CleanInv
<1>24. CASE Hw_Error
  BY <1>24 DEF Hw_Error, locals, CleanInv
<1>25. CASE Reset
  BY <1>25 DEF Reset, Boot, CleanInv
<1>26. CASE UNCHANGED vars
  BY <1>26 DEF vars, regs, locals, CleanInv
<1>27. QED
  BY <1>1, <1>2, <1>3, <1>4, <1>5, <1>6, <1>7, <1>8, <1>9, <1>10, <1>11, <1>12, <1>13,
     <1>14, <1>15, <1>16, <1>17, <1>18, <1>19, <1>20, <1>21, <1>22, <1>23, <1>24, <1>25,
     <1>26 DEF Next, Driver, Caller, Controller

(* An operation is a start only of the five actions that start one. *)
LEMMA StartStep == TypeInv /\ CleanInv /\ [Next]_vars =>
    [ running' # running /\ running'.kind # "none" =>
        /\ running.kind = "none" /\ sts \cap {"PE", "WPE"} = {}
        /\ running'.kind = "program" => PRIMASK ]_vars
<1> DEFINE Clean == running' # running /\ running'.kind # "none" =>
        /\ running.kind = "none" /\ sts \cap {"PE", "WPE"} = {}
        /\ running'.kind = "program" => PRIMASK
<1> SUFFICES ASSUME PcOp, CleanInv, Next PROVE Clean
  BY DEF TypeInv
<1>1. CASE Wait_Read
  BY <1>1 DEF Wait_Read, regs
<1>2. CASE Wait_Loop
  BY <1>2 DEF Wait_Loop, regs
<1>3. CASE Wait_Return
  BY <1>3 DEF Wait_Return, regs
<1>4. CASE NotStarted
  BY <1>4 DEF NotStarted, regs
<1>5. CASE Erase_Start
  <2>1. running' = running \/ running'.kind # "program"
    BY <1>5 DEF Erase_Start, StartErase, EraseModes, EraseJob, Job
  <2>2. QED BY <1>5, <2>1 DEF Erase_Start, At, CleanInv
<1>6. CASE Erase_End
  BY <1>6 DEF Erase_End
<1>7. CASE Program_Start
  BY <1>7 DEF Program_Start
<1>8. CASE Program_Half
  BY <1>8 DEF Program_Half, At, PcOp, CleanInv
<1>9. CASE Program_End
  BY <1>9 DEF Program_End
<1>10. CASE ReadOut_Erase
  <2>1. running' = running \/ running'.kind # "program"
    BY <1>10 DEF ReadOut_Erase, StartErase, EraseModes, EraseJob, Job
  <2>2. QED BY <1>10, <2>1 DEF ReadOut_Erase, At, CleanInv
<1>11. CASE ReadOut_Write
  <2>1. running' = running \/ running'.kind = "option"
    BY <1>11 DEF ReadOut_Write, StartOption, Job
  <2>2. QED BY <1>11, <2>1 DEF ReadOut_Write, At, CleanInv
<1>12. CASE ReadOut_End
  BY <1>12 DEF ReadOut_End
<1>13. CASE ReadOut_EraseFailed
  BY <1>13 DEF ReadOut_EraseFailed
<1>14. CASE Option_Write
  <2>1. running' = running \/ running'.kind = "option"
    BY <1>14 DEF Option_Write, StartOption, Job
  <2>2. QED BY <1>14, <2>1 DEF Option_Write, At, CleanInv
<1>15. CASE Option_End
  BY <1>15 DEF Option_End
<1>16. CASE Protect_Start
  BY <1>16 DEF Protect_Start
<1>17. CASE Protect_Byte
  <2>1. running' = running \/ running'.kind = "option"
    BY <1>17 DEF Protect_Byte, StartOption, Job
  <2>2. QED BY <1>17, <2>1 DEF Protect_Byte, At, CleanInv
<1>18. CASE Protect_End
  BY <1>18 DEF Protect_End
<1>19. CASE FMC_Unlock
  BY <1>19 DEF FMC_Unlock
<1>20. CASE FMC_Lock
  BY <1>20 DEF FMC_Lock
<1>21. ASSUME NEW flag \in SUBSET Flags, FMC_ClearStatusFlag(flag) PROVE Clean
  BY <1>21 DEF FMC_ClearStatusFlag
<1>22. ASSUME NEW c \in Calls, Call(c) PROVE Clean
  BY <1>22 DEF Call
<1>23. CASE Hw_Done
  BY <1>23 DEF Hw_Done, NoJob
<1>24. CASE Hw_Error
  BY <1>24 DEF Hw_Error, NoJob
<1>25. CASE Reset
  BY <1>25 DEF Reset, Boot, NoJob
<1>26. QED
  BY <1>1, <1>2, <1>3, <1>4, <1>5, <1>6, <1>7, <1>8, <1>9, <1>10, <1>11, <1>12, <1>13,
     <1>14, <1>15, <1>16, <1>17, <1>18, <1>19, <1>20, <1>21, <1>22, <1>23, <1>24,
     <1>25 DEF Next, Driver, Caller, Controller

(* Every operation of the controller is started on an idle controller with *)
(* no error pending, and a half-word is programmed only with interrupts    *)
(* masked, for every order of calls, timeouts, failures and resets.        *)
THEOREM FmcStartsClean == Spec => StartsClean
<1>1. Init => CleanInv
  BY Zenon DEF Init, CleanInv
<1>2. QED
  BY <1>1, TypeInit, TypeStep, CleanStep, StartStep, PTL DEF Spec, StartsClean

-----------------------------------------------------------------------------
(* CompleteMeansDone and EraseSelectsOne.  The functions that erase option *)
(* bytes leave OBE set when the erase times out or fails, and the next     *)
(* erase of the main flash then finds two modes selected.  obeLeft says    *)
(* when; nothing else goes wrong, and nothing is assumed of the controller *)
(* or of the order of the calls.                                           *)
MainErases == {"ErasePage", "EraseAllPage"}

Err == sts \cap {"PE", "WPE"} # {}

(* Which registers a function can rely on at its labels. *)
ModeInv ==
    /\ "OBE" \in ctrl => pc = "erased" \/ obeLeft
    /\ pc = "erased" => "OBE" \in ctrl
    /\ pc \in {"erased", "bytes"} => OBWEN
    /\ pc = "bytes" => "OBP" \in ctrl
    /\ pc = "program" => "PG" \in ctrl
    /\ pc = "checked" /\ call.op = "ConfigUserOptionByte" => OBWEN
    /\ pc # "idle" => call \in Calls
    /\ pc # "idle" /\ call.op = "EraseOptionBytes" => rdtemp = IF READPROT THEN "00" ELSE "A5"
    /\ pc = "idle" => wait = "no"

EraseTarget == IF call.op = "ErasePage" THEN call.pages \X {0, 1} ELSE Cells
RdpGoal == [ErasedOption EXCEPT !.rdp = RdpValue]
Written == call.half \ left
Protected == { p \in call.pages : ByteOf[p] \notin left }

(* The operation a function waits for is its own, and is under way, has    *)
(* taken effect or has failed.  Not so for an erase of the main flash that *)
(* met OBE.                                                                *)
StartedInv ==
    pc = "started" =>
       \/ obeLeft
       \/ running.kind = "erase" /\ running.cells = EraseTarget
       \/ running.kind = "none" /\ (Err \/ flash \cap EraseTarget = {})

ProgramInv ==
    pc = "program" =>
       \/ running.kind = "program" /\ (Err \/ call.pages \X Written \subseteq flash \cup running.cells)
       \/ running.kind = "none" /\ (Err \/ call.pages \X Written \subseteq flash)

ErasedInv ==
    pc = "erased" =>
       \/ running.kind = "optionErase" /\ running.opt = ErasedOption
       \/ running.kind = "none" /\ (Err \/ option = ErasedOption)

WrittenInv ==
    pc = "written" =>
       \/ running.kind = "option" /\ running.opt = RdpGoal
       \/ running.kind = "none" /\ (Err \/ option = RdpGoal)

OptionedInv ==
    pc = "optioned" =>
       \/ running.kind = "option" /\ OptionByte \in running.opt.written
       \/ running.kind = "none" /\ (Err \/ OptionByte \in option.written)

BytesInv ==
    pc = "bytes" =>
       \/ running.kind = "option" /\ (Err \/ Protected \subseteq running.opt.wrp)
       \/ running.kind = "none" /\ (Err \/ Protected \subseteq option.wrp)

Excepted == obeLeft /\ call.op \in MainErases

IdleInv ==
    pc = "idle" /\ status = "COMPLETE" => running.kind = "none" /\ (Excepted \/ Done(call))

WorkInv == StartedInv /\ ProgramInv /\ ErasedInv /\ WrittenInv /\ OptionedInv /\ BytesInv /\ IdleInv

(* The registers and locals at each label. *)
LEMMA ModeStep ==
    ASSUME TypeInv, ModeInv, [Next]_vars
    PROVE  ModeInv'
<1>0. PcOp /\ OBWEN \in BOOLEAN /\ READPROT \in BOOLEAN
  BY DEF TypeInv, TypeOK, TypeRegs, TypeStored
<1>1. CASE Wait_Read
  BY <1>1, <1>0 DEF Wait_Read, stored, regs, counts, FMC_ReadStatus, ModeInv
<1>2. CASE Wait_Loop
  BY <1>2, <1>0 DEF Wait_Loop, stored, regs, counts, Spinning, FMC_ReadStatus, ModeInv
<1>3. CASE Wait_Return
  BY <1>3, <1>0 DEF Wait_Return, stored, regs, counts, Spinning, ModeInv
<1>4. CASE NotStarted
  BY <1>4, <1>0 DEF NotStarted, At, Return, stored, regs, locals, counts, ModeInv
<1>5. CASE Erase_Start
  BY <1>5, <1>0 DEF Erase_Start, At, WaitThen, stored, locals, counts, EraseMode, ModeInv
<1>6. CASE Erase_End
  BY <1>6, <1>0 DEF Erase_End, At, Return, stored, locals, counts, EraseMode, ModeInv
<1>7. CASE Program_Start
  BY <1>7, <1>0 DEF Program_Start, At, stored, counts, ModeInv
<1>8. CASE Program_Half
  BY <1>8, <1>0 DEF Program_Half, At, WaitThen, stored, counts, ModeInv
<1>9. CASE Program_End
  BY <1>9, <1>0 DEF Program_End, At, Return, stored, locals, counts, ModeInv
<1>10. CASE ReadOut_Erase
  <2>1. call.op \in Ops /\ call \in Calls
    BY <1>10 DEF ReadOut_Erase, At, ModeInv, Calls
  <2>2. QED BY <1>10, <2>1, <1>0 DEF ReadOut_Erase, At, WaitThen, stored, locals,
               ModeInv
<1>11. CASE ReadOut_Write
  BY <1>11, <1>0 DEF ReadOut_Write, At, WaitThen, stored, locals, counts, ModeInv
<1>12. CASE ReadOut_End
  BY <1>12, <1>0 DEF ReadOut_End, At, Return, stored, locals, counts, ModeInv
<1>13. CASE ReadOut_EraseFailed
  <2>1. /\ "OBE" \in ctrl' => obeLeft'
        /\ ctrl' \subseteq ctrl /\ pc' = "idle" /\ wait' = "no" /\ UNCHANGED <<stored, call, rdtemp>>
    BY <1>13 DEF ReadOut_EraseFailed, At, Return, locals
  <2>2. QED BY <2>1 DEF ModeInv
<1>14. CASE Option_Write
  BY <1>14, <1>0 DEF Option_Write, At, WaitThen, stored, locals, counts, ModeInv
<1>15. CASE Option_End
  BY <1>15, <1>0 DEF Option_End, At, Return, stored, locals, counts, ModeInv
<1>16. CASE Protect_Start
  BY <1>16, <1>0 DEF Protect_Start, At, stored, counts, ModeInv
<1>17. CASE Protect_Byte
  BY <1>17, <1>0 DEF Protect_Byte, At, WaitThen, stored, counts, ModeInv
<1>18. CASE Protect_End
  BY <1>18, <1>0 DEF Protect_End, At, Return, stored, locals, counts, ModeInv
<1>19. CASE FMC_Unlock
  BY <1>19, <1>0 DEF FMC_Unlock, stored, locals, counts, ModeInv
<1>20. CASE FMC_Lock
  BY <1>20, <1>0 DEF FMC_Lock, stored, locals, counts, ModeInv
<1>21. ASSUME NEW flag \in SUBSET Flags, FMC_ClearStatusFlag(flag) PROVE ModeInv'
  BY <1>21, <1>0 DEF FMC_ClearStatusFlag, stored, locals, counts, ModeInv
<1>22. ASSUME NEW c \in Calls, Call(c) PROVE ModeInv'
  <2>1. /\ OBWEN' = (OBWEN \/ c.op = "ConfigUserOptionByte") /\ call' = c /\ pc' = "checked"
        /\ READPROT' = READPROT /\ ctrl' = ctrl /\ pc = "idle" /\ obeLeft' = obeLeft
    BY <1>22 DEF Call, WaitThen, stored
  <2>2. c.op = "EraseOptionBytes" => rdtemp' = IF READPROT THEN "00" ELSE "A5"
    BY <1>22, <1>0 DEF Call, FMC_GetReadProtectionStatus
  <2>3. QED BY <2>1, <2>2, <1>0 DEF ModeInv
<1>23. CASE Hw_Done
  BY <1>23, <1>0 DEF Hw_Done, locals, counts, Effect, NoJob, ModeInv
<1>24. CASE Hw_Error
  BY <1>24, <1>0 DEF Hw_Error, stored, locals, counts, NoJob, ModeInv
<1>25. CASE Reset
  BY <1>25, <1>0 DEF Reset, Boot, NoJob, NoCall, ModeInv
<1>26. CASE UNCHANGED vars
  BY <1>26, <1>0 DEF vars, stored, regs, locals, counts, ModeInv
<1>27. QED
  BY <1>1, <1>2, <1>3, <1>4, <1>5, <1>6, <1>7, <1>8, <1>9, <1>10, <1>11, <1>12, <1>13, <1>14,
     <1>15, <1>16, <1>17, <1>18, <1>19, <1>20, <1>21, <1>22, <1>23, <1>24, <1>25, <1>26 DEF
     Next, Driver, Caller, Controller

(* An erase of the option bytes selects no other mode. *)
LEMMA EraseObe ==
    ASSUME MainInv, ReadOut_Erase
    PROVE  running' = Job("optionErase", {}, ErasedOption, TRUE)
<1>1. ctrl' \cap EraseModes = {"OBE"} /\ OBWEN'
  BY DEF ReadOut_Erase, At, MainInv, EraseModes
<1>2. QED BY <1>1 DEF ReadOut_Erase, StartErase, EraseJob

(* Nor does an erase of the main flash, where OBE was not left. *)
LEMMA EraseMain ==
    ASSUME ~obeLeft, MainInv, ModeInv, Erase_Start
    PROVE  running'.kind = "erase" /\ running'.cells = EraseTarget
<1>1. call.op \in MainErases /\ pc = "checked"
  BY DEF Erase_Start, At, MainErases
<1>2. "OBE" \notin ctrl /\ "PAGEERA" \notin ctrl /\ "MASSERA" \notin ctrl
  BY <1>1 DEF ModeInv, MainInv
<1>3. ctrl' \cap EraseModes = {EraseMode} /\ EraseMode \in {"PAGEERA", "MASSERA"}
  BY <1>2 DEF Erase_Start, EraseMode, EraseModes
<1>4. running' = EraseJob(EraseMode)
  BY <1>3 DEF Erase_Start, StartErase
<1>5. QED BY <1>1, <1>4 DEF EraseJob, EraseMode, EraseTarget, Job, MainErases

(* What a call promises depends on the memory and the call alone. *)
LEMMA DoneSame ==
    ASSUME UNCHANGED <<flash, option, READPROT, call>>
    PROVE  Done(call)' <=> Done(call)
BY DEF Done

(* A programming call names one page. *)
LEMMA OnePage ==
    ASSUME NEW c \in Calls, c.op \in ProgramOps PROVE \E p \in Pages : c.pages = {p}
<1>1. Cardinality(c.pages) = 1 /\ c.pages \in SUBSET Pages
  BY DEF Calls, ProgramOps
<1>2. IsFiniteSet(c.pages)
  BY <1>1, FmcAssumption, FS_Subset
<1>3. QED BY <1>1, <1>2, FS_Singleton

(* The operation awaited is the function's own. *)
LEMMA WorkStep ==
    ASSUME TypeInv, MainInv, CleanInv, ModeInv, WorkInv, [Next]_vars
    PROVE  WorkInv'
<1>0. PcOp /\ OBWEN \in BOOLEAN
  BY DEF TypeInv, TypeOK, TypeRegs
<1>1. CASE Wait_Read
  <2>1. pc # "idle" /\ pc' = pc
    BY <1>1 DEF Wait_Read, ModeInv
  <2>2. QED BY <1>1, <2>1 DEF Wait_Read, stored, regs, counts, WorkInv, StartedInv, ProgramInv,
               ErasedInv, WrittenInv, OptionedInv, BytesInv, IdleInv, EraseTarget,
               RdpGoal, RdpValue, OptionByte, Written, Protected, Err
<1>2. CASE Wait_Loop
  <2>1. pc # "idle" /\ pc' = pc
    BY <1>2 DEF Wait_Loop, ModeInv
  <2>2. QED BY <1>2, <2>1 DEF Wait_Loop, stored, regs, counts, WorkInv, StartedInv, ProgramInv,
               ErasedInv, WrittenInv, OptionedInv, BytesInv, IdleInv, EraseTarget,
               RdpGoal, RdpValue, OptionByte, Written, Protected, Err
<1>3. CASE Wait_Return
  <2>1. pc # "idle" /\ pc' = pc
    BY <1>3 DEF Wait_Return, ModeInv
  <2>2. QED BY <1>3, <2>1 DEF Wait_Return, stored, regs, counts, WorkInv, StartedInv, ProgramInv,
               ErasedInv, WrittenInv, OptionedInv, BytesInv, IdleInv, EraseTarget,
               RdpGoal, RdpValue, OptionByte, Written, Protected, Err
<1>4. CASE NotStarted
  BY <1>4 DEF NotStarted, At, Return, locals, WorkInv, StartedInv, ProgramInv, ErasedInv,
     WrittenInv, OptionedInv, BytesInv, IdleInv
<1>5. CASE Erase_Start
  <2>1. ~obeLeft => running'.kind = "erase" /\ running'.cells = EraseTarget
    BY <1>5, EraseMain
  <2>2. StartedInv'
    BY <1>5, <2>1 DEF Erase_Start, counts, StartedInv, EraseTarget
  <2>3. QED BY <1>5, <2>2 DEF Erase_Start, WaitThen, WorkInv, ProgramInv, ErasedInv,
               WrittenInv, OptionedInv, BytesInv, IdleInv
<1>6. CASE Erase_End
  <2>1. status = "COMPLETE" => running.kind = "none" /\ ~Err
    BY <1>6 DEF Erase_End, At, CleanInv, Err
  <2>2. status = "COMPLETE" => obeLeft \/ flash \cap EraseTarget = {}
    BY <1>6, <2>1 DEF Erase_End, At, WorkInv, StartedInv
  <2>3. call.op = "ErasePage" \/ call.op = "EraseAllPage"
    BY <1>6 DEF Erase_End
  <2>4. flash \subseteq Cells
    BY DEF TypeInv, TypeOK, TypeStored
  <2>5. status = "COMPLETE" => obeLeft \/ Done(call)
    <3>1. CASE call.op = "ErasePage"
      BY <2>2, <3>1 DEF EraseTarget, Done, ProgramOps, OptionOps
    <3>2. CASE call.op = "EraseAllPage"
      <4>1. EraseTarget = Cells
        BY <3>2 DEF EraseTarget
      <4>2. status = "COMPLETE" => obeLeft \/ flash = {}
        BY <4>1, <2>2, <2>4
      <4>3. QED BY <3>2, <4>2 DEF Done, ProgramOps, OptionOps
    <3>3. QED BY <2>3, <3>1, <3>2
  <2>6. IdleInv'
    BY <1>6, <2>1, <2>3, <2>5, DoneSame DEF Erase_End, locals, stored, counts, IdleInv,
       Excepted, MainErases
  <2>7. QED BY <1>6, <2>6 DEF Erase_End, Return, WorkInv, StartedInv, ProgramInv,
               ErasedInv, WrittenInv, OptionedInv, BytesInv
<1>7. CASE Program_Start
  <2>0. ~Err /\ running.kind = "none"
    BY <1>7 DEF Program_Start, At, CleanInv, Err
  <2>1. ProgramInv'
    BY <1>7, <2>0 DEF Program_Start, ProgramInv, Written
  <2>2. QED BY <1>7, <2>1 DEF Program_Start, WorkInv, StartedInv, ErasedInv, WrittenInv,
               OptionedInv, BytesInv, IdleInv
<1>8. CASE Program_Half
  <2>0. ~Err /\ running.kind = "none"
    BY <1>8 DEF Program_Half, At, CleanInv, Err
  <2>1. PICK p \in Pages : call.pages = {p}
    BY <1>8, <1>0, OnePage DEF Program_Half, At, PcOp, ModeInv
  <2>2. running' = Job("program", {<<p, Min(left)>>}, ErasedOption, <<p, Min(left)>> \notin flash)
    BY <1>8, <2>1 DEF Program_Half, At, StartProgram, ModeInv
  <2>3. call.pages \X Written \subseteq flash
    BY <1>8, <2>0 DEF Program_Half, At, WorkInv, ProgramInv
  <2>4. running'.kind = "program" /\ running'.cells = {<<p, Min(left)>>}
    BY <2>2 DEF Job
  <2>5. Written' \subseteq Written \cup {Min(left)}
    BY <1>8 DEF Program_Half, Written
  <2>6. call'.pages \X Written' \subseteq flash' \cup running'.cells
    BY <1>8, <2>1, <2>3, <2>4, <2>5 DEF Program_Half, stored
  <2>7. ProgramInv'
    BY <2>4, <2>6 DEF ProgramInv
  <2>8. QED BY <1>8, <2>7 DEF Program_Half, WaitThen, WorkInv, StartedInv, ErasedInv,
               WrittenInv, OptionedInv, BytesInv, IdleInv
<1>9. CASE Program_End
  <2>0. call.half \subseteq {0, 1}
    BY CallOK DEF TypeInv, TypeOK
  <2>1. status = "COMPLETE" => running.kind = "none" /\ ~Err
    BY <1>9 DEF Program_End, At, CleanInv, Err
  <2>2. status = "COMPLETE" => Done(call)
    BY <2>0, <1>9, <2>1, <1>0 DEF Program_End, At, PcOp, WorkInv, ProgramInv, Written,
       ProgramOver, Done, ProgramOps, ReadOutOps, OptionOps
  <2>3. IdleInv'
    BY <1>9, <2>1, <2>2, DoneSame DEF Program_End, locals, stored, IdleInv
  <2>4. QED BY <1>9, <2>3 DEF Program_End, Return, WorkInv, StartedInv, ProgramInv,
               ErasedInv, WrittenInv, OptionedInv, BytesInv
<1>10. CASE ReadOut_Erase
  <2>1. running' = Job("optionErase", {}, ErasedOption, TRUE)
    BY <1>10, EraseObe
  <2>2. ErasedInv'
    BY <1>10, <2>1 DEF Job, ErasedInv
  <2>3. QED BY <1>10, <2>2 DEF ReadOut_Erase, WaitThen, WorkInv, StartedInv, ProgramInv,
               WrittenInv, OptionedInv, BytesInv, IdleInv
<1>11. CASE ReadOut_Write
  <2>0. ~Err /\ running.kind = "none"
    BY <1>11 DEF ReadOut_Write, At, CleanInv, Err
  <2>1. option = ErasedOption
    BY <1>11, <2>0 DEF ReadOut_Write, At, WorkInv, ErasedInv
  <2>2. running' = Job("option", {}, RdpGoal, TRUE)
    BY <1>11, <2>1 DEF ReadOut_Write, At, StartOption, ModeInv, RdpGoal, ErasedOption
  <2>3. RdpGoal' = RdpGoal
    BY <1>11 DEF ReadOut_Write, locals, RdpGoal, RdpValue
  <2>4. WrittenInv'
    BY <2>2, <2>3 DEF Job, WrittenInv
  <2>5. QED BY <1>11, <2>4 DEF ReadOut_Write, WaitThen, WorkInv, StartedInv, ProgramInv,
               ErasedInv, OptionedInv, BytesInv, IdleInv
<1>12. CASE ReadOut_End
  <2>1. status = "COMPLETE" => running.kind = "none" /\ ~Err
    BY <1>12 DEF ReadOut_End, At, CleanInv, Err
  <2>2. status = "COMPLETE" => Done(call)
    BY <1>12, <2>1, <1>0 DEF ReadOut_End, At, PcOp, WorkInv, WrittenInv, RdpGoal,
       RdpValue, ErasedOption, ModeInv, Done, ProgramOps, ReadOutOps, OptionOps
  <2>3. IdleInv'
    BY <1>12, <2>1, <2>2, DoneSame DEF ReadOut_End, locals, stored, IdleInv
  <2>4. QED BY <1>12, <2>3 DEF ReadOut_End, Return, WorkInv, StartedInv, ProgramInv,
               ErasedInv, WrittenInv, OptionedInv, BytesInv
<1>13. CASE ReadOut_EraseFailed
  BY <1>13 DEF ReadOut_EraseFailed, At, Return, locals, WorkInv, StartedInv, ProgramInv,
     ErasedInv, WrittenInv, OptionedInv, BytesInv, IdleInv
<1>14. CASE Option_Write
  <2>1. OBWEN' /\ "OBP" \in ctrl'
    BY <1>14, <1>0 DEF Option_Write, At, OptionOps, ModeInv
  <2>2. running'.kind = "option" /\ running'.opt = [option EXCEPT !.written = @ \cup {OptionByte}]
    BY <1>14, <2>1 DEF Option_Write, StartOption, Job
  <2>3. OptionByte' \in running'.opt.written
    BY <1>14, <2>2 DEF Option_Write, OptionByte, TypeInv, TypeOK, TypeStored, OptionBytes
  <2>4. OptionedInv'
    BY <2>2, <2>3 DEF OptionedInv
  <2>5. QED BY <1>14, <2>4 DEF Option_Write, WaitThen, WorkInv, StartedInv, ProgramInv,
               ErasedInv, WrittenInv, BytesInv, IdleInv
<1>15. CASE Option_End
  <2>1. status = "COMPLETE" => running.kind = "none" /\ ~Err
    BY <1>15 DEF Option_End, At, CleanInv, Err
  <2>2. status = "COMPLETE" => Done(call)
    BY <1>15, <2>1, <1>0 DEF Option_End, At, PcOp, WorkInv, OptionedInv, OptionByte,
       Done, ProgramOps, ReadOutOps, OptionOps
  <2>3. IdleInv'
    BY <1>15, <2>1, <2>2, DoneSame DEF Option_End, locals, stored, IdleInv
  <2>4. QED BY <1>15, <2>3 DEF Option_End, Return, WorkInv, StartedInv, ProgramInv,
               ErasedInv, WrittenInv, OptionedInv, BytesInv
<1>16. CASE Protect_Start
  <2>1. running.kind = "none"
    BY <1>16 DEF Protect_Start, At, CleanInv
  <2>2. Protected' = {}
    BY <1>16 DEF Protect_Start, Protected
  <2>3. BytesInv'
    BY <1>16, <2>1, <2>2 DEF Protect_Start, BytesInv
  <2>4. QED BY <1>16, <2>3 DEF Protect_Start, WorkInv, StartedInv, ProgramInv, ErasedInv,
               WrittenInv, OptionedInv, IdleInv
<1>17. CASE Protect_Byte
  <2>0. ~Err /\ running.kind = "none"
    BY <1>17 DEF Protect_Byte, At, CleanInv, Err
  <2>1. running'.kind = "option" /\ running'.opt = [option EXCEPT !.wrp = @ \cup InByte(call.pages, Min(left))]
    BY <1>17 DEF Protect_Byte, At, StartOption, Job, ModeInv
  <2>2. Protected \subseteq option.wrp
    BY <1>17, <2>0 DEF Protect_Byte, At, WorkInv, BytesInv
  <2>3. Protected' \subseteq Protected \cup InByte(call.pages, Min(left))
    BY <1>17 DEF Protect_Byte, Protected, InByte
  <2>4. running'.opt.wrp = option.wrp \cup InByte(call.pages, Min(left))
    BY <2>1 DEF TypeInv, TypeOK, TypeStored, OptionBytes
  <2>5. BytesInv'
    BY <2>1, <2>2, <2>3, <2>4 DEF BytesInv
  <2>6. QED BY <1>17, <2>5 DEF Protect_Byte, WaitThen, WorkInv, StartedInv, ProgramInv,
               ErasedInv, WrittenInv, OptionedInv, IdleInv
<1>18. CASE Protect_End
  <2>1. status = "COMPLETE" => running.kind = "none" /\ ~Err
    BY <1>18 DEF Protect_End, At, CleanInv, Err
  <2>2. status = "COMPLETE" => Done(call)
    BY <1>18, <2>1, <1>0 DEF Protect_End, At, PcOp, WorkInv, BytesInv, Protected, Done,
       ProgramOps, ReadOutOps, OptionOps
  <2>3. IdleInv'
    BY <1>18, <2>1, <2>2, DoneSame DEF Protect_End, locals, stored, IdleInv
  <2>4. QED BY <1>18, <2>3 DEF Protect_End, Return, WorkInv, StartedInv, ProgramInv,
               ErasedInv, WrittenInv, OptionedInv, BytesInv
<1>19. CASE FMC_Unlock
  <2>1. IdleInv'
    BY <1>19, DoneSame DEF FMC_Unlock, locals, stored, counts, WorkInv, IdleInv,
       Excepted
  <2>2. QED BY <1>19, <2>1 DEF FMC_Unlock, WorkInv, StartedInv, ProgramInv, ErasedInv,
               WrittenInv, OptionedInv, BytesInv
<1>20. CASE FMC_Lock
  <2>1. IdleInv'
    BY <1>20, DoneSame DEF FMC_Lock, locals, stored, counts, WorkInv, IdleInv,
       Excepted
  <2>2. QED BY <1>20, <2>1 DEF FMC_Lock, WorkInv, StartedInv, ProgramInv, ErasedInv,
               WrittenInv, OptionedInv, BytesInv
<1>21. ASSUME NEW flag \in SUBSET Flags, FMC_ClearStatusFlag(flag) PROVE WorkInv'
  <2>1. IdleInv'
    BY <1>21, DoneSame DEF FMC_ClearStatusFlag, locals, stored, counts, WorkInv, IdleInv,
       Excepted
  <2>2. QED BY <1>21, <2>1 DEF FMC_ClearStatusFlag, WorkInv, StartedInv, ProgramInv,
               ErasedInv, WrittenInv, OptionedInv, BytesInv
<1>22. ASSUME NEW c \in Calls, Call(c) PROVE WorkInv'
  BY <1>22 DEF Call, WaitThen, WorkInv, StartedInv, ProgramInv, ErasedInv, WrittenInv,
     OptionedInv, BytesInv, IdleInv
<1>23. CASE Hw_Done
  <2>1. /\ running'.kind = "none" /\ pc' = pc /\ call' = call /\ left' = left /\ status' = status
        /\ rdtemp' = rdtemp /\ (Err' <=> Err)
    BY <1>23 DEF Hw_Done, NoJob, locals, Err
  <2>2. StartedInv' /\ ProgramInv'
    BY <1>23, <2>1 DEF Hw_Done, Effect, counts, WorkInv, StartedInv, ProgramInv, EraseTarget,
       Written
  <2>3. ErasedInv' /\ WrittenInv'
    BY <1>23, <2>1 DEF Hw_Done, Effect, WorkInv, ErasedInv, WrittenInv, RdpGoal, RdpValue
  <2>4. OptionedInv' /\ BytesInv'
    BY <1>23, <2>1 DEF Hw_Done, Effect, WorkInv, OptionedInv, BytesInv, OptionByte, Protected
  <2>5. IdleInv'
    BY <1>23, <2>1 DEF Hw_Done, WorkInv, IdleInv
  <2>6. QED BY <2>2, <2>3, <2>4, <2>5 DEF WorkInv
<1>24. CASE Hw_Error
  <2>1. running'.kind = "none" /\ Err' /\ pc' = pc /\ status' = status
    BY <1>24 DEF Hw_Error, NoJob, locals, Err
  <2>2. IdleInv'
    BY <1>24, <2>1 DEF Hw_Error, WorkInv, IdleInv
  <2>3. QED BY <2>1, <2>2 DEF WorkInv, StartedInv, ProgramInv, ErasedInv, WrittenInv,
               OptionedInv, BytesInv
<1>25. CASE Reset
  <2>1. pc' = "idle" /\ running' = NoJob /\ call' = NoCall
    BY <1>25 DEF Reset, Boot
  <2>2. Done(call)'
    BY <2>1 DEF Done, NoCall, ProgramOps, OptionOps
  <2>3. QED BY <2>1, <2>2 DEF NoJob, WorkInv, StartedInv, ProgramInv, ErasedInv,
               WrittenInv, OptionedInv, BytesInv, IdleInv
<1>26. CASE UNCHANGED vars
  BY <1>26 DEF vars, stored, regs, locals, counts, WorkInv, StartedInv, ProgramInv, ErasedInv,
     WrittenInv, OptionedInv, BytesInv, IdleInv, EraseTarget, RdpGoal, RdpValue, OptionByte,
     Written, Protected, Err, Done, Excepted
<1>27. QED
  BY <1>1, <1>2, <1>3, <1>4, <1>5, <1>6, <1>7, <1>8, <1>9, <1>10, <1>11, <1>12, <1>13, <1>14,
     <1>15, <1>16, <1>17, <1>18, <1>19, <1>20, <1>21, <1>22, <1>23, <1>24, <1>25, <1>26 DEF
     Next, Driver, Caller, Controller

-----------------------------------------------------------------------------
(* The initial states. *)
LEMMA DoneInit == Init => MainInv /\ CleanInv /\ ModeInv /\ WorkInv
<1> SUFFICES ASSUME Init PROVE MainInv /\ CleanInv /\ ModeInv /\ WorkInv
  OBVIOUS
<1>1. /\ ctrl = {} /\ sts = {} /\ running = NoJob /\ pc = "idle" /\ wait = "no" /\ call = NoCall
      /\ OBWEN = FALSE
  BY Zenon DEF Init
<1>2. Done(call)
  BY <1>1 DEF Done, NoCall, ProgramOps, OptionOps
<1>3. MainInv /\ CleanInv /\ ModeInv
  BY <1>1 DEF MainInv, CleanInv, ModeInv
<1>4. WorkInv
  BY <1>1, <1>2 DEF NoJob, WorkInv, StartedInv, ProgramInv, ErasedInv, WrittenInv,
     OptionedInv, BytesInv, IdleInv
<1>5. QED BY <1>3, <1>4

(* The inductive invariant of the two theorems. *)
DoneInv == TypeInv /\ MainInv /\ CleanInv /\ ModeInv /\ WorkInv

(* It holds initially, and a step of any actor keeps it. *)
LEMMA DoneAlways == Spec => []DoneInv
<1>1. Init => DoneInv
  BY TypeInit, DoneInit DEF DoneInv
<1>2. DoneInv /\ [Next]_vars => DoneInv'
  BY TypeStep, MainStep, CleanStep, ModeStep, WorkStep DEF DoneInv
<1>3. QED BY <1>1, <1>2, PTL DEF Spec

(* FMC_STATUS_COMPLETE is a lie in one case only: for every set of pages,  *)
(* timeout, order of calls, failure, late end and reset, a function of the *)
(* driver that returns it has done its work, unless it erases the main     *)
(* flash and the last erase of the option bytes left OBE set.              *)
THEOREM FmcCompleteMeansDone == Spec => []CompleteMeansDone
<1>1. DoneInv => CompleteMeansDone
  BY DEF DoneInv, WorkInv, IdleInv, Excepted, MainErases, CompleteMeansDone
<1>2. QED BY <1>1, DoneAlways, PTL

(* Which mode bits of two erases can be set together. *)
LEMMA EraseAlone ==
    ASSUME MainInv, ModeInv
    PROVE  /\ "PAGEERA" \in ctrl => "MASSERA" \notin ctrl
           /\ "OBE" \in ctrl /\ ~obeLeft => "PAGEERA" \notin ctrl /\ "MASSERA" \notin ctrl
           /\ pc = "erased" => "OBE" \in ctrl /\ "PAGEERA" \notin ctrl /\ "MASSERA" \notin ctrl
BY DEF MainInv, ModeInv

(* In every order of calls, after failures, timeouts and resets, STA finds *)
(* one erase mode, but for OBE left set by an erase of the option bytes    *)
(* that timed out, or by a failed one of FMC_EraseOptionBytes; page and    *)
(* mass erase are never both selected, and the option bytes are erased     *)
(* with OBE alone.                                                         *)
THEOREM FmcEraseSelectsOne == Spec => []EraseSelectsOne
<1>1. DoneInv => EraseSelectsOne
  <2> SUFFICES ASSUME DoneInv PROVE EraseSelectsOne
    OBVIOUS
  <2>0. /\ "PAGEERA" \in ctrl => "MASSERA" \notin ctrl
        /\ "OBE" \in ctrl /\ ~obeLeft => "PAGEERA" \notin ctrl /\ "MASSERA" \notin ctrl
        /\ pc = "erased" => "OBE" \in ctrl /\ "PAGEERA" \notin ctrl /\ "MASSERA" \notin ctrl
    BY EraseAlone DEF DoneInv
  <2>1. ~obeLeft => Cardinality(ctrl \cap EraseModes) <= 1
    <3> SUFFICES ASSUME ~obeLeft PROVE Cardinality(ctrl \cap EraseModes) <= 1
      OBVIOUS
    <3>1. PICK x \in EraseModes : ctrl \cap EraseModes \subseteq {x}
      BY <2>0 DEF EraseModes
    <3>2. IsFiniteSet({x}) /\ Cardinality({x}) = 1
      BY FS_Singleton
    <3>3. Cardinality(ctrl \cap EraseModes) <= Cardinality({x})
      BY <3>1, <3>2, FS_Subset
    <3>4. QED BY <3>2, <3>3
  <2>2. ~({"PAGEERA", "MASSERA"} \subseteq ctrl)
    BY <2>0
  <2>3. pc = "erased" => ctrl \cap EraseModes = {"OBE"}
    BY <2>0 DEF EraseModes
  <2>4. QED BY <2>1, <2>2, <2>3 DEF EraseSelectsOne
<1>2. QED BY <1>1, DoneAlways, PTL
=============================================================================

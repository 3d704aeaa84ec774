-------------------------------- MODULE Fmc --------------------------------
(***************************************************************************)
(* The flash driver (apm32f10x_fmc.c) and the controller it drives.  A     *)
(* caller erases, programs and protects the flash in any order, the        *)
(* controller takes any time or finishes too late, operations fail, and    *)
(* the device may be reset at any point.                                   *)
(*                                                                         *)
(* Every driver function has the shape                                     *)
(*     wait; if complete { set a mode bit; start; wait; clear the bit }    *)
(* so a call is a sequence of steps between two waits: pc names the step   *)
(* that follows the wait under way, and wait says where the wait is.       *)
(* Mode, address and start bits are written in one step: the controller    *)
(* reacts only to the last write.                                          *)
(*                                                                         *)
(* A half-word of the main flash is <<page, half>>; flash is the set of    *)
(* those that hold data.  The option bytes are the read protection byte,   *)
(* USER and DATA, which are written or erased, and the pages whose write   *)
(* protection bit is programmed.                                           *)
(***************************************************************************)
EXTENDS Integers, FiniteSets, FiniteSetsExt

CONSTANTS
    Pages,      \* pages of the main flash
    ByteOf,     \* the WRP byte (0..3) that holds the protection bit of a page
    Limit,      \* the timeOut argument, 0x000B0000 in the code
    Ops,        \* the driver functions the caller uses
    MaxCalls,   \* bound: calls of the caller
    MaxResets   \* bound: resets

AllOps == {"ErasePage", "EraseAllPage", "EraseOptionBytes", "ProgramWord",
           "ProgramHalfWord", "ProgramOptionByteData", "EnableWriteProtection",
           "EnableReadOutProtection", "DisableReadOutProtection", "ConfigUserOptionByte"}

ASSUME FmcAssumption ==
    /\ IsFiniteSet(Pages) /\ ByteOf \in [Pages -> 0..3]
    /\ Limit \in Nat \ {0} /\ Ops \subseteq AllOps
    /\ MaxCalls \in Nat /\ MaxResets \in Nat

Cells        == Pages \X {0, 1}
EraseModes   == {"PAGEERA", "MASSERA", "OBE"}
MainModes    == {"PG", "PAGEERA", "MASSERA"}
Modes        == MainModes \cup {"OBP", "OBE"}
Flags        == {"OC", "PE", "WPE"}
Statuses     == {"BUSY", "ERROR_PG", "ERROR_WRP", "COMPLETE", "TIMEOUT"}
ProgramOps   == {"ProgramWord", "ProgramHalfWord"}
ReadOutOps   == {"EraseOptionBytes", "EnableReadOutProtection", "DisableReadOutProtection"}
OptionOps    == {"ProgramOptionByteData", "ConfigUserOptionByte"}

(* Option bytes: 0xFF is erased.  The main flash is readable only when the *)
(* read protection byte is 0xA5.                                           *)
OptionBytes  == [rdp : {"FF", "A5", "00"}, written : SUBSET {"USER", "DATA"}, wrp : SUBSET Pages]
ErasedOption == [rdp |-> "FF", written |-> {}, wrp |-> {}]

VARIABLES
    flash, option,       \* what is stored
    READPROT, WRTPROT,   \* the copies of the protection bytes, loaded at reset
    LOCK, OBWEN, ctrl,   \* CTRL2: the locks and the mode bits that are set
    sts,                 \* STS: the flags that are set
    running,             \* the operation under way (BUSYF)
    call, pc, wait,      \* the call under way, or the last one, and where it is
    status, timeOut,     \* locals of the functions
    rdtemp, left,        \* EraseOptionBytes' rdtemp; parts still to be written
    PRIMASK,             \* interrupts are masked
    asked,               \* DisableReadOutProtection has been called
    obeLeft,             \* since the reset, the last erase of the option bytes timed
                         \* out, or was that of EraseOptionBytes and failed
    calls, resets        \* what the bounds count

stored == <<flash, option, READPROT, WRTPROT>>
regs   == <<LOCK, OBWEN, ctrl, sts, running>>
locals == <<status, timeOut, rdtemp, left>>
counts == <<asked, obeLeft, calls, resets>>
vars   == <<stored, regs, call, pc, wait, locals, PRIMASK, counts>>

NoJob  == [kind |-> "none", cells |-> {}, opt |-> ErasedOption, clean |-> TRUE]
Jobs   == [kind : {"none", "erase", "program", "option", "optionErase"},
           cells : SUBSET Cells, opt : OptionBytes, clean : BOOLEAN]
NoCall == [op |-> "none", pages |-> {}, half |-> {}]

(* The calls: a page to erase, the half-words to program, the pages to    *)
(* protect.                                                                *)
Calls  ==
    { c \in [op : Ops, pages : SUBSET Pages, half : SUBSET {0, 1}] :
        /\ c.op = "ErasePage" => Cardinality(c.pages) = 1 /\ c.half = {}
        /\ c.op = "ProgramWord" => Cardinality(c.pages) = 1 /\ c.half = {0, 1}
        /\ c.op = "ProgramHalfWord" => Cardinality(c.pages) = 1 /\ Cardinality(c.half) = 1
        /\ c.op = "EnableWriteProtection" => c.half = {}
        /\ c.op \notin ProgramOps \cup {"ErasePage", "EnableWriteProtection"}
              => c.pages = {} /\ c.half = {} }

-----------------------------------------------------------------------------
(* The controller.                                                         *)

Job(kind, cells, opt, clean) == [kind |-> kind, cells |-> cells, opt |-> opt, clean |-> clean]

EraseJob(mode) ==
    CASE mode = "PAGEERA" -> Job("erase", call.pages \X {0, 1}, ErasedOption, TRUE)
      [] mode = "MASSERA" -> Job("erase", Cells, ErasedOption, TRUE)
      [] mode = "OBE"     -> Job("optionErase", {}, ErasedOption, TRUE)

(* STA with several erase modes set: nothing says which one is carried out. *)
StartErase ==
    \E mode \in ctrl' \cap EraseModes :
        running' = IF mode = "OBE" /\ ~OBWEN' THEN running ELSE EraseJob(mode)

(* A half-word written to the main flash, or to an option byte. *)
StartProgram(cell) ==
    running' = IF "PG" \in ctrl' THEN Job("program", {cell}, ErasedOption, cell \notin flash) ELSE running

StartOption(opt, clean) ==
    running' = IF "OBP" \in ctrl' /\ OBWEN' THEN Job("option", {}, opt, clean) ELSE running

PagesOf(cells) == { c[1] : c \in cells }
Blocked == PagesOf(running.cells) \cap WRTPROT # {}

Effect ==
    /\ flash' = CASE running.kind = "erase"   -> flash \ running.cells
                  [] running.kind = "program" -> flash \cup running.cells
                  [] OTHER                    -> flash
    /\ option' = IF running.kind \in {"option", "optionErase"} THEN running.opt ELSE option

Hw_Done ==
    /\ running.kind # "none" /\ running.clean /\ ~Blocked
    /\ Effect
    /\ running' = NoJob /\ sts' = sts \cup {"OC"}
    /\ UNCHANGED <<READPROT, WRTPROT, LOCK, OBWEN, ctrl, call, pc, wait, locals, PRIMASK, counts>>

Hw_Error ==
    /\ running.kind # "none"
    /\ \/ ~running.clean /\ sts' = sts \cup {"PE"}
       \/ Blocked /\ sts' = sts \cup {"WPE"}
       \/ running.kind = "optionErase" /\ sts' = sts \cup {"PE"}
    /\ running' = NoJob
    /\ UNCHANGED <<stored, LOCK, OBWEN, ctrl, call, pc, wait, locals, PRIMASK, counts>>

(* The registers after a reset, with the protection bytes loaded. *)
Boot(opt) ==
    /\ READPROT' = (opt.rdp # "A5") /\ WRTPROT' = opt.wrp
    /\ LOCK' = TRUE /\ OBWEN' = FALSE /\ ctrl' = {} /\ sts' = {} /\ running' = NoJob
    /\ call' = NoCall /\ pc' = "idle" /\ wait' = "no"
    /\ status' = "COMPLETE" /\ timeOut' = Limit /\ rdtemp' = "A5" /\ left' = {} /\ PRIMASK' = FALSE

(* Power fails or the device is reset; the operation under way has or has *)
(* not taken effect.                                                       *)
Reset ==
    /\ resets < MaxResets /\ resets' = resets + 1
    /\ \/ Effect
       \/ UNCHANGED <<flash, option>>
    /\ Boot(option') /\ obeLeft' = FALSE
    /\ UNCHANGED <<asked, calls>>

-----------------------------------------------------------------------------
(* FMC_ReadStatus and FMC_WaitForLastOperation.                            *)

FMC_ReadStatus ==
    CASE running.kind # "none" -> "BUSY"
      [] running.kind = "none" /\ "PE" \in sts -> "ERROR_PG"
      [] running.kind = "none" /\ "PE" \notin sts /\ "WPE" \in sts -> "ERROR_WRP"
      [] OTHER -> "COMPLETE"

Wait_Read ==
    /\ wait = "read"
    /\ status' = FMC_ReadStatus /\ timeOut' = Limit /\ wait' = "loop"
    /\ UNCHANGED <<stored, regs, call, pc, rdtemp, left, PRIMASK, counts>>

(* A faulty variant: the loop does not test timeOut. *)
SpinningOn == status = "BUSY"

Spinning == status = "BUSY" /\ timeOut # 0

(* A faulty variant: the poll is not counted. *)
Wait_LoopUncounted ==
    /\ wait = "loop" /\ Spinning
    /\ status' = FMC_ReadStatus
    /\ UNCHANGED <<stored, regs, call, pc, wait, timeOut, rdtemp, left, PRIMASK, counts>>

Wait_Loop ==
    /\ wait = "loop" /\ Spinning
    /\ status' = FMC_ReadStatus /\ timeOut' = timeOut - 1
    /\ UNCHANGED <<stored, regs, call, pc, wait, rdtemp, left, PRIMASK, counts>>

(* The count decides: a last poll that finds the operation complete is a   *)
(* timeout all the same.                                                   *)
Wait_Return ==
    /\ wait = "loop" /\ ~Spinning
    /\ status' = IF timeOut = 0 THEN "TIMEOUT" ELSE status
    /\ wait' = "no"
    /\ UNCHANGED <<stored, regs, call, pc, timeOut, rdtemp, left, PRIMASK, counts>>

At(label) == pc = label /\ wait = "no"
WaitThen(label) == pc' = label /\ wait' = "read"
Return == pc' = "idle" /\ UNCHANGED wait

-----------------------------------------------------------------------------
(* Calls.  The caller unlocks the controller first.                        *)

FMC_Unlock ==
    /\ pc = "idle" /\ LOCK
    /\ LOCK' = FALSE
    /\ UNCHANGED <<stored, OBWEN, ctrl, sts, running, call, pc, wait, locals, PRIMASK, counts>>

FMC_Lock ==
    /\ pc = "idle" /\ ~LOCK
    /\ LOCK' = TRUE
    /\ UNCHANGED <<stored, OBWEN, ctrl, sts, running, call, pc, wait, locals, PRIMASK, counts>>

FMC_ClearStatusFlag(flag) ==
    /\ pc = "idle" /\ flag \cap sts # {}
    /\ sts' = sts \ flag
    /\ UNCHANGED <<stored, LOCK, OBWEN, ctrl, running, call, pc, wait, locals, PRIMASK, counts>>

FMC_GetReadProtectionStatus == READPROT

(* The part of every function up to its first wait: the programming        *)
(* functions mask interrupts (APM32F10X_HD), EraseOptionBytes looks up the *)
(* protection, ConfigUserOptionByte writes OBKEY.                          *)
Call(c) ==
    /\ pc = "idle" /\ ~LOCK /\ calls < MaxCalls
    /\ call' = c /\ calls' = calls + 1
    /\ PRIMASK' = (PRIMASK \/ c.op \in ProgramOps)
    /\ rdtemp' = IF c.op = "EraseOptionBytes" /\ FMC_GetReadProtectionStatus THEN "00" ELSE "A5"
    /\ OBWEN' = (OBWEN \/ c.op = "ConfigUserOptionByte")
    /\ asked' = (asked \/ c.op = "DisableReadOutProtection")
    /\ left' = {}
    /\ WaitThen("checked")
    /\ UNCHANGED <<stored, LOCK, ctrl, sts, running, status, timeOut, obeLeft, resets>>

(* The first wait does not end with FMC_STATUS_COMPLETE. *)
NotStarted ==
    /\ At("checked") /\ status # "COMPLETE"
    /\ Return
    /\ PRIMASK' = (PRIMASK /\ call.op \notin ProgramOps)
    /\ UNCHANGED <<stored, regs, call, locals, counts>>

-----------------------------------------------------------------------------
(* FMC_ErasePage and FMC_EraseAllPage.                                     *)

EraseMode == IF call.op = "ErasePage" THEN "PAGEERA" ELSE "MASSERA"

(* A faulty variant: the result of the first wait is not looked at. *)
Erase_StartUnchecked ==
    /\ At("checked") /\ call.op \in {"ErasePage", "EraseAllPage"}
    /\ ctrl' = ctrl \cup {EraseMode} /\ UNCHANGED OBWEN
    /\ StartErase
    /\ WaitThen("started")
    /\ UNCHANGED <<stored, LOCK, sts, call, locals, PRIMASK, counts>>

Erase_Start ==
    /\ At("checked") /\ status = "COMPLETE" /\ call.op \in {"ErasePage", "EraseAllPage"}
    /\ ctrl' = ctrl \cup {EraseMode} /\ UNCHANGED OBWEN
    /\ StartErase
    /\ WaitThen("started")
    /\ UNCHANGED <<stored, LOCK, sts, call, locals, PRIMASK, counts>>

Erase_End ==
    /\ At("started") /\ call.op \in {"ErasePage", "EraseAllPage"}
    /\ ctrl' = ctrl \ {EraseMode}
    /\ Return
    /\ UNCHANGED <<stored, LOCK, OBWEN, sts, running, call, locals, PRIMASK, counts>>

-----------------------------------------------------------------------------
(* FMC_ProgramWord (two half-words) and FMC_ProgramHalfWord.               *)

Program_Start ==
    /\ At("checked") /\ status = "COMPLETE" /\ call.op \in ProgramOps
    /\ ctrl' = ctrl \cup {"PG"} /\ left' = call.half
    /\ pc' = "program" /\ UNCHANGED wait
    /\ UNCHANGED <<stored, LOCK, OBWEN, sts, running, call, status, timeOut, rdtemp, PRIMASK, counts>>

Program_Half ==
    /\ At("program") /\ status = "COMPLETE" /\ left # {}
    /\ left' = left \ {Min(left)}
    /\ \E page \in call.pages : UNCHANGED ctrl /\ StartProgram(<<page, Min(left)>>)
    /\ WaitThen("program")
    /\ UNCHANGED <<stored, LOCK, OBWEN, sts, call, status, timeOut, rdtemp, PRIMASK, counts>>

ProgramOver == status # "COMPLETE" \/ left = {}

(* A faulty variant: PG is cleared only after the second half-word. *)
Program_EndKeepPG ==
    /\ At("program") /\ ProgramOver
    /\ ctrl' = IF left = {} THEN ctrl \ {"PG"} ELSE ctrl
    /\ PRIMASK' = FALSE
    /\ Return
    /\ UNCHANGED <<stored, LOCK, OBWEN, sts, running, call, locals, counts>>

Program_End ==
    /\ At("program") /\ ProgramOver
    /\ ctrl' = ctrl \ {"PG"}
    /\ PRIMASK' = FALSE
    /\ Return
    /\ UNCHANGED <<stored, LOCK, OBWEN, sts, running, call, locals, counts>>

-----------------------------------------------------------------------------
(* FMC_EraseOptionBytes, FMC_EnableReadOutProtection and                   *)
(* FMC_DisableReadOutProtection: erase the option bytes, then program RDP. *)

RdpValue == CASE call.op = "EraseOptionBytes"         -> rdtemp
              [] call.op = "EnableReadOutProtection"  -> "00"
              [] call.op = "DisableReadOutProtection" -> "A5"

ReadOut_Erase ==
    /\ At("checked") /\ status = "COMPLETE" /\ call.op \in ReadOutOps
    /\ OBWEN' = TRUE /\ ctrl' = ctrl \cup {"OBE"}
    /\ StartErase
    /\ WaitThen("erased")
    /\ UNCHANGED <<stored, LOCK, sts, call, locals, PRIMASK, counts>>

(* A faulty variant: OBE stays set. *)
ReadOut_WriteKeepOBE ==
    /\ At("erased") /\ status = "COMPLETE"
    /\ ctrl' = ctrl \cup {"OBP"} /\ UNCHANGED OBWEN
    /\ StartOption([option EXCEPT !.rdp = RdpValue], option.rdp = "FF")
    /\ WaitThen("written") /\ obeLeft' = FALSE
    /\ UNCHANGED <<stored, LOCK, sts, call, locals, PRIMASK, asked, calls, resets>>

(* A faulty variant: rdtemp is not used. *)
ReadOut_WriteA5 ==
    /\ At("erased") /\ status = "COMPLETE"
    /\ ctrl' = (ctrl \ {"OBE"}) \cup {"OBP"} /\ UNCHANGED OBWEN
    /\ StartOption([option EXCEPT !.rdp = IF call.op = "EraseOptionBytes" THEN "A5" ELSE RdpValue],
                   option.rdp = "FF")
    /\ WaitThen("written") /\ obeLeft' = FALSE
    /\ UNCHANGED <<stored, LOCK, sts, call, locals, PRIMASK, asked, calls, resets>>

ReadOut_Write ==
    /\ At("erased") /\ status = "COMPLETE"
    /\ ctrl' = (ctrl \ {"OBE"}) \cup {"OBP"} /\ UNCHANGED OBWEN
    /\ StartOption([option EXCEPT !.rdp = RdpValue], option.rdp = "FF")
    /\ WaitThen("written") /\ obeLeft' = FALSE
    /\ UNCHANGED <<stored, LOCK, sts, call, locals, PRIMASK, asked, calls, resets>>

ReadOut_End ==
    /\ At("written")
    /\ ctrl' = IF status # "TIMEOUT" THEN ctrl \ {"OBP"} ELSE ctrl
    /\ Return
    /\ UNCHANGED <<stored, LOCK, OBWEN, sts, running, call, locals, PRIMASK, counts>>

(* The erase failed.  FMC_EraseOptionBytes clears OBP and leaves OBE set.  *)
ReadOut_EraseFailed ==
    /\ At("erased") /\ status # "COMPLETE"
    /\ ctrl' = IF status = "TIMEOUT" THEN ctrl
               ELSE IF call.op = "EraseOptionBytes" THEN ctrl \ {"OBP"}
               ELSE ctrl \ {"OBE"}
    /\ obeLeft' = (status = "TIMEOUT" \/ call.op = "EraseOptionBytes")
    /\ Return
    /\ UNCHANGED <<stored, LOCK, OBWEN, sts, running, call, locals, PRIMASK, asked, calls, resets>>

-----------------------------------------------------------------------------
(* FMC_ProgramOptionByteData and FMC_ConfigUserOptionByte.  The bit is     *)
(* cleared only after a timeout.                                           *)

OptionByte == IF call.op = "ProgramOptionByteData" THEN "DATA" ELSE "USER"

(* A faulty variant: OBKEY is not written. *)
Option_WriteNoKey ==
    /\ At("checked") /\ status = "COMPLETE" /\ call.op \in OptionOps
    /\ ctrl' = ctrl \cup {"OBP"} /\ UNCHANGED OBWEN
    /\ StartOption([option EXCEPT !.written = @ \cup {OptionByte}], OptionByte \notin option.written)
    /\ WaitThen("optioned")
    /\ UNCHANGED <<stored, LOCK, sts, call, locals, PRIMASK, counts>>

Option_Write ==
    /\ At("checked") /\ status = "COMPLETE" /\ call.op \in OptionOps
    /\ OBWEN' = (OBWEN \/ call.op = "ProgramOptionByteData") /\ ctrl' = ctrl \cup {"OBP"}
    /\ StartOption([option EXCEPT !.written = @ \cup {OptionByte}], OptionByte \notin option.written)
    /\ WaitThen("optioned")
    /\ UNCHANGED <<stored, LOCK, sts, call, locals, PRIMASK, counts>>

Option_End ==
    /\ At("optioned")
    /\ ctrl' = IF status = "TIMEOUT" THEN ctrl \ {"OBP"} ELSE ctrl
    /\ Return
    /\ UNCHANGED <<stored, LOCK, OBWEN, sts, running, call, locals, PRIMASK, counts>>

-----------------------------------------------------------------------------
(* FMC_EnableWriteProtection: one byte after the other, those in which no *)
(* page was asked for left out.                                            *)

Protect_Start ==
    /\ At("checked") /\ status = "COMPLETE" /\ call.op = "EnableWriteProtection"
    /\ OBWEN' = TRUE /\ ctrl' = ctrl \cup {"OBP"}
    /\ left' = { ByteOf[p] : p \in call.pages }
    /\ pc' = "bytes" /\ UNCHANGED wait
    /\ UNCHANGED <<stored, LOCK, sts, running, call, status, timeOut, rdtemp, PRIMASK, counts>>

InByte(pages, i) == { p \in pages : ByteOf[p] = i }

Protect_Byte ==
    /\ At("bytes") /\ status = "COMPLETE" /\ left # {}
    /\ left' = left \ {Min(left)} /\ UNCHANGED <<OBWEN, ctrl>>
    /\ StartOption([option EXCEPT !.wrp = @ \cup InByte(call.pages, Min(left))],
                   InByte(option.wrp, Min(left)) = {})
    /\ WaitThen("bytes")
    /\ UNCHANGED <<stored, LOCK, sts, call, status, timeOut, rdtemp, PRIMASK, counts>>

Protect_End ==
    /\ At("bytes") /\ (status # "COMPLETE" \/ left = {})
    /\ ctrl' = IF status # "TIMEOUT" THEN ctrl \ {"OBP"} ELSE ctrl
    /\ Return
    /\ UNCHANGED <<stored, LOCK, OBWEN, sts, running, call, locals, PRIMASK, counts>>

-----------------------------------------------------------------------------
Driver ==
    \/ Wait_Read \/ Wait_Loop \/ Wait_Return \/ NotStarted
    \/ Erase_Start \/ Erase_End
    \/ Program_Start \/ Program_Half \/ Program_End
    \/ ReadOut_Erase \/ ReadOut_Write \/ ReadOut_End \/ ReadOut_EraseFailed
    \/ Option_Write \/ Option_End
    \/ Protect_Start \/ Protect_Byte \/ Protect_End

Caller ==
    \/ FMC_Unlock \/ FMC_Lock
    \/ \E flag \in SUBSET Flags : FMC_ClearStatusFlag(flag)
    \/ \E c \in Calls : Call(c)

Controller == Hw_Done \/ Hw_Error

Next == Driver \/ Caller \/ Controller \/ Reset

(* A blank device, or one that boots protected. *)
Init ==
    /\ flash = {} /\ option \in {[ErasedOption EXCEPT !.rdp = r] : r \in {"A5", "00"}}
    /\ READPROT = (option.rdp # "A5") /\ WRTPROT = option.wrp
    /\ LOCK = TRUE /\ OBWEN = FALSE /\ ctrl = {} /\ sts = {} /\ running = NoJob
    /\ call = NoCall /\ pc = "idle" /\ wait = "no"
    /\ status = "COMPLETE" /\ timeOut = Limit /\ rdtemp = "A5" /\ left = {} /\ PRIMASK = FALSE
    /\ asked = FALSE /\ obeLeft = FALSE /\ calls = 0 /\ resets = 0

(* The processor goes on executing; nothing is assumed of the controller,  *)
(* which may never finish.                                                 *)
Spec == Init /\ [][Next]_vars /\ WF_vars(Driver)

-----------------------------------------------------------------------------
TypeStored ==
    /\ flash \subseteq Cells /\ option \in OptionBytes
    /\ READPROT \in BOOLEAN /\ WRTPROT \subseteq Pages

TypeRegs ==
    /\ LOCK \in BOOLEAN /\ OBWEN \in BOOLEAN /\ ctrl \subseteq Modes /\ sts \subseteq Flags
    /\ running \in Jobs

Labels == {"idle", "checked", "started", "program", "erased", "written", "optioned", "bytes"}

TypeCpu ==
    /\ call \in Calls \cup {NoCall}
    /\ pc \in Labels /\ wait \in {"no", "read", "loop"}
    /\ status \in Statuses /\ timeOut \in 0..Limit
    /\ rdtemp \in {"A5", "00"} /\ left \subseteq 0..3 /\ PRIMASK \in BOOLEAN

TypeCounts ==
    asked \in BOOLEAN /\ obeLeft \in BOOLEAN /\ calls \in 0..MaxCalls /\ resets \in 0..MaxResets

(* Every register, option byte, local and counter stays in its range; the  *)
(* wait's timeOut never goes below zero.                                   *)
TypeOK == TypeStored /\ TypeRegs /\ TypeCpu /\ TypeCounts

(* What a call promises with FMC_STATUS_COMPLETE. *)
Done(c) ==
    CASE c.op = "ErasePage"                -> flash \cap (c.pages \X {0, 1}) = {}
      [] c.op = "EraseAllPage"             -> flash = {}
      [] c.op \in ProgramOps               -> c.pages \X c.half \subseteq flash
      [] c.op = "EraseOptionBytes"         -> option = [ErasedOption EXCEPT !.rdp = IF READPROT THEN "00" ELSE "A5"]
      [] c.op = "EnableReadOutProtection"  -> option.rdp = "00"
      [] c.op = "DisableReadOutProtection" -> option.rdp = "A5"
      [] c.op \in OptionOps                -> (IF c.op = "ProgramOptionByteData" THEN "DATA" ELSE "USER") \in option.written
      [] c.op = "EnableWriteProtection"    -> c.pages \subseteq option.wrp
      [] OTHER                             -> TRUE

(* A function of the driver that returns FMC_STATUS_COMPLETE has done what *)
(* its name says, whatever failed, timed out or was left behind before:    *)
(* the flash and the option bytes hold it.  The one exception is an erase  *)
(* of the main flash after one of the option bytes that left OBE set: the  *)
(* controller may then have erased the option bytes instead.               *)
CompleteMeansDone ==
    /\ pc = "idle" /\ status = "COMPLETE"
    /\ ~(obeLeft /\ call.op \in {"ErasePage", "EraseAllPage"})
    => Done(call)

(* What the functions clear PAGEERA, MASSERA and OBE for: STA has no two   *)
(* erase modes to choose from.  The functions keep to it, in any order of  *)
(* calls, after timeouts, failures and resets, but for one hole            *)
(* (ReadOut_EraseFailed): OBE left set by an erase of the option bytes     *)
(* meets the mode of the next erase of the main flash.  Even then the two  *)
(* main modes are never together, and the option bytes are erased with     *)
(* their mode alone.                                                       *)
EraseSelectsOne ==
    /\ ~obeLeft => Cardinality(ctrl \cap EraseModes) <= 1
    /\ ~({"PAGEERA", "MASSERA"} \subseteq ctrl)
    /\ pc = "erased" => ctrl \cap EraseModes = {"OBE"}

(* An operation is started only on a controller that is idle and has no    *)
(* error pending, and a half-word of the main flash is programmed only     *)
(* with interrupts masked: what the waits and the set_PRIMASK calls of the *)
(* functions are for.                                                      *)
StartsClean ==
    [][ running' # running /\ running'.kind # "none" =>
          /\ running.kind = "none" /\ sts \cap {"PE", "WPE"} = {}
          /\ running'.kind = "program" => PRIMASK ]_vars

(* Between calls the main flash cannot be changed: every way out of a      *)
(* function, timeouts and errors included, clears PG, PAGEERA and MASSERA. *)
MainModesReleased == pc = "idle" => ctrl \cap MainModes = {}

(* A device that booted read protected stays protected over failures and   *)
(* resets, unless FMC_DisableReadOutProtection was called: no step of the  *)
(* other functions leaves 0xA5 in the protection byte.                     *)
ProtectionKept == READPROT /\ ~asked => option.rdp # "A5"

(* Every call returns, even if the controller never finishes: the waits    *)
(* are bounded.                                                            *)
CallReturns == pc # "idle" ~> pc = "idle"
=============================================================================

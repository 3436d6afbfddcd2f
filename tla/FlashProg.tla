----------------------------- MODULE FlashProg -----------------------------
(***************************************************************************)
(* The offline download: FLASH_SWD (Application/FlashalgoApp.c) copies a   *)
(* file into the flash of a target with target_flash.c, whose operations   *)
(* are calls of a flash algorithm in the RAM of the target                 *)
(* (swd_flash_syscall_exec) after a reset into debug state                 *)
(* (swd_set_target_state_hw).                                              *)
(*                                                                         *)
(* A step is one access of swd_host.c to the target: a word, a core        *)
(* register or a block.  Each returns 0 when a transfer it is made of      *)
(* fails (module SwdHost), and everything above it then returns 0 too,     *)
(* but for the exceptions of Fail.  `step' names the next access, and      *)
(* Succ(at) the one after it.  Addresses count the smallest unit of the    *)
(* file from 0x8000000.                                                    *)
(***************************************************************************)
EXTENDS Integers

CONSTANTS
  DLSize,               \* units read from the file and programmed at a time
  FlashSize,            \* flash of the target
  FileSizes,            \* sizes of the file
  Algos,                \* what the parser may leave in flash_algo
  Faults,               \* what may go wrong, see FaultKinds
  MaxFaults             \* bound: number of faults

\* "dropped", "refused", "unheard": as in SwdHost, but for a refused write of
\* CSW, after which the accesses themselves go wrong; "read": f_read fails;
\* "algo": a function of the algorithm returns an error.
FaultKinds == {"dropped", "refused", "unheard", "read", "algo"}

\* The functions of an algorithm, and what may lie at an entry address.
Function == {"init", "uninit", "erase_chip", "erase_sector", "program_page"}
Code     == Function \cup {"none"}

\* program_target_t: the entries (by what lies there), the size of the blob in
\* bytes, whether it could be read, and the page size.
Algo == [entry : [Function -> Code], algo_size : Nat, blob : BOOLEAN, program_buffer_size : Nat]

ASSUME SizeAssumption   == DLSize \in Nat \ {0} /\ FlashSize \in Nat /\ FileSizes \subseteq 0 .. FlashSize
ASSUME AlgosAssumption  == Algos \subseteq Algo
ASSUME FaultsAssumption == Faults \subseteq FaultKinds /\ MaxFaults \in Nat

VARIABLES
  flash_algo,  \* the algorithm as parsed
  file,        \* USERFile: its size, the position, and whether every f_read was good
  download,    \* FLASH_SWD: where it is, addr, readflag, bin_buff, page from .. off in it, result
  access,      \* the next access, the call it belongs to, tries left, R0 as read back
  target,      \* the target: core, debug registers, RAM, flash
  faults       \* number of faults so far

vars == <<flash_algo, file, download, access, target, faults>>

Offset == 0 .. DLSize - 1
Cell   == 0 .. FlashSize - 1

\* What a unit of memory holds when it is not a unit of the file.
Erased == -1
Junk   == -2    \* programmed over something else
Heap   == -3    \* rt_malloc does not clear
Before == -4    \* the previous firmware
Value  == -4 .. FlashSize

Regs == {"args", "frame", "pc", "xpsr"}   \* R0-R3; R9, R13, R14; R15; xPSR
NoCall == [fn |-> "none", addr |-> 0]
NoAlgo == [entry |-> [f \in Function |-> "none"], algo_size |-> 0, blob |-> FALSE,
           program_buffer_size |-> 0]

program_buffer == 400   \* from the start of the RAM, where the blob lies

\* An algorithm that can be used: its functions are where the entries say, the
\* blob ends before the page buffer, and pages fill the chunks.
Divides(n) == n # 0 /\ DLSize % n = 0
Sound(a) ==
  /\ \A f \in {"init", "erase_chip", "program_page"} : a.entry[f] = f
  /\ a.blob /\ a.algo_size <= program_buffer
  /\ Divides(a.program_buffer_size)

-----------------------------------------------------------------------------
(* The accesses, in order.  swd_flash_syscall_exec is "args" .. "unmask",  *)
(* swd_set_target_state_hw(RESET_PROGRAM) "debug" .. "uncatch" in          *)
(* target_flash_init; asserting the reset does nothing on this board.      *)

\* Mutants: the result is read without waiting; the core is not caught at its
\* reset; the stack and return address are not written.
Succ_NoWait(at) ==
  [debug |-> IF at = "init" THEN "enable" ELSE IF at = "finish" THEN "reset" ELSE "end",
   retry |-> "enable", enable |-> "catch", catch |-> "reset",
   reset |-> IF at = "init" THEN "poll" ELSE "end", poll |-> "uncatch", uncatch |-> "load",
   load |-> "args", buffer |-> "args",
   args |-> "frame", frame |-> "pc", pc |-> "xpsr", xpsr |-> "halt", halt |-> "start",
   start |-> "status", status |-> "result", wait |-> "result", result |-> "unmask", unmask |-> "end"]

Succ_NoCatch(at) ==
  [debug |-> IF at = "init" THEN "enable" ELSE IF at = "finish" THEN "reset" ELSE "end",
   retry |-> "enable", enable |-> "reset", catch |-> "reset",
   reset |-> IF at = "init" THEN "load" ELSE "end", poll |-> "uncatch", uncatch |-> "load",
   load |-> "args", buffer |-> "args",
   args |-> "frame", frame |-> "pc", pc |-> "xpsr", xpsr |-> "halt", halt |-> "start",
   start |-> "status", status |-> "wait", wait |-> "result", result |-> "unmask", unmask |-> "end"]

Succ_NoFrame(at) ==
  [debug |-> IF at = "init" THEN "enable" ELSE IF at = "finish" THEN "reset" ELSE "end",
   retry |-> "enable", enable |-> "catch", catch |-> "reset",
   reset |-> IF at = "init" THEN "poll" ELSE "end", poll |-> "uncatch", uncatch |-> "load",
   load |-> "args", buffer |-> "args",
   args |-> "pc", frame |-> "pc", pc |-> "xpsr", xpsr |-> "halt", halt |-> "start",
   start |-> "status", status |-> "wait", wait |-> "result", result |-> "unmask", unmask |-> "end"]

Succ(at) ==
  [debug |-> IF at = "init" THEN "enable" ELSE IF at = "finish" THEN "reset" ELSE "end",
   retry |-> "enable", enable |-> "catch", catch |-> "reset",
   reset |-> IF at = "init" THEN "poll" ELSE "end", poll |-> "uncatch", uncatch |-> "load",
   load |-> "args", buffer |-> "args",
   args |-> "frame", frame |-> "pc", pc |-> "xpsr", xpsr |-> "halt", halt |-> "start",
   start |-> "status", status |-> "wait", wait |-> "result", result |-> "unmask", unmask |-> "end"]

StepName == {"debug", "retry", "enable", "catch", "reset", "poll", "uncatch", "load", "buffer", "args",
             "frame", "pc", "xpsr", "halt", "start", "status", "wait", "result", "unmask", "end"}

Fn(f, a) == [fn |-> flash_algo.entry[f], addr |-> a]

-----------------------------------------------------------------------------
Init ==
  /\ flash_algo = NoAlgo
  /\ file \in [size : FileSizes, pos : {0}, good : {TRUE}]
  /\ download = [at |-> "parse", addr |-> 0, readflag |-> FALSE,
                 bin_buff |-> [i \in Offset |-> Heap], from |-> 0, off |-> 0, ret |-> FALSE]
  /\ access = [step |-> "end", call |-> NoCall, left |-> 0, r0 |-> 0]
  /\ target \in [core : {"running", "halted"}, sticky : BOOLEAN, debugen : BOOLEAN, vc : BOOLEAN,
                 regs : {[r \in Regs |-> NoCall]}, algo : {FALSE},
                 buffer : {[i \in Offset |-> Heap]},
                 inited : {FALSE}, result : {0}, flash : {[c \in Cell |-> Before]}]
  /\ faults = 0

Fault(f) == f \in Faults /\ faults < MaxFaults /\ faults' = faults + 1

Done(v) == download' = [download EXCEPT !.at = "done", !.ret = v]

\* flashalgo_test: whatever FLM_Prase returns is ignored.
Parsed(a) ==
  /\ download.at = "parse"
  /\ flash_algo' = a
  /\ download' = [download EXCEPT !.at = "open"]
  /\ UNCHANGED <<file, access, target, faults>>

\* The next operation of FLASH_SWD, which begins with access s, of call c.
At(phase) == download.at = phase /\ access.step = "end"
Begin(phase, s, c) ==
  /\ download' = [download EXCEPT !.at = phase]
  /\ access' = [access EXCEPT !.step = s, !.call = c, !.left = 2]

\* f_open, and swd_init_debug before the loop.
Open ==
  /\ At("open")
  /\ \/ /\ download' = [download EXCEPT !.at = "connect", !.readflag = TRUE]
        /\ access' = [access EXCEPT !.step = "debug"]
     \/ Done(FALSE) /\ UNCHANGED access
  /\ UNCHANGED <<flash_algo, file, target, faults>>

target_flash_init ==
  /\ At("connect") /\ Begin("init", "debug", Fn("init", 0))
  /\ UNCHANGED <<flash_algo, file, target, faults>>

target_flash_erase_chip ==
  /\ At("init") /\ Begin("erase", "args", Fn("erase_chip", 0))
  /\ UNCHANGED <<flash_algo, file, target, faults>>

\* f_read of n units into bin_buff, which keeps what is beyond them.
Take(n) == [i \in Offset |-> IF i < n THEN file.pos + i ELSE download.bin_buff[i]]
Left    == file.size - file.pos
\* Mutant: a whole chunk is always taken from the file.
Wanted_Whole == DLSize

Wanted == IF Left < DLSize THEN Left ELSE DLSize

\* Mutant: the loop ends with an empty read.
ReadChunk_UntilEmpty(a) ==
  \E n \in 0 .. Wanted :
    /\ \/ n = Wanted /\ file' = [file EXCEPT !.pos = @ + n] /\ UNCHANGED faults
       \/ Fault("read") /\ file' = [file EXCEPT !.pos = @ + n, !.good = FALSE]
    /\ download' = [download EXCEPT !.at = "page", !.addr = a, !.from = 0, !.off = 0,
                                    !.bin_buff = Take(n), !.readflag = @ /\ n # 0]
    /\ UNCHANGED <<flash_algo, access, target>>

\* The head of the loop, after target_flash_erase_chip or a whole chunk.  The
\* result of f_read is ignored: only bytesread is looked at.
ReadChunk(a) ==
  \E n \in 0 .. Wanted :
    /\ \/ n = Wanted /\ file' = [file EXCEPT !.pos = @ + n] /\ UNCHANGED faults
       \/ Fault("read") /\ file' = [file EXCEPT !.pos = @ + n, !.good = FALSE]
    /\ download' = [download EXCEPT !.at = "page", !.addr = a, !.from = 0, !.off = 0,
                                    !.bin_buff = Take(n), !.readflag = @ /\ n = DLSize]
    /\ UNCHANGED <<flash_algo, access, target>>

FirstChunk == At("erase") /\ ReadChunk(0)

\* What is left of the chunk, or a page of it.
PageEnd ==
  IF DLSize - download.off > flash_algo.program_buffer_size
  THEN download.off + flash_algo.program_buffer_size ELSE DLSize
write_size == download.off - download.from

\* Mutant: the address of a page is not advanced within a chunk.
NextPage_SameAddr ==
  /\ At("page") /\ download.off < DLSize
  /\ download' = [download EXCEPT !.from = download.off, !.off = PageEnd]
  /\ access' = [access EXCEPT !.step = "buffer", !.call = Fn("program_page", download.addr)]
  /\ UNCHANGED <<flash_algo, file, target, faults>>

\* The loop of target_flash_program_page.  With a page size of 0 it gets
\* nowhere.
NextPage ==
  /\ At("page") /\ download.off < DLSize
  /\ download' = [download EXCEPT !.from = download.off, !.off = PageEnd]
  /\ access' = [access EXCEPT !.step = "buffer", !.call = Fn("program_page", download.addr + download.off)]
  /\ UNCHANGED <<flash_algo, file, target, faults>>

PageDone == At("page") /\ download.off >= DLSize

NextChunk == PageDone /\ download.readflag /\ ReadChunk(download.addr + DLSize)

Finish ==
  /\ PageDone /\ ~download.readflag
  /\ Begin("finish", "debug", NoCall)
  /\ UNCHANGED <<flash_algo, file, target, faults>>

Return ==
  /\ At("finish") \/ At("uninit")
  /\ Done(download.at = "finish")
  /\ UNCHANGED <<flash_algo, file, access, target, faults>>

-----------------------------------------------------------------------------
(* The accesses.                                                           *)

Doing(s) == access.step = s

Go == access' = [access EXCEPT !.step = Succ(download.at)[access.step]] /\ UNCHANGED download

\* Everything returns 0 except: a failed target_flash_init is followed by
\* target_flash_uninit, a reset; enabling debug is tried again after a reset;
\* and the result of the writes that reset is ignored.
Fail ==
  \/ access.step \in {"retry", "reset"} /\ Go
  \/ /\ access.step = "enable" /\ access.left > 1
     /\ access' = [access EXCEPT !.step = "retry", !.left = @ - 1] /\ UNCHANGED download
  \/ /\ access.step \notin {"retry", "reset"} /\ ~(access.step = "enable" /\ access.left > 1)
     /\ IF download.at = "init"
        THEN Begin("uninit", "reset", NoCall)
        ELSE access' = [access EXCEPT !.step = "end"] /\ Done(FALSE)

\* An access that makes the target t, and one that fails.  A sticky error
\* fails every access.
Success(t) == ~target.sticky /\ target' = t /\ Go /\ UNCHANGED faults
Failure(t) ==
  /\ \/ target.sticky /\ UNCHANGED <<target, faults>>
     \/ /\ ~target.sticky
        /\ \/ Fault("dropped") /\ target' = [target EXCEPT !.sticky = TRUE]
           \/ Fault("refused") /\ UNCHANGED target
           \/ Fault("unheard") /\ target' = t
  /\ Fail
Access(t) == Success(t) \/ Failure(t)

Sticky(e) == target' = [target EXCEPT !.sticky = e]
Rest == UNCHANGED <<flash_algo, file>>

\* swd_init_debug.  What fails may come before or after the write of ABORT; and
\* the last write that reaches the target, of CTRL/STAT, is not confirmed.
InitDebug ==
  /\ Doing("debug")
  /\ \/ Sticky(FALSE) /\ Go /\ UNCHANGED faults
     \/ (Fault("refused") \/ Fault("unheard")) /\ (UNCHANGED target \/ Sticky(FALSE)) /\ Fail
     \/ Fault("dropped") /\ Sticky(TRUE) /\ (Go \/ Fail)
  /\ Rest

\* DHCSR: C_DEBUGEN without C_HALT lets a halted core go.
EnableDebug ==
  /\ Doing("enable")
  /\ Access([target EXCEPT !.debugen = TRUE, !.core = IF @ = "halted" THEN "running" ELSE @])
  /\ Rest

\* VC_CORERESET is set before the reset and cleared after it.
HaltOnReset ==
  /\ Doing("catch") \/ Doing("uncatch")
  /\ Access([target EXCEPT !.vc = Doing("catch")])
  /\ Rest

\* A reset stops the algorithm and forgets what it initialised, not the RAM.
swd_set_target_reset ==
  /\ Doing("reset") \/ Doing("retry")
  /\ Access([target EXCEPT !.core = IF target.vc /\ target.debugen THEN "halted" ELSE "running",
                           !.regs = [r \in Regs |-> NoCall], !.inited = FALSE])
  /\ Rest

\* The loop that waits for S_HALT after the reset has no bound.
PollHalted ==
  /\ Doing("poll")
  /\ \/ target.core = "halted" /\ Success(target)
     \/ target.core # "halted" /\ ~target.sticky /\ UNCHANGED <<access, download, target, faults>>
     \/ Failure(target)
  /\ Rest

LoadAlgorithm == Doing("load") /\ Access([target EXCEPT !.algo = flash_algo.blob]) /\ Rest

\* The page buffer lies at a fixed distance from the start of the blob, and on
\* its end when the blob is longer.
LoadBuffer ==
  /\ Doing("buffer")
  /\ Access([target EXCEPT
       !.buffer = [i \in Offset |-> IF i < write_size THEN download.bin_buff[download.from + i] ELSE @[i]],
       !.algo = @ /\ (flash_algo.algo_size <= program_buffer \/ write_size = 0)])
  /\ Rest

\* A core register is written only while the core is halted.
WriteRegister ==
  /\ access.step \in Regs
  /\ Access(IF target.core = "halted" THEN [target EXCEPT !.regs[access.step] = access.call] ELSE target)
  /\ Rest

HaltMasked == Doing("halt") /\ Access([target EXCEPT !.core = "halted"]) /\ Rest

Start == Doing("start") /\ Access([target EXCEPT !.core = "call"]) /\ Rest

\* swd_read_dp(DP_CTRL_STAT) and the check of its sticky errors.
CheckStatus == Doing("status") /\ Access(target) /\ Rest

\* Mutant: the wait has no bound.
WaitHalted_Forever ==
  /\ Doing("wait")
  /\ (target.core = "halted" /\ Success(target)) \/ Failure(target)
  /\ Rest

\* swd_wait_until_halted: MAX_TIMEOUT reads.
WaitHalted ==
  /\ Doing("wait")
  /\ \/ target.core = "halted" /\ Success(target)
     \/ Failure(target)
     \/ target.core # "halted" /\ Fail /\ UNCHANGED <<target, faults>>
  /\ Rest

ReadResult ==
  /\ Doing("result")
  /\ \/ /\ ~target.sticky
        /\ access' = [access EXCEPT !.step = "unmask", !.r0 = target.result]
        /\ UNCHANGED <<download, target, faults>>
     \/ Failure(target)
  /\ Rest

\* C_MASKINTS is removed, then the result is looked at.
Unmask ==
  /\ Doing("unmask")
  /\ IF access.r0 = 0 THEN Access([target EXCEPT !.core = "halted"])
     ELSE (target' = [target EXCEPT !.core = "halted"] \/ UNCHANGED target) /\ Fail /\ UNCHANGED faults
  /\ Rest

-----------------------------------------------------------------------------
(* The flash algorithm on the target, until its breakpoint.                *)

\* n units of a page are programmed, from a buffer that continues in RAM.
Program(f, a, b, n) ==
  [c \in Cell |-> IF c \in a .. a + n - 1
                  THEN IF f[c] # Erased THEN Junk ELSE IF c - a \in Offset THEN b[c - a] ELSE Heap
                  ELSE f[c]]

Called == target.regs["pc"]
Intact == target.algo /\ \A r \in Regs : target.regs[r] = Called

Breakpoint(res, t) == target' = [t EXCEPT !.core = "halted", !.result = res]

\* A call that is whole does what its function does, or fails: at once when it
\* must, with part of the page programmed when it may.  Any other may do
\* anything: the worst that can come back is success.
Page == flash_algo.program_buffer_size
Serves ==
  \/ Called.fn = "init" /\ Breakpoint(0, [target EXCEPT !.inited = TRUE])
  \/ /\ Called.fn = "erase_chip" /\ target.inited
     /\ Breakpoint(0, [target EXCEPT !.flash = [c \in Cell |-> Erased]])
  \/ /\ Called.fn = "program_page" /\ target.inited /\ Called.addr + Page <= FlashSize
     /\ Breakpoint(0, [target EXCEPT !.flash = Program(@, Called.addr, target.buffer, Page)])
Refuses ==
  /\ Called.fn # "init"
  /\ ~target.inited \/ (Called.fn = "program_page" /\ Called.addr + Page > FlashSize)
  /\ Breakpoint(1, target)
Breaks ==
  \/ Breakpoint(1, target)
  \/ /\ Called.fn = "program_page" /\ target.inited /\ Called.addr + Page <= FlashSize
     /\ \E n \in 1 .. Page :
          Breakpoint(1, [target EXCEPT !.flash = Program(@, Called.addr, target.buffer, n)])

Whole == Intact /\ Called.fn \in {"init", "erase_chip", "program_page"}
Call ==
  /\ target.core = "call"
  /\ \/ ~Whole /\ Breakpoint(0, [target EXCEPT !.flash = [c \in Cell |-> Junk]]) /\ UNCHANGED faults
     \/ Whole /\ (Serves \/ Refuses) /\ UNCHANGED faults
     \/ Whole /\ Fault("algo") /\ Breaks
  /\ UNCHANGED <<flash_algo, file, download, access>>

Programmer ==
  \/ Open \/ target_flash_init \/ target_flash_erase_chip
  \/ FirstChunk \/ NextPage \/ NextChunk \/ Finish \/ Return
  \/ InitDebug \/ EnableDebug \/ HaltOnReset \/ swd_set_target_reset \/ PollHalted
  \/ LoadAlgorithm \/ LoadBuffer \/ WriteRegister \/ HaltMasked \/ Start \/ CheckStatus
  \/ WaitHalted \/ ReadResult \/ Unmask

Stopped == download.at = "done" /\ UNCHANGED vars

Next == (\E a \in Algos : Parsed(a)) \/ Programmer \/ Call \/ Stopped

Spec == Init /\ [][Next]_vars

-----------------------------------------------------------------------------
Call_ == [fn : Code, addr : Nat]

\* The type of the state.
FileType == [size : FileSizes, pos : Nat, good : BOOLEAN]
DownloadType ==
  [at : {"parse", "open", "connect", "init", "erase", "page", "finish", "uninit", "done"},
   addr : Nat, readflag : BOOLEAN, bin_buff : [Offset -> Value],
   from : 0 .. DLSize, off : 0 .. DLSize, ret : BOOLEAN]
AccessType == [step : StepName, call : Call_, left : 0 .. 2, r0 : {0, 1}]
TargetType ==
  [core : {"running", "halted", "call"}, sticky : BOOLEAN, debugen : BOOLEAN,
   vc : BOOLEAN, regs : [Regs -> Call_], algo : BOOLEAN, buffer : [Offset -> Value],
   inited : BOOLEAN, result : {0, 1}, flash : [Cell -> Value]]

TypeOK ==
  /\ flash_algo \in Algo
  /\ file \in FileType /\ file.pos <= file.size
  /\ download \in DownloadType /\ download.from <= download.off
  /\ access \in AccessType
  /\ target \in TargetType
  /\ faults \in 0 .. MaxFaults

\* FLASH_SWD returns 1 only when every unit of a file that could be read is
\* where it belongs, whatever failed on the way.
Programmed ==
  download.at = "done" /\ download.ret /\ file.good /\ Sound(flash_algo) =>
    \A i \in 0 .. file.size - 1 : target.flash[i] = i

\* Nothing is programmed beyond the chunk that holds the end of the file (a
\* file of whole chunks is followed by one more, of stale data).
Bounded ==
  Sound(flash_algo) =>
    \A c \in Cell : c >= ((file.size \div DLSize) + 1) * DLSize => target.flash[c] \in {Before, Erased}

\* The RAM of the target is written only while its core is halted: neither its
\* firmware nor an algorithm that is late is overwritten as it runs.
QuietRam ==
  [][target'.algo # target.algo \/ target'.buffer # target.buffer => target.core = "halted"]_vars

\* When the core runs the algorithm, every register belongs to one call, and
\* the blob is whole; and while the programmer waits for a page, it is the call
\* for that page, with that page in the buffer.
RightCall ==
  target.core = "call" /\ Sound(flash_algo) =>
    /\ Whole
    /\ download.at = "page" =>
         /\ Called = [fn |-> "program_page", addr |-> download.addr + download.from]
         /\ \A i \in 0 .. write_size - 1 : target.buffer[i] = download.bin_buff[download.from + i]

\* The download does what Download promises: erased once, programmed in order,
\* no unit twice, success only when all is there; and an operation given up may
\* only finish what it began.
D == INSTANCE Download WITH
       Others <- {Heap},
       media <- target.flash, size <- file.size, readable <- file.good, sound <- Sound(flash_algo),
       result <- IF download.at # "done" THEN "none" ELSE IF download.ret THEN "ok" ELSE "failed"
ImplementsDownload == D!Spec
=============================================================================

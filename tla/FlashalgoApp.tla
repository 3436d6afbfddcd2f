---------------------------- MODULE FlashalgoApp ----------------------------
(***************************************************************************)
(* FlashalgoApp_Init (Application/FlashalgoApp.c): the algorithm is parsed *)
(* by FlashAlgo, then the download of FlashProg runs with whatever the     *)
(* parser left in flash_algo.                                              *)
(***************************************************************************)
EXTENDS FlashProg, FlashAlgo

avars == <<vars, flm, parsed>>

\* What the parser leaves behind is not looked at again.
Forget ==
  flm' = [flm EXCEPT !.file = CHOOSE f \in Files : TRUE, !.at = "returned", !.i = 1, !.s = 1,
                     !.phdr = NoPhdr, !.shdr = NoShdr, !.symtab = NoShdr, !.sym = NoSym,
                     !.page = 0, !.good = TRUE, !.misreads = 0, !.ret = 0]

AppInit == Init /\ FlmInit

Parsing  == FlmNext /\ UNCHANGED vars
flashalgo_test == flm.at = "end" /\ Parsed(parsed) /\ Forget /\ parsed' = NoTarget
FLASH_SWD == Programmer /\ UNCHANGED <<flm, parsed>>
Target    == Call /\ UNCHANGED <<flm, parsed>>

AppNext == Parsing \/ flashalgo_test \/ FLASH_SWD \/ Target \/ (Stopped /\ UNCHANGED <<flm, parsed>>)

\* The main thread runs, and faults are not owed to it; nothing is said of the
\* core of the target, which may never reach its breakpoint.
AppSpec ==
  /\ AppInit /\ [][AppNext]_avars
  /\ WF_avars((Parsing \/ flashalgo_test \/ FLASH_SWD) /\ UNCHANGED faults)

-----------------------------------------------------------------------------
\* The download ends, whatever fails and even if the algorithm hangs, but for
\* two places: the wait for the halt after the reset (swd_host.c:939), whose
\* write may be lost, its result being ignored; and a page size of 0
\* (target_flash.c:42), which a file without a device description may leave.
Terminates ==
  \/ <>(download.at = "done")
  \/ <>[](Doing("poll") /\ target.core # "halted")
  \/ <>[](download.at = "page" /\ flash_algo.program_buffer_size = 0)
=============================================================================

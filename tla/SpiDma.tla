------------------------------ MODULE SpiDma -------------------------------
(***************************************************************************)
(* How a command gets to the NOR flash: the chip select of 25qxx.c, the    *)
(* full-duplex transfers of drivers/drv_spi.c, the two DMA channels of     *)
(* drivers/drv_dma.c with their interrupts, and the completion object of   *)
(* RT-Thread on which the thread sleeps.  The main thread calls the init   *)
(* functions, one of which starts the USB thread; both use the chip, and   *)
(* there is no lock.                                                       *)
(*                                                                         *)
(* One core: the USB thread runs only while the main thread cannot.        *)
(* Interrupts and the hardware move between any two steps of a thread.     *)
(***************************************************************************)
EXTENDS Naturals, Sequences

CONSTANTS
  Commands,      \* the commands to the chip, each as the lengths of its transfers
  MaxCommands    \* bound: commands that an init function issues

ASSUME CommandsAssumption == \A c \in Commands : c \in Seq(Nat \ {0}) /\ Len(c) \in {1, 2}
ASSUME BoundAssumption    == MaxCommands \in Nat

VARIABLES
  init,         \* the init functions the main thread has not finished, and commands issued
  thread,       \* of each thread: where it is, its command, the transfer, its buffer
  DmaCH,        \* UserCh and IrqCh
  completion,   \* DmaCH.completion: its flag and the threads suspended on it
  ch,           \* the two channels: enabled, bytes left, transfer complete
  spi,          \* bytes in the transmit and receive registers; the thread whose buffer is used
  chip          \* is it selected, and the bytes it has seen since

vars == <<init, thread, DmaCH, completion, ch, spi, chip>>

Threads == {"main", "usb"}
Tx == "ch3"
Rx == "ch2"
Channels == {Tx, Rx}

\* Mutant: the other order that the linker could choose.
InitFns_Swapped == <<"FLASH_Port_Init", "FatfsApp_Init", "UsbApp_Init", "FlashalgoApp_Init">>

\* The init functions that use the chip, and the one that starts the USB
\* thread, in the order of their levels; the last two are of the same level.
InitFns == <<"FLASH_Port_Init", "FatfsApp_Init", "FlashalgoApp_Init", "UsbApp_Init">>

NoCh  == [en |-> FALSE, left |-> 0, tc |-> FALSE]
NoReg == <<>>

Init ==
  /\ init = [fns |-> InitFns, cmds |-> 0]
  /\ thread = [t \in Threads |-> [pc |-> IF t = "main" THEN "idle" ELSE "absent",
                                  cmd |-> <<1>>, part |-> 1, buffer |-> <<>>]]
  /\ DmaCH = [UserCh |-> {}, IrqCh |-> {}]
  /\ completion = [flag |-> FALSE, suspended |-> {}]
  /\ ch = [c \in Channels |-> NoCh]
  /\ spi = [tx |-> NoReg, rx |-> NoReg, buf |-> "main"]
  /\ chip = [selected |-> FALSE, seen |-> <<>>]

-----------------------------------------------------------------------------
(* The threads.                                                            *)

\* A thread that waits for nothing; main also waits between its commands.
Ready(t) == thread[t].pc \notin {"absent", "idle", "asleep"}
Runs(t)  == t = "main" \/ ~Ready("main")

Length(t)   == thread[t].cmd[thread[t].part]
To(t, p)    == thread' = [thread EXCEPT ![t].pc = p]
Step(t, p)  == Runs(t) /\ thread[t].pc = p

\* Byte i of a transfer, as its thread sends it.
Byte(t, p, i) == [by |-> t, part |-> p, i |-> i]

\* _25qxx_spi_cs(0) at the start of a command.
Select(t) ==
  /\ Step(t, "idle")
  /\ t = "main" => init.fns # <<>> /\ Head(init.fns) # "UsbApp_Init" /\ init.cmds < MaxCommands
  /\ \E c \in Commands :
       thread' = [thread EXCEPT ![t] = [pc |-> "config", cmd |-> c, part |-> 1, buffer |-> <<>>]]
  /\ init' = IF t = "main" THEN [init EXCEPT !.cmds = @ + 1] ELSE init
  /\ chip' = [selected |-> TRUE, seen |-> IF chip.selected THEN chip.seen ELSE <<>>]
  /\ UNCHANGED <<DmaCH, completion, ch, spi>>

\* The init function returns; UsbApp_Init starts the USB thread.
NextFn ==
  /\ Step("main", "idle") /\ init.fns # <<>>
  /\ init' = [fns |-> Tail(init.fns), cmds |-> 0]
  /\ thread' = [thread EXCEPT !["usb"].pc = IF Head(init.fns) = "UsbApp_Init" THEN "idle" ELSE @]
  /\ UNCHANGED <<DmaCH, completion, ch, spi, chip>>

\* _spi_dma_tx and _spi_dma_rx: DMA_DeInit stops a channel and clears its flag.
Config(t) ==
  /\ Step(t, "config")
  /\ ch' = [c \in Channels |-> [en |-> FALSE, left |-> Length(t), tc |-> FALSE]]
  /\ spi' = [spi EXCEPT !.buf = t]
  /\ thread' = [thread EXCEPT ![t].pc = "clear", ![t].buffer = <<>>]
  /\ UNCHANGED <<init, DmaCH, completion, chip>>

\* DMA1_Channel_Write, statement by statement.
\* Mutant: the channels are enabled before UserCh says which to wait for.
Succ_EnableFirst(p) == [clear |-> "rx", rx |-> "tx", tx |-> "user", user |-> "wait"][p]

Succ(p) == [clear |-> "user", user |-> "rx", rx |-> "tx", tx |-> "wait"][p]

Clear(t) ==
  /\ Step(t, "clear") /\ To(t, Succ("clear"))
  /\ DmaCH' = [UserCh |-> {}, IrqCh |-> {}]
  /\ UNCHANGED <<init, completion, ch, spi, chip>>

SetUserCh(t) ==
  /\ Step(t, "user") /\ To(t, Succ("user"))
  /\ DmaCH' = [DmaCH EXCEPT !.UserCh = Channels]
  /\ UNCHANGED <<init, completion, ch, spi, chip>>

Enable(t, p, c) ==
  /\ Step(t, p) /\ To(t, Succ(p))
  /\ ch' = [ch EXCEPT ![c].en = TRUE]
  /\ UNCHANGED <<init, DmaCH, completion, spi, chip>>

\* rt_completion_wait, with interrupts disabled, up to the suspension.  Its
\* assertion that no other thread is suspended is not compiled in: rtconfig.h
\* has no RT_DEBUG.
rt_completion_wait(t) ==
  /\ Step(t, "wait")
  /\ \/ completion.flag /\ To(t, "woken") /\ UNCHANGED completion
     \/ /\ ~completion.flag /\ To(t, "asleep")
        /\ completion' = [completion EXCEPT !.suspended = @ \cup {t}]
  /\ UNCHANGED <<init, DmaCH, ch, spi, chip>>

\* Mutant: the test for the last transfer is off by one.
Woken_OneMore(t) ==
  /\ Step(t, "woken")
  /\ completion' = [completion EXCEPT !.flag = FALSE]
  /\ DmaCH' = [UserCh |-> {}, IrqCh |-> {}]
  /\ thread' = IF thread[t].part <= Len(thread[t].cmd)
               THEN [thread EXCEPT ![t].pc = "config", ![t].part = @ + 1]
               ELSE [thread EXCEPT ![t].pc = "deselect"]
  /\ UNCHANGED <<init, ch, spi, chip>>

\* The end of rt_completion_wait and of DMA1_Channel_Write: the next transfer
\* of the command, or its end.
Woken(t) ==
  /\ Step(t, "woken")
  /\ completion' = [completion EXCEPT !.flag = FALSE]
  /\ DmaCH' = [UserCh |-> {}, IrqCh |-> {}]
  /\ thread' = IF thread[t].part < Len(thread[t].cmd)
               THEN [thread EXCEPT ![t].pc = "config", ![t].part = @ + 1]
               ELSE [thread EXCEPT ![t].pc = "deselect"]
  /\ UNCHANGED <<init, ch, spi, chip>>

\* _25qxx_spi_cs(1): the chip does what it has been told.
Deselect(t) ==
  /\ Step(t, "deselect") /\ To(t, "idle")
  /\ chip' = [chip EXCEPT !.selected = FALSE]
  /\ UNCHANGED <<init, DmaCH, completion, ch, spi>>

Thread(t) ==
  \/ Select(t) \/ Config(t) \/ Clear(t) \/ SetUserCh(t) \/ Enable(t, "rx", Rx) \/ Enable(t, "tx", Tx)
  \/ rt_completion_wait(t) \/ Woken(t) \/ Deselect(t)

-----------------------------------------------------------------------------
(* The interrupts.                                                         *)

\* One thread is resumed, whoever else is suspended.
rt_completion_done ==
  \/ completion.flag /\ UNCHANGED <<completion, thread>>
  \/ /\ ~completion.flag /\ completion.suspended = {}
     /\ completion' = [completion EXCEPT !.flag = TRUE] /\ UNCHANGED thread
  \/ /\ ~completion.flag
     /\ \E t \in completion.suspended :
          /\ completion' = [flag |-> TRUE, suspended |-> completion.suspended \ {t}]
          /\ To(t, "woken")

\* Mutant: any channel that ends wakes the thread.
IRQHandler_Any(c) ==
  /\ ch[c].tc
  /\ ch' = [ch EXCEPT ![c].tc = FALSE]
  /\ DmaCH' = [DmaCH EXCEPT !.IrqCh = @ \cup {c}]
  /\ rt_completion_done
  /\ UNCHANGED <<init, spi, chip>>

\* DMA1_Channel2_IRQHandler and DMA1_Channel3_IRQHandler.
IRQHandler(c) ==
  /\ ch[c].tc
  /\ ch' = [ch EXCEPT ![c].tc = FALSE]
  /\ DmaCH' = [DmaCH EXCEPT !.IrqCh = @ \cup {c}]
  /\ IF DmaCH'.IrqCh = DmaCH.UserCh THEN rt_completion_done ELSE UNCHANGED <<completion, thread>>
  /\ UNCHANGED <<init, spi, chip>>

-----------------------------------------------------------------------------
(* The hardware: channel 3 fills the transmit register, a byte goes out as *)
(* one comes in, and channel 2 takes it.  A register holds one byte.       *)

Sender == thread[spi.buf]

TxDma ==
  /\ ch[Tx].en /\ ch[Tx].left > 0 /\ spi.tx = NoReg
  /\ ch' = [ch EXCEPT ![Tx].left = @ - 1, ![Tx].tc = @ \/ ch[Tx].left = 1]
  /\ spi' = [spi EXCEPT !.tx = <<Byte(spi.buf, Sender.part, Length(spi.buf) - ch[Tx].left + 1)>>]
  /\ UNCHANGED <<init, thread, DmaCH, completion, chip>>

\* The answer to the n-th byte that a selected chip sees is its n-th.
Shift ==
  /\ spi.tx # NoReg /\ spi.rx = NoReg
  /\ spi' = [spi EXCEPT !.tx = NoReg, !.rx = <<IF chip.selected THEN Len(chip.seen) + 1 ELSE 0>>]
  /\ chip' = IF chip.selected THEN [chip EXCEPT !.seen = Append(@, spi.tx[1])] ELSE chip
  /\ UNCHANGED <<init, thread, DmaCH, completion, ch>>

\* The channel is circular: it starts again at the beginning of its buffer.
RxDma ==
  /\ ch[Rx].en /\ spi.rx # NoReg
  /\ ch' = [ch EXCEPT ![Rx].left = IF @ = 1 THEN Length(spi.buf) ELSE @ - 1,
                      ![Rx].tc = @ \/ ch[Rx].left = 1]
  /\ thread' = [thread EXCEPT ![spi.buf].buffer = Append(@, spi.rx[1])]
  /\ spi' = [spi EXCEPT !.rx = NoReg]
  /\ UNCHANGED <<init, DmaCH, completion, chip>>

Hardware == TxDma \/ Shift \/ RxDma

Next ==
  \/ \E t \in Threads : Thread(t)
  \/ NextFn
  \/ \E c \in Channels : IRQHandler(c)
  \/ Hardware

\* Threads run, interrupts are served and the bus moves; nobody has to begin a
\* command.
Running(t) == Thread(t) /\ thread[t].pc # "idle"
Spec ==
  /\ Init /\ [][Next]_vars
  /\ \A t \in Threads : WF_vars(Running(t))
  /\ \A c \in Channels : WF_vars(IRQHandler(c))
  /\ WF_vars(Hardware)

-----------------------------------------------------------------------------
Sent(t, p)  == [i \in 1 .. thread[t].cmd[p] |-> Byte(t, p, i)]
Whole(t)    == IF Len(thread[t].cmd) = 1 THEN Sent(t, 1) ELSE Sent(t, 1) \o Sent(t, 2)
Before(t)   == IF thread[t].part = 1 THEN 0 ELSE thread[t].cmd[1]

\* The type of the state.
TypeOK ==
  /\ init.fns \in {SubSeq(InitFns, i, Len(InitFns)) : i \in 1 .. 5} /\ init.cmds \in 0 .. MaxCommands
  /\ \A t \in Threads :
       /\ thread[t].pc \in {"absent", "idle", "config", "clear", "user", "rx", "tx", "wait", "asleep",
                            "woken", "deselect"}
       /\ thread[t].cmd \in Commands \cup {<<1>>} /\ thread[t].part \in DOMAIN thread[t].cmd
       /\ thread[t].buffer \in Seq(Nat)
  /\ DmaCH \in [UserCh : SUBSET Channels, IrqCh : SUBSET Channels]
  /\ completion \in [flag : BOOLEAN, suspended : SUBSET Threads]
  /\ ch \in [Channels -> [en : BOOLEAN, left : Nat, tc : BOOLEAN]]
  /\ Len(spi.tx) <= 1 /\ Len(spi.rx) <= 1 /\ spi.buf \in Threads
  /\ chip.selected \in BOOLEAN

\* Every time the chip is deselected it has seen all the bytes of one command,
\* in order, and nothing else: a command is what NorFlash takes it for, a step.
FramesWhole ==
  [][\A t \in Threads : Deselect(t) => chip.selected /\ chip.seen = Whole(t)]_vars

\* A thread that comes back from a transfer has every byte of the answer.
AnswersWhole ==
  \A t \in Threads : thread[t].pc = "woken" =>
    thread[t].buffer = [i \in 1 .. Length(t) |-> Before(t) + i]

\* completion.c:69, "only one thread can suspend on complete": of two, the end
\* of a transfer would wake only the first.
OneWaiter == \A t, u \in completion.suspended : t = u

\* A command that was begun ends.
CommandEnds == \A t \in Threads : thread[t].pc = "config" ~> thread[t].pc = "idle"
=============================================================================

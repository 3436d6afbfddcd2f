------------------------------ MODULE UsbDisk ------------------------------
(***************************************************************************)
(* The USB mass-storage disk of the programmer: the bulk-only handlers of  *)
(* devices/usbdev/Udisk.c, the USB thread and its message queue of         *)
(* Application/UsbApp.c, the endpoint interrupts of USBLIB, the two bulk   *)
(* endpoints of the controller and the host that drives them.              *)
(*                                                                         *)
(* Sizes are counted in 64-byte packs (UDISK_Pack_Size).  The disk enable  *)
(* flag is set by FLASH_Port_Init before the USB thread exists, so the     *)
(* "medium not present" branches are unreachable and are left out, and so  *)
(* are the sense bytes.                                                    *)
(***************************************************************************)
EXTENDS Naturals, Sequences

CONSTANTS
  Sectors,    \* sectors of the flash chip (4096 in the code)
  Packs,      \* packs per sector: Udisk_Sector_size / UDISK_Pack_Size (64)
  Data,       \* contents of a pack
  Erased,     \* a pack of 0xFF bytes
  Junk,       \* a pack that is neither: bytes programmed over bytes, a CBW, RAM
  Cmds,       \* commands the host issues
  NoCmd,      \* the host has no command in progress
  NTags,      \* the host numbers its commands modulo NTags (2^32)
  MqSize,     \* messages in the queue "usb" (10)
  MaxResets,  \* bound: number of bus resets
  EpRace      \* may interrupts and controller move between the steps of the
              \* status macros of usb_regs.h?

RdWr   == {"READ10", "WRITE10", "WR_VERIFY10"}
Info   == {"INQUIRY", "READ_FORMAT_CAPACITY", "READ_CAPACITY"}
NoData == {"TEST_READY", "PREVT_REMOVE", "VERIFY10", "START_STOP"}
Modes  == {"MODE_SENSE", "MODE_SENSE2"}
Writes == {"WRITE10", "WR_VERIFY10"}
\* MODE_SENSE2_PAGE is MODE_SENSE2 for a page other than 0x3F, UNKNOWN any
\* opcode without a case, BAD_SIG a wrapper whose signature is not USBC.
Failing == {"MODE_SENSE2_PAGE", "UNKNOWN", "BAD_SIG"}
Ops == RdWr \cup Info \cup NoData \cup Modes
         \cup {"REQUEST_SENSE"} \cup Failing

\* What the handlers read of a command: the opcode, the direction and length
\* the wrapper announces, and the address and block count of the command.
Command == [op : Ops, dir : {"in", "out"}, packs : Nat, lba : Nat, blocks : Nat]

ASSUME SizesAssumption  == Sectors \in Nat \ {0} /\ Packs \in Nat \ {0, 1}
ASSUME DataAssumption   == Erased \notin Data /\ Junk \notin Data /\ Erased # Junk
ASSUME CmdsAssumption   == Cmds \subseteq Command /\ NoCmd \notin Command
ASSUME TagsAssumption   == NTags \in Nat /\ NTags >= 2
ASSUME MqAssumption     == MqSize \in Nat /\ MqSize >= 2
ASSUME ResetsAssumption == MaxResets \in Nat
ASSUME RaceAssumption   == EpRace \in BOOLEAN

VARIABLES
  dev,     \* what the USB thread works on: the statics of Udisk.c, the flash, EP4
  ep5,     \* bulk OUT endpoint
  ctr,     \* completed transfers whose interrupt has not been served
  rxBuff,  \* USBD_Endp5_BUFF and USB_Rx_Cnt
  mq,      \* the message queue
  pc,      \* where the USB thread is
  msg,     \* the message it is handling
  host,    \* the USB host
  resets   \* number of bus resets so far

vars == <<dev, ep5, ctr, rxBuff, mq, pc, msg, host, resets>>

Content    == Data \cup {Erased, Junk}
Tag        == 0 .. NTags - 1
PackNo     == 0 .. Packs - 1
SectorNo   == 0 .. Sectors - 1
LenMod     == 67108864   \* UDISK_Transfer_DataLen is 32 bits of bytes: 2^26 packs

\* Packets.  From the host: a 31-byte command wrapper or a 64-byte pack.
Cbw(c, t)  == [kind |-> "cbw", cmd |-> c, tag |-> t]
Out(v)     == [kind |-> "out", val |-> v]
\* From the device: nothing yet, a pack of a read, a reply block, a status
\* wrapper.  A final reply packet is shorter than 64 bytes.
NoPkt      == [kind |-> "none"]
In(v)      == [kind |-> "in", val |-> v]
Reply(fin) == [kind |-> "reply", final |-> fin]
Csw(t, s)  == [kind |-> "csw", tag |-> t, status |-> s]

OutPacket == {Cbw(c, t) : c \in Cmds, t \in Tag} \cup {Out(v) : v \in Data}
InPacket  == {In(v) : v \in Content} \cup {Reply(f) : f \in BOOLEAN}
               \cup {Csw(t, s) : t \in Tag, s \in 0 .. 2}

\* The status field of an endpoint register, two bits that a write toggles.
Stat == {"DIS", "STALL", "NAK", "VALID"}
Bits == [DIS |-> {}, STALL |-> {1}, NAK |-> {2}, VALID |-> {1, 2}]
Xor(a, b) == (a \ b) \cup (b \ a)
Toggle(s, word) == CHOOSE t \in Stat : Bits[t] = Xor(Bits[s], word)

\* A status macro under way: its endpoint, the status it is to set, and the
\* toggle word it has worked out (_wRegVal).
Macro(ep, want) == [ep |-> ep, want |-> want, word |-> {}]
NoMacro == Macro("none", "DIS")

-----------------------------------------------------------------------------
(* The functions Udisk.c calls through struct udisk_function.  Flash       *)
(* addresses are cut to 24 bits, the size of the chip.                     *)

ReadPack(d) == d.flash[d.lba % Sectors][d.pack]

Erase(d) == [d EXCEPT !.flash[d.lba % Sectors] = [p \in PackNo |-> Erased]]

\* Programming a pack that is not erased leaves the AND of both contents.
Over(old, new) == IF old \in {Erased, new} THEN new ELSE Junk
\* The bytes the chip shifts out meanwhile take the place of those sent.
WriteSector(d) ==
  [d EXCEPT !.flash[d.lba % Sectors] = [p \in PackNo |-> Over(@[p], d.buff[p])],
            !.buff = [p \in PackNo |-> Junk]]

Usb_Send(d, p) == [d EXCEPT !.ep4 = [stat |-> "VALID", pkt |-> p]]

-----------------------------------------------------------------------------
(* Udisk.c: the handlers, as functions of the device state.                *)

UDISK_CMD_Deal_Status(d, s) == [d EXCEPT !.status = s]

\* Mutant: the IN stall, too, asks for a receive status.
Fail_WrongStatus(d) == [d EXCEPT !.up = FALSE, !.stuck = @ \/ d.up \/ d.down]

\* Stalling EP5 goes through SetEPTxStatus(ENDP5, EP_RX_STALL), whose loop
\* waits for a receive status in the transmit bits and never ends.
UDISK_CMD_Deal_Fail(d) ==
  [d EXCEPT !.ep4.stat = IF d.up THEN "STALL" ELSE @,
            !.up       = FALSE,
            !.stuck    = @ \/ d.down]

\* Mutant: the address of the command is not taken.
Pre_KeepsLba(d, c) == [d EXCEPT !.len = c.blocks * Packs, !.pack = 0, !.status = 0]

CMD_RD_WR_Deal_Pre(d, c) ==
  [d EXCEPT !.lba = c.lba, !.len = c.blocks * Packs, !.pack = 0, !.status = 0]

\* Tag, length and direction of a good wrapper; flags are only ever added.
Accept(d, p) ==
  [d EXCEPT !.tag  = p.tag,
            !.len  = p.cmd.packs,
            !.up   = @ \/ (p.cmd.packs > 0 /\ p.cmd.dir = "in"),
            !.down = @ \/ (p.cmd.packs > 0 /\ p.cmd.dir = "out"),
            !.csw  = TRUE]

\* Replies fit in one pack; the length is cut to the size of the reply.
Clamp(d) == [d EXCEPT !.len = IF @ > 1 THEN 1 ELSE @]

UDISK_SCSI_CMD_Deal(d, p) ==
  LET a == Accept(d, p)
      o == p.cmd.op
  IN CASE o = "BAD_SIG"  ->
            UDISK_CMD_Deal_Fail(UDISK_CMD_Deal_Status([d EXCEPT !.up = TRUE, !.down = TRUE], 2))
       [] o \in RdWr     -> CMD_RD_WR_Deal_Pre(a, p.cmd)
       [] o \in Info     -> UDISK_CMD_Deal_Status(Clamp(a), 0)
       [] o \in Modes    -> Clamp(a)
       [] o \in NoData \cup {"REQUEST_SENSE"} -> UDISK_CMD_Deal_Status(a, 0)
       [] o = "MODE_SENSE2_PAGE" -> UDISK_CMD_Deal_Fail(UDISK_CMD_Deal_Status(a, 1))
       [] OTHER          -> UDISK_CMD_Deal_Fail(UDISK_CMD_Deal_Status([a EXCEPT !.up = TRUE], 1))

UDISK_Bulk_UpData(d) ==
  IF d.len > 1
  THEN Usb_Send([d EXCEPT !.len = @ - 1], Reply(FALSE))
  ELSE Usb_Send([d EXCEPT !.len = 0, !.up = FALSE], Reply(TRUE))

UDISK_Up_CSW(d) ==
  Usb_Send([d EXCEPT !.up = FALSE, !.down = FALSE, !.csw = FALSE], Csw(d.tag, d.status))

\* UDISK_Transfer_DataLen -= UDISK_Pack_Size, on 32 bits.
LessPack(n) == IF n = 0 THEN LenMod - 1 ELSE n - 1

\* Mutants: the pack counter is not reset; the sector does not advance.
Advance_NoWrap(d)     == [d EXCEPT !.pack = @ + 1]
Advance_SameSector(d) == [d EXCEPT !.pack = (@ + 1) % Packs]

\* Sec_Pack_Count and Cur_Sec_Lba after one more pack.
Advance(d) ==
  IF d.pack + 1 = Packs THEN [d EXCEPT !.pack = 0, !.lba = @ + 1] ELSE [d EXCEPT !.pack = @ + 1]

UDISK_Up_OnePack(d) ==
  LET s == Usb_Send(d, In(ReadPack(d)))
      n == LessPack(d.len)
  IN [Advance(s) EXCEPT !.len = n, !.up = @ /\ n # 0]

\* A pack is copied into UDisk_Down_Buffer whatever it is; a full sector goes
\* to the flash, and the last one of a transfer is answered.
UDISK_Down_OnePack(d, p) ==
  LET e == IF d.pack = 0 THEN Erase(d) ELSE d
      n == LessPack(d.len)
      v == IF p.kind = "out" THEN p.val ELSE Junk
      f == [e EXCEPT !.buff[d.pack] = v, !.len = n]
  IN IF d.pack + 1 = Packs
     THEN Advance(IF n = 0 THEN UDISK_Up_CSW(WriteSector(f)) ELSE WriteSector(f))
     ELSE Advance(f)

\* The next packet of an upload.  The reply blocks of REQUEST_SENSE and of
\* MODE_SENSE2 overwrite the opcode in mBOC, with a value that is no READ10.
UpPack(d) == IF d.op = "READ10" THEN UDISK_Up_OnePack(d) ELSE UDISK_Bulk_UpData(d)

\* Mutant: the status wrapper is never sent after an upload.
In_EP_Deal_UpOnly(d) == IF d.up THEN UpPack(d) ELSE d

UDISK_In_EP_Deal(d) ==
  IF d.up THEN UpPack(d) ELSE IF d.csw THEN UDISK_Up_CSW(d) ELSE d

\* Once a handler is stuck nothing after it runs.
UDISK_Out_EP_Deal(d, p) ==
  IF d.down THEN UDISK_Down_OnePack(d, p)
  ELSE IF p.kind # "cbw" THEN d
  ELSE LET c == UDISK_SCSI_CMD_Deal([d EXCEPT !.op = p.cmd.op], p)
       IN IF c.down THEN c
          ELSE IF c.up THEN UpPack(c)
          ELSE IF c.status = 0 THEN UDISK_Up_CSW(c) ELSE c

-----------------------------------------------------------------------------
Init ==
  /\ dev \in [up : {FALSE}, down : {FALSE}, csw : {FALSE}, stuck : {FALSE},
              tag : {0}, status : {0}, len : {0}, lba : {0}, pack : {0},
              op : {"TEST_READY"}, buff : {[p \in PackNo |-> Junk]},
              flash : [SectorNo -> {[p \in PackNo |-> v] : v \in Data}],
              ep4 : {[stat |-> "NAK", pkt |-> NoPkt]}, macro : {NoMacro}]
  /\ ep5 = [stat |-> "VALID", pkt |-> NoPkt]
  /\ ctr = {}
  /\ rxBuff = NoPkt
  /\ mq = <<>>
  /\ pc = "recv" /\ msg = "In"
  /\ host = [ph |-> "idle", cmd |-> NoCmd, tag |-> 0, got |-> 0, sent |-> <<>>, last |-> Erased,
             prev |-> NoCmd]
  /\ resets = 0

-----------------------------------------------------------------------------
(* The USB thread.                                                         *)

\* Mutant: EP5 is armed again before the packet is handled.
ThreadRecv_EarlyRearm ==
  /\ pc = "recv" /\ mq # <<>>
  /\ msg' = Head(mq) /\ mq' = Tail(mq)
  /\ pc' = "deal"
  /\ ep5' = IF Head(mq) = "Out" THEN [ep5 EXCEPT !.stat = "VALID"] ELSE ep5
  /\ UNCHANGED <<dev, ctr, rxBuff, host, resets>>

ThreadRecv ==
  /\ pc = "recv" /\ mq # <<>>
  /\ msg' = Head(mq) /\ mq' = Tail(mq)
  /\ pc' = "deal"
  /\ UNCHANGED <<dev, ep5, ctr, rxBuff, host, resets>>

\* A receive stall leaves the thread in an infinite loop.
AfterDeal(d, next) == IF d.stuck THEN "stuck" ELSE next

(***************************************************************************)
(* A handler calls at most one macro, for EP4 and as the last thing that   *)
(* can be observed.  Unless something moves in between, the macro sets the *)
(* status it is given, and is part of the handler.  Otherwise the handler  *)
(* stops before it: run on an EP4 without status, it tells by the status   *)
(* it sets which macro that is.                                            *)
(***************************************************************************)
Unset(d)  == [d EXCEPT !.ep4.stat = "DIS"]
Paused(d) == [d EXCEPT !.ep4.stat = dev.ep4.stat,
                       !.macro = IF d.ep4.stat = "DIS" THEN @ ELSE Macro("EP4", d.ep4.stat)]
PausedAt(d, next) == IF d.ep4.stat = "DIS" THEN AfterDeal(d, next) ELSE "read"

ThreadInDeal ==
  /\ pc = "deal" /\ msg = "In"
  /\ IF EpRace
     THEN LET d == UDISK_In_EP_Deal(Unset(dev))
          IN dev' = Paused(d) /\ pc' = PausedAt(d, "recv")
     ELSE dev' = UDISK_In_EP_Deal(dev) /\ pc' = AfterDeal(dev', "recv")
  /\ UNCHANGED <<ep5, ctr, rxBuff, mq, msg, host, resets>>

ThreadOutDeal ==
  /\ pc = "deal" /\ msg = "Out"
  /\ IF EpRace
     THEN LET d == UDISK_Out_EP_Deal(Unset(dev), rxBuff)
          IN dev' = Paused(d) /\ pc' = PausedAt(d, "rearm")
     ELSE dev' = UDISK_Out_EP_Deal(dev, rxBuff) /\ pc' = AfterDeal(dev', "rearm")
  /\ UNCHANGED <<ep5, ctr, rxBuff, mq, msg, host, resets>>

\* SetEPRxValid(ENDP5)
ThreadRearm ==
  /\ pc = "rearm"
  /\ IF EpRace
     THEN dev' = [dev EXCEPT !.macro = Macro("EP5", "VALID")] /\ pc' = "read" /\ UNCHANGED ep5
     ELSE ep5' = [ep5 EXCEPT !.stat = "VALID"] /\ pc' = "recv" /\ UNCHANGED dev
  /\ UNCHANGED <<ctr, rxBuff, mq, msg, host, resets>>

(***************************************************************************)
(* _SetEPTxStatus and _SetEPRxStatus: the word is worked out once, from    *)
(* the status read first; each pass of the loop writes that same word, for *)
(* as long as the status read back is not the one asked for.               *)
(***************************************************************************)
Status == IF dev.macro.ep = "EP4" THEN dev.ep4.stat ELSE ep5.stat

\* Mutant: the status asked for is written as if the field did not toggle.
StatusRead_NoToggle ==
  /\ pc = "read"
  /\ dev' = [dev EXCEPT !.macro.word = Bits[dev.macro.want]]
  /\ pc' = "store"
  /\ UNCHANGED <<ep5, ctr, rxBuff, mq, msg, host, resets>>

StatusRead ==
  /\ pc = "read"
  /\ dev' = [dev EXCEPT !.macro.word = Xor(Bits[Status], Bits[dev.macro.want])]
  /\ pc' = "store"
  /\ UNCHANGED <<ep5, ctr, rxBuff, mq, msg, host, resets>>

StatusStore ==
  /\ pc = "store"
  /\ LET s == Toggle(Status, dev.macro.word)
     IN IF dev.macro.ep = "EP4"
        THEN dev' = [dev EXCEPT !.ep4.stat = s] /\ UNCHANGED ep5
        ELSE ep5' = [ep5 EXCEPT !.stat = s] /\ UNCHANGED dev
  /\ pc' = "check"
  /\ UNCHANGED <<ctr, rxBuff, mq, msg, host, resets>>

StatusCheck ==
  /\ pc = "check"
  /\ IF Status = dev.macro.want
     THEN /\ dev' = [dev EXCEPT !.macro = NoMacro]
          /\ pc' = AfterDeal(dev, IF msg = "Out" /\ dev.macro.ep = "EP4" THEN "rearm" ELSE "recv")
     ELSE pc' = "store" /\ UNCHANGED dev
  /\ UNCHANGED <<ep5, ctr, rxBuff, mq, msg, host, resets>>

Thread ==
  \/ ThreadRecv \/ ThreadInDeal \/ ThreadOutDeal \/ ThreadRearm
  \/ StatusRead \/ StatusStore \/ StatusCheck

-----------------------------------------------------------------------------
(* The endpoint interrupts.  CTR_LP serves the lowest endpoint first, and  *)
(* rt_mq_send fails on a full queue, which the callbacks ignore.           *)

rt_mq_send(m) == mq' = IF Len(mq) < MqSize THEN Append(mq, m) ELSE mq

EP4_IN_Callback ==
  /\ "EP4" \in ctr
  /\ ctr' = ctr \ {"EP4"}
  /\ rt_mq_send("In")
  /\ UNCHANGED <<dev, ep5, rxBuff, pc, msg, host, resets>>

\* Mutants: EP5 is armed again in its callback, as EP2_OUT_Callback does; the
\* endpoints are served in any order.
EP5_OUT_Callback_Rearm ==
  /\ "EP5" \in ctr /\ "EP4" \notin ctr
  /\ ctr' = ctr \ {"EP5"}
  /\ rxBuff' = ep5.pkt
  /\ ep5' = [ep5 EXCEPT !.stat = "VALID"]
  /\ rt_mq_send("Out")
  /\ UNCHANGED <<dev, pc, msg, host, resets>>

EP5_OUT_Callback_AnyOrder ==
  /\ "EP5" \in ctr
  /\ ctr' = ctr \ {"EP5"}
  /\ rxBuff' = ep5.pkt
  /\ rt_mq_send("Out")
  /\ UNCHANGED <<dev, ep5, pc, msg, host, resets>>

EP5_OUT_Callback ==
  /\ "EP5" \in ctr /\ "EP4" \notin ctr
  /\ ctr' = ctr \ {"EP5"}
  /\ rxBuff' = ep5.pkt
  /\ rt_mq_send("Out")
  /\ UNCHANGED <<dev, ep5, pc, msg, host, resets>>

Isr == EP4_IN_Callback \/ EP5_OUT_Callback

-----------------------------------------------------------------------------
(* The host: bulk-only transport, one command at a time.                   *)

\* The controller accepts a packet on EP5 when it is armed.
Deliver(p) ==
  /\ ep5.stat = "VALID"
  /\ ep5' = [stat |-> "NAK", pkt |-> p]
  /\ ctr' = ctr \cup {"EP5"}

\* It hands out the packet of EP4 when it is armed.
Take ==
  /\ dev.ep4.stat = "VALID"
  /\ dev' = [dev EXCEPT !.ep4.stat = "NAK"]
  /\ ctr' = ctr \cup {"EP4"}

DataPhase(c) == IF c.packs = 0 THEN "csw" ELSE c.dir

NextTag(t) == IF t + 1 = NTags THEN 0 ELSE t + 1

HostCommand(c) ==
  /\ host.ph = "idle"
  /\ LET t == NextTag(host.tag)
     IN /\ Deliver(Cbw(c, t))
        /\ host' = [host EXCEPT !.ph = DataPhase(c), !.cmd = c, !.tag = t]
  /\ UNCHANGED <<dev, rxBuff, mq, pc, msg, resets>>

HostOut(v) ==
  /\ host.ph = "out"
  /\ Deliver(Out(v))
  /\ host' = [host EXCEPT !.sent = Append(@, v),
                          !.ph   = IF Len(host.sent) + 1 = host.cmd.packs THEN "csw" ELSE @]
  /\ UNCHANGED <<dev, rxBuff, mq, pc, msg, resets>>

\* A short packet, or the last one asked for, ends the data phase.
Short(p) == p.kind \in {"none", "csw"} \/ (p.kind = "reply" /\ p.final)

HostIn ==
  /\ host.ph = "in"
  /\ Take
  /\ LET p == dev.ep4.pkt
     IN host' = [host EXCEPT !.got  = @ + 1,
                             !.last = IF p.kind = "in" THEN p.val ELSE Erased,
                             !.ph   = IF Short(p) \/ host.got + 1 = host.cmd.packs
                                      THEN "csw" ELSE @]
  /\ UNCHANGED <<ep5, rxBuff, mq, pc, msg, resets>>

\* Between two commands the host knows which one it was busy with before.
Idle(h) == [h EXCEPT !.ph = "idle", !.prev = h.cmd, !.cmd = NoCmd, !.got = 0, !.sent = <<>>,
                     !.last = Erased]

\* The status wrapper of this command ends it; anything else is a phase error.
HostStatus ==
  /\ host.ph = "csw"
  /\ Take
  /\ host' = IF dev.ep4.pkt.kind = "csw" /\ dev.ep4.pkt.tag = host.tag
             THEN Idle(host) ELSE [host EXCEPT !.ph = "lost"]
  /\ UNCHANGED <<ep5, rxBuff, mq, pc, msg, resets>>

\* The host meets a stall, clears it (Standard_ClearFeature arms the endpoint
\* with whatever its buffer holds) and goes on to the status.
HostClearFeature ==
  /\ host.ph \in {"in", "csw"} /\ dev.ep4.stat = "STALL"
  /\ dev' = [dev EXCEPT !.ep4.stat = "VALID"]
  /\ host' = [host EXCEPT !.ph = "csw"]
  /\ UNCHANGED <<ep5, ctr, rxBuff, mq, pc, msg, resets>>

\* A host that gave up or timed out resets the bus.  USBD_Reset sets the
\* endpoints up again and leaves the thread, its queue and Udisk.c alone.
BusReset ==
  /\ host.ph # "idle" /\ resets < MaxResets
  /\ resets' = resets + 1
  /\ dev' = [dev EXCEPT !.ep4.stat = "NAK"]
  /\ ep5' = [ep5 EXCEPT !.stat = "VALID"]
  /\ ctr' = {}
  /\ host' = Idle(host)
  /\ UNCHANGED <<rxBuff, mq, pc, msg>>

Next ==
  \/ Thread \/ Isr
  \/ \E c \in Cmds : HostCommand(c)
  \/ \E v \in Data : HostOut(v)
  \/ HostIn \/ HostStatus \/ HostClearFeature
  \/ BusReset

Spec == Init /\ [][Next]_vars

(***************************************************************************)
(* Fairness.  The thread runs whenever it is ready: the only thread above  *)
(* it, main, ends in a sleep loop.  Interrupts are served.  A host that    *)
(* has started a command keeps polling; it need not start one, nor reset.  *)
(***************************************************************************)
Fairness ==
  /\ WF_vars(Thread) /\ WF_vars(Isr)
  /\ WF_vars(HostIn \/ HostStatus \/ HostClearFeature)
  /\ WF_vars(\E v \in Data : HostOut(v))

FairSpec == Spec /\ Fairness

-----------------------------------------------------------------------------
\* The type of the state.
DevType ==
  [up : BOOLEAN, down : BOOLEAN, csw : BOOLEAN, stuck : BOOLEAN,
   tag : Tag, status : 0 .. 2, len : Nat, lba : Nat, pack : PackNo, op : Ops,
   buff : [PackNo -> Content], flash : [SectorNo -> [PackNo -> Content]],
   ep4 : [stat : Stat, pkt : InPacket \cup {NoPkt}],
   macro : [ep : {"none", "EP4", "EP5"}, want : Stat, word : SUBSET {1, 2}]]

HostType ==
  [ph : {"idle", "in", "out", "csw", "lost"}, cmd : Cmds \cup {NoCmd}, tag : Tag,
   got : Nat, sent : Seq(Data), last : Content, prev : Cmds \cup {NoCmd}]

TypeOK ==
  /\ dev \in DevType
  /\ ep5 \in [stat : Stat, pkt : OutPacket \cup {NoPkt}]
  /\ ctr \in SUBSET {"EP4", "EP5"}
  /\ rxBuff \in OutPacket \cup {NoPkt}
  /\ mq \in Seq({"In", "Out"})
  /\ pc \in {"recv", "deal", "rearm", "read", "store", "check", "stuck"}
  /\ msg \in {"In", "Out"}
  /\ host \in HostType
  /\ resets \in 0 .. MaxResets

\* A received packet belongs to the thread until it re-arms EP5: while the
\* endpoint is armed no packet waits in the queue, in the interrupt or in the
\* handler (UsbApp_Thread reads USBD_Endp5_BUFF outside any lock).
RxPending == "EP5" \in ctr \/ (\E i \in 1 .. Len(mq) : mq[i] = "Out") \/ (pc = "deal" /\ msg = "Out")
RxOwnership == ep5.stat = "VALID" => ~RxPending

\* Every rt_mq_send of the interrupts, whose result is ignored, finds room.
NoMessageLost == ctr # {} => Len(mq) < MqSize

\* The buffer of EP4 is never rewritten while the controller may be sending
\* it, or while the host still has to clear a stall: neither handler checks.
NoTxOverwrite == [][dev.ep4.stat # "NAK" => dev'.ep4.pkt = dev.ep4.pkt]_vars

\* The disk seen through the endpoints is the block device promised: reads
\* return the packs in order, writes land whole, other commands leave the
\* flash alone, and the status of a write means it is in the flash.
Written == IF host.cmd # NoCmd /\ host.cmd.op \in Writes /\ dev.tag = host.tag
           THEN dev.lba - host.cmd.lba ELSE 0
Reading == host.cmd # NoCmd /\ host.cmd.op = "READ10"
BD == INSTANCE BlockDevice WITH
        media <- dev.flash, req <- host.cmd, sent <- host.sent,
        got <- IF Reading THEN host.got ELSE 0, last <- host.last, done <- Written
ImplementsBlockDevice == BD!Spec

\* Every command that does not fail and whose wrapper announces the data that
\* it takes is answered with its own status wrapper, whatever came before.
Served(c) ==
  /\ c # NoCmd /\ c.op \notin Failing
  /\ c.op \in RdWr => c.packs = c.blocks * Packs /\ (c.dir = "in" <=> c.op = "READ10")
EveryCommandAnswered == Served(host.cmd) /\ host.ph # "lost" ~> host.ph = "idle"

\* The thread always gets back to its queue, wherever one reset cuts off what
\* the host and the device were at, unless the host fails a download.  It does
\* not when something moves inside a status macro: an endpoint that is armed
\* when the macro reads it gives a word without a bit to toggle, and once its
\* packet has gone the loop waits for ever.
ThreadReturns == []<>(pc = "recv")

\* What those loops can still promise without resets: when the endpoint is
\* idle as its macro is entered it gets armed and the loop ends, however often
\* the host uses the endpoint under it.
ArmingEnds ==
  pc = "read" /\ dev.macro.want = "VALID" /\ Status = "NAK" ~> pc \notin {"read", "store", "check"}

\* Whatever is aborted, failed or repeated, and wherever one reset falls, the
\* flash changes only in sectors of the write command in progress or of the
\* one before it (cut off, or answered too early: the leftovers of a read can
\* send the status of a write before its last pack is stored).  Not so with two
\* resets: the up flag of a read cut off lets UDISK_Bulk_UpData take from the
\* length of the next write; it wraps, no status follows, and what is stored
\* next lands one sector further.
WritesTo(c, s) == c # NoCmd /\ c.op \in Writes /\ s \in c.lba .. c.lba + c.blocks - 1
FlashConfined ==
  [][\A s \in SectorNo : dev'.flash[s] # dev.flash[s] =>
                           WritesTo(host.cmd, s) \/ WritesTo(host.prev, s)]_vars

-----------------------------------------------------------------------------
(***************************************************************************)
(* The handshake of thread, interrupts and host, without resets and        *)
(* without the race of the status macros: the strengthening from which     *)
(* RxOwnership, NoMessageLost and NoTxOverwrite follow (UsbDiskProofs).    *)
(***************************************************************************)
Queues    == {<<>>, <<"In">>, <<"Out">>, <<"In", "Out">>, <<"Out", "In">>}
HasIn(q)  == q \in {<<"In">>, <<"In", "Out">>, <<"Out", "In">>}
HasOut(q) == q \in {<<"Out">>, <<"In", "Out">>, <<"Out", "In">>}
FlagsClear == ~dev.up /\ ~dev.down /\ ~dev.csw

\* The upload direction holds one token: a packet in EP4, its interrupt, its
\* message, or the thread handling that message.
OneInToken ==
  /\ "EP4" \in ctr => ~HasIn(mq)
  /\ pc = "deal" /\ msg = "In" => "EP4" \notin ctr /\ ~HasIn(mq)
  /\ dev.ep4.stat # "NAK" => "EP4" \notin ctr /\ ~HasIn(mq) /\ ~(pc = "deal" /\ msg = "In")

\* The download direction holds one: EP5 armed, the interrupt of a received
\* packet, its message, or the thread handling it until it re-arms EP5.
OneOutToken ==
  /\ "EP5" \in ctr => ~HasOut(mq)
  /\ (pc = "deal" /\ msg = "Out") \/ pc \in {"rearm", "stuck"} => "EP5" \notin ctr /\ ~HasOut(mq)
  /\ ep5.stat = "VALID" =>
       "EP5" \notin ctr /\ ~HasOut(mq) /\ pc \notin {"rearm", "stuck"} /\ ~(pc = "deal" /\ msg = "Out")

\* The received packet the thread has not dealt with, if there is one.
Pending == "EP5" \in ctr \/ HasOut(mq) \/ (pc = "deal" /\ msg = "Out")
Packet  == IF "EP5" \in ctr THEN ep5.pkt ELSE rxBuff

\* A wrapper on its way finds a quiet device, and every earlier upload
\* message ahead of it; anything else on its way is data.
WrapperFirst ==
  /\ Pending /\ dev.tag = host.tag => Packet.kind = "out"
  /\ dev.tag # host.tag /\ pc # "stuck" =>
       /\ Pending /\ Packet = Cbw(host.cmd, host.tag)
       /\ FlagsClear /\ dev.ep4.stat = "NAK" /\ host.ph # "idle" /\ host.cmd \in Cmds
       /\ HasOut(mq) => "EP4" \notin ctr /\ mq # <<"Out", "In">>
       /\ pc = "deal" /\ msg = "Out" => "EP4" \notin ctr /\ ~HasIn(mq)

\* A download leaves the upload direction alone until its status; the status
\* wrapper of the current command is the last thing the device does for it.
PhasesAgree ==
  /\ dev.down /\ pc # "stuck" =>
       "EP4" \notin ctr /\ ~HasIn(mq) /\ ~(pc = "deal" /\ msg = "In") /\ dev.ep4.stat = "NAK"
  /\ dev.ep4.pkt.kind = "csw" /\ dev.ep4.pkt.tag = host.tag => FlagsClear /\ dev.tag = host.tag
  /\ host.ph = "idle" =>
       /\ FlagsClear /\ dev.ep4.stat = "NAK" /\ dev.tag = host.tag
       /\ dev.ep4.pkt.kind = "csw" => dev.ep4.pkt.tag = host.tag

Handshake ==
  /\ TypeOK
  /\ mq \in Queues
  /\ pc \in {"recv", "deal", "rearm", "stuck"}
  /\ dev.stuck <=> pc = "stuck"
  /\ OneInToken /\ OneOutToken /\ WrapperFirst /\ PhasesAgree

-----------------------------------------------------------------------------
(* What the disk, the packs on their way and the host have to do with each *)
(* other: with Handshake the invariant behind ImplementsBlockDevice.       *)

\* What a host asks for that knows the size of the disk: the wrapper of a
\* read announces the data of the command, that of a write some data if there is
\* a sector to write, and that of any other command that does not fail no download.
Asks(c) ==
  /\ c.op \in RdWr => c.lba + c.blocks <= Sectors
  /\ c.op = "READ10" => c.packs = c.blocks * Packs
  /\ c.op \in Writes => (c.packs > 0 <=> c.blocks > 0)
  /\ c.packs > 0 /\ c.op \notin Failing => (c.dir = "out" <=> c.op \in Writes)

\* The host between two commands, and before the device has seen its command.
Started ==
  /\ host.ph = "idle" <=> host.cmd = NoCmd
  /\ host.ph = "idle" \/ (dev.tag # host.tag /\ pc # "stuck") =>
       host.got = 0 /\ host.sent = <<>> /\ host.last = Erased
  /\ dev.tag # host.tag /\ pc # "stuck" => host.ph = DataPhase(host.cmd)

\* The command the device works on is that of the host.
SameCommand ==
  /\ dev.tag = host.tag /\ host.cmd # NoCmd => dev.op = host.cmd.op
  /\ pc = "stuck" => dev.down /\ host.cmd # NoCmd /\ host.cmd.op \in Failing
  /\ dev.down /\ pc # "stuck" => host.cmd # NoCmd /\ host.cmd.op \in Writes
  /\ host.ph = "out" /\ dev.tag = host.tag /\ pc # "stuck" => host.cmd.op \in Writes
  /\ host.ph = "in" => host.cmd.op \notin Writes
  /\ host.cmd # NoCmd /\ host.cmd.op # "READ10" =>
       host.last = Erased /\ (host.ph = "in" /\ dev.ep4.stat = "VALID" => dev.ep4.pkt.kind # "in")

\* A write: what the device has taken of what the host has sent.
Stored == dev.lba - host.cmd.lba
Loading ==
  host.cmd # NoCmd /\ host.cmd.op \in Writes /\ dev.tag = host.tag =>
    LET taken == Stored * Packs + dev.pack
    IN /\ dev.lba >= host.cmd.lba
       /\ ~dev.down => Stored = host.cmd.blocks
       /\ dev.down =>
            /\ dev.len > 0 /\ dev.len + taken = host.cmd.blocks * Packs
            /\ Len(host.sent) = taken + (IF Pending THEN 1 ELSE 0)
            /\ Pending => Packet = Out(host.sent[taken + 1])
            /\ \A p \in PackNo : p < dev.pack => dev.buff[p] = host.sent[Stored * Packs + p + 1]
            /\ dev.pack > 0 => dev.flash[dev.lba] = [p \in PackNo |-> Erased]

\* A read: what the host has received of what the device has sent.
Reader ==
  host.cmd # NoCmd /\ host.cmd.op = "READ10" /\ dev.tag = host.tag =>
    LET c == host.cmd
        sent == Stored * Packs + dev.pack
    IN /\ dev.lba >= c.lba /\ sent + dev.len = c.packs
       /\ dev.up <=> dev.len > 0
       /\ host.ph = IF host.got < c.packs THEN "in" ELSE "csw"
       /\ \/ dev.ep4.stat = "NAK" /\ host.got = sent /\ dev.csw
          \/ /\ dev.ep4.stat = "VALID" /\ host.got + 1 = sent /\ dev.csw
             /\ dev.ep4.pkt = In(dev.flash[c.lba + (host.got \div Packs)][host.got % Packs])
          \/ /\ dev.ep4.stat = "VALID" /\ dev.ep4.pkt.kind = "csw" /\ dev.ep4.pkt.tag = host.tag
             /\ host.got = sent /\ dev.len = 0

Serving == Started /\ SameCommand /\ Loading /\ Reader

-----------------------------------------------------------------------------
(* Claims of the comments that the code does not keep.                     *)

\* Udisk.c:188, "EP3 -> STALL": a failing download stalls the OUT endpoint.
RxStallTakesEffect == pc = "stuck" ~> ep5.stat = "STALL"

\* Udisk.c:486, "CSW_Status---Current command execution result status": the
\* status wrapper of a command tells whether that command failed.
CswStatusIsCurrent ==
  dev.ep4.stat = "VALID" /\ dev.ep4.pkt.kind = "csw" /\ host.cmd # NoCmd /\ dev.ep4.pkt.tag = host.tag
     => (dev.ep4.pkt.status = 0 <=> host.cmd.op \notin Failing)
=============================================================================

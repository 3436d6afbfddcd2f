--------------------------- MODULE UsbDiskProofs ---------------------------
(***************************************************************************)
(* UsbDisk for every value of the constants: type correctness with any     *)
(* number of resets and with the race of the status macros, and, without   *)
(* resets and race, the handshake as an inductive invariant and what       *)
(* follows from it, and the refinement of BlockDevice.                     *)
(***************************************************************************)
EXTENDS UsbDisk, SequenceTheorems, TLAPS

LEMMA SendType ==
  ASSUME NEW d \in DevType, NEW p \in InPacket
  PROVE  Usb_Send(d, p) \in DevType
BY DEF Usb_Send, DevType, Stat

LEMMA EraseType == ASSUME NEW d \in DevType PROVE Erase(d) \in DevType
BY SizesAssumption DEF Erase, DevType, SectorNo, PackNo, Content

LEMMA WriteType == ASSUME NEW d \in DevType PROVE WriteSector(d) \in DevType
BY SizesAssumption DEF WriteSector, Over, DevType, SectorNo, PackNo, Content

LEMMA AdvanceType == ASSUME NEW d \in DevType PROVE Advance(d) \in DevType
<1>1. d.pack \in 0 .. Packs - 1 /\ d.lba \in Nat
  BY DEF DevType, PackNo
<1>2. d.lba + 1 \in Nat /\ 0 \in PackNo /\ (d.pack + 1 # Packs => d.pack + 1 \in PackNo)
  BY <1>1, SizesAssumption DEF PackNo
<1> QED
  BY <1>2 DEF Advance, DevType

LEMMA CswType == ASSUME NEW d \in DevType PROVE UDISK_Up_CSW(d) \in DevType
<1> DEFINE e == [d EXCEPT !.up = FALSE, !.down = FALSE, !.csw = FALSE]
<1>1. e \in DevType
  BY DEF DevType
<1>2. Csw(d.tag, d.status) \in InPacket
  BY DEF InPacket, DevType
<1> QED
  BY <1>1, <1>2, SendType DEF UDISK_Up_CSW

LEMMA FailType == ASSUME NEW d \in DevType PROVE UDISK_CMD_Deal_Fail(d) \in DevType
<1> DEFINE e == [d EXCEPT !.ep4.stat = IF d.up THEN "STALL" ELSE @]
           f == [e EXCEPT !.up = FALSE]
<1>1. e \in DevType
  BY DEF DevType, Stat
<1> HIDE DEF e
<1>2. f \in DevType
  BY <1>1 DEF DevType
<1> HIDE DEF f
<1>3. [f EXCEPT !.stuck = d.stuck \/ d.down] \in DevType
  BY <1>2 DEF DevType
<1>4. UDISK_CMD_Deal_Fail(d) = [f EXCEPT !.stuck = d.stuck \/ d.down]
  BY DEF UDISK_CMD_Deal_Fail, e, f, DevType
<1> QED
  BY <1>3, <1>4

LEMMA UpOneType == ASSUME NEW d \in DevType PROVE UDISK_Up_OnePack(d) \in DevType
<1>1. ReadPack(d) \in Content
  BY SizesAssumption DEF ReadPack, DevType, SectorNo, PackNo
<1>2. Advance(Usb_Send(d, In(ReadPack(d)))) \in DevType
  BY <1>1, SendType, AdvanceType DEF InPacket
<1>3. LessPack(d.len) \in Nat
  BY DEF LessPack, LenMod, DevType
<1> QED
  BY <1>2, <1>3 DEF UDISK_Up_OnePack, DevType

LEMMA LessPackType == ASSUME NEW n \in Nat PROVE LessPack(n) \in Nat
BY DEF LessPack, LenMod

LEMMA DownOneType ==
  ASSUME NEW d \in DevType, NEW p \in OutPacket \cup {NoPkt}
  PROVE  UDISK_Down_OnePack(d, p) \in DevType
<1> DEFINE e == IF d.pack = 0 THEN Erase(d) ELSE d
           n == LessPack(d.len)
           v == IF p.kind = "out" THEN p.val ELSE Junk
           f == [e EXCEPT !.buff[d.pack] = v, !.len = n]
<1>1. e \in DevType /\ n \in Nat
  BY EraseType, LessPackType DEF DevType
<1>2. v \in Content
  BY DEF OutPacket, Out, Cbw, NoPkt, Content
<1>3. f \in DevType
  BY <1>1, <1>2 DEF DevType
<1>4. WriteSector(f) \in DevType /\ UDISK_Up_CSW(WriteSector(f)) \in DevType
  BY <1>3, WriteType, CswType
<1> HIDE DEF f, n
<1> QED
  BY <1>3, <1>4, AdvanceType DEF UDISK_Down_OnePack, f, n

LEMMA BulkUpType == ASSUME NEW d \in DevType PROVE UDISK_Bulk_UpData(d) \in DevType
<1>1. d.len > 1 => [d EXCEPT !.len = @ - 1] \in DevType
  BY DEF DevType
<1>2. [d EXCEPT !.len = 0, !.up = FALSE] \in DevType
  BY DEF DevType
<1>3. Reply(TRUE) \in InPacket /\ Reply(FALSE) \in InPacket
  <2>1. \A f \in BOOLEAN : Reply(f) \in InPacket
    BY DEF InPacket
  <2> QED
    BY <2>1
<1> QED
  BY <1>1, <1>2, <1>3, SendType DEF UDISK_Bulk_UpData

LEMMA UpPackType == ASSUME NEW d \in DevType PROVE UpPack(d) \in DevType
BY UpOneType, BulkUpType DEF UpPack

LEMMA InDealType == ASSUME NEW d \in DevType PROVE UDISK_In_EP_Deal(d) \in DevType
BY UpPackType, CswType DEF UDISK_In_EP_Deal

\* A wrapper that reaches the handlers carries a command and a tag.
LEMMA CbwFields ==
  ASSUME NEW p \in OutPacket \cup {NoPkt}, p.kind = "cbw"
  PROVE  p.cmd \in Cmds /\ p.cmd \in Command /\ p.tag \in Tag
BY CmdsAssumption DEF OutPacket, Cbw, Out, NoPkt

LEMMA StatusType ==
  ASSUME NEW d \in DevType, NEW s \in 0 .. 2 PROVE UDISK_CMD_Deal_Status(d, s) \in DevType
BY DEF UDISK_CMD_Deal_Status, DevType

LEMMA ScsiType ==
  ASSUME NEW d \in DevType, NEW p \in OutPacket \cup {NoPkt}, p.kind = "cbw"
  PROVE  UDISK_SCSI_CMD_Deal(d, p) \in DevType
<1> DEFINE a == Accept(d, p)
<1>1. p.cmd \in Command /\ p.tag \in Tag
  BY CbwFields
<1>2. a \in DevType
  BY <1>1 DEF Accept, DevType, Command
<1> HIDE DEF a
<1>3. CMD_RD_WR_Deal_Pre(a, p.cmd) \in DevType
  <2> DEFINE l == p.cmd.lba
             n == p.cmd.blocks * Packs
  <2>1. l \in Nat /\ p.cmd.blocks \in Nat /\ Packs \in Nat /\ 0 \in PackNo
    BY <1>1, SizesAssumption DEF Command, PackNo
  <2>2. n \in Nat
    BY <2>1
  <2> HIDE DEF n, l
  <2> DEFINE b == [a EXCEPT !.lba = l, !.len = n]
  <2>3. b \in DevType
    BY <1>2, <2>1, <2>2 DEF DevType
  <2> HIDE DEF b
  <2>4. [b EXCEPT !.pack = 0] \in DevType
    BY <2>1, <2>3 DEF DevType
  <2>5. CMD_RD_WR_Deal_Pre(a, p.cmd) = UDISK_CMD_Deal_Status([b EXCEPT !.pack = 0], 0)
    BY DEF UDISK_CMD_Deal_Status, CMD_RD_WR_Deal_Pre, b, l, n
  <2> QED
    BY <2>4, <2>5, StatusType
<1>4. Clamp(a) \in DevType
  BY <1>2 DEF Clamp, DevType
<1>5. [a EXCEPT !.up = TRUE] \in DevType /\ [d EXCEPT !.up = TRUE, !.down = TRUE] \in DevType
  BY <1>2 DEF DevType
<1> QED
  BY <1>2, <1>3, <1>4, <1>5, StatusType, FailType DEF UDISK_SCSI_CMD_Deal, a

LEMMA OutDealType ==
  ASSUME NEW d \in DevType, NEW p \in OutPacket \cup {NoPkt}
  PROVE  UDISK_Out_EP_Deal(d, p) \in DevType
<1>1. CASE p.kind = "cbw"
  <2>1. p.cmd \in Command
    BY <1>1, CbwFields
  <2>2. [d EXCEPT !.op = p.cmd.op] \in DevType
    BY <2>1 DEF DevType, Command
  <2> QED
    BY <1>1, <2>2, ScsiType, DownOneType, UpPackType, CswType DEF UDISK_Out_EP_Deal
<1>2. CASE p.kind # "cbw"
  BY <1>2, DownOneType DEF UDISK_Out_EP_Deal
<1> QED
  BY <1>1, <1>2

LEMMA EpStatType ==
  ASSUME NEW d \in DevType, NEW s \in Stat
  PROVE  [d EXCEPT !.ep4.stat = s] \in DevType
BY DEF DevType

LEMMA MacroType ==
  ASSUME NEW d \in DevType, NEW ep \in {"none", "EP4", "EP5"}, NEW want \in Stat
  PROVE  [d EXCEPT !.macro = Macro(ep, want)] \in DevType
<1>1. Macro(ep, want) \in [ep : {"none", "EP4", "EP5"}, want : Stat, word : SUBSET {1, 2}]
  BY DEF Macro
<1> QED
  BY <1>1 DEF DevType

\* A status and a toggle word make a status again.
LEMMA ToggleType ==
  ASSUME NEW s \in Stat, NEW word \in SUBSET {1, 2} PROVE Toggle(s, word) \in Stat
<1>1. Xor(Bits[s], word) \in SUBSET {1, 2}
  <2>1. Bits[s] \in SUBSET {1, 2}
    BY DEF Bits, Stat
  <2> QED
    BY <2>1 DEF Xor
<1>2. \A b \in SUBSET {1, 2} : \E t \in Stat : Bits[t] = b
  <2> TAKE b \in SUBSET {1, 2}
  <2>1. b = {} \/ b = {1} \/ b = {2} \/ b = {1, 2}
    OBVIOUS
  <2>2. Bits["DIS"] = {} /\ Bits["STALL"] = {1} /\ Bits["NAK"] = {2} /\ Bits["VALID"] = {1, 2}
    BY DEF Bits
  <2> QED
    BY <2>1, <2>2 DEF Stat
<1> QED
  BY <1>1, <1>2 DEF Toggle

\* A handler that stops before its macro.
LEMMA PausedType ==
  ASSUME dev \in DevType, NEW d \in DevType PROVE Paused(d) \in DevType
<1> DEFINE e == [d EXCEPT !.ep4.stat = dev.ep4.stat]
<1>1. dev.ep4.stat \in Stat /\ d.ep4.stat \in Stat
  BY DEF DevType
<1>2. e \in DevType
  BY <1>1, EpStatType
<1>3. [e EXCEPT !.macro = Macro("EP4", d.ep4.stat)] \in DevType
  BY <1>1, <1>2, MacroType
<1>4. Paused(d) = e \/ Paused(d) = [e EXCEPT !.macro = Macro("EP4", d.ep4.stat)]
  BY DEF Paused, DevType
<1> QED
  BY <1>2, <1>3, <1>4

LEMMA PacketFields ==
  ASSUME NEW p \in InPacket \cup {NoPkt}
  PROVE  (IF p.kind = "in" THEN p.val ELSE Erased) \in Content
BY DEF InPacket, In, Reply, Csw, NoPkt, Content

LEMMA IdleType == ASSUME NEW h \in HostType PROVE Idle(h) \in HostType
<1> DEFINE a == [h EXCEPT !.ph = "idle", !.prev = h.cmd, !.cmd = NoCmd]
           g == [a EXCEPT !.got = 0]
           b == [g EXCEPT !.sent = <<>>]
<1>1. a \in HostType
  BY DEF HostType
<1> HIDE DEF a
<1>2. g \in HostType
  BY <1>1 DEF HostType
<1> HIDE DEF g
<1>5. b \in HostType
  <2>1. << >> \in Seq(Data)
    OBVIOUS
  <2> QED
    BY <1>2, <2>1 DEF HostType
<1> HIDE DEF b
<1>3. [b EXCEPT !.last = Erased] \in HostType
  BY <1>5 DEF HostType, Content
<1>4. Idle(h) = [b EXCEPT !.last = Erased]
  BY DEF Idle, a, g, b
<1> QED
  BY <1>3, <1>4

LEMMA InitType == Init => TypeOK
<1> SUFFICES ASSUME Init PROVE TypeOK
  OBVIOUS
<1>1. dev \in DevType
  <2>1. 0 \in Tag /\ 0 \in PackNo
    BY TagsAssumption, SizesAssumption DEF Tag, PackNo
  <2>2. "TEST_READY" \in Ops
    BY DEF Ops, NoData
  <2>3. [p \in PackNo |-> Junk] \in [PackNo -> Content]
    BY DEF Content
  <2>4. \A v \in Data : [p \in PackNo |-> v] \in [PackNo -> Content]
    BY DEF Content
  <2>5. dev.flash \in [SectorNo -> [PackNo -> Content]]
    BY <2>4 DEF Init
  <2>6. dev.ep4 = [stat |-> "NAK", pkt |-> NoPkt] /\ dev.buff \in [PackNo -> Content]
        /\ dev.macro \in [ep : {"none", "EP4", "EP5"}, want : Stat, word : SUBSET {1, 2}]
    BY <2>3 DEF Init, NoMacro, Macro, Stat
  <2>7. /\ dev.up \in BOOLEAN /\ dev.down \in BOOLEAN /\ dev.csw \in BOOLEAN
        /\ dev.stuck \in BOOLEAN
        /\ dev.tag \in Tag /\ dev.status \in 0 .. 2 /\ dev.len \in Nat /\ dev.lba \in Nat
        /\ dev.pack \in PackNo /\ dev.op \in Ops
    <3>1. /\ dev.up \in BOOLEAN /\ dev.down \in BOOLEAN /\ dev.csw \in BOOLEAN
          /\ dev.stuck \in BOOLEAN
      BY DEF Init
    <3>2. dev.tag \in Tag /\ dev.pack \in PackNo /\ dev.op \in Ops
      BY <2>1, <2>2 DEF Init
    <3>3. dev.status \in 0 .. 2 /\ dev.len \in Nat /\ dev.lba \in Nat
      BY DEF Init
    <3> QED
      BY <3>1, <3>2, <3>3
  <2>8. dev = [up |-> dev.up, down |-> dev.down, csw |-> dev.csw, stuck |-> dev.stuck,
               tag |-> dev.tag, status |-> dev.status, len |-> dev.len, lba |-> dev.lba,
               pack |-> dev.pack, op |-> dev.op, buff |-> dev.buff, flash |-> dev.flash,
               ep4 |-> dev.ep4, macro |-> dev.macro]
    BY DEF Init
  <2> QED
    BY <2>1, <2>2, <2>5, <2>6, <2>7, <2>8 DEF DevType, Stat
<1>2. host \in HostType
  BY TagsAssumption DEF Init, HostType, Tag, Content
<1> QED
  BY <1>1, <1>2, ResetsAssumption DEF Init, TypeOK, Stat

LEMMA NextType == TypeOK /\ [Next]_vars => TypeOK'
<1> SUFFICES ASSUME TypeOK, [Next]_vars PROVE TypeOK'
  OBVIOUS
<1> USE DEF TypeOK, Stat
<1>1. CASE ThreadRecv
  BY <1>1 DEF ThreadRecv
<1>2. CASE ThreadInDeal
  <2> DEFINE d == UDISK_In_EP_Deal(Unset(dev))
  <2>1. Unset(dev) \in DevType
    BY EpStatType DEF Unset, Stat
  <2>2. d \in DevType
    BY <2>1, InDealType
  <2> HIDE DEF d
  <2>3. \/ dev' = UDISK_In_EP_Deal(dev) /\ pc' = AfterDeal(dev', "recv")
        \/ dev' = Paused(d) /\ pc' = PausedAt(d, "recv")
    BY <1>2 DEF ThreadInDeal, d
  <2>4. dev' \in DevType
    BY <2>2, <2>3, InDealType, PausedType
  <2> QED
    BY <1>2, <2>3, <2>4 DEF ThreadInDeal, AfterDeal, PausedAt
<1>3. CASE ThreadOutDeal
  <2> DEFINE d == UDISK_Out_EP_Deal(Unset(dev), rxBuff)
  <2>1. Unset(dev) \in DevType
    BY EpStatType DEF Unset, Stat
  <2>2. d \in DevType
    BY <2>1, OutDealType
  <2> HIDE DEF d
  <2>3. \/ dev' = UDISK_Out_EP_Deal(dev, rxBuff) /\ pc' = AfterDeal(dev', "rearm")
        \/ dev' = Paused(d) /\ pc' = PausedAt(d, "rearm")
    BY <1>3 DEF ThreadOutDeal, d
  <2>4. dev' \in DevType
    BY <2>2, <2>3, OutDealType, PausedType
  <2> QED
    BY <1>3, <2>3, <2>4 DEF ThreadOutDeal, AfterDeal, PausedAt
<1>4. CASE ThreadRearm
  BY <1>4, MacroType DEF ThreadRearm, Stat
<1>5. CASE StatusRead
  <2> DEFINE w == Xor(Bits[Status], Bits[dev.macro.want])
  <2>1. Status \in Stat /\ dev.macro.want \in Stat
    BY DEF Status, DevType
  <2>2. \A s \in Stat : Bits[s] \in SUBSET {1, 2}
    BY DEF Bits, Stat
  <2>4. w \in SUBSET {1, 2}
    BY <2>1, <2>2 DEF Xor
  <2> HIDE DEF w
  <2>3. [dev EXCEPT !.macro.word = w] \in DevType
    BY <2>4 DEF DevType
  <2> QED
    BY <1>5, <2>3 DEF StatusRead, w
<1>6. CASE StatusStore \/ StatusCheck
  <2>1. CASE StatusStore
    <3> DEFINE s == Toggle(Status, dev.macro.word)
    <3>1. s \in Stat
      BY ToggleType DEF Status, DevType
    <3> HIDE DEF s
    <3>2. [dev EXCEPT !.ep4.stat = s] \in DevType
      BY <3>1, EpStatType
    <3> QED
      BY <2>1, <3>1, <3>2 DEF StatusStore, s
  <2>2. CASE StatusCheck
    BY <2>2, MacroType DEF StatusCheck, AfterDeal, NoMacro, Stat
  <2> QED
    BY <1>6, <2>1, <2>2
<1>7. CASE EP4_IN_Callback
  BY <1>7 DEF EP4_IN_Callback, rt_mq_send
<1>8. CASE EP5_OUT_Callback
  BY <1>8 DEF EP5_OUT_Callback, rt_mq_send
<1>9. CASE \E c \in Cmds : HostCommand(c)
  <2> PICK c \in Cmds : HostCommand(c)
    BY <1>9
  <2> DEFINE t == NextTag(host.tag)
  <2>1. t \in Tag
    BY TagsAssumption DEF HostType, Tag, NextTag
  <2>2. c \in Command
    BY CmdsAssumption
  <2>3. DataPhase(c) \in {"in", "out", "csw"}
    BY <2>2 DEF DataPhase, Command
  <2>4. Cbw(c, t) \in OutPacket
    BY <2>1 DEF OutPacket
  <2> HIDE DEF t
  <2>5. /\ ep5' = [stat |-> "NAK", pkt |-> Cbw(c, t)] /\ ctr' = ctr \cup {"EP5"}
        /\ host' = [host EXCEPT !.ph = DataPhase(c), !.cmd = c, !.tag = t]
        /\ UNCHANGED <<dev, rxBuff, mq, pc, msg, resets>>
    BY DEF HostCommand, Deliver, t
  <2>6. host' \in HostType
    BY <2>1, <2>3, <2>5 DEF HostType
  <2> QED
    BY <2>4, <2>5, <2>6
<1>10. CASE \E v \in Data : HostOut(v)
  <2> PICK v \in Data : HostOut(v)
    BY <1>10
  <2>1. Out(v) \in OutPacket
    BY DEF OutPacket
  <2>2. Append(host.sent, v) \in Seq(Data)
    BY DEF HostType
  <2>3. host' \in HostType
    BY <2>2 DEF HostOut, HostType
  <2> QED
    BY <2>1, <2>3 DEF HostOut, Deliver
<1>11. CASE HostIn
  <2> DEFINE p == dev.ep4.pkt
             w == IF p.kind = "in" THEN p.val ELSE Erased
  <2>1. p \in InPacket \cup {NoPkt} /\ w \in Content
    BY PacketFields DEF DevType
  <2> HIDE DEF p, w
  <2>2. host' \in HostType
    <3>1. host' = [host EXCEPT !.got  = @ + 1, !.last = w,
                               !.ph   = IF Short(p) \/ host.got + 1 = host.cmd.packs
                                        THEN "csw" ELSE @]
      BY <1>11 DEF HostIn, p, w
    <3>2. [host EXCEPT !.got = @ + 1] \in HostType
      <4>1. host.got + 1 \in Nat
        BY DEF HostType
      <4> QED
        BY <4>1 DEF HostType
    <3> DEFINE g == [host EXCEPT !.got = @ + 1]
               h == [g EXCEPT !.last = w]
    <3> HIDE DEF g
    <3>3. h \in HostType
      BY <2>1, <3>2 DEF HostType, g
    <3> HIDE DEF h
    <3>4. host' = h \/ host' = [h EXCEPT !.ph = "csw"]
      BY <3>1 DEF g, h, HostType
    <3> QED
      BY <3>3, <3>4 DEF HostType
  <2>3. dev' \in DevType
    BY <1>11, EpStatType DEF HostIn, Take
  <2> QED
    BY <1>11, <2>2, <2>3 DEF HostIn, Take
<1>12. CASE HostStatus
  <2>1. host' \in HostType
    <3>1. [host EXCEPT !.ph = "lost"] \in HostType
      BY DEF HostType
    <3> QED
      BY <1>12, <3>1, IdleType DEF HostStatus
  <2>2. dev' \in DevType
    BY <1>12, EpStatType DEF HostStatus, Take
  <2> QED
    BY <1>12, <2>1, <2>2 DEF HostStatus, Take
<1>13. CASE HostClearFeature
  BY <1>13, EpStatType DEF HostClearFeature, HostType
<1>14. CASE BusReset
  <2>1. host' \in HostType
    BY <1>14, IdleType DEF BusReset
  <2>2. dev' \in DevType
    BY <1>14, EpStatType DEF BusReset
  <2> QED
    BY <1>14, <2>1, <2>2, ResetsAssumption DEF BusReset
<1>15. CASE UNCHANGED vars
  BY <1>15 DEF vars
<1> QED
  BY <1>1, <1>2, <1>3, <1>4, <1>5, <1>6, <1>7, <1>8, <1>9, <1>10, <1>11, <1>12, <1>13,
     <1>14, <1>15 DEF Next, Thread, Isr

\* TypeOK: every handler, callback and bus event keeps the flags, the sector
\* counter and the endpoint registers in range, whatever the command set, the
\* number of bus resets, and whether or not the status macros race.
THEOREM TypeCorrect == Spec => []TypeOK
BY InitType, NextType, PTL DEF Spec

-----------------------------------------------------------------------------
(* The message queue.                                                      *)

LEMMA AppendPair ==
  ASSUME NEW S, NEW a \in S, NEW b \in S PROVE Append(<<a>>, b) = <<a, b>>
<1> DEFINE s == Append(<<a>>, b)
           t == <<a, b>>
<1>1. <<a>> \in Seq(S) /\ t \in Seq(S) /\ Len(t) = 2 /\ t[1] = a /\ t[2] = b
  OBVIOUS
<1>2. s \in Seq(S) /\ Len(s) = 2 /\ s[1] = a /\ s[2] = b
  BY <1>1
<1>3. \A i \in 1 .. 2 : i = 1 \/ i = 2
  OBVIOUS
<1> HIDE DEF s, t
<1>4. \A i \in 1 .. Len(s) : s[i] = t[i]
  BY <1>1, <1>2, <1>3
<1>5. s = t
  BY <1>1, <1>2, <1>4, SeqEqual
<1> QED
  BY <1>5 DEF s, t

LEMMA HasFacts ==
  /\ ~HasIn(<<>>) /\ HasIn(<<"In">>) /\ ~HasIn(<<"Out">>)
  /\ HasIn(<<"In", "Out">>) /\ HasIn(<<"Out", "In">>)
  /\ ~HasOut(<<>>) /\ ~HasOut(<<"In">>) /\ HasOut(<<"Out">>)
  /\ HasOut(<<"In", "Out">>) /\ HasOut(<<"Out", "In">>)
  /\ <<"In", "Out">> # <<"Out", "In">>
BY DEF HasIn, HasOut

\* Sending a message of which the queue holds none finds room.
LEMMA SendFacts ==
  ASSUME NEW q \in Queues, NEW m \in {"In", "Out"},
         m = "In" => ~HasIn(q), m = "Out" => ~HasOut(q)
  PROVE  /\ Len(q) < MqSize /\ Append(q, m) \in Queues
         /\ HasIn(Append(q, m)) <=> (m = "In" \/ HasIn(q))
         /\ HasOut(Append(q, m)) <=> (m = "Out" \/ HasOut(q))
         /\ Append(q, m) = <<"Out", "In">> <=> (m = "In" /\ HasOut(q))
<1>1. CASE q = <<>>
  BY <1>1, MqAssumption DEF HasIn, HasOut, Queues
<1>2. CASE q = <<"In">>
  <2>1. m = "Out" /\ Append(q, m) = <<"In", "Out">>
    BY <1>2, HasFacts, AppendPair
  <2>2. Len(q) < MqSize
    BY <1>2, MqAssumption
  <2> QED
    BY <1>2, <2>1, <2>2, HasFacts DEF Queues
<1>3. CASE q = <<"Out">>
  <2>1. m = "In" /\ Append(q, m) = <<"Out", "In">>
    BY <1>3, HasFacts, AppendPair
  <2>2. Len(q) < MqSize
    BY <1>3, MqAssumption
  <2> QED
    BY <1>3, <2>1, <2>2, HasFacts DEF Queues
<1>4. q \in {<<>>, <<"In">>, <<"Out">>}
  BY HasFacts DEF Queues
<1> QED
  BY <1>1, <1>2, <1>3, <1>4

\* Receiving takes away the only message of its kind.
LEMMA RecvFacts ==
  ASSUME NEW q \in Queues, q # <<>>
  PROVE  /\ Head(q) \in {"In", "Out"} /\ Tail(q) \in Queues \ {<<"Out", "In">>}
         /\ HasIn(q) <=> (Head(q) = "In" \/ HasIn(Tail(q)))
         /\ HasOut(q) <=> (Head(q) = "Out" \/ HasOut(Tail(q)))
         /\ Head(q) = "In" => ~HasIn(Tail(q))
         /\ Head(q) = "Out" => ~HasOut(Tail(q)) /\ (HasIn(Tail(q)) <=> q = <<"Out", "In">>)
<1>1. CASE q = <<"In">>
  BY <1>1 DEF HasIn, HasOut, Queues
<1>2. CASE q = <<"Out">>
  BY <1>2 DEF HasIn, HasOut, Queues
<1>3. CASE q = <<"In", "Out">>
  BY <1>3 DEF HasIn, HasOut, Queues
<1>4. CASE q = <<"Out", "In">>
  BY <1>4 DEF HasIn, HasOut, Queues
<1> QED
  BY <1>1, <1>2, <1>3, <1>4 DEF Queues

-----------------------------------------------------------------------------
(* What the handlers do to the flags and to EP4.                           *)

Quiet(d) == ~d.up /\ ~d.down /\ ~d.csw

LEMMA AdvanceFrame ==
  ASSUME NEW d \in DevType
  PROVE  \A f \in {"up", "down", "csw", "stuck", "tag", "ep4", "status"} : Advance(d)[f] = d[f]
BY DEF Advance, DevType

LEMMA UpCswEffect ==
  ASSUME NEW d \in DevType
  PROVE  LET e == UDISK_Up_CSW(d)
         IN Quiet(e) /\ e.ep4 = [stat |-> "VALID", pkt |-> Csw(d.tag, d.status)]
              /\ e.tag = d.tag /\ e.stuck = d.stuck /\ e.status = d.status
BY DEF UDISK_Up_CSW, Usb_Send, Quiet, DevType

LEMMA UpPackEffect ==
  ASSUME NEW d \in DevType
  PROVE  LET e == UpPack(d)
         IN /\ e.ep4.stat = "VALID" /\ e.ep4.pkt.kind # "csw"
            /\ e.tag = d.tag /\ e.stuck = d.stuck /\ e.down = d.down
<1>1. CASE d.op = "READ10"
  <2> DEFINE s == Usb_Send(d, In(ReadPack(d)))
             n == LessPack(d.len)
  <2>1. s \in DevType
    <3>1. ReadPack(d) \in Content
      BY SizesAssumption DEF ReadPack, DevType, SectorNo, PackNo
    <3> QED
      BY <3>1, SendType DEF InPacket
  <2>2. /\ s.ep4 = [stat |-> "VALID", pkt |-> In(ReadPack(d))]
        /\ s.tag = d.tag /\ s.stuck = d.stuck /\ s.down = d.down
    BY DEF Usb_Send, DevType
  <2> HIDE DEF s, n
  <2>3. Advance(s) \in DevType
    BY <2>1, AdvanceType
  <2>4. Advance(s).ep4 = s.ep4 /\ Advance(s).tag = s.tag /\ Advance(s).stuck = s.stuck
          /\ Advance(s).down = s.down
    BY <2>1, AdvanceFrame
  <2>5. UpPack(d) = [Advance(s) EXCEPT !.len = n, !.up = @ /\ n # 0]
    BY <1>1 DEF UpPack, UDISK_Up_OnePack, s, n
  <2>6. /\ UpPack(d).ep4 = s.ep4 /\ UpPack(d).tag = s.tag /\ UpPack(d).stuck = s.stuck
        /\ UpPack(d).down = s.down
    BY <2>3, <2>4, <2>5 DEF DevType
  <2> QED
    BY <2>2, <2>6 DEF In
<1>2. CASE d.op # "READ10"
  BY <1>2 DEF UpPack, UDISK_Bulk_UpData, Usb_Send, Reply, DevType
<1> QED
  BY <1>1, <1>2

LEMMA InDealEffect ==
  ASSUME NEW d \in DevType
  PROVE  LET e == UDISK_In_EP_Deal(d)
         IN /\ e.tag = d.tag /\ e.stuck = d.stuck
            /\ \/ e = d
               \/ ~Quiet(d) /\ e.ep4.stat = "VALID" /\ e.ep4.pkt.kind # "csw" /\ e.down = d.down
               \/ ~Quiet(d) /\ Quiet(e) /\ e.ep4 = [stat |-> "VALID", pkt |-> Csw(d.tag, d.status)]
<1>1. CASE d.up
  BY <1>1, UpPackEffect DEF UDISK_In_EP_Deal, Quiet
<1>2. CASE ~d.up /\ d.csw
  BY <1>2, UpCswEffect DEF UDISK_In_EP_Deal, Quiet
<1>3. CASE ~d.up /\ ~d.csw
  BY <1>3 DEF UDISK_In_EP_Deal
<1> QED
  BY <1>1, <1>2, <1>3 DEF DevType

LEMMA DownOneEffect ==
  ASSUME NEW d \in DevType, NEW p \in OutPacket \cup {NoPkt}
  PROVE  LET e == UDISK_Down_OnePack(d, p)
         IN /\ e.tag = d.tag /\ e.stuck = d.stuck
            /\ \/ e.ep4 = d.ep4 /\ e.down = d.down /\ e.up = d.up /\ e.csw = d.csw
               \/ Quiet(e) /\ \E s : e.ep4 = [stat |-> "VALID", pkt |-> Csw(d.tag, s)]
<1> DEFINE c == IF d.pack = 0 THEN Erase(d) ELSE d
           n == LessPack(d.len)
           v == IF p.kind = "out" THEN p.val ELSE Junk
           f == [c EXCEPT !.buff[d.pack] = v, !.len = n]
           w == WriteSector(f)
           u == UDISK_Up_CSW(w)
           Same(a, b) == /\ a.tag = b.tag /\ a.stuck = b.stuck /\ a.ep4 = b.ep4
                         /\ a.down = b.down /\ a.up = b.up /\ a.csw = b.csw
<1>1. c \in DevType /\ n \in Nat /\ v \in Content
  BY EraseType, LessPackType DEF DevType, OutPacket, Out, Cbw, NoPkt, Content
<1>2. Same(c, d)
  BY DEF Erase, DevType
<1> HIDE DEF c, n, v
<1>3. f \in DevType
  BY <1>1 DEF DevType
<1>4. Same(f, c)
  BY <1>1 DEF DevType
<1> HIDE DEF f
<1>5. w \in DevType
  BY <1>3, WriteType
<1>6. Same(w, f)
  BY <1>3 DEF WriteSector, DevType
<1> HIDE DEF w
<1>7. u \in DevType
  BY <1>5, CswType
<1>8. Quiet(u) /\ u.ep4 = [stat |-> "VALID", pkt |-> Csw(w.tag, w.status)]
        /\ u.tag = w.tag /\ u.stuck = w.stuck
  BY <1>5, UpCswEffect
<1> HIDE DEF u
<1>9. Same(Advance(f), f) /\ Same(Advance(w), w) /\ Same(Advance(u), u)
  BY <1>3, <1>5, <1>7, AdvanceFrame
<1>10. UDISK_Down_OnePack(d, p) \in {Advance(f), Advance(w), Advance(u)}
  BY DEF UDISK_Down_OnePack, c, n, v, f, w, u
<1> QED
  BY <1>2, <1>4, <1>6, <1>8, <1>9, <1>10 DEF Quiet

LEMMA ScsiEffect ==
  ASSUME NEW d \in DevType, Quiet(d), ~d.stuck,
         NEW p \in OutPacket \cup {NoPkt}, p.kind = "cbw"
  PROVE  LET c == UDISK_SCSI_CMD_Deal(d, p)
         IN /\ c.ep4.pkt = d.ep4.pkt
            /\ c.stuck => c.down
            /\ ~c.stuck => c.tag = p.tag
            /\ c.down /\ ~c.stuck => c.ep4 = d.ep4
<1> DEFINE a == Accept(d, p)
           Like(x) == x.ep4 = d.ep4 /\ x.stuck = FALSE /\ x.tag = p.tag
<1>1. p.cmd \in Command /\ p.tag \in Tag
  BY CbwFields
<1>2. a \in DevType
  BY <1>1 DEF Accept, DevType, Command
<1>3. Like(a)
  BY <1>1 DEF Accept, DevType
<1>4. Like(Clamp(a)) /\ Like(CMD_RD_WR_Deal_Pre(a, p.cmd))
  BY <1>2, <1>3 DEF Clamp, CMD_RD_WR_Deal_Pre, DevType
<1>5. \A x \in DevType, s \in 0 .. 2 : Like(x) => Like(UDISK_CMD_Deal_Status(x, s))
  BY DEF UDISK_CMD_Deal_Status, DevType
<1>6. \A x \in DevType : x.stuck = FALSE =>
        LET e == UDISK_CMD_Deal_Fail(x)
        IN e.ep4.pkt = x.ep4.pkt /\ e.tag = x.tag /\ e.down = x.down /\ e.stuck = x.down
  BY DEF UDISK_CMD_Deal_Fail, DevType
<1>7. Clamp(a) \in DevType
  BY <1>2 DEF Clamp, DevType
<1>8. CASE p.cmd.op = "BAD_SIG"
  <2> DEFINE x == [d EXCEPT !.up = TRUE, !.down = TRUE]
             y == UDISK_CMD_Deal_Status(x, 2)
  <2>1. x \in DevType
    BY DEF DevType
  <2>2. y \in DevType
    BY <2>1, StatusType
  <2>3. y.stuck = FALSE /\ y.down = TRUE /\ y.ep4 = d.ep4
    BY DEF UDISK_CMD_Deal_Status, DevType
  <2>4. UDISK_SCSI_CMD_Deal(d, p) = UDISK_CMD_Deal_Fail(y)
    BY <1>8 DEF UDISK_SCSI_CMD_Deal, Modes, RdWr, Info, NoData
  <2> HIDE DEF y
  <2> QED
    BY <1>6, <2>2, <2>3, <2>4
<1>9. CASE p.cmd.op \in Modes \cup RdWr \cup Info \cup NoData \cup {"REQUEST_SENSE"}
  <2> HIDE DEF a
  <2>1. Like(UDISK_CMD_Deal_Status(Clamp(a), 0)) /\ Like(UDISK_CMD_Deal_Status(a, 0))
    BY <1>2, <1>3, <1>4, <1>5, <1>7
  <2>2. UDISK_SCSI_CMD_Deal(d, p) \in
          {CMD_RD_WR_Deal_Pre(a, p.cmd), Clamp(a), UDISK_CMD_Deal_Status(Clamp(a), 0),
           UDISK_CMD_Deal_Status(a, 0)}
    BY <1>9 DEF UDISK_SCSI_CMD_Deal, a, Modes, RdWr, Info, NoData
  <2> QED
    BY <1>4, <2>1, <2>2
<1>10. CASE p.cmd.op \notin Modes \cup RdWr \cup Info \cup NoData \cup {"REQUEST_SENSE", "BAD_SIG"}
  <2> DEFINE x == IF p.cmd.op = "MODE_SENSE2_PAGE" THEN a ELSE [a EXCEPT !.up = TRUE]
             y == UDISK_CMD_Deal_Status(x, 1)
  <2> HIDE DEF a
  <2>1. x \in DevType /\ Like(x)
    BY <1>2, <1>3 DEF DevType
  <2>2. UDISK_SCSI_CMD_Deal(d, p) = UDISK_CMD_Deal_Fail(y)
    <3>1. CASE p.cmd.op = "MODE_SENSE2_PAGE"
      BY <1>10, <3>1 DEF UDISK_SCSI_CMD_Deal, a
    <3>2. CASE p.cmd.op # "MODE_SENSE2_PAGE"
      BY <1>10, <3>2 DEF UDISK_SCSI_CMD_Deal, a
    <3> QED
      BY <3>1, <3>2
  <2> HIDE DEF x
  <2>3. y \in DevType /\ Like(y)
    BY <2>1, <1>5, StatusType
  <2> HIDE DEF y
  <2> QED
    BY <1>6, <2>2, <2>3
<1> QED
  BY <1>8, <1>9, <1>10

\* A wrapper handled on a quiet device.
LEMMA CbwEffect ==
  ASSUME NEW d \in DevType, Quiet(d), ~d.stuck,
         NEW p \in OutPacket \cup {NoPkt}, p.kind = "cbw"
  PROVE  LET e == UDISK_Out_EP_Deal(d, p)
         IN \/ e.stuck /\ e.ep4.pkt = d.ep4.pkt
            \/ /\ ~e.stuck /\ e.tag = p.tag
               /\ \/ e.ep4 = d.ep4
                  \/ ~e.down /\ (e.ep4.pkt.kind # "csw" \/ e.ep4.pkt = d.ep4.pkt)
                  \/ Quiet(e) /\ \E s : e.ep4 = [stat |-> "VALID", pkt |-> Csw(p.tag, s)]
<1> DEFINE o == [d EXCEPT !.op = p.cmd.op]
           c == UDISK_SCSI_CMD_Deal(o, p)
<1>1. o \in DevType
  BY CbwFields DEF DevType, Command
<1>2. Quiet(o) /\ ~o.stuck /\ o.ep4 = d.ep4
  BY DEF Quiet, DevType
<1>3. UDISK_Out_EP_Deal(d, p) =
        IF c.down THEN c ELSE IF c.up THEN UpPack(c) ELSE IF c.status = 0 THEN UDISK_Up_CSW(c) ELSE c
  BY DEF UDISK_Out_EP_Deal, Quiet
<1> HIDE DEF o
<1>4. c \in DevType
  BY <1>1, ScsiType
<1>5. c.ep4.pkt = d.ep4.pkt /\ (c.stuck => c.down) /\ (~c.stuck => c.tag = p.tag)
        /\ (c.down /\ ~c.stuck => c.ep4 = d.ep4)
  BY <1>1, <1>2, ScsiEffect
<1> HIDE DEF c
<1>6. CASE c.down
  BY <1>3, <1>5, <1>6
<1>7. CASE ~c.down /\ c.up
  BY <1>3, <1>4, <1>5, <1>7, UpPackEffect
<1>8. CASE ~c.down /\ ~c.up /\ c.status = 0
  BY <1>3, <1>4, <1>5, <1>8, UpCswEffect
<1>9. CASE ~c.down /\ ~c.up /\ c.status # 0
  BY <1>3, <1>5, <1>9
<1> QED
  BY <1>6, <1>7, <1>8, <1>9

-----------------------------------------------------------------------------
(* The handshake is inductive: one step per action.                        *)

LEMMA HandshakeInit == Init => Handshake
<1> SUFFICES ASSUME Init PROVE Handshake
  OBVIOUS
<1>1. TypeOK
  BY InitType
<1>2. /\ mq = <<>> /\ pc = "recv" /\ ctr = {} /\ host.ph = "idle" /\ host.tag = 0
      /\ dev.tag = 0 /\ dev.ep4 = [stat |-> "NAK", pkt |-> NoPkt] /\ FlagsClear
      /\ ~dev.stuck
  BY DEF Init, FlagsClear
<1> QED
  BY <1>1, <1>2, HasFacts DEF Handshake, Queues, OneInToken, OneOutToken, WrapperFirst, PhasesAgree,
     Pending, NoPkt

LEMMA HandshakeNext ==
  ASSUME MaxResets = 0, EpRace = FALSE, Handshake, [Next]_vars
  PROVE  Handshake'
<1>1. TypeOK /\ TypeOK'
  BY NextType DEF Handshake
<1>2. dev \in DevType /\ rxBuff \in OutPacket \cup {NoPkt} /\ mq \in Queues
  BY <1>1 DEF Handshake, TypeOK
<1> DEFINE Rest == /\ mq \in Queues /\ pc \in {"recv", "deal", "rearm", "stuck"}
                   /\ (dev.stuck <=> pc = "stuck")
                   /\ OneInToken /\ OneOutToken /\ WrapperFirst /\ PhasesAgree
<1>3. SUFFICES Rest'
  BY <1>1 DEF Handshake
<1> USE DEF Handshake, Pending, Packet, FlagsClear
<1>4. CASE ThreadRecv
  <2>1. mq # <<>> /\ msg' = Head(mq) /\ mq' = Tail(mq) /\ pc = "recv" /\ pc' = "deal"
        /\ UNCHANGED <<dev, ep5, ctr, rxBuff, host, resets>>
    BY <1>4 DEF ThreadRecv
  <2>2. /\ msg' \in {"In", "Out"} /\ mq' \in Queues \ {<<"Out", "In">>}
        /\ HasIn(mq) <=> (msg' = "In" \/ HasIn(mq'))
        /\ HasOut(mq) <=> (msg' = "Out" \/ HasOut(mq'))
        /\ msg' = "In" => ~HasIn(mq')
        /\ msg' = "Out" => ~HasOut(mq') /\ (HasIn(mq') <=> mq = <<"Out", "In">>)
    BY <1>2, <2>1, RecvFacts
  <2> HIDE DEF Queues
  <2>3. OneInToken'
    BY <2>1, <2>2 DEF OneInToken
  <2>4. OneOutToken'
    BY <2>1, <2>2 DEF OneOutToken
  <2>5. WrapperFirst'
    BY <2>1, <2>2 DEF WrapperFirst
  <2>6. PhasesAgree'
    BY <2>1, <2>2 DEF PhasesAgree
  <2> QED
    BY <2>1, <2>2, <2>3, <2>4, <2>5, <2>6
<1>5. CASE ThreadInDeal
  <2>1. /\ pc = "deal" /\ msg = "In" /\ dev' = UDISK_In_EP_Deal(dev)
        /\ pc' = AfterDeal(dev', "recv")
        /\ UNCHANGED <<ep5, ctr, rxBuff, mq, msg, host, resets>>
    BY <1>5 DEF ThreadInDeal
  <2>2. /\ dev'.tag = dev.tag /\ dev'.stuck = dev.stuck
        /\ \/ dev' = dev
           \/ /\ ~FlagsClear /\ dev'.ep4.stat = "VALID" /\ dev'.ep4.pkt.kind # "csw"
              /\ dev'.down = dev.down
           \/ /\ ~FlagsClear /\ FlagsClear'
              /\ dev'.ep4 = [stat |-> "VALID", pkt |-> Csw(dev.tag, dev.status)]
    BY <1>2, <2>1, InDealEffect DEF Quiet
  <2>3. ~dev'.stuck /\ pc' = "recv"
    BY <2>1, <2>2 DEF AfterDeal
  <2>4. OneInToken'
    BY <2>1, <2>3 DEF OneInToken
  <2>5. OneOutToken'
    BY <2>1, <2>3 DEF OneOutToken
  <2>6. WrapperFirst'
    BY <2>1, <2>2, <2>3 DEF WrapperFirst
  <2>7. PhasesAgree'
    BY <2>1, <2>2, <2>3 DEF PhasesAgree, WrapperFirst, Csw
  <2> QED
    BY <2>1, <2>3, <2>4, <2>5, <2>6, <2>7
<1>6. CASE ThreadOutDeal
  <2>1. /\ pc = "deal" /\ msg = "Out" /\ dev' = UDISK_Out_EP_Deal(dev, rxBuff)
        /\ pc' = AfterDeal(dev', "rearm")
        /\ UNCHANGED <<ep5, ctr, rxBuff, mq, msg, host, resets>>
    BY <1>6 DEF ThreadOutDeal
  <2>2. (dev'.stuck => pc' = "stuck") /\ (~dev'.stuck => pc' = "rearm")
    BY <2>1 DEF AfterDeal
  <2>3. dev'.stuck \in BOOLEAN /\ pc' \in {"rearm", "stuck"} /\ ~dev.stuck
    BY <1>1, <2>1, <2>2 DEF TypeOK, DevType
  <2>4. "EP5" \notin ctr /\ ~HasOut(mq) /\ ep5.stat # "VALID" /\ Packet = rxBuff
    BY <2>1 DEF OneOutToken
  <2>5. CASE dev.tag = host.tag
    <3>1. rxBuff.kind = "out"
      BY <2>1, <2>4, <2>5 DEF WrapperFirst
    <3>2. \/ dev' = dev
          \/ dev.down /\ dev' = UDISK_Down_OnePack(dev, rxBuff)
      BY <2>1, <3>1 DEF UDISK_Out_EP_Deal
    <3>3. CASE dev' = dev
      <4>1. OneInToken'
        BY <2>1, <2>3, <3>3 DEF OneInToken
      <4>2. OneOutToken'
        BY <2>1, <2>3, <2>4, <3>3 DEF OneOutToken
      <4>3. WrapperFirst'
        BY <2>1, <2>3, <2>4, <2>5, <3>3 DEF WrapperFirst
      <4>4. PhasesAgree'
        BY <2>1, <2>3, <3>3 DEF PhasesAgree
      <4> QED
        BY <2>1, <2>2, <2>3, <4>1, <4>2, <4>3, <4>4
    <3>4. CASE dev.down /\ dev' = UDISK_Down_OnePack(dev, rxBuff)
      <4>1. /\ dev'.tag = dev.tag /\ ~dev'.stuck
            /\ \/ /\ dev'.ep4 = dev.ep4 /\ dev'.down = dev.down /\ dev'.up = dev.up
                  /\ dev'.csw = dev.csw
               \/ FlagsClear' /\ \E s : dev'.ep4 = [stat |-> "VALID", pkt |-> Csw(dev.tag, s)]
        BY <1>2, <2>3, <3>4, DownOneEffect DEF Quiet
      <4>2. pc' = "rearm"
        BY <2>2, <4>1
      <4>3. OneInToken'
        BY <2>1, <3>4, <4>2 DEF OneInToken, PhasesAgree
      <4>4. OneOutToken'
        BY <2>1, <2>4, <4>2 DEF OneOutToken
      <4>5. WrapperFirst'
        BY <2>1, <2>4, <2>5, <4>1, <4>2 DEF WrapperFirst
      <4>6. PhasesAgree'
        BY <2>1, <2>5, <3>4, <4>1, <4>2 DEF PhasesAgree, Csw
      <4> QED
        BY <2>1, <4>1, <4>2, <4>3, <4>4, <4>5, <4>6
    <3> QED
      BY <3>2, <3>3, <3>4
  <2>6. CASE dev.tag # host.tag
    <3>1. /\ rxBuff = Cbw(host.cmd, host.tag) /\ FlagsClear /\ dev.ep4.stat = "NAK"
          /\ host.ph # "idle" /\ "EP4" \notin ctr /\ ~HasIn(mq)
      BY <2>1, <2>4, <2>6 DEF WrapperFirst
    <3>2. rxBuff.kind = "cbw" /\ rxBuff.tag = host.tag
      BY <3>1 DEF Cbw
    <3>3. \/ dev'.stuck /\ dev'.ep4.pkt = dev.ep4.pkt
          \/ /\ ~dev'.stuck /\ dev'.tag = host.tag
             /\ \/ dev'.ep4 = dev.ep4
                \/ ~dev'.down /\ (dev'.ep4.pkt.kind # "csw" \/ dev'.ep4.pkt = dev.ep4.pkt)
                \/ FlagsClear' /\ \E s : dev'.ep4 = [stat |-> "VALID", pkt |-> Csw(host.tag, s)]
      BY <1>2, <2>1, <2>3, <3>1, <3>2, CbwEffect DEF Quiet
    <3>4. dev.ep4.pkt.kind = "csw" => dev.ep4.pkt.tag # host.tag
      BY <2>6 DEF PhasesAgree
    <3>5. OneInToken'
      BY <2>1, <2>3, <3>1 DEF OneInToken
    <3>6. OneOutToken'
      BY <2>1, <2>3, <2>4 DEF OneOutToken
    <3>7. WrapperFirst'
      BY <2>1, <2>2, <2>3, <2>4, <3>3 DEF WrapperFirst
    <3>8. PhasesAgree'
      BY <2>1, <2>2, <2>3, <3>1, <3>3, <3>4 DEF PhasesAgree, Csw
    <3> QED
      BY <2>1, <2>2, <2>3, <3>5, <3>6, <3>7, <3>8
  <2> QED
    BY <2>5, <2>6
<1>7. CASE ThreadRearm
  <2>1. /\ pc = "rearm" /\ ep5' = [ep5 EXCEPT !.stat = "VALID"] /\ pc' = "recv"
        /\ UNCHANGED <<dev, ctr, rxBuff, mq, msg, host, resets>>
    BY <1>7 DEF ThreadRearm
  <2>2. "EP5" \notin ctr /\ ~HasOut(mq)
    BY <2>1 DEF OneOutToken
  <2>3. dev.tag = host.tag
    BY <2>1, <2>2 DEF WrapperFirst
  <2>4. OneInToken' /\ OneOutToken'
    BY <2>1, <2>2 DEF OneInToken, OneOutToken
  <2>5. WrapperFirst'
    BY <2>1, <2>2, <2>3 DEF WrapperFirst
  <2>6. PhasesAgree'
    BY <2>1 DEF PhasesAgree
  <2> QED
    BY <2>1, <2>4, <2>5, <2>6
<1>8. CASE StatusRead \/ StatusStore \/ StatusCheck
  BY <1>8 DEF StatusRead, StatusStore, StatusCheck
<1>9. CASE EP4_IN_Callback
  <2>1. /\ "EP4" \in ctr /\ ctr' = ctr \ {"EP4"} /\ rt_mq_send("In")
        /\ UNCHANGED <<dev, ep5, rxBuff, pc, msg, host, resets>>
    BY <1>9 DEF EP4_IN_Callback
  <2>2. ~HasIn(mq) /\ ~(pc = "deal" /\ msg = "In") /\ dev.ep4.stat = "NAK"
    BY <2>1 DEF OneInToken
  <2>3. /\ mq' \in Queues /\ HasIn(mq') /\ (HasOut(mq') <=> HasOut(mq))
        /\ mq' = <<"Out", "In">> <=> HasOut(mq)
    BY <1>2, <2>1, <2>2, SendFacts DEF rt_mq_send
  <2> HIDE DEF Queues
  <2>4. OneInToken' /\ OneOutToken'
    BY <2>1, <2>2, <2>3 DEF OneInToken, OneOutToken
  <2>5. WrapperFirst'
    BY <2>1, <2>2, <2>3 DEF WrapperFirst
  <2>6. PhasesAgree'
    BY <2>1, <2>2, <2>3 DEF PhasesAgree
  <2> QED
    BY <2>1, <2>3, <2>4, <2>5, <2>6
<1>10. CASE EP5_OUT_Callback
  <2>1. /\ "EP5" \in ctr /\ "EP4" \notin ctr /\ ctr' = ctr \ {"EP5"} /\ rxBuff' = ep5.pkt
        /\ rt_mq_send("Out") /\ UNCHANGED <<dev, ep5, pc, msg, host, resets>>
    BY <1>10 DEF EP5_OUT_Callback
  <2>2. ~HasOut(mq) /\ ~(pc = "deal" /\ msg = "Out") /\ pc \notin {"rearm", "stuck"}
          /\ ep5.stat # "VALID"
    BY <2>1 DEF OneOutToken
  <2>3. /\ mq' \in Queues /\ HasOut(mq') /\ (HasIn(mq') <=> HasIn(mq))
        /\ mq' # <<"Out", "In">>
    BY <1>2, <2>1, <2>2, SendFacts DEF rt_mq_send
  <2> HIDE DEF Queues
  <2>4. OneInToken' /\ OneOutToken'
    BY <2>1, <2>2, <2>3 DEF OneInToken, OneOutToken
  <2>5. WrapperFirst'
    BY <2>1, <2>2, <2>3 DEF WrapperFirst
  <2>6. PhasesAgree'
    BY <2>1, <2>2, <2>3 DEF PhasesAgree
  <2> QED
    BY <2>1, <2>3, <2>4, <2>5, <2>6
<1>11. CASE \E c \in Cmds : HostCommand(c)
  <2> PICK c \in Cmds : HostCommand(c)
    BY <1>11
  <2> DEFINE t == NextTag(host.tag)
  <2>1. /\ host.ph = "idle" /\ ep5.stat = "VALID" /\ ep5' = [stat |-> "NAK", pkt |-> Cbw(c, t)]
        /\ ctr' = ctr \cup {"EP5"}
        /\ host' = [host EXCEPT !.ph = DataPhase(c), !.cmd = c, !.tag = t]
        /\ UNCHANGED <<dev, rxBuff, mq, pc, msg, resets>>
    BY DEF HostCommand, Deliver
  <2>2. t # host.tag
    BY <1>1, TagsAssumption DEF TypeOK, HostType, Tag, NextTag
  <2> HIDE DEF t
  <2>3. DataPhase(c) # "idle"
    BY CmdsAssumption DEF DataPhase, Command
  <2>4. host'.ph # "idle" /\ host'.cmd = c /\ host'.tag = t
    BY <1>1, <2>1, <2>3 DEF TypeOK, HostType
  <2>5. /\ "EP5" \notin ctr /\ ~HasOut(mq) /\ pc \notin {"rearm", "stuck"}
        /\ ~(pc = "deal" /\ msg = "Out")
    BY <2>1 DEF OneOutToken
  <2>6. /\ FlagsClear /\ dev.ep4.stat = "NAK" /\ dev.tag = host.tag
        /\ dev.ep4.pkt.kind = "csw" => dev.ep4.pkt.tag = host.tag
    BY <2>1 DEF PhasesAgree
  <2>7. OneInToken' /\ OneOutToken'
    BY <2>1, <2>5 DEF OneInToken, OneOutToken
  <2>8. WrapperFirst'
    BY <2>1, <2>2, <2>4, <2>5, <2>6 DEF WrapperFirst
  <2>9. PhasesAgree'
    BY <2>1, <2>2, <2>4, <2>6 DEF PhasesAgree
  <2> QED
    BY <2>1, <2>7, <2>8, <2>9
<1>12. CASE \E v \in Data : HostOut(v)
  <2> PICK v \in Data : HostOut(v)
    BY <1>12
  <2>1. /\ host.ph = "out" /\ ep5.stat = "VALID" /\ ep5' = [stat |-> "NAK", pkt |-> Out(v)]
        /\ ctr' = ctr \cup {"EP5"} /\ UNCHANGED <<dev, rxBuff, mq, pc, msg, resets>>
    BY DEF HostOut, Deliver
  <2>2. host'.tag = host.tag /\ host'.cmd = host.cmd /\ host'.ph # "idle"
    BY <1>1, <2>1 DEF HostOut, TypeOK, HostType
  <2>3. /\ "EP5" \notin ctr /\ ~HasOut(mq) /\ pc \notin {"rearm", "stuck"}
        /\ ~(pc = "deal" /\ msg = "Out")
    BY <2>1 DEF OneOutToken
  <2>4. dev.tag = host.tag
    BY <2>3 DEF WrapperFirst
  <2>5. OneInToken' /\ OneOutToken'
    BY <2>1, <2>3 DEF OneInToken, OneOutToken
  <2>6. WrapperFirst'
    BY <2>1, <2>2, <2>3, <2>4 DEF WrapperFirst, Out
  <2>7. PhasesAgree'
    BY <2>1, <2>2 DEF PhasesAgree
  <2> QED
    BY <2>1, <2>5, <2>6, <2>7
<1>13. CASE HostIn \/ HostStatus
  <2>1. /\ host.ph # "idle" /\ dev.ep4.stat = "VALID" /\ dev' = [dev EXCEPT !.ep4.stat = "NAK"]
        /\ ctr' = ctr \cup {"EP4"} /\ UNCHANGED <<ep5, rxBuff, mq, pc, msg, resets>>
    BY <1>13 DEF HostIn, HostStatus, Take
  <2>2. /\ dev'.ep4.stat = "NAK" /\ dev'.ep4.pkt = dev.ep4.pkt /\ dev'.tag = dev.tag
        /\ dev'.stuck = dev.stuck /\ dev'.up = dev.up /\ dev'.down = dev.down
        /\ dev'.csw = dev.csw
    BY <1>2, <2>1 DEF DevType
  <2>3. host'.tag = host.tag /\ (host' = host \/ host'.cmd = host.cmd \/ host'.ph = "idle")
    <3>1. host \in HostType
      BY <1>1 DEF TypeOK
    <3>2. Idle(host).tag = host.tag /\ Idle(host).ph = "idle"
      BY <3>1 DEF Idle, HostType
    <3>3. CASE HostIn
      BY <3>1, <3>3 DEF HostIn, HostType
    <3>4. CASE HostStatus
      BY <3>1, <3>2, <3>4 DEF HostStatus, HostType
    <3> QED
      BY <1>13, <3>3, <3>4
  <2>4. host'.ph = "idle" => dev.ep4.pkt.kind = "csw" /\ dev.ep4.pkt.tag = host.tag
    BY <1>1, <1>13 DEF HostIn, HostStatus, TypeOK, HostType
  <2>5. dev.tag = host.tag \/ pc = "stuck"
    BY <2>1 DEF WrapperFirst
  <2>6. OneInToken' /\ OneOutToken'
    BY <2>1, <2>2 DEF OneInToken, OneOutToken
  <2>7. WrapperFirst'
    BY <2>1, <2>2, <2>3, <2>5 DEF WrapperFirst
  <2>8. PhasesAgree'
    BY <2>1, <2>2, <2>3, <2>4 DEF PhasesAgree
  <2> QED
    BY <2>1, <2>2, <2>6, <2>7, <2>8
<1>14. CASE HostClearFeature
  <2>1. /\ dev.ep4.stat = "STALL" /\ dev' = [dev EXCEPT !.ep4.stat = "VALID"]
        /\ host' = [host EXCEPT !.ph = "csw"] /\ host.ph # "idle"
        /\ UNCHANGED <<ep5, ctr, rxBuff, mq, pc, msg, resets>>
    BY <1>14 DEF HostClearFeature
  <2>2. /\ dev'.ep4.stat = "VALID" /\ dev'.ep4.pkt = dev.ep4.pkt /\ dev'.tag = dev.tag
        /\ dev'.stuck = dev.stuck /\ dev'.up = dev.up /\ dev'.down = dev.down
        /\ dev'.csw = dev.csw
    BY <1>2, <2>1 DEF DevType
  <2>3. host'.tag = host.tag /\ host'.cmd = host.cmd /\ host'.ph = "csw"
    BY <1>1, <2>1 DEF TypeOK, HostType
  <2>4. dev.tag = host.tag \/ pc = "stuck"
    BY <2>1 DEF WrapperFirst
  <2>5. OneInToken' /\ OneOutToken'
    BY <2>1, <2>2 DEF OneInToken, OneOutToken
  <2>6. WrapperFirst'
    BY <2>1, <2>2, <2>3, <2>4 DEF WrapperFirst
  <2>7. PhasesAgree'
    BY <2>1, <2>2, <2>3 DEF PhasesAgree
  <2> QED
    BY <2>1, <2>2, <2>5, <2>6, <2>7
<1>15. CASE BusReset
  BY <1>1, <1>15 DEF BusReset, TypeOK
<1>16. CASE UNCHANGED vars
  BY <1>16 DEF vars, OneInToken, OneOutToken, WrapperFirst, PhasesAgree
<1> QED
  BY <1>4, <1>5, <1>6, <1>7, <1>8, <1>9, <1>10, <1>11, <1>12, <1>13, <1>14, <1>15, <1>16
  DEF Next, Thread, Isr

\* Handshake: host, endpoints, interrupts, queue and thread hold exactly one
\* token per direction, and the flags of Udisk.c agree with the phase the host
\* is in, as long as no reset breaks in and the status macros do not race.
THEOREM HandshakeCorrect ==
  ASSUME MaxResets = 0, EpRace = FALSE PROVE Spec => []Handshake
BY HandshakeInit, HandshakeNext, PTL DEF Spec

LEMMA QueuesOut == ASSUME NEW q \in Queues, NEW i \in 1 .. Len(q), q[i] = "Out" PROVE HasOut(q)
BY DEF Queues, HasOut

\* RxOwnership: the thread reads USBD_Endp5_BUFF without a lock, and no packet
\* can be received into it before the thread has re-armed the endpoint.
THEOREM RxOwnershipCorrect ==
  ASSUME MaxResets = 0, EpRace = FALSE PROVE Spec => []RxOwnership
<1>1. Handshake => RxOwnership
  BY QueuesOut DEF Handshake, OneOutToken, RxOwnership, RxPending
<1> QED
  BY <1>1, HandshakeCorrect, PTL

\* NoMessageLost: the ignored result of rt_mq_send is always RT_EOK.
THEOREM NoMessageLostCorrect ==
  ASSUME MaxResets = 0, EpRace = FALSE PROVE Spec => []NoMessageLost
<1>1. Handshake => NoMessageLost
  <2> SUFFICES ASSUME Handshake, ctr # {} PROVE Len(mq) < MqSize
    BY DEF NoMessageLost
  <2>1. CASE "EP4" \in ctr
    BY <2>1, SendFacts DEF Handshake, OneInToken
  <2>2. CASE "EP5" \in ctr
    BY <2>2, SendFacts DEF Handshake, OneOutToken
  <2> QED
    BY <2>1, <2>2 DEF Handshake, TypeOK
<1> QED
  BY <1>1, HandshakeCorrect, PTL

\* NoTxOverwrite: neither handler looks at the status of EP4 before it writes
\* the packet buffer, and none finds a packet the host has not taken.
THEOREM NoTxOverwriteCorrect ==
  ASSUME MaxResets = 0, EpRace = FALSE PROVE Spec => NoTxOverwrite
<1>1. Handshake /\ [Next]_vars => [dev.ep4.stat # "NAK" => dev'.ep4.pkt = dev.ep4.pkt]_vars
  <2> SUFFICES ASSUME Handshake, Next, dev.ep4.stat # "NAK" PROVE dev'.ep4.pkt = dev.ep4.pkt
    OBVIOUS
  <2>1. dev \in DevType /\ rxBuff \in OutPacket \cup {NoPkt}
    BY DEF Handshake, TypeOK
  <2>2. \A s \in Stat : [dev EXCEPT !.ep4.stat = s].ep4.pkt = dev.ep4.pkt
    BY <2>1 DEF DevType
  <2>3. CASE ThreadInDeal
    BY <2>3 DEF ThreadInDeal, Handshake, OneInToken
  <2>4. CASE ThreadOutDeal
    <3>1. pc = "deal" /\ msg = "Out" /\ dev' = UDISK_Out_EP_Deal(dev, rxBuff)
      BY <2>4 DEF ThreadOutDeal
    <3>2. ~dev.down /\ dev.tag = host.tag /\ "EP5" \notin ctr
      BY <3>1 DEF Handshake, PhasesAgree, WrapperFirst, OneOutToken
    <3>3. rxBuff.kind = "out"
      BY <3>1, <3>2 DEF Handshake, WrapperFirst, Pending, Packet
    <3> QED
      BY <3>1, <3>2, <3>3 DEF UDISK_Out_EP_Deal
  <2>5. CASE ThreadRecv \/ ThreadRearm \/ Isr \/ (\E c \in Cmds : HostCommand(c))
               \/ (\E v \in Data : HostOut(v))
    BY <2>5 DEF ThreadRecv, ThreadRearm, Isr, EP4_IN_Callback, EP5_OUT_Callback,
       HostCommand, HostOut
  <2>6. CASE HostIn \/ HostStatus \/ HostClearFeature \/ BusReset
    BY <2>2, <2>6 DEF HostIn, HostStatus, HostClearFeature, BusReset, Take, Stat
  <2>7. CASE StatusRead \/ StatusStore \/ StatusCheck
    BY <2>7 DEF StatusRead, StatusStore, StatusCheck, Handshake
  <2> QED
    BY <2>3, <2>4, <2>5, <2>6, <2>7 DEF Next, Thread
<1> QED
  BY <1>1, HandshakeCorrect, PTL DEF Spec, NoTxOverwrite

-----------------------------------------------------------------------------
(* Packs and sectors.                                                      *)

\* Pack r of sector k.
LEMMA Division ==
  ASSUME NEW k \in Nat, NEW r \in PackNo
  PROVE  k * Packs + r \in Nat /\ (k * Packs + r) \div Packs = k /\ (k * Packs + r) % Packs = r
<1> DEFINE a == k * Packs + r
           q == a \div Packs
           s == a % Packs
<1>1. Packs \in Nat /\ Packs > 0 /\ r \in Nat /\ r < Packs
  BY SizesAssumption DEF PackNo
<1>2. a \in Nat /\ q \in Nat /\ s \in 0 .. Packs - 1 /\ a = Packs * q + s
  BY <1>1
<1>3. CASE q >= k + 1
  <2>1. Packs * q >= Packs * (k + 1)
    BY <1>1, <1>2, <1>3
  <2>2. Packs * (k + 1) = k * Packs + Packs
    BY <1>1
  <2> QED
    BY <1>1, <1>2, <2>1, <2>2
<1>4. CASE q <= k - 1
  <2>1. Packs * q <= Packs * (k - 1)
    BY <1>1, <1>2, <1>4
  <2>2. Packs * (k - 1) = k * Packs - Packs
    BY <1>1
  <2> QED
    BY <1>1, <1>2, <2>1, <2>2
<1>5. CASE q = k
  BY <1>1, <1>2, <1>5
<1> QED
  BY <1>2, <1>3, <1>4, <1>5

\* While packs are left, the sector is one of the command.
LEMMA SectorLeft ==
  ASSUME NEW k \in Nat, NEW r \in PackNo, NEW n \in Nat, n > 0, NEW b \in Nat, n + (k * Packs + r) = b * Packs
  PROVE  k < b
<1>1. Packs \in Nat /\ r \in Nat
  BY SizesAssumption DEF PackNo
<1>2. CASE k >= b
  <2>1. k * Packs >= b * Packs
    BY <1>1, <1>2
  <2>2. k * Packs \in Nat /\ b * Packs \in Nat
    BY <1>1
  <2> QED
    BY <1>1, <2>1, <2>2
<1> QED
  BY <1>2

\* When none is left, all sectors have been gone through.
LEMMA SectorsDone ==
  ASSUME NEW k \in Nat, NEW r \in PackNo, NEW b \in Nat, k * Packs + r = b * Packs PROVE k = b /\ r = 0
<1>1. b * Packs + 0 \in Nat /\ (b * Packs + 0) \div Packs = b /\ (b * Packs + 0) % Packs = 0
  BY Division, SizesAssumption DEF PackNo
<1>2. (k * Packs + r) \div Packs = k /\ (k * Packs + r) % Packs = r
  BY Division
<1>3. b * Packs + 0 = k * Packs + r
  BY SizesAssumption
<1> QED
  BY <1>1, <1>2, <1>3

\* The place of the next pack.
NextPlace(d, e) ==
  IF d.pack + 1 = Packs THEN e.pack = 0 /\ e.lba = d.lba + 1 ELSE e.pack = d.pack + 1 /\ e.lba = d.lba

LEMMA NextPlaceCounts ==
  ASSUME NEW d \in DevType, NEW e \in DevType, NextPlace(d, e), NEW l \in Nat, d.lba >= l
  PROVE  e.lba >= l /\ (e.lba - l) * Packs + e.pack = (d.lba - l) * Packs + d.pack + 1
<1>1. /\ d.lba \in Nat /\ d.pack \in Nat /\ Packs \in Nat
      /\ d.lba - l \in Nat
  BY SizesAssumption DEF DevType, PackNo
<1> DEFINE k == d.lba - l
<1>2. CASE d.pack + 1 = Packs
  <2>1. e.lba - l = k + 1 /\ e.lba >= l
    BY <1>1, <1>2 DEF NextPlace
  <2>2. (k + 1) * Packs = k * Packs + Packs /\ k * Packs \in Nat
    BY <1>1
  <2> HIDE DEF k
  <2>3. (k + 1) * Packs + 0 = k * Packs + d.pack + 1
    BY <1>1, <1>2, <2>2
  <2> QED
    BY <1>2, <2>1, <2>3 DEF NextPlace, k
<1>3. CASE d.pack + 1 # Packs
  <2> HIDE DEF k
  <2>1. e.lba = d.lba /\ e.pack = d.pack + 1
    BY <1>3 DEF NextPlace
  <2>2. k * Packs \in Int
    BY <1>1 DEF k
  <2> QED
    BY <1>1, <2>1, <2>2 DEF k
<1> QED
  BY <1>2, <1>3

LEMMA SectorWhole == ASSUME NEW s \in Nat, s < Sectors PROVE s % Sectors = s /\ s \in SectorNo
BY SizesAssumption DEF SectorNo

-----------------------------------------------------------------------------
(* What the handlers do to the sector, the packs and the flash.            *)

\* d and e differ in the flags, the status and the endpoint only.
SameMedia(d, e) ==
  /\ e.flash = d.flash /\ e.buff = d.buff /\ e.op = d.op /\ e.lba = d.lba /\ e.pack = d.pack

LEMMA AdvanceMedia ==
  ASSUME NEW d \in DevType
  PROVE  LET e == Advance(d)
         IN /\ NextPlace(d, e) /\ e.flash = d.flash /\ e.buff = d.buff /\ e.op = d.op /\ e.len = d.len
            /\ e.up = d.up /\ e.down = d.down /\ e.csw = d.csw /\ e.ep4 = d.ep4 /\ e.tag = d.tag
            /\ e.stuck = d.stuck
BY DEF Advance, NextPlace, DevType

LEMMA CswMedia ==
  ASSUME NEW d \in DevType
  PROVE  LET e == UDISK_Up_CSW(d) IN SameMedia(d, e) /\ e.len = d.len
BY DEF UDISK_Up_CSW, Usb_Send, SameMedia, DevType

LEMMA BulkMedia ==
  ASSUME NEW d \in DevType, d.op # "READ10"
  PROVE  LET e == UpPack(d)
         IN SameMedia(d, e) /\ e.ep4.stat = "VALID" /\ e.ep4.pkt.kind = "reply" /\ e.down = d.down
BY DEF UpPack, UDISK_Bulk_UpData, Usb_Send, Reply, SameMedia, DevType

\* A pack of a read.
LEMMA ReadMedia ==
  ASSUME NEW d \in DevType, d.op = "READ10", d.len > 0
  PROVE  LET e == UpPack(d)
         IN /\ NextPlace(d, e) /\ e.flash = d.flash /\ e.op = d.op /\ e.csw = d.csw /\ e.down = d.down
            /\ e.len = d.len - 1 /\ e.up = (d.up /\ e.len # 0)
            /\ e.ep4 = [stat |-> "VALID", pkt |-> In(d.flash[d.lba % Sectors][d.pack])]
<1> DEFINE p == In(ReadPack(d))
           s == Usb_Send(d, p)
           a == Advance(s)
           n == d.len - 1
           e == [a EXCEPT !.len = n, !.up = @ /\ n # 0]
<1>1. LessPack(d.len) = n /\ n \in Nat
  BY DEF LessPack, DevType
<1>2. UpPack(d) = e
  BY <1>1 DEF UpPack, UDISK_Up_OnePack
<1>3. p \in InPacket
  <2>1. ReadPack(d) \in Content
    BY SizesAssumption DEF ReadPack, DevType, SectorNo, PackNo
  <2> QED
    BY <2>1 DEF InPacket
<1> HIDE DEF p, n
<1>4. s \in DevType
  BY <1>3, SendType
<1>5. s.flash = d.flash /\ s.op = d.op /\ s.csw = d.csw /\ s.down = d.down /\ s.up = d.up /\ s.lba = d.lba
      /\ s.pack = d.pack /\ s.ep4 = [stat |-> "VALID", pkt |-> p]
  BY DEF Usb_Send, DevType
<1> HIDE DEF s
<1>6. a \in DevType
  BY <1>4, AdvanceType
<1>7. /\ NextPlace(s, a) /\ a.flash = s.flash /\ a.op = s.op /\ a.up = s.up /\ a.down = s.down /\ a.csw = s.csw
      /\ a.ep4 = s.ep4
  BY <1>4, AdvanceMedia
<1> HIDE DEF a
<1>8. /\ e.pack = a.pack /\ e.lba = a.lba /\ e.flash = a.flash /\ e.op = a.op /\ e.csw = a.csw /\ e.down = a.down
      /\ e.ep4 = a.ep4 /\ e.len = n /\ e.up = (a.up /\ n # 0)
  BY <1>1, <1>6 DEF DevType
<1> HIDE DEF e
<1> QED
  BY <1>2, <1>5, <1>7, <1>8 DEF NextPlace, p, n, ReadPack

\* A pack of a write that is not the last of its sector.
LEMMA StoreMedia ==
  ASSUME NEW d \in DevType, NEW v \in Data, d.len > 0, d.pack + 1 # Packs
  PROVE  LET e == UDISK_Down_OnePack(d, Out(v))
             f == IF d.pack = 0 THEN Erase(d).flash ELSE d.flash
         IN /\ e.flash = f /\ e.buff = [d.buff EXCEPT ![d.pack] = v] /\ e.len = d.len - 1
            /\ e.pack = d.pack + 1 /\ e.lba = d.lba /\ e.op = d.op /\ e.down = d.down
            /\ e.ep4 = d.ep4 /\ e.tag = d.tag /\ e.stuck = d.stuck
<1> DEFINE c == IF d.pack = 0 THEN Erase(d) ELSE d
           n == d.len - 1
           f == [c EXCEPT !.buff[d.pack] = v, !.len = n]
<1>1. LessPack(d.len) = n /\ n \in Nat /\ d.pack \in PackNo /\ v \in Content
  BY DEF LessPack, DevType, Content
<1>2. Out(v).kind = "out" /\ Out(v).val = v
  BY DEF Out
<1>3. UDISK_Down_OnePack(d, Out(v)) = Advance(f)
  BY <1>1, <1>2 DEF UDISK_Down_OnePack
<1> HIDE DEF n
<1>4. /\ c \in DevType /\ c.buff = d.buff /\ c.pack = d.pack /\ c.lba = d.lba /\ c.op = d.op /\ c.down = d.down
      /\ c.ep4 = d.ep4 /\ c.tag = d.tag /\ c.stuck = d.stuck
      /\ c.flash = IF d.pack = 0 THEN Erase(d).flash ELSE d.flash
  BY EraseType DEF Erase, DevType
<1> HIDE DEF c
<1>5. f \in DevType
  BY <1>1, <1>4 DEF DevType
<1>6. /\ f.buff = [c.buff EXCEPT ![d.pack] = v] /\ f.len = n /\ f.pack = c.pack /\ f.lba = c.lba /\ f.op = c.op
      /\ f.down = c.down /\ f.ep4 = c.ep4 /\ f.tag = c.tag /\ f.stuck = c.stuck /\ f.flash = c.flash
  BY <1>1, <1>4 DEF DevType
<1> HIDE DEF f
<1> QED
  BY <1>3, <1>4, <1>5, <1>6, AdvanceMedia DEF NextPlace, n

\* The last pack of a sector, which is programmed.
LEMMA FillMedia ==
  ASSUME NEW d \in DevType, NEW v \in Data, d.len > 0, d.pack + 1 = Packs
  PROVE  LET e == UDISK_Down_OnePack(d, Out(v))
             b == [d.buff EXCEPT ![d.pack] = v]
             s == d.lba % Sectors
         IN /\ e.flash = [d.flash EXCEPT ![s] = [p \in PackNo |-> Over(d.flash[s][p], b[p])]]
            /\ e.len = d.len - 1 /\ e.pack = 0 /\ e.lba = d.lba + 1 /\ e.op = d.op
            /\ e.tag = d.tag /\ e.stuck = d.stuck
            /\ IF d.len = 1 THEN Quiet(e) /\ e.ep4.pkt.kind = "csw" ELSE e.down = d.down /\ e.ep4 = d.ep4
<1> DEFINE n == d.len - 1
           b == [d.buff EXCEPT ![d.pack] = v]
           f == [d EXCEPT !.buff[d.pack] = v, !.len = n]
           w == WriteSector(f)
           u == UDISK_Up_CSW(w)
           s == d.lba % Sectors
<1>1. LessPack(d.len) = n /\ n \in Nat /\ d.pack \in PackNo /\ v \in Content /\ d.pack # 0 /\ s \in SectorNo
  BY SizesAssumption DEF LessPack, DevType, Content, PackNo, SectorNo
<1>2. Out(v).kind = "out" /\ Out(v).val = v
  BY DEF Out
<1>3. UDISK_Down_OnePack(d, Out(v)) = Advance(IF n = 0 THEN u ELSE w)
  BY <1>1, <1>2 DEF UDISK_Down_OnePack
<1> HIDE DEF n
<1>4. f \in DevType
  BY <1>1 DEF DevType
<1>5. /\ f.buff = b /\ f.len = n /\ f.pack = d.pack /\ f.lba = d.lba /\ f.op = d.op
      /\ f.down = d.down /\ f.ep4 = d.ep4 /\ f.tag = d.tag /\ f.stuck = d.stuck /\ f.flash = d.flash
  BY <1>1 DEF DevType
<1> HIDE DEF f, b, s
<1>6. w \in DevType
  BY <1>4, WriteType
<1>7. /\ w.flash = [d.flash EXCEPT ![s] = [p \in PackNo |-> Over(d.flash[s][p], b[p])]]
      /\ w.len = n /\ w.pack = d.pack /\ w.lba = d.lba /\ w.op = d.op
      /\ w.down = d.down /\ w.ep4 = d.ep4 /\ w.tag = d.tag /\ w.stuck = d.stuck
  <2>1. w.flash = [f.flash EXCEPT ![s] = [p \in PackNo |-> Over(@[p], f.buff[p])]]
    BY <1>4, <1>5 DEF WriteSector, s, DevType
  <2>2. f.flash[s] = d.flash[s]
    BY <1>5
  <2>3. w.flash = [d.flash EXCEPT ![s] = [p \in PackNo |-> Over(d.flash[s][p], b[p])]]
    BY <1>5, <2>1
  <2>4. /\ w.len = f.len /\ w.pack = f.pack /\ w.lba = f.lba /\ w.op = f.op
        /\ w.down = f.down /\ w.ep4 = f.ep4 /\ w.tag = f.tag /\ w.stuck = f.stuck
    BY <1>4 DEF WriteSector, DevType
  <2> QED
    BY <1>5, <2>3, <2>4
<1> HIDE DEF w
<1>8. u \in DevType /\ SameMedia(w, u) /\ u.len = w.len /\ Quiet(u) /\ u.ep4.pkt.kind = "csw" /\ u.tag = w.tag
      /\ u.stuck = w.stuck
  <2>1. u = UDISK_Up_CSW(w)
    OBVIOUS
  <2> HIDE DEF u
  <2>2. u \in DevType
    BY <1>6, <2>1, CswType
  <2>3. SameMedia(w, u) /\ u.len = w.len
    BY <1>6, <2>1, CswMedia
  <2>4. u.tag = w.tag /\ u.stuck = w.stuck /\ Quiet(u) /\ u.ep4 = [stat |-> "VALID", pkt |-> Csw(w.tag, w.status)]
    BY <1>6, <2>1, UpCswEffect
  <2>5. u.ep4.pkt.kind = "csw"
    BY <2>4 DEF Csw
  <2> QED
    BY <2>2, <2>3, <2>4, <2>5
<1> HIDE DEF u
<1>9. CASE n = 0
  <2>1. UDISK_Down_OnePack(d, Out(v)) = Advance(u) /\ d.len = 1
    BY <1>3, <1>9 DEF n, DevType
  <2> QED
    BY <1>7, <1>8, <1>9, <2>1, AdvanceMedia DEF NextPlace, SameMedia, Quiet, n, b, s
<1>10. CASE n # 0
  <2>1. UDISK_Down_OnePack(d, Out(v)) = Advance(w) /\ d.len # 1
    BY <1>3, <1>10 DEF n, DevType
  <2> QED
    BY <1>6, <1>7, <1>10, <2>1, AdvanceMedia DEF NextPlace, n, b, s
<1> QED
  BY <1>9, <1>10

-----------------------------------------------------------------------------
(* What a command wrapper does on a quiet device.                          *)

\* The flags and the place after the wrapper of a read or a write.
LEMMA ReadWriteWrapper ==
  ASSUME NEW d \in DevType, Quiet(d), ~d.stuck, NEW c \in Cmds, NEW t \in Tag, c.op \in RdWr
  PROVE  LET s == UDISK_SCSI_CMD_Deal(d, Cbw(c, t))
         IN /\ s \in DevType /\ s.flash = d.flash /\ s.buff = d.buff /\ s.op = d.op /\ s.ep4 = d.ep4
            /\ s.lba = c.lba /\ s.pack = 0 /\ s.len = c.blocks * Packs /\ s.status = 0
            /\ s.csw /\ ~s.stuck /\ s.tag = t
            /\ s.up = (c.packs > 0 /\ c.dir = "in") /\ s.down = (c.packs > 0 /\ c.dir = "out")
<1> DEFINE p == Cbw(c, t)
           a == Accept(d, p)
           n == c.blocks * Packs
           s == UDISK_SCSI_CMD_Deal(d, p)
<1>1. p \in OutPacket /\ p.kind = "cbw" /\ p.cmd = c /\ p.tag = t /\ c \in Command
  BY CmdsAssumption DEF OutPacket, Cbw
<1>2. s \in DevType
  BY <1>1, ScsiType
<1>3. s = CMD_RD_WR_Deal_Pre(a, c)
  BY <1>1 DEF UDISK_SCSI_CMD_Deal, RdWr, Info, Modes, NoData
<1> HIDE DEF p
<1>4. /\ a \in DevType /\ a.flash = d.flash /\ a.buff = d.buff /\ a.op = d.op /\ a.ep4 = d.ep4
      /\ a.csw = TRUE /\ a.stuck = FALSE /\ a.tag = t
      /\ a.up = (c.packs > 0 /\ c.dir = "in") /\ a.down = (c.packs > 0 /\ c.dir = "out")
  BY <1>1 DEF Accept, DevType, Command, Quiet
<1> HIDE DEF a, n
<1>5. s = [a EXCEPT !.lba = c.lba, !.len = n, !.pack = 0, !.status = 0]
  BY <1>3 DEF CMD_RD_WR_Deal_Pre, n
<1> HIDE DEF s
<1>6. /\ s.flash = a.flash /\ s.buff = a.buff /\ s.op = a.op /\ s.ep4 = a.ep4
      /\ s.lba = c.lba /\ s.pack = 0 /\ s.len = n /\ s.status = 0
      /\ s.csw = a.csw /\ s.stuck = a.stuck /\ s.tag = a.tag /\ s.up = a.up /\ s.down = a.down
  BY <1>4, <1>5 DEF DevType
<1> QED
  BY <1>2, <1>4, <1>6 DEF n, s, p

\* Any other wrapper leaves the flash and EP4 alone, but for a stall.
LEMMA OtherWrapper ==
  ASSUME NEW d \in DevType, Quiet(d), ~d.stuck, d.ep4.stat = "NAK",
         NEW c \in Cmds, NEW t \in Tag, c.op \notin RdWr, Asks(c)
  PROVE  LET s == UDISK_SCSI_CMD_Deal(d, Cbw(c, t))
         IN /\ s \in DevType /\ s.flash = d.flash /\ s.op = d.op /\ s.ep4.stat # "VALID"
            /\ s.stuck => s.down /\ c.op \in Failing
            /\ ~s.stuck => ~s.down /\ s.tag = t
            /\ ~s.stuck => ~(c.packs > 0 /\ c.dir = "out")
<1> DEFINE p == Cbw(c, t)
           a == Accept(d, p)
           out == c.packs > 0 /\ c.dir = "out"
           s == UDISK_SCSI_CMD_Deal(d, p)
           Like(x) == /\ x \in DevType /\ x.flash = d.flash /\ x.op = d.op /\ x.ep4 = d.ep4 /\ x.stuck = FALSE
                      /\ x.tag = t /\ x.down = out
           Good(x) == /\ x \in DevType /\ x.flash = d.flash /\ x.op = d.op /\ x.ep4.stat # "VALID"
                      /\ x.stuck => x.down /\ c.op \in Failing
                      /\ ~x.stuck => ~x.down /\ x.tag = t
                      /\ ~x.stuck => ~out
<1>1. p \in OutPacket /\ p.kind = "cbw" /\ p.cmd = c /\ p.tag = t /\ c \in Command /\ c.op \in Ops
  BY CmdsAssumption DEF OutPacket, Cbw, Command
<1> HIDE DEF p
<1>2. Like(a)
  BY <1>1 DEF Accept, DevType, Command, Quiet
<1> HIDE DEF a, out
<1>3. \A x \in DevType, k \in 0 .. 2 : Like(x) => Like(UDISK_CMD_Deal_Status(x, k))
  BY DEF UDISK_CMD_Deal_Status, DevType
<1>4. Like(Clamp(a))
  BY <1>2 DEF Clamp, DevType
<1>5. \A x \in DevType : x.flash = d.flash /\ x.op = d.op /\ x.ep4 = d.ep4 /\ x.stuck = FALSE =>
        LET e == UDISK_CMD_Deal_Fail(x)
        IN /\ e \in DevType /\ e.flash = d.flash /\ e.op = d.op /\ e.ep4.stat # "VALID"
           /\ e.stuck = x.down /\ e.down = x.down /\ e.tag = x.tag
  <2> SUFFICES ASSUME NEW x \in DevType, x.flash = d.flash, x.op = d.op, x.ep4 = d.ep4, x.stuck = FALSE
               PROVE  LET e == UDISK_CMD_Deal_Fail(x)
                      IN /\ e \in DevType /\ e.flash = d.flash /\ e.op = d.op /\ e.ep4.stat # "VALID"
                         /\ e.stuck = x.down /\ e.down = x.down /\ e.tag = x.tag
    OBVIOUS
  <2>1. x.down \in BOOLEAN /\ x.ep4.stat = "NAK"
    BY DEF DevType
  <2> DEFINE e == UDISK_CMD_Deal_Fail(x)
  <2>2. e.ep4.stat = "NAK" \/ e.ep4.stat = "STALL"
    BY <2>1 DEF UDISK_CMD_Deal_Fail, DevType
  <2>3. e.flash = x.flash /\ e.op = x.op /\ e.down = x.down /\ e.tag = x.tag
    BY DEF UDISK_CMD_Deal_Fail, DevType
  <2>4. e.stuck = (x.stuck \/ x.down)
    BY DEF UDISK_CMD_Deal_Fail, DevType
  <2>5. e \in DevType
    BY FailType
  <2> HIDE DEF e
  <2>6. e.stuck = x.down
    BY <2>1, <2>4
  <2>7. e.ep4.stat # "VALID"
    BY <2>2
  <2> QED
    BY <2>3, <2>5, <2>6, <2>7 DEF e
<1>6. CASE c.op = "BAD_SIG"
  <2> DEFINE x == [d EXCEPT !.up = TRUE, !.down = TRUE]
             y == UDISK_CMD_Deal_Status(x, 2)
  <2>1. x \in DevType
    BY DEF DevType
  <2>2. y \in DevType /\ y.down = TRUE /\ y.flash = d.flash /\ y.op = d.op /\ y.ep4 = d.ep4 /\ y.stuck = FALSE
    <3>1. y \in DevType
      BY <2>1, StatusType
    <3>2. y.down = TRUE /\ y.flash = d.flash /\ y.op = d.op /\ y.ep4 = d.ep4 /\ y.stuck = d.stuck
      BY DEF UDISK_CMD_Deal_Status, DevType
    <3>3. d.stuck = FALSE
      BY DEF DevType
    <3> QED
      BY <3>1, <3>2, <3>3
  <2>3. s = UDISK_CMD_Deal_Fail(y)
    BY <1>1, <1>6 DEF UDISK_SCSI_CMD_Deal, RdWr, Info, Modes, NoData
  <2> HIDE DEF y, s
  <2> QED
    BY <1>5, <1>6, <2>2, <2>3 DEF s, p, Failing
<1>7. CASE c.op \in {"MODE_SENSE2_PAGE", "UNKNOWN"}
  <2> DEFINE x == IF c.op = "MODE_SENSE2_PAGE" THEN a ELSE [a EXCEPT !.up = TRUE]
             y == UDISK_CMD_Deal_Status(x, 1)
  <2>1. Like(x)
    BY <1>2 DEF DevType
  <2>2. s = UDISK_CMD_Deal_Fail(y)
    <3>1. CASE c.op = "MODE_SENSE2_PAGE"
      BY <1>1, <3>1 DEF UDISK_SCSI_CMD_Deal, a, RdWr, Info, Modes, NoData
    <3>2. CASE c.op = "UNKNOWN"
      BY <1>1, <3>2 DEF UDISK_SCSI_CMD_Deal, a, RdWr, Info, Modes, NoData
    <3> QED
      BY <1>7, <3>1, <3>2
  <2> HIDE DEF x
  <2>3. Like(y)
    BY <2>1, <1>3
  <2> HIDE DEF y, s
  <2> QED
    BY <1>5, <1>7, <2>2, <2>3 DEF s, p, out, Failing
<1>8. CASE c.op \in Info \cup Modes \cup NoData \cup {"REQUEST_SENSE"}
  <2>1. s \in {Clamp(a), UDISK_CMD_Deal_Status(Clamp(a), 0), UDISK_CMD_Deal_Status(a, 0)}
    BY <1>1, <1>8 DEF UDISK_SCSI_CMD_Deal, a, RdWr, Info, Modes, NoData
  <2>2. Like(s)
    BY <1>2, <1>3, <1>4, <2>1
  <2>3. ~out
    BY <1>8 DEF out, Asks, Writes, Failing, Info, Modes, NoData
  <2> HIDE DEF s
  <2> QED
    BY <2>2, <2>3 DEF s, p, out
<1> QED
  BY <1>1, <1>6, <1>7, <1>8 DEF Ops, Failing, RdWr, Info, Modes, NoData

\* The place and the packet of a read that has just begun.
Begun(e, c, t, v) ==
  IF c.packs = 0
  THEN e.lba = c.lba /\ e.pack = 0 /\ e.len = 0 /\ ~e.up /\ e.ep4.stat = "VALID" /\ e.ep4.pkt.kind = "csw"
         /\ e.ep4.pkt.tag = t
  ELSE e.lba >= c.lba /\ (e.lba - c.lba) * Packs + e.pack = 1 /\ e.len = c.packs - 1 /\ (e.up <=> e.len # 0)
         /\ e.csw /\ e.ep4 = [stat |-> "VALID", pkt |-> In(v)]

LEMMA WrapperFacts ==
  ASSUME NEW d \in DevType, Quiet(d), ~d.stuck, d.ep4.stat = "NAK", NEW c \in Cmds, NEW t \in Tag, Asks(c)
  PROVE  LET e == UDISK_Out_EP_Deal(d, Cbw(c, t))
         IN /\ e \in DevType /\ e.flash = d.flash /\ e.op = c.op
            /\ e.stuck => e.down /\ c.op \in Failing /\ e.ep4.stat # "VALID"
            /\ ~e.stuck => /\ e.tag = t /\ (e.down <=> c.op \in Writes /\ c.packs > 0)
                           /\ c.packs > 0 /\ c.dir = "out" => c.op \in Writes
                           /\ c.op # "READ10" /\ e.ep4.stat = "VALID" => e.ep4.pkt.kind # "in"
            /\ c.op \in Writes => e.lba = c.lba /\ e.pack = 0 /\ (e.down => e.len = c.blocks * Packs)
            /\ c.op = "READ10" => Begun(e, c, t, d.flash[c.lba % Sectors][0])
<1> DEFINE p == Cbw(c, t)
           o == [d EXCEPT !.op = c.op]
           s == UDISK_SCSI_CMD_Deal(o, p)
           e == UDISK_Out_EP_Deal(d, p)
<1>1. p \in OutPacket /\ p.kind = "cbw" /\ p.cmd = c /\ p.tag = t /\ c \in Command /\ c.op \in Ops
        /\ c.packs \in Nat /\ c.lba \in Nat /\ c.blocks \in Nat /\ c.dir \in {"in", "out"}
  BY CmdsAssumption DEF OutPacket, Cbw, Command
<1>2. e = IF s.down THEN s ELSE IF s.up THEN UpPack(s) ELSE IF s.status = 0 THEN UDISK_Up_CSW(s) ELSE s
  BY <1>1 DEF UDISK_Out_EP_Deal, Quiet
<1>3. e \in DevType
  BY <1>1, OutDealType
<1>4. o \in DevType /\ Quiet(o) /\ ~o.stuck /\ o.ep4 = d.ep4 /\ o.flash = d.flash /\ o.op = c.op
  BY <1>1 DEF DevType, Quiet
<1> HIDE DEF o
<1>5. CASE c.op \in RdWr
  <2>1. /\ s \in DevType /\ s.flash = o.flash /\ s.op = o.op /\ s.ep4 = o.ep4
        /\ s.lba = c.lba /\ s.pack = 0 /\ s.len = c.blocks * Packs /\ s.status = 0
        /\ s.csw /\ ~s.stuck /\ s.tag = t
        /\ s.up = (c.packs > 0 /\ c.dir = "in") /\ s.down = (c.packs > 0 /\ c.dir = "out")
    BY <1>4, <1>5, ReadWriteWrapper
  <2> HIDE DEF s, p
  <2>2. c.packs > 0 => (c.dir = "out" <=> c.op \in Writes)
    BY <1>5 DEF Asks, Failing, RdWr
  <2>3. CASE s.down
    <3>1. e = s
      BY <1>2, <2>3
    <3>2. c.op \in Writes /\ c.packs > 0 /\ c.op # "READ10"
      BY <2>1, <2>2, <2>3 DEF Writes
    <3> HIDE DEF e
    <3> QED
      BY <1>3, <1>4, <2>1, <2>3, <3>1, <3>2 DEF e, p
  <2>4. CASE ~s.down /\ s.up
    <3>1. e = UpPack(s)
      BY <1>2, <2>4
    <3>2. c.op = "READ10" /\ c.packs > 0 /\ c.packs = c.blocks * Packs
      BY <1>5, <2>1, <2>2, <2>4 DEF RdWr, Writes, Asks
    <3>3. /\ NextPlace(s, e) /\ e.flash = s.flash /\ e.op = s.op /\ e.csw = s.csw /\ e.down = s.down
          /\ e.len = s.len - 1 /\ e.up = (s.up /\ e.len # 0)
          /\ e.ep4 = [stat |-> "VALID", pkt |-> In(s.flash[s.lba % Sectors][s.pack])]
      <4>1. s.op = "READ10" /\ s.len > 0
        BY <1>4, <2>1, <3>2
      <4> QED
        BY <2>1, <3>1, <4>1, ReadMedia
    <3>4. e.tag = s.tag /\ e.stuck = s.stuck
      BY <2>1, <3>1, UpPackEffect
    <3> HIDE DEF e
    <3>5. e.lba >= c.lba /\ (e.lba - c.lba) * Packs + e.pack = (s.lba - c.lba) * Packs + s.pack + 1
      BY <1>1, <1>3, <2>1, <3>3, NextPlaceCounts
    <3>6. (s.lba - c.lba) * Packs + s.pack + 1 = 1
      BY <1>1, <2>1, SizesAssumption
    <3>7. Begun(e, c, t, d.flash[c.lba % Sectors][0])
      <4>1. c.packs # 0 /\ e.len = c.packs - 1
        BY <1>1, <2>1, <3>2, <3>3
      <4>2. e.csw /\ (e.up <=> e.len # 0)
        BY <2>1, <2>4, <3>3
      <4>3. e.ep4 = [stat |-> "VALID", pkt |-> In(d.flash[c.lba % Sectors][0])]
        BY <1>4, <2>1, <3>3
      <4> QED
        BY <3>5, <3>6, <4>1, <4>2, <4>3 DEF Begun
    <3> QED
      BY <1>3, <1>4, <2>1, <2>2, <2>4, <3>2, <3>3, <3>4, <3>7 DEF e, p, Writes
  <2>5. CASE ~s.down /\ ~s.up
    <3>1. e = UDISK_Up_CSW(s) /\ c.packs = 0
      <4> DEFINE some == c.packs > 0
      <4>1. ~(some /\ c.dir = "in") /\ ~(some /\ c.dir = "out")
        <5> HIDE DEF some
        <5> QED
          BY <2>1, <2>5, Zenon DEF some
      <4>2. c.packs = 0
        BY <1>1, <4>1
      <4> QED
        BY <1>2, <2>1, <2>5, <4>2
    <3>2. SameMedia(s, e) /\ e.len = s.len
      BY <2>1, <3>1, CswMedia
    <3>3. /\ Quiet(e) /\ e.ep4 = [stat |-> "VALID", pkt |-> Csw(s.tag, s.status)] /\ e.tag = s.tag
          /\ e.stuck = s.stuck
      BY <2>1, <3>1, UpCswEffect
    <3> HIDE DEF e
    <3>4. e.ep4.pkt.kind = "csw" /\ e.ep4.pkt.tag = t /\ e.ep4.stat = "VALID"
      BY <2>1, <3>3 DEF Csw
    <3>5. c.op = "READ10" => e.len = 0
      BY <2>1, <3>1, <3>2 DEF Asks
    <3>6. c.op = "READ10" => Begun(e, c, t, d.flash[c.lba % Sectors][0])
      BY <2>1, <3>1, <3>2, <3>3, <3>4, <3>5 DEF Begun, Quiet, SameMedia
    <3> QED
      BY <1>3, <1>4, <2>1, <3>1, <3>2, <3>3, <3>4, <3>6 DEF e, p, Quiet, SameMedia
  <2> QED
    BY <2>3, <2>4, <2>5
<1>6. CASE c.op \notin RdWr
  <2>1. /\ s \in DevType /\ s.flash = o.flash /\ s.op = o.op /\ s.ep4.stat # "VALID"
        /\ s.stuck => s.down /\ c.op \in Failing
        /\ ~s.stuck => ~s.down /\ s.tag = t
        /\ ~s.stuck => ~(c.packs > 0 /\ c.dir = "out")
    BY <1>4, <1>6, OtherWrapper
  <2> HIDE DEF s, p
  <2>2. c.op \notin Writes /\ c.op # "READ10"
    BY <1>6 DEF RdWr, Writes
  <2>3. CASE e = s
    <3> HIDE DEF e
    <3> QED
      BY <1>3, <1>4, <2>1, <2>2, <2>3 DEF e, p
  <2>4. CASE e = UpPack(s) /\ ~s.down
    <3>1. SameMedia(s, e) /\ e.ep4.stat = "VALID" /\ e.ep4.pkt.kind = "reply" /\ e.down = s.down
      BY <1>4, <2>1, <2>2, <2>4, BulkMedia
    <3>2. e.tag = s.tag /\ e.stuck = s.stuck
      BY <2>1, <2>4, UpPackEffect
    <3> HIDE DEF e
    <3> QED
      BY <1>3, <1>4, <2>1, <2>2, <2>4, <3>1, <3>2 DEF e, p, SameMedia
  <2>5. CASE e = UDISK_Up_CSW(s) /\ ~s.down
    <3>1. SameMedia(s, e)
      BY <2>1, <2>5, CswMedia
    <3>2. /\ Quiet(e) /\ e.ep4 = [stat |-> "VALID", pkt |-> Csw(s.tag, s.status)] /\ e.tag = s.tag
          /\ e.stuck = s.stuck
      BY <2>1, <2>5, UpCswEffect
    <3> HIDE DEF e
    <3>3. e.ep4.pkt.kind # "in"
      BY <3>2 DEF Csw
    <3> QED
      BY <1>3, <1>4, <2>1, <2>2, <2>5, <3>1, <3>2, <3>3 DEF e, p, SameMedia, Quiet
  <2> QED
    BY <1>2, <2>3, <2>4, <2>5
<1> QED
  BY <1>5, <1>6

-----------------------------------------------------------------------------
(* Every step keeps the invariant and is a step of the block device.       *)

BDStep == [BD!Next]_(BD!vars)

\* A step that leaves the disk, the packs exchanged and the sector alone.
LEMMA Stutters ==
  ASSUME dev'.flash = dev.flash, host'.cmd = host.cmd, host'.sent = host.sent, host'.last = host.last,
         Reading => host'.got = host.got, Written' = Written
  PROVE  BDStep
BY DEF BDStep, BD!vars, Reading

\* A step that passes the packet on, or concerns none.
LEMMA FrameStep ==
  ASSUME Serving, UNCHANGED <<dev, host>>, pc' = "stuck" <=> pc = "stuck",
         Pending' <=> Pending, Pending => Packet' = Packet
  PROVE  Serving' /\ BDStep
<1>1. Started' /\ SameCommand'
  BY DEF Serving, Started, SameCommand
<1>2. Loading'
  <2> HIDE DEF Pending, Packet
  <2>1. Stored' = Stored
    BY DEF Stored
  <2> QED
    BY <2>1 DEF Serving, Loading
<1>3. Reader'
  BY DEF Serving, Reader, Stored
<1>4. BDStep
  BY Stutters DEF Written
<1> QED
  BY <1>1, <1>2, <1>3, <1>4 DEF Serving

LEMMA QueueStep ==
  ASSUME MaxResets = 0, EpRace = FALSE, Handshake, Serving,
         \/ ThreadRecv \/ ThreadRearm \/ Isr \/ UNCHANGED vars
         \/ StatusRead \/ StatusStore \/ StatusCheck
  PROVE  Serving' /\ BDStep
<1>1. CASE ThreadRecv
  <2>1. mq # <<>> /\ msg' = Head(mq) /\ mq' = Tail(mq) /\ pc = "recv" /\ pc' = "deal"
        /\ UNCHANGED <<dev, ep5, ctr, rxBuff, host>>
    BY <1>1 DEF ThreadRecv
  <2>2. msg' \in {"In", "Out"} /\ (HasOut(mq) <=> (msg' = "Out" \/ HasOut(mq')))
    BY <2>1, RecvFacts DEF Handshake
  <2>3. (Pending' <=> Pending) /\ Packet' = Packet
    BY <2>1, <2>2 DEF Pending, Packet
  <2> QED
    BY <2>1, <2>3, FrameStep
<1>2. CASE ThreadRearm
  <2>1. /\ pc = "rearm" /\ ep5' = [ep5 EXCEPT !.stat = "VALID"] /\ pc' = "recv"
        /\ UNCHANGED <<dev, ctr, rxBuff, mq, msg, host>>
    BY <1>2 DEF ThreadRearm
  <2>2. ep5'.pkt = ep5.pkt
    BY <2>1 DEF Handshake, TypeOK
  <2>3. (Pending' <=> Pending) /\ Packet' = Packet
    BY <2>1, <2>2 DEF Pending, Packet
  <2> QED
    BY <2>1, <2>3, FrameStep
<1>3. CASE StatusRead \/ StatusStore \/ StatusCheck
  BY <1>3 DEF StatusRead, StatusStore, StatusCheck, Handshake
<1>4. CASE EP4_IN_Callback
  <2>1. /\ "EP4" \in ctr /\ ctr' = ctr \ {"EP4"} /\ rt_mq_send("In")
        /\ UNCHANGED <<dev, ep5, rxBuff, pc, msg, host>>
    BY <1>4 DEF EP4_IN_Callback
  <2>2. mq \in Queues /\ ~HasIn(mq)
    BY <2>1 DEF Handshake, OneInToken
  <2>3. HasOut(mq') <=> HasOut(mq)
    BY <2>1, <2>2, SendFacts DEF rt_mq_send
  <2>4. (Pending' <=> Pending) /\ Packet' = Packet
    BY <2>1, <2>3 DEF Pending, Packet
  <2> QED
    BY <2>1, <2>4, FrameStep
<1>5. CASE EP5_OUT_Callback
  <2>1. /\ "EP5" \in ctr /\ ctr' = ctr \ {"EP5"} /\ rxBuff' = ep5.pkt
        /\ rt_mq_send("Out") /\ UNCHANGED <<dev, ep5, pc, msg, host>>
    BY <1>5 DEF EP5_OUT_Callback
  <2>2. mq \in Queues /\ ~HasOut(mq)
    BY <2>1 DEF Handshake, OneOutToken
  <2>3. HasOut(mq')
    BY <2>1, <2>2, SendFacts DEF rt_mq_send
  <2>4. (Pending' <=> Pending) /\ Packet' = Packet
    BY <2>1, <2>3 DEF Pending, Packet
  <2> QED
    BY <2>1, <2>4, FrameStep
<1>6. CASE UNCHANGED vars
  BY <1>6, FrameStep DEF vars, Pending, Packet
<1> QED
  BY <1>1, <1>2, <1>3, <1>4, <1>5, <1>6 DEF Isr

\* The host issues a command: Submit.
LEMMA CommandStep ==
  ASSUME Handshake, Serving, NEW c \in Cmds, Asks(c), HostCommand(c)
  PROVE  Serving' /\ BDStep
<1> DEFINE t == NextTag(host.tag)
<1>1. /\ host.ph = "idle" /\ ep5.stat = "VALID" /\ dev' = dev /\ pc' = pc
      /\ host' = [host EXCEPT !.ph = DataPhase(c), !.cmd = c, !.tag = t]
  BY DEF HostCommand, Deliver
<1>2. host \in HostType /\ dev.tag = host.tag /\ FlagsClear /\ dev.ep4.stat = "NAK" /\ pc # "stuck"
  BY <1>1 DEF Handshake, TypeOK, PhasesAgree, OneOutToken
<1>3. t # host.tag
  BY <1>2, TagsAssumption DEF HostType, Tag, NextTag
<1> HIDE DEF t
<1>4. /\ host'.ph = DataPhase(c) /\ host'.cmd = c /\ host'.tag = t /\ host'.got = host.got
      /\ host'.sent = host.sent /\ host'.last = host.last
  BY <1>1, <1>2 DEF HostType
<1>5. host.cmd = NoCmd /\ host.got = 0 /\ host.sent = <<>> /\ host.last = Erased
  BY <1>1 DEF Serving, Started
<1>6. c # NoCmd /\ DataPhase(c) # "idle" /\ c.packs \in Nat
  BY CmdsAssumption DEF DataPhase, Command
<1>7. Started'
  BY <1>1, <1>2, <1>4, <1>5, <1>6 DEF Started
<1>8. SameCommand'
  <2>1. DataPhase(c) = "in" => c.op \notin Writes
    BY <1>6 DEF DataPhase, Asks, Writes, Failing
  <2> QED
    BY <1>1, <1>2, <1>3, <1>4, <1>5, <2>1 DEF SameCommand, FlagsClear
<1>9. Loading' /\ Reader'
  BY <1>1, <1>2, <1>3, <1>4 DEF Loading, Reader
<1>10. BDStep
  <2>1. Written = 0 /\ Written' = 0
    BY <1>1, <1>2, <1>3, <1>4, <1>5 DEF Written
  <2>2. (IF Reading THEN host.got ELSE 0) = 0 /\ (IF Reading THEN host.got ELSE 0)' = 0
    BY <1>4, <1>5
  <2>3. BD!Submit(c)
    BY <1>1, <1>4, <1>5, <2>1, <2>2 DEF BD!Submit
  <2> QED
    BY <2>3 DEF BDStep, BD!Next
<1> QED
  BY <1>7, <1>8, <1>9, <1>10 DEF Serving

\* The host sends a pack: Send.
LEMMA SendStep ==
  ASSUME Handshake, Serving, NEW v \in Data, HostOut(v)
  PROVE  Serving' /\ BDStep
<1>1. /\ host.ph = "out" /\ ep5.stat = "VALID" /\ ep5' = [stat |-> "NAK", pkt |-> Out(v)]
      /\ ctr' = ctr \cup {"EP5"} /\ UNCHANGED <<dev, rxBuff, mq, pc, msg>>
      /\ host' = [host EXCEPT !.sent = Append(@, v),
                              !.ph   = IF Len(host.sent) + 1 = host.cmd.packs THEN "csw" ELSE @]
  BY DEF HostOut, Deliver
<1>2. host \in HostType /\ pc # "stuck" /\ ~Pending
  BY <1>1 DEF Handshake, TypeOK, OneOutToken, Pending
<1>3. dev.tag = host.tag
  BY <1>2 DEF Handshake, WrapperFirst
<1>4. host.cmd # NoCmd /\ host.cmd.op \in Writes /\ host.cmd.op # "READ10"
  BY <1>1, <1>2, <1>3 DEF Serving, Started, SameCommand, Writes
<1>5. /\ host'.sent = Append(host.sent, v) /\ host'.cmd = host.cmd /\ host'.tag = host.tag
      /\ host'.got = host.got /\ host'.last = host.last /\ host'.ph \in {"csw", "out"}
  BY <1>1, <1>2 DEF HostType
<1>6. Pending' /\ Packet' = Out(v)
  BY <1>1 DEF Pending, Packet
<1>7. /\ host.sent \in Seq(Data) /\ Len(host'.sent) = Len(host.sent) + 1 /\ Len(host.sent) \in Nat
      /\ host'.sent[Len(host.sent) + 1] = v
      /\ \A i \in 1 .. Len(host.sent) : host'.sent[i] = host.sent[i]
  BY <1>2, <1>5 DEF HostType
<1>8. Started'
  BY <1>1, <1>2, <1>3, <1>4, <1>5 DEF Serving, Started
<1>9. SameCommand'
  BY <1>1, <1>2, <1>3, <1>4, <1>5 DEF Serving, SameCommand
<1>10. Loading'
  <2> DEFINE taken == Stored * Packs + dev.pack
  <2>1. Stored' = Stored
    BY <1>1, <1>5 DEF Stored
  <2>2. dev.lba >= host.cmd.lba /\ (~dev.down => Stored = host.cmd.blocks)
    BY <1>3, <1>4 DEF Serving, Loading
  <2>3. CASE dev.down
    <3>1. Stored \in Nat /\ dev.pack \in Nat /\ Packs \in Nat /\ Stored * Packs \in Nat
      <4>1. dev.lba \in Nat /\ host.cmd.lba \in Nat /\ dev.pack \in Nat /\ Packs \in Nat
        BY <1>2, <1>4, SizesAssumption, CmdsAssumption DEF Handshake, TypeOK, DevType, PackNo, HostType, Command
      <4>2. Stored \in Nat
        BY <2>2, <4>1 DEF Stored
      <4> QED
        BY <4>1, <4>2
    <3>2. /\ dev.len > 0 /\ dev.len + taken = host.cmd.blocks * Packs /\ Len(host.sent) = taken
          /\ \A p \in PackNo : p < dev.pack => dev.buff[p] = host.sent[Stored * Packs + p + 1]
          /\ dev.pack > 0 => dev.flash[dev.lba] = [p \in PackNo |-> Erased]
      <4>1. /\ dev.len > 0 /\ dev.len + taken = host.cmd.blocks * Packs
            /\ Len(host.sent) = taken + (IF Pending THEN 1 ELSE 0)
            /\ \A p \in PackNo : p < dev.pack => dev.buff[p] = host.sent[Stored * Packs + p + 1]
            /\ dev.pack > 0 => dev.flash[dev.lba] = [p \in PackNo |-> Erased]
        BY <1>3, <1>4, <2>3 DEF Serving, Loading
      <4>2. Len(host.sent) = taken
        BY <1>2, <3>1, <4>1
      <4> QED
        BY <4>1, <4>2
    <3>3. \A p \in PackNo : p < dev.pack => dev.buff[p] = host'.sent[Stored * Packs + p + 1]
      <4> SUFFICES ASSUME NEW p \in PackNo, p < dev.pack
                   PROVE  dev.buff[p] = host'.sent[Stored * Packs + p + 1]
        OBVIOUS
      <4>1. Stored * Packs + p + 1 \in 1 .. Len(host.sent)
        BY <3>2, <3>1, SizesAssumption DEF PackNo
      <4> QED
        BY <1>7, <3>2, <4>1
    <3>4. Len(host'.sent) = taken + 1 /\ Out(v) = Out(host'.sent[taken + 1])
      BY <1>7, <3>2
    <3> HIDE DEF taken
    <3> QED
      BY <1>1, <1>5, <1>6, <2>1, <2>2, <2>3, <3>2, <3>3, <3>4 DEF Loading, taken
  <2>4. CASE ~dev.down
    BY <1>1, <1>5, <2>1, <2>2, <2>4 DEF Loading
  <2> QED
    BY <2>3, <2>4
<1>11. Reader'
  BY <1>4, <1>5 DEF Reader
<1>12. BDStep
  <2>1. Written' = Written
    BY <1>1, <1>5 DEF Written
  <2>2. ~Reading /\ ~Reading'
    BY <1>4, <1>5 DEF Reading
  <2>3. BD!Send(v)
    BY <1>1, <1>4, <1>5, <2>1, <2>2 DEF BD!Send, BD!Writes, Writes
  <2> QED
    BY <2>3 DEF BDStep, BD!Next
<1> QED
  BY <1>8, <1>9, <1>10, <1>11, <1>12 DEF Serving

\* A packet taken, or a stall cleared, is one of a command the device knows.
LEMMA TakeFacts ==
  ASSUME Handshake, Serving, host.ph # "idle", dev.ep4.stat # "NAK"
  PROVE  /\ host.cmd # NoCmd /\ host.cmd \in Command
         /\ host.cmd.op = "READ10" \/ host.cmd.op \in Writes => pc # "stuck" /\ dev.tag = host.tag
         /\ dev.tag = host.tag \/ pc = "stuck"
<1>1. host.cmd # NoCmd /\ host.cmd \in Command
  BY CmdsAssumption DEF Serving, Started, Handshake, TypeOK, HostType
<1>2. dev.tag = host.tag \/ pc = "stuck"
  BY DEF Handshake, WrapperFirst
<1>3. pc = "stuck" => host.cmd.op \in Failing
  BY DEF Serving, SameCommand
<1> QED
  BY <1>1, <1>2, <1>3 DEF Failing, Writes

\* What is left of Serving when only the status of EP4 changes.
LEMMA EpStatFacts ==
  ASSUME Handshake, NEW k \in {"NAK", "VALID", "STALL"}, dev' = [dev EXCEPT !.ep4.stat = k]
  PROVE  /\ dev'.ep4.stat = k /\ dev'.ep4.pkt = dev.ep4.pkt /\ dev'.tag = dev.tag
         /\ dev'.up = dev.up /\ dev'.down = dev.down /\ dev'.csw = dev.csw
         /\ dev'.op = dev.op /\ dev'.lba = dev.lba /\ dev'.pack = dev.pack /\ dev'.len = dev.len
         /\ dev'.buff = dev.buff /\ dev'.flash = dev.flash
BY DEF Handshake, TypeOK, DevType

\* The host takes a packet while it wants data: Receive for a read.
LEMMA InStep ==
  ASSUME Handshake, Serving, \A c \in Cmds : Asks(c), HostIn
  PROVE  Serving' /\ BDStep
<1> DEFINE p == dev.ep4.pkt
           w == IF p.kind = "in" THEN p.val ELSE Erased
           c == host.cmd
           z == IF Short(p) \/ host.got + 1 = c.packs THEN "csw" ELSE "in"
<1>1. /\ host.ph = "in" /\ dev.ep4.stat = "VALID" /\ dev' = [dev EXCEPT !.ep4.stat = "NAK"]
      /\ UNCHANGED <<ep5, rxBuff, mq, pc, msg>>
      /\ host' = [host EXCEPT !.got = @ + 1, !.last = w,
                              !.ph = IF Short(p) \/ host.got + 1 = host.cmd.packs THEN "csw" ELSE @]
  BY DEF HostIn, Take
<1>2. host \in HostType /\ host.got \in Nat
  BY DEF Handshake, TypeOK, HostType
<1>3. /\ c # NoCmd /\ c \in Command /\ c.op \notin Writes
      /\ c.op = "READ10" => pc # "stuck" /\ dev.tag = host.tag
      /\ dev.tag = host.tag \/ pc = "stuck"
  BY <1>1, TakeFacts DEF Serving, SameCommand
<1>4. /\ dev'.ep4.stat = "NAK" /\ dev'.tag = dev.tag
      /\ dev'.up = dev.up /\ dev'.down = dev.down /\ dev'.csw = dev.csw
      /\ dev'.op = dev.op /\ dev'.lba = dev.lba /\ dev'.pack = dev.pack /\ dev'.len = dev.len
      /\ dev'.flash = dev.flash
  BY <1>1, EpStatFacts
<1> HIDE DEF w, p
<1>5. /\ host'.got = host.got + 1 /\ host'.last = w /\ host'.ph = z /\ host'.cmd = c
      /\ host'.tag = host.tag /\ host'.sent = host.sent
  BY <1>1, <1>2 DEF HostType
<1>6. host'.ph \in {"csw", "in"}
  BY <1>5
<1> HIDE DEF z
<1>7. Started'
  BY <1>1, <1>3, <1>4, <1>5, <1>6 DEF Serving, Started
<1>8. Loading'
  BY <1>3, <1>5 DEF Loading
<1>9. Written = 0 /\ Written' = 0
  BY <1>3, <1>5 DEF Written, Writes
<1>10. CASE c.op = "READ10"
  <2> DEFINE sent == Stored * Packs + dev.pack
  <2>1. /\ dev.lba >= c.lba /\ sent + dev.len = c.packs /\ (dev.up <=> dev.len > 0)
        /\ host.ph = IF host.got < c.packs THEN "in" ELSE "csw"
        /\ \/ host.got + 1 = sent /\ dev.csw /\ p = In(dev.flash[c.lba + (host.got \div Packs)][host.got % Packs])
           \/ host.got = sent /\ dev.len = 0
    BY <1>1, <1>3, <1>10 DEF Serving, Reader, p
  <2>2. c.packs \in Nat /\ c.blocks \in Nat
    BY <1>3 DEF Command
  <2>3. host.got < c.packs
    BY <1>1, <2>1
  <2>4. sent \in Int
    <3>1. dev.lba \in Nat /\ c.lba \in Nat /\ dev.pack \in Nat /\ Packs \in Nat
      BY <1>3, SizesAssumption DEF Handshake, TypeOK, DevType, PackNo, Command
    <3> QED
      BY <3>1 DEF Stored
  <2>5. host.got + 1 = sent /\ dev.csw /\ p = In(dev.flash[c.lba + (host.got \div Packs)][host.got % Packs])
    BY <1>2, <2>1, <2>2, <2>3, <2>4
  <2>6. p.kind = "in" /\ ~Short(p) /\ w = dev.flash[c.lba + (host.got \div Packs)][host.got % Packs]
    BY <2>5 DEF In, Short, w
  <2>7. z = IF host.got + 1 < c.packs THEN "in" ELSE "csw"
    BY <1>2, <2>2, <2>3, <2>6 DEF z
  <2>8. SameCommand'
    BY <1>1, <1>3, <1>4, <1>5, <1>6, <1>10 DEF Serving, SameCommand
  <2>9. Reader'
    <3>1. Stored' = Stored
      BY <1>4, <1>5 DEF Stored
    <3> QED
      BY <1>3, <1>4, <1>5, <2>1, <2>5, <2>7, <3>1 DEF Reader
  <2>10. BDStep
    <3>1. Reading /\ Reading'
      BY <1>3, <1>5, <1>10 DEF Reading
    <3>2. c.packs = c.blocks * Packs
      BY <1>2, <1>3, <1>10 DEF Asks, HostType
    <3>3. BD!Receive
      BY <1>3, <1>4, <1>5, <1>9, <1>10, <2>3, <2>6, <3>1, <3>2 DEF BD!Receive
    <3> QED
      BY <3>3 DEF BDStep, BD!Next
  <2> QED
    BY <1>7, <1>8, <2>8, <2>9, <2>10 DEF Serving
<1>11. CASE c.op # "READ10"
  <2>1. w = Erased /\ host.last = Erased
    BY <1>1, <1>3, <1>11 DEF Serving, SameCommand, w, p
  <2>2. SameCommand'
    BY <1>1, <1>3, <1>4, <1>5, <1>6, <1>11, <2>1 DEF Serving, SameCommand
  <2>3. Reader'
    BY <1>5, <1>11 DEF Reader
  <2>4. BDStep
    BY <1>4, <1>5, <1>9, <1>11, <2>1, Stutters DEF Reading
  <2> QED
    BY <1>7, <1>8, <2>2, <2>3, <2>4 DEF Serving
<1> QED
  BY <1>10, <1>11

\* The host takes a packet while it wants the status: Complete, or it is lost.
LEMMA StatusStep ==
  ASSUME Handshake, Serving, \A c \in Cmds : Asks(c), HostStatus
  PROVE  Serving' /\ BDStep
<1> DEFINE c == host.cmd
           own == dev.ep4.pkt.kind = "csw" /\ dev.ep4.pkt.tag = host.tag
<1>1. /\ host.ph = "csw" /\ dev.ep4.stat = "VALID" /\ dev' = [dev EXCEPT !.ep4.stat = "NAK"]
      /\ UNCHANGED <<ep5, rxBuff, mq, pc, msg>>
      /\ host' = IF own THEN Idle(host) ELSE [host EXCEPT !.ph = "lost"]
  BY DEF HostStatus, Take
<1>2. host \in HostType /\ host.got \in Nat
  BY DEF Handshake, TypeOK, HostType
<1>3. /\ c # NoCmd /\ c \in Command
      /\ c.op = "READ10" \/ c.op \in Writes => pc # "stuck" /\ dev.tag = host.tag
      /\ dev.tag = host.tag \/ pc = "stuck"
  BY <1>1, TakeFacts
<1>4. /\ dev'.ep4.stat = "NAK" /\ dev'.tag = dev.tag
      /\ dev'.up = dev.up /\ dev'.down = dev.down /\ dev'.csw = dev.csw
      /\ dev'.op = dev.op /\ dev'.lba = dev.lba /\ dev'.pack = dev.pack /\ dev'.len = dev.len
      /\ dev'.buff = dev.buff /\ dev'.flash = dev.flash
  BY <1>1, EpStatFacts
<1>5. c.op = "READ10" => own /\ host.got = c.packs
  <2> SUFFICES ASSUME c.op = "READ10" PROVE own /\ host.got = c.packs
    OBVIOUS
  <2> DEFINE sent == Stored * Packs + dev.pack
  <2>1. /\ sent + dev.len = c.packs
        /\ host.ph = IF host.got < c.packs THEN "in" ELSE "csw"
        /\ host.got + 1 = sent \/ (own /\ host.got = sent /\ dev.len = 0)
    BY <1>1, <1>3 DEF Serving, Reader
  <2>2. c.packs \in Nat /\ dev.len \in Nat /\ sent \in Int
    <3>1. dev.lba \in Nat /\ c.lba \in Nat /\ dev.pack \in Nat /\ Packs \in Nat /\ dev.len \in Nat /\ c.packs \in Nat
      BY <1>3, SizesAssumption DEF Handshake, TypeOK, DevType, PackNo, Command
    <3> QED
      BY <3>1 DEF Stored
  <2>3. ~(host.got < c.packs)
    BY <1>1, <2>1
  <2> QED
    BY <1>2, <2>1, <2>2, <2>3
<1>6. CASE ~own
  <2>1. c.op # "READ10"
    BY <1>5, <1>6
  <2>2. /\ host'.ph = "lost" /\ host'.cmd = c /\ host'.tag = host.tag /\ host'.got = host.got
        /\ host'.sent = host.sent /\ host'.last = host.last
    BY <1>1, <1>2, <1>6 DEF HostType
  <2>3. Started'
    BY <1>1, <1>3, <1>4, <2>2 DEF Serving, Started
  <2>4. SameCommand'
    BY <1>1, <1>3, <1>4, <2>1, <2>2 DEF Serving, SameCommand
  <2>5. Loading'
    <3>1. Stored' = Stored
      BY <1>4, <2>2 DEF Stored
    <3>2. (Pending' <=> Pending) /\ Packet' = Packet
      BY <1>1 DEF HostStatus, Take, Pending, Packet
    <3> QED
      BY <1>4, <2>2, <3>1, <3>2 DEF Serving, Loading
  <2>6. Reader'
    BY <2>1, <2>2 DEF Reader
  <2>7. BDStep
    <3>1. Written' = Written
      BY <1>4, <2>2 DEF Written
    <3> QED
      BY <1>4, <2>2, <3>1, Stutters
  <2> QED
    BY <2>3, <2>4, <2>5, <2>6, <2>7 DEF Serving
<1>7. CASE own
  <2>1. FlagsClear /\ dev.tag = host.tag
    BY <1>7 DEF Handshake, PhasesAgree
  <2>2. /\ host'.ph = "idle" /\ host'.cmd = NoCmd /\ host'.tag = host.tag /\ host'.got = 0
        /\ host'.sent = <<>> /\ host'.last = Erased
    BY <1>1, <1>2, <1>7 DEF HostType, Idle
  <2>3. Started'
    BY <1>1, <1>4, <2>1, <2>2 DEF Started
  <2>4. SameCommand'
    BY <1>1, <1>4, <2>1, <2>2 DEF Serving, SameCommand, FlagsClear
  <2>5. Loading' /\ Reader'
    BY <2>2 DEF Loading, Reader
  <2>6. BDStep
    <3>1. c.op \in Writes => Written = c.blocks
      BY <1>3, <2>1 DEF Serving, Loading, Written, Stored, FlagsClear, Writes
    <3>2. c.op = "READ10" => Reading /\ host.got = c.blocks * Packs
      BY <1>2, <1>3, <1>5 DEF Reading, Asks, HostType
    <3>3. Written' = 0 /\ ~Reading'
      BY <2>2 DEF Written, Reading
    <3>4. BD!Complete
      BY <1>3, <1>4, <2>2, <3>1, <3>2, <3>3 DEF BD!Complete, BD!Writes, Writes
    <3> QED
      BY <3>4 DEF BDStep, BD!Next
  <2> QED
    BY <2>3, <2>4, <2>5, <2>6 DEF Serving
<1> QED
  BY <1>6, <1>7

\* The host clears a stall, which neither a read nor a write meets.
LEMMA ClearStep ==
  ASSUME Handshake, Serving, HostClearFeature
  PROVE  Serving' /\ BDStep
<1>1. /\ host.ph \in {"in", "csw"} /\ dev.ep4.stat = "STALL" /\ dev' = [dev EXCEPT !.ep4.stat = "VALID"]
      /\ host' = [host EXCEPT !.ph = "csw"] /\ UNCHANGED <<ep5, ctr, rxBuff, mq, pc, msg>>
  BY DEF HostClearFeature
<1>2. /\ host'.ph = "csw" /\ host'.cmd = host.cmd /\ host'.tag = host.tag /\ host'.got = host.got
      /\ host'.sent = host.sent /\ host'.last = host.last
  BY <1>1 DEF Handshake, TypeOK, HostType
<1>3. /\ host.cmd # NoCmd
      /\ host.cmd.op = "READ10" => dev.tag = host.tag
      /\ dev.tag = host.tag \/ pc = "stuck"
  BY <1>1, TakeFacts
<1>4. /\ dev'.ep4.stat = "VALID" /\ dev'.tag = dev.tag
      /\ dev'.up = dev.up /\ dev'.down = dev.down /\ dev'.csw = dev.csw
      /\ dev'.op = dev.op /\ dev'.lba = dev.lba /\ dev'.pack = dev.pack /\ dev'.len = dev.len
      /\ dev'.buff = dev.buff /\ dev'.flash = dev.flash
  BY <1>1, EpStatFacts
<1>5. host.cmd.op # "READ10"
  BY <1>1, <1>3 DEF Serving, Reader
<1>6. Started'
  BY <1>1, <1>2, <1>3, <1>4 DEF Serving, Started
<1>7. SameCommand'
  BY <1>1, <1>2, <1>3, <1>4, <1>5 DEF Serving, SameCommand
<1>8. Loading'
  <2>1. Stored' = Stored
    BY <1>2, <1>4 DEF Stored
  <2>2. (Pending' <=> Pending) /\ Packet' = Packet
    BY <1>1 DEF Pending, Packet
  <2> QED
    BY <1>2, <1>4, <2>1, <2>2 DEF Serving, Loading
<1>9. Reader'
  BY <1>2, <1>5 DEF Reader
<1>10. BDStep
  <2>1. Written' = Written
    BY <1>2, <1>4 DEF Written
  <2> QED
    BY <1>2, <1>4, <2>1, Stutters
<1> QED
  BY <1>6, <1>7, <1>8, <1>9, <1>10 DEF Serving

\* The sector a read or a write is at is one of the disk while packs are left.
LEMMA SectorOnDisk ==
  ASSUME Handshake, host.cmd \in Cmds, Asks(host.cmd), host.cmd.op \in RdWr, dev.lba >= host.cmd.lba,
         dev.len > 0, dev.len + (Stored * Packs + dev.pack) = host.cmd.blocks * Packs
  PROVE  /\ Stored \in Nat /\ Stored < host.cmd.blocks /\ dev.lba = host.cmd.lba + Stored
         /\ dev.lba % Sectors = dev.lba /\ dev.lba \in SectorNo
<1>1. /\ dev.lba \in Nat /\ dev.pack \in PackNo /\ dev.len \in Nat
      /\ host.cmd.lba \in Nat /\ host.cmd.blocks \in Nat
  BY CmdsAssumption DEF Handshake, TypeOK, DevType, Command
<1>2. Stored \in Nat /\ dev.lba = host.cmd.lba + Stored
  BY <1>1 DEF Stored
<1>3. Stored < host.cmd.blocks
  BY <1>1, <1>2, SectorLeft
<1>4. host.cmd.lba + host.cmd.blocks <= Sectors
  BY DEF Asks
<1>5. dev.lba < Sectors
  BY <1>1, <1>2, <1>3, <1>4, SizesAssumption
<1> QED
  BY <1>1, <1>2, <1>3, <1>5, SectorWhole

\* The thread handles the message of an upload.
LEMMA InDealStep ==
  ASSUME EpRace = FALSE, Handshake, Serving, \A c \in Cmds : Asks(c), ThreadInDeal
  PROVE  Serving' /\ BDStep
<1> DEFINE c == host.cmd
<1>1. /\ pc = "deal" /\ msg = "In" /\ dev' = UDISK_In_EP_Deal(dev)
      /\ pc' = AfterDeal(dev', "recv") /\ UNCHANGED <<ep5, ctr, rxBuff, mq, msg, host>>
  BY DEF ThreadInDeal
<1>2. /\ dev \in DevType /\ host \in HostType /\ dev.ep4.stat = "NAK" /\ ~dev.down /\ ~dev.stuck
  BY <1>1 DEF Handshake, TypeOK, OneInToken, PhasesAgree
<1>3. dev' \in DevType /\ dev'.tag = dev.tag /\ dev'.stuck = dev.stuck
  BY <1>1, <1>2, InDealType, InDealEffect
<1>4. pc' = "recv"
  BY <1>1, <1>2, <1>3 DEF AfterDeal
<1>5. (Pending' <=> Pending) /\ (Pending => Packet' = Packet)
  BY <1>1, <1>4 DEF Pending, Packet
<1>6. CASE dev' = dev
  BY <1>1, <1>4, <1>5, <1>6, FrameStep
<1>7. CASE dev.up \/ dev.csw
  <2>1. /\ dev.tag = host.tag /\ host.ph # "idle" /\ c # NoCmd /\ c \in Cmds /\ c \in Command /\ dev.op = c.op
    BY <1>1, <1>2, <1>7, CmdsAssumption DEF Handshake, WrapperFirst, PhasesAgree, FlagsClear, Serving, Started,
       SameCommand, HostType
  <2>2. Started'
    BY <1>1, <1>3, <1>4, <2>1 DEF Serving, Started
  <2>3. CASE dev.up /\ c.op = "READ10"
    <3> DEFINE sent == Stored * Packs + dev.pack
    <3>1. /\ dev.lba >= c.lba /\ sent + dev.len = c.packs /\ dev.len > 0 /\ host.got = sent /\ dev.csw
          /\ host.ph = IF host.got < c.packs THEN "in" ELSE "csw"
      BY <1>2, <2>1, <2>3 DEF Serving, Reader
    <3>2. /\ NextPlace(dev, dev') /\ dev'.flash = dev.flash /\ dev'.op = dev.op /\ dev'.csw = dev.csw
          /\ dev'.down = dev.down /\ dev'.len = dev.len - 1 /\ dev'.up = (dev.up /\ dev'.len # 0)
          /\ dev'.ep4 = [stat |-> "VALID", pkt |-> In(dev.flash[dev.lba % Sectors][dev.pack])]
      <4>1. dev' = UpPack(dev) /\ dev.op = "READ10"
        BY <1>1, <2>1, <2>3 DEF UDISK_In_EP_Deal
      <4> QED
        BY <1>2, <3>1, <4>1, ReadMedia
    <3>3. /\ dev.len \in Nat /\ dev.pack \in PackNo /\ c.lba \in Nat /\ c.packs \in Nat /\ c.packs = c.blocks * Packs
          /\ c.op \in RdWr /\ Asks(c)
      BY <1>2, <2>1, <2>3 DEF DevType, Command, Asks, RdWr
    <3>4. sent \in Int
      <4>1. dev.lba \in Nat /\ c.lba \in Nat /\ dev.pack \in Nat /\ Packs \in Nat
        BY <1>2, <3>3, SizesAssumption DEF DevType, PackNo
      <4> QED
        BY <4>1 DEF Stored
    <3>5. dev.len + sent = c.blocks * Packs
      BY <3>1, <3>3, <3>4
    <3>6. Stored \in Nat /\ dev.lba = c.lba + Stored /\ dev.lba % Sectors = dev.lba
      BY <2>1, <3>1, <3>3, <3>5, SectorOnDisk
    <3>7. host.got \div Packs = Stored /\ host.got % Packs = dev.pack
      BY <3>1, <3>3, <3>6, Division
    <3>8. dev'.lba >= c.lba /\ Stored' * Packs + dev'.pack = sent + 1
      <4>1. dev'.lba >= c.lba /\ (dev'.lba - c.lba) * Packs + dev'.pack = (dev.lba - c.lba) * Packs + dev.pack + 1
        BY <1>2, <1>3, <3>1, <3>2, <3>3, NextPlaceCounts
      <4> QED
        BY <1>1, <4>1 DEF Stored
    <3> HIDE DEF sent
    <3>9. Reader'
      <4>1. dev'.ep4.stat = "VALID" /\ dev'.ep4.pkt = In(dev'.flash[c.lba + (host.got \div Packs)][host.got % Packs])
        BY <3>2, <3>6, <3>7
      <4>2. (sent + 1) + dev'.len = c.packs /\ host.got + 1 = sent + 1 /\ (dev'.up <=> dev'.len > 0)
        <5>1. dev'.len = dev.len - 1 /\ (dev'.up <=> dev'.len # 0)
          BY <2>3, <3>2
        <5> QED
          BY <3>1, <3>3, <3>4, <5>1
      <4> QED
        BY <1>1, <3>1, <3>2, <3>8, <4>1, <4>2 DEF Reader
    <3>10. SameCommand'
      BY <1>1, <1>2, <1>3, <1>4, <2>1, <2>3, <3>2 DEF Serving, SameCommand
    <3>11. Loading'
      BY <1>1, <2>3 DEF Loading, Writes
    <3>12. BDStep
      <4>1. Written' = Written
        BY <1>1, <2>3 DEF Written, Writes
      <4> QED
        BY <1>1, <3>2, <4>1, Stutters
    <3> QED
      BY <2>2, <3>9, <3>10, <3>11, <3>12 DEF Serving
  <2>4. CASE ~(dev.up /\ c.op = "READ10")
    <3>1. /\ SameMedia(dev, dev') /\ ~dev'.down /\ dev'.ep4.stat = "VALID" /\ dev'.ep4.pkt.kind # "in"
          /\ c.op = "READ10" => ~dev.up /\ ~dev'.up /\ dev'.len = dev.len /\ dev'.ep4.pkt.kind = "csw"
                                  /\ dev'.ep4.pkt.tag = dev.tag
      <4>1. CASE dev.up
        <5>1. dev' = UpPack(dev) /\ dev.op # "READ10"
          BY <1>1, <2>1, <2>4, <4>1 DEF UDISK_In_EP_Deal
        <5>2. SameMedia(dev, dev') /\ dev'.ep4.stat = "VALID" /\ dev'.ep4.pkt.kind = "reply" /\ dev'.down = dev.down
          BY <1>2, <5>1, BulkMedia
        <5> QED
          BY <1>2, <2>1, <5>1, <5>2
      <4>2. CASE ~dev.up
        <5>1. dev' = UDISK_Up_CSW(dev)
          BY <1>1, <1>7, <4>2 DEF UDISK_In_EP_Deal
        <5>2. SameMedia(dev, dev') /\ dev'.len = dev.len
          BY <1>2, <5>1, CswMedia
        <5>3. Quiet(dev') /\ dev'.ep4 = [stat |-> "VALID", pkt |-> Csw(dev.tag, dev.status)]
          BY <1>2, <5>1, UpCswEffect
        <5>4. dev'.ep4.pkt.kind = "csw" /\ dev'.ep4.pkt.tag = dev.tag /\ dev'.ep4.stat = "VALID"
          BY <5>3 DEF Csw
        <5> QED
          BY <4>2, <5>2, <5>3, <5>4 DEF Quiet
      <4> QED
        BY <4>1, <4>2
    <3>2. Stored' = Stored
      BY <1>1, <3>1 DEF Stored, SameMedia
    <3>3. SameCommand'
      BY <1>1, <1>2, <1>3, <1>4, <2>1, <3>1 DEF Serving, SameCommand, SameMedia
    <3>4. Loading'
      BY <1>1, <1>2, <1>3, <2>1, <3>1, <3>2 DEF Serving, Loading, SameMedia
    <3>5. Reader'
      <4> SUFFICES ASSUME c.op = "READ10" PROVE Reader'
        BY <1>1 DEF Reader
      <4>1. /\ dev.lba >= c.lba /\ Stored * Packs + dev.pack + dev.len = c.packs /\ (dev.up <=> dev.len > 0)
            /\ host.ph = (IF host.got < c.packs THEN "in" ELSE "csw") /\ host.got = Stored * Packs + dev.pack
        BY <1>2, <2>1 DEF Serving, Reader
      <4>2. dev.len = 0
        BY <1>2, <3>1, <4>1 DEF DevType
      <4> QED
        BY <1>1, <1>3, <2>1, <3>1, <3>2, <4>1, <4>2 DEF Reader, SameMedia
    <3>6. BDStep
      <4>1. Written' = Written
        BY <1>1, <1>3, <3>1 DEF Written, SameMedia
      <4> QED
        BY <1>1, <3>1, <4>1, Stutters DEF SameMedia
    <3> QED
      BY <2>2, <3>3, <3>4, <3>5, <3>6 DEF Serving
  <2> QED
    BY <2>3, <2>4
<1>8. CASE ~dev.up /\ ~dev.csw
  BY <1>1, <1>6, <1>8 DEF UDISK_In_EP_Deal
<1> QED
  BY <1>7, <1>8

\* The thread handles a packet that is no wrapper.
LEMMA DataStep ==
  ASSUME EpRace = FALSE, Handshake, Serving, \A c \in Cmds : Asks(c), ThreadOutDeal, dev.tag = host.tag
  PROVE  Serving' /\ BDStep
<1> DEFINE c == host.cmd
<1>1. /\ pc = "deal" /\ msg = "Out" /\ dev' = UDISK_Out_EP_Deal(dev, rxBuff)
      /\ pc' = AfterDeal(dev', "rearm") /\ UNCHANGED <<ep5, ctr, rxBuff, mq, msg, host>>
  BY DEF ThreadOutDeal
<1>2. dev \in DevType /\ host \in HostType /\ rxBuff \in OutPacket \cup {NoPkt} /\ dev.stuck = FALSE
  BY <1>1 DEF Handshake, TypeOK, DevType
<1>3. "EP5" \notin ctr /\ ~HasOut(mq) /\ Pending /\ Packet = rxBuff /\ rxBuff.kind = "out"
  BY <1>1 DEF Handshake, OneOutToken, WrapperFirst, Pending, Packet
<1>4. dev' \in DevType
  BY <1>1, <1>2, OutDealType
<1>5. (dev'.stuck = FALSE => pc' = "rearm") /\ ~Pending'
  BY <1>1, <1>3 DEF AfterDeal, Pending
<1>6. CASE ~dev.down
  <2>1. dev' = dev
    BY <1>1, <1>3, <1>6 DEF UDISK_Out_EP_Deal
  <2>2. pc' = "rearm"
    BY <1>2, <1>5, <2>1
  <2>3. Started' /\ SameCommand'
    BY <1>1, <2>1, <2>2 DEF Serving, Started, SameCommand
  <2>4. Loading'
    <3>1. Stored' = Stored
      BY <1>1, <2>1 DEF Stored
    <3> QED
      BY <1>1, <1>6, <2>1, <3>1 DEF Serving, Loading
  <2>5. Reader'
    BY <1>1, <2>1 DEF Serving, Reader, Stored
  <2>6. BDStep
    BY <1>1, <2>1, Stutters DEF Written
  <2> QED
    BY <2>3, <2>4, <2>5, <2>6 DEF Serving
<1>7. CASE dev.down
  <2> DEFINE base == Stored * Packs
             taken == base + dev.pack
             v == host.sent[taken + 1]
  <2>1. c # NoCmd /\ c \in Cmds /\ c \in Command /\ c.op \in Writes /\ c.op # "READ10" /\ c.op \in RdWr /\ dev.op = c.op
    BY <1>1, <1>2, <1>7, CmdsAssumption DEF Serving, SameCommand, Writes, RdWr, HostType
  <2>2. /\ dev.lba >= c.lba /\ dev.len > 0 /\ dev.len + taken = c.blocks * Packs
        /\ Len(host.sent) = taken + 1 /\ rxBuff = Out(v)
        /\ \A p \in PackNo : p < dev.pack => dev.buff[p] = host.sent[base + p + 1]
        /\ dev.pack > 0 => dev.flash[dev.lba] = [p \in PackNo |-> Erased]
    BY <1>3, <1>7, <2>1 DEF Serving, Loading
  <2>3. /\ Stored \in Nat /\ Stored < c.blocks /\ dev.lba = c.lba + Stored
        /\ dev.lba % Sectors = dev.lba /\ dev.lba \in SectorNo
    BY <2>1, <2>2, SectorOnDisk
  <2>4. /\ dev.len \in Nat /\ dev.pack \in PackNo /\ dev.pack \in Nat /\ Packs \in Nat /\ base \in Nat /\ c.blocks \in Nat
        /\ c.lba \in Nat /\ c.blocks * Packs \in Nat
    <3>1. /\ dev.len \in Nat /\ dev.pack \in PackNo /\ dev.pack \in Nat /\ Packs \in Nat
          /\ c.blocks \in Nat /\ c.lba \in Nat
      BY <1>2, <2>1, SizesAssumption DEF DevType, PackNo, Command
    <3>2. base \in Nat
      BY <2>3, <3>1
    <3>3. c.blocks * Packs \in Nat
      BY <3>1
    <3> QED
      BY <3>1, <3>2, <3>3
  <2>5. v \in Data
    <3>1. taken + 1 \in 1 .. Len(host.sent)
      BY <2>2, <2>4
    <3> QED
      BY <1>2, <3>1 DEF HostType
  <2>6. dev' = UDISK_Down_OnePack(dev, Out(v))
    BY <1>1, <1>7, <2>2 DEF UDISK_Out_EP_Deal
  <2> HIDE DEF base, v
  <2>7. Reader'
    BY <1>1, <2>1 DEF Reader
  <2>8. Written = Stored
    BY <2>1 DEF Written, Stored, Writes
  <2>9. Len(host.sent) = base + dev.pack + 1 /\ taken = base + dev.pack
    BY <2>2
  <2> HIDE DEF taken
  <2>10. CASE dev.pack + 1 # Packs
    <3> DEFINE f == IF dev.pack = 0 THEN Erase(dev).flash ELSE dev.flash
    <3>1. /\ dev'.flash = f /\ dev'.buff = [dev.buff EXCEPT ![dev.pack] = v] /\ dev'.len = dev.len - 1
          /\ dev'.pack = dev.pack + 1 /\ dev'.lba = dev.lba /\ dev'.op = dev.op /\ dev'.down = dev.down
          /\ dev'.ep4 = dev.ep4 /\ dev'.tag = dev.tag /\ dev'.stuck = dev.stuck
      BY <1>2, <2>2, <2>5, <2>6, <2>10, StoreMedia
    <3>2. pc' = "rearm" /\ Stored' = Stored
      BY <1>1, <1>2, <1>5, <3>1 DEF Stored
    <3>3. f = IF dev.pack = 0 THEN [dev.flash EXCEPT ![dev.lba] = [p \in PackNo |-> Erased]] ELSE dev.flash
      <4>1. Erase(dev).flash = [dev.flash EXCEPT ![dev.lba] = [p \in PackNo |-> Erased]]
        BY <1>2, <2>3 DEF Erase, DevType
      <4> QED
        BY <4>1
    <3> HIDE DEF f
    <3>4. dev.flash \in [SectorNo -> [PackNo -> Content]] /\ dev.buff \in [PackNo -> Content]
      BY <1>2 DEF DevType
    <3>5. Started' /\ SameCommand'
      BY <1>1, <1>7, <2>1, <3>1, <3>2 DEF Serving, Started, SameCommand
    <3>6. dev.len # 1
      <4> SUFFICES ASSUME dev.len = 1 PROVE FALSE
        OBVIOUS
      <4>1. dev.pack + 1 \in PackNo
        BY <2>4, <2>10 DEF PackNo
      <4>2. Stored * Packs + (dev.pack + 1) = c.blocks * Packs
        BY <2>2, <2>4, <2>9 DEF base
      <4>3. dev.pack + 1 = 0
        <5>1. c.blocks \in Nat /\ Stored \in Nat
          BY <2>3, <2>4
        <5> QED
          BY <4>1, <4>2, <5>1, SectorsDone
      <4> QED
        BY <2>4, <4>3
    <3>7. Loading'
      <4>1. dev'.len > 0 /\ dev'.len + (base + (dev.pack + 1)) = c.blocks * Packs
        <5> DEFINE all == c.blocks * Packs
        <5>1. dev.len + (base + dev.pack) = all /\ dev.len > 0 /\ all \in Nat
          BY <2>2, <2>4, <2>9
        <5> HIDE DEF all
        <5>2. dev.len - 1 > 0 /\ (dev.len - 1) + (base + (dev.pack + 1)) = all
          BY <2>4, <3>6, <5>1
        <5> QED
          BY <3>1, <5>2 DEF all
      <4>2. Len(host.sent) = base + (dev.pack + 1) + 0
        BY <2>4, <2>9
      <4>3. \A p \in PackNo : p < dev.pack + 1 => dev'.buff[p] = host.sent[base + p + 1]
        <5> SUFFICES ASSUME NEW p \in PackNo, p < dev.pack + 1 PROVE dev'.buff[p] = host.sent[base + p + 1]
          OBVIOUS
        <5>1. CASE p = dev.pack
          BY <2>4, <2>9, <3>1, <3>4, <5>1 DEF v
        <5>2. CASE p # dev.pack
          <6>1. p < dev.pack
            BY <2>4, <5>2, SizesAssumption DEF PackNo
          <6> QED
            BY <2>2, <3>1, <3>4, <5>2, <6>1
        <5> QED
          BY <5>1, <5>2
      <4>4. dev'.flash[dev.lba] = [p \in PackNo |-> Erased]
        <5>1. dev.pack > 0 \/ dev.pack = 0
          BY <2>4
        <5> QED
          BY <2>2, <2>3, <3>1, <3>3, <3>4, <5>1
      <4> QED
        BY <1>1, <1>5, <1>7, <2>2, <3>1, <3>2, <4>1, <4>2, <4>3, <4>4 DEF Loading, base
    <3>8. BDStep
      <4>1. Written' = Written
        BY <1>1, <3>1 DEF Written
      <4>2. CASE dev.pack = 0
        <5>1. dev'.flash = [dev.flash EXCEPT ![c.lba + Written] = [p \in 0 .. Packs - 1 |-> Erased]]
          BY <2>3, <2>8, <3>1, <3>3, <4>2 DEF PackNo
        <5>2. Written < c.blocks /\ Len(host.sent) > Written * Packs
          BY <2>3, <2>4, <2>8, <2>9, <4>2 DEF base
        <5>3. BD!Erase
          BY <1>1, <2>1, <4>1, <5>1, <5>2 DEF BD!Erase, BD!Current, BD!Blank, BD!Writes, Writes, Reading
        <5> QED
          BY <5>3 DEF BDStep, BD!Next
      <4>3. CASE dev.pack # 0
        BY <1>1, <3>1, <3>3, <4>1, <4>3, Stutters
      <4> QED
        BY <4>2, <4>3
    <3> QED
      BY <2>7, <3>5, <3>7, <3>8 DEF Serving
  <2>11. CASE dev.pack + 1 = Packs
    <3> DEFINE b == [dev.buff EXCEPT ![dev.pack] = v]
    <3>1. /\ dev'.flash = [dev.flash EXCEPT ![dev.lba] = [p \in PackNo |-> Over(dev.flash[dev.lba][p], b[p])]]
          /\ dev'.len = dev.len - 1 /\ dev'.pack = 0 /\ dev'.lba = dev.lba + 1 /\ dev'.op = dev.op
          /\ dev'.tag = dev.tag /\ dev'.stuck = dev.stuck
          /\ IF dev.len = 1 THEN Quiet(dev') /\ dev'.ep4.pkt.kind = "csw"
                            ELSE dev'.down = dev.down /\ dev'.ep4 = dev.ep4
      BY <1>2, <2>2, <2>3, <2>5, <2>6, <2>11, FillMedia
    <3>2. pc' = "rearm"
      BY <1>2, <1>5, <3>1
    <3>3. Stored' = Stored + 1 /\ (Stored + 1) * Packs = base + Packs
      BY <1>1, <2>3, <2>4, <3>1 DEF Stored, base
    <3>4. \A p \in PackNo : Over(dev.flash[dev.lba][p], b[p]) = host.sent[base + p + 1]
      <4> SUFFICES ASSUME NEW p \in PackNo PROVE Over(dev.flash[dev.lba][p], b[p]) = host.sent[base + p + 1]
        OBVIOUS
      <4>1. dev.buff \in [PackNo -> Content] /\ dev.pack > 0 /\ (p = dev.pack \/ p < dev.pack)
        BY <1>2, <2>4, <2>11, SizesAssumption DEF DevType, PackNo
      <4>2. b[p] = host.sent[base + p + 1]
        <5>1. CASE p = dev.pack
          BY <2>4, <2>9, <4>1, <5>1 DEF v
        <5>2. CASE p < dev.pack
          BY <2>2, <2>4, <4>1, <5>2 DEF PackNo
        <5> QED
          BY <4>1, <5>1, <5>2
      <4>3. dev.flash[dev.lba][p] = Erased
        BY <2>2, <4>1
      <4> QED
        BY <4>2, <4>3 DEF Over
    <3> HIDE DEF b
    <3>5. Started' /\ SameCommand'
      BY <1>1, <1>7, <2>1, <3>1, <3>2 DEF Serving, Started, SameCommand, Quiet
    <3>6. Loading'
      <4>1. CASE dev.len = 1
        <5>1. (Stored + 1) * Packs + 0 = c.blocks * Packs
          BY <2>2, <2>4, <2>9, <2>11, <3>3, <4>1
        <5>2. Stored + 1 = c.blocks
          BY <2>3, <2>4, <5>1, SectorsDone, SizesAssumption DEF PackNo
        <5> QED
          BY <1>1, <2>3, <2>4, <3>1, <3>3, <4>1, <5>2 DEF Loading, Quiet
      <4>2. CASE dev.len # 1
        <5>1. dev'.len > 0 /\ dev'.len + ((Stored + 1) * Packs + 0) = c.blocks * Packs
          BY <2>2, <2>4, <2>9, <2>11, <3>1, <3>3, <4>2
        <5>2. Len(host.sent) = (Stored + 1) * Packs + 0 + 0
          BY <2>4, <2>9, <2>11, <3>3
        <5>3. dev'.down /\ dev'.lba >= c.lba
          <6>1. dev'.down = dev.down /\ dev'.lba = dev.lba + 1 /\ dev.lba \in Nat /\ c.lba \in Nat
            BY <1>2, <2>4, <3>1, <4>2 DEF DevType
          <6> QED
            BY <1>7, <2>2, <6>1
        <5>4. \A p \in PackNo : ~(p < dev'.pack)
          BY <3>1, SizesAssumption DEF PackNo
        <5>5. ~(dev'.pack > 0)
          BY <3>1
        <5> QED
          BY <1>1, <1>5, <3>1, <3>3, <5>1, <5>2, <5>3, <5>4, <5>5 DEF Loading
      <4> QED
        BY <4>1, <4>2
    <3>7. BDStep
      <4>1. Written' = Written + 1
        <5>1. Written' = Stored'
          BY <1>1, <2>1, <3>1 DEF Written, Stored, Writes
        <5> QED
          BY <2>8, <3>3, <5>1
      <4>2. dev'.flash = [dev.flash EXCEPT ![c.lba + Written] = [p \in 0 .. Packs - 1 |-> host.sent[Written * Packs + p + 1]]]
        <5>1. [p \in PackNo |-> Over(dev.flash[dev.lba][p], b[p])] = [p \in PackNo |-> host.sent[base + p + 1]]
          BY <3>4
        <5>2. c.lba + Written = dev.lba /\ Written * Packs = base /\ PackNo = 0 .. Packs - 1
          BY <2>3, <2>8 DEF PackNo, base
        <5>3. dev'.flash = [dev.flash EXCEPT ![dev.lba] = [p \in PackNo |-> host.sent[base + p + 1]]]
          BY <3>1, <5>1
        <5> QED
          BY <5>2, <5>3
      <4>3. Written < c.blocks /\ Len(host.sent) >= (Written + 1) * Packs
        BY <2>3, <2>4, <2>8, <2>9, <2>11, <3>3
      <4>4. dev.flash[c.lba + Written] = [p \in 0 .. Packs - 1 |-> Erased]
        BY <2>2, <2>3, <2>4, <2>8, <2>11, SizesAssumption DEF PackNo
      <4>5. BD!Program
        BY <1>1, <2>1, <4>1, <4>2, <4>3, <4>4 DEF BD!Program, BD!Current, BD!Blank, BD!Writes, Writes, Reading
      <4> QED
        BY <4>5 DEF BDStep, BD!Next
    <3> QED
      BY <2>7, <3>5, <3>6, <3>7 DEF Serving
  <2> QED
    BY <2>10, <2>11
<1> QED
  BY <1>6, <1>7

\* The thread handles a wrapper: the command of the host is begun, or stuck.
LEMMA WrapperStep ==
  ASSUME EpRace = FALSE, Handshake, Serving, \A c \in Cmds : Asks(c), ThreadOutDeal, dev.tag # host.tag
  PROVE  Serving' /\ BDStep
<1> DEFINE c == host.cmd
           t == host.tag
<1>1. /\ pc = "deal" /\ msg = "Out" /\ dev' = UDISK_Out_EP_Deal(dev, rxBuff)
      /\ pc' = AfterDeal(dev', "rearm") /\ UNCHANGED <<ep5, ctr, rxBuff, mq, msg, host>>
  BY DEF ThreadOutDeal
<1>2. dev \in DevType /\ host \in HostType /\ t \in Tag /\ ~dev.stuck
  BY <1>1 DEF Handshake, TypeOK, HostType
<1>3. /\ rxBuff = Cbw(c, t) /\ Quiet(dev) /\ dev.ep4.stat = "NAK" /\ host.ph # "idle" /\ c \in Cmds
      /\ "EP5" \notin ctr /\ ~HasOut(mq)
  BY <1>1 DEF Handshake, OneOutToken, WrapperFirst, Packet, FlagsClear, Quiet
<1>4. /\ c # NoCmd /\ c \in Command /\ c.packs \in Nat /\ c.lba \in Nat /\ c.blocks \in Nat /\ Asks(c)
      /\ c.dir \in {"in", "out"}
  BY <1>3, CmdsAssumption DEF Command
<1>5. /\ dev' \in DevType /\ dev'.flash = dev.flash /\ dev'.op = c.op
      /\ dev'.stuck => dev'.down /\ c.op \in Failing /\ dev'.ep4.stat # "VALID"
      /\ ~dev'.stuck => /\ dev'.tag = t /\ (dev'.down <=> c.op \in Writes /\ c.packs > 0)
                        /\ c.packs > 0 /\ c.dir = "out" => c.op \in Writes
                        /\ c.op # "READ10" /\ dev'.ep4.stat = "VALID" => dev'.ep4.pkt.kind # "in"
      /\ c.op \in Writes => dev'.lba = c.lba /\ dev'.pack = 0 /\ (dev'.down => dev'.len = c.blocks * Packs)
      /\ c.op = "READ10" => Begun(dev', c, t, dev.flash[c.lba % Sectors][0])
  <2>1. dev' = UDISK_Out_EP_Deal(dev, Cbw(c, t))
    BY <1>1, <1>3
  <2> QED
    BY <1>2, <1>3, <1>4, <2>1, WrapperFacts
<1>6. (dev'.stuck => pc' = "stuck") /\ (~dev'.stuck => pc' = "rearm") /\ ~Pending'
  BY <1>1, <1>3 DEF AfterDeal, Pending
<1>7. host.got = 0 /\ host.sent = <<>> /\ host.last = Erased /\ host.ph = DataPhase(c)
  BY <1>1 DEF Serving, Started
<1>8. Started'
  BY <1>1, <1>3, <1>4, <1>7 DEF Started
<1>9. SameCommand'
  <2>1. host.ph = "in" => c.op \notin Writes
    BY <1>4, <1>7 DEF DataPhase, Asks, Writes, Failing
  <2>2. host.ph = "out" => c.packs > 0 /\ c.dir = "out"
    BY <1>4, <1>7 DEF DataPhase
  <2>3. CASE dev'.stuck
    <3>1. pc' = "stuck" /\ dev'.down /\ c.op \in Failing /\ dev'.ep4.stat # "VALID"
      BY <1>5, <1>6, <2>3
    <3> QED
      BY <1>1, <1>4, <1>5, <1>7, <2>1, <3>1 DEF SameCommand
  <2>4. CASE ~dev'.stuck
    <3>1. /\ pc' = "rearm" /\ (dev'.down => c.op \in Writes) /\ (host.ph = "out" => c.op \in Writes)
          /\ c.op # "READ10" /\ dev'.ep4.stat = "VALID" => dev'.ep4.pkt.kind # "in"
      BY <1>5, <1>6, <2>2, <2>4
    <3> QED
      BY <1>1, <1>4, <1>5, <1>7, <2>1, <3>1 DEF SameCommand
  <2> QED
    BY <2>3, <2>4
<1>10. Loading'
  <2> SUFFICES ASSUME c.op \in Writes PROVE Loading'
    BY <1>1 DEF Loading
  <2>1. ~dev'.stuck /\ dev'.lba = c.lba /\ dev'.pack = 0 /\ (dev'.down => dev'.len = c.blocks * Packs)
    BY <1>5 DEF Writes, Failing
  <2>2. (dev'.down <=> c.packs > 0) /\ (c.packs > 0 <=> c.blocks > 0)
    BY <1>4, <1>5, <2>1 DEF Asks
  <2>3. Stored' = 0
    BY <1>1, <1>4, <2>1 DEF Stored
  <2>4. 0 * Packs + 0 = 0 /\ c.blocks * Packs \in Nat /\ (c.blocks > 0 => c.blocks * Packs > 0)
    BY <1>4, SizesAssumption
  <2>5. Len(host.sent) = 0
    BY <1>7
  <2>6. CASE dev'.down
    <3>1. dev'.len > 0 /\ dev'.len + (0 * Packs + 0) = c.blocks * Packs
      BY <2>1, <2>2, <2>4, <2>6
    <3>2. Len(host.sent) = 0 * Packs + 0 + 0
      BY <2>4, <2>5
    <3>3. (\A p \in PackNo : ~(p < dev'.pack)) /\ ~(dev'.pack > 0) /\ dev'.lba >= c.lba
      BY <1>4, <2>1, SizesAssumption DEF PackNo
    <3> QED
      BY <1>1, <1>6, <2>1, <2>3, <2>6, <3>1, <3>2, <3>3 DEF Loading
  <2>7. CASE ~dev'.down
    <3>1. c.blocks = 0 /\ dev'.lba >= c.lba
      BY <1>4, <2>1, <2>2, <2>7
    <3> QED
      BY <1>1, <2>3, <2>7, <3>1 DEF Loading
  <2> QED
    BY <2>6, <2>7
<1>11. Reader'
  <2> SUFFICES ASSUME c.op = "READ10" PROVE Reader'
    BY <1>1 DEF Reader
  <2>1. ~dev'.stuck /\ dev'.tag = t
    BY <1>5 DEF Failing
  <2>2. Begun(dev', c, t, dev.flash[c.lba % Sectors][0])
    BY <1>5
  <2>3. CASE c.packs = 0
    <3>1. /\ dev'.lba = c.lba /\ dev'.pack = 0 /\ dev'.len = 0 /\ ~dev'.up /\ dev'.ep4.stat = "VALID"
          /\ dev'.ep4.pkt.kind = "csw" /\ dev'.ep4.pkt.tag = t
      BY <2>2, <2>3 DEF Begun
    <3>2. Stored' * Packs + dev'.pack = 0
      <4>1. Stored' = 0
        BY <1>1, <1>4, <3>1 DEF Stored
      <4> QED
        BY <3>1, <4>1, SizesAssumption
    <3>3. host.ph = "csw" /\ ~(host.got < c.packs) /\ host.got = 0
      BY <1>7, <2>3 DEF DataPhase
    <3> QED
      BY <1>1, <1>4, <2>1, <2>3, <3>1, <3>2, <3>3 DEF Reader
  <2>4. CASE c.packs # 0
    <3>1. /\ dev'.lba >= c.lba /\ (dev'.lba - c.lba) * Packs + dev'.pack = 1 /\ dev'.len = c.packs - 1
          /\ dev'.up <=> dev'.len # 0
          /\ dev'.csw
          /\ dev'.ep4 = [stat |-> "VALID", pkt |-> In(dev.flash[c.lba % Sectors][0])]
      BY <2>2, <2>4 DEF Begun
    <3>2. Stored' * Packs + dev'.pack = 1
      BY <1>1, <3>1 DEF Stored
    <3>3. host.ph = "in" /\ host.got < c.packs /\ host.got = 0
      <4>1. c.dir = "in"
        BY <1>4, <2>4 DEF Asks, Writes, Failing
      <4> QED
        BY <1>4, <1>7, <2>4, <4>1 DEF DataPhase
    <3>4. c.lba % Sectors = c.lba /\ 0 \div Packs = 0 /\ 0 % Packs = 0
      <4>1. c.packs = c.blocks * Packs /\ c.lba + c.blocks <= Sectors
        BY <1>4 DEF Asks, RdWr
      <4>2. c.blocks # 0
        BY <1>4, <2>4, <4>1, SizesAssumption
      <4>3. c.lba < Sectors
        BY <1>4, <4>1, <4>2, SizesAssumption
      <4>4. 0 \in PackNo /\ 0 * Packs + 0 = 0
        BY SizesAssumption DEF PackNo
      <4> QED
        BY <1>4, <4>3, <4>4, SectorWhole, Division
    <3>5. dev'.ep4.stat = "VALID" /\ dev'.ep4.pkt = In(dev'.flash[c.lba + (host.got \div Packs)][host.got % Packs])
      <4>1. c.lba + (host.got \div Packs) = c.lba /\ host.got % Packs = 0
        BY <1>4, <3>3, <3>4
      <4> QED
        BY <1>5, <3>1, <3>4, <4>1
    <3>6. /\ 1 + dev'.len = c.packs /\ host.got + 1 = 1 /\ (dev'.up <=> dev'.len > 0)
      BY <1>4, <2>4, <3>1, <3>3
    <3> QED
      BY <1>1, <3>1, <3>2, <3>3, <3>5, <3>6 DEF Reader
  <2> QED
    BY <2>3, <2>4
<1>12. BDStep
  <2>1. Written = 0
    BY DEF Written
  <2>2. Written' = 0
    BY <1>1, <1>4, <1>5 DEF Written, Writes
  <2> QED
    BY <1>1, <1>5, <2>1, <2>2, Stutters
<1> QED
  BY <1>8, <1>9, <1>10, <1>11, <1>12 DEF Serving

LEMMA ServingInit == Init => Serving /\ BD!Init
<1> SUFFICES ASSUME Init PROVE Serving /\ BD!Init
  OBVIOUS
<1>1. /\ host.ph = "idle" /\ host.cmd = NoCmd /\ host.got = 0 /\ host.sent = <<>> /\ host.last = Erased
      /\ pc = "recv" /\ ~dev.down /\ dev.tag = host.tag
  BY DEF Init
<1>2. Serving
  BY <1>1 DEF Serving, Started, SameCommand, Loading, Reader
<1>3. dev.flash \in [0 .. Sectors - 1 -> [0 .. Packs - 1 -> Data \cup {Erased}]]
  <2>1. dev.flash \in [SectorNo -> {[p \in PackNo |-> v] : v \in Data}]
    BY DEF Init
  <2>2. \A x \in {[p \in PackNo |-> v] : v \in Data} : x \in [PackNo -> Data \cup {Erased}]
    OBVIOUS
  <2> QED
    BY <2>1, <2>2 DEF SectorNo, PackNo
<1>4. BD!Init
  BY <1>1, <1>3 DEF BD!Init, Written, Reading
<1> QED
  BY <1>2, <1>4

LEMMA ServingNext ==
  ASSUME MaxResets = 0, EpRace = FALSE, \A c \in Cmds : Asks(c), Handshake, Serving, [Next]_vars
  PROVE  Serving' /\ BDStep
<1>1. CASE \/ ThreadRecv \/ ThreadRearm \/ Isr \/ UNCHANGED vars
           \/ StatusRead \/ StatusStore \/ StatusCheck
  BY <1>1, QueueStep
<1>2. CASE ThreadInDeal
  BY <1>2, InDealStep
<1>3. CASE ThreadOutDeal
  BY <1>3, DataStep, WrapperStep
<1>4. CASE \E c \in Cmds : HostCommand(c)
  BY <1>4, CommandStep
<1>5. CASE \E v \in Data : HostOut(v)
  BY <1>5, SendStep
<1>6. CASE HostIn
  BY <1>6, InStep
<1>7. CASE HostStatus
  BY <1>7, StatusStep
<1>8. CASE HostClearFeature
  BY <1>8, ClearStep
<1>9. CASE BusReset
  BY <1>9 DEF BusReset, Handshake, TypeOK
<1> QED
  BY <1>1, <1>2, <1>3, <1>4, <1>5, <1>6, <1>7, <1>8, <1>9 DEF Next, Thread

\* Serving: what the device still has to do for a command, what the host has
\* sent and received, and the flash are in step, at every point of a transfer.
THEOREM ServingCorrect ==
  ASSUME MaxResets = 0, EpRace = FALSE, \A c \in Cmds : Asks(c) PROVE Spec => []Serving
BY HandshakeInit, HandshakeNext, ServingInit, ServingNext, PTL DEF Spec

\* ImplementsBlockDevice: whatever the chip, the commands, the data and the
\* order in which host, interrupts and thread run, reads return the packs asked
\* for, writes land whole and in place, and a status of success is true, for a
\* host that announces the data its commands take and stays on the disk.
THEOREM BlockDeviceCorrect ==
  ASSUME MaxResets = 0, EpRace = FALSE, \A c \in Cmds : Asks(c) PROVE Spec => ImplementsBlockDevice
<1>1. Init => Handshake /\ Serving /\ BD!Init
  BY HandshakeInit, ServingInit
<1>2. Handshake /\ Serving /\ [Next]_vars => Handshake' /\ Serving' /\ [BD!Next]_(BD!vars)
  BY HandshakeNext, ServingNext DEF BDStep
<1> QED
  BY <1>1, <1>2, PTL DEF Spec, ImplementsBlockDevice, BD!Spec

\* FlashConfined, for any flash and commands as long as there is no reset, and
\* then of the command in progress alone: the sector that a step of BlockDevice
\* changes is one of that command.
THEOREM FlashConfinedCorrect ==
  ASSUME MaxResets = 0, EpRace = FALSE, \A c \in Cmds : Asks(c) 
  PROVE  Spec => /\ FlashConfined
                 /\ [][\A s \in SectorNo : dev'.flash[s] # dev.flash[s] => WritesTo(host.cmd, s)]_vars
<1>1. ASSUME Handshake, Serving, [Next]_vars, NEW s \in SectorNo, dev'.flash[s] # dev.flash[s]
      PROVE  WritesTo(host.cmd, s)
  <2>1. BD!Erase \/ BD!Program
    BY <1>1, ServingNext DEF BDStep, BD!Next, BD!Submit, BD!Send, BD!Receive, BD!Complete, BD!vars
  <2>2. /\ host.cmd # NoCmd /\ host.cmd.op \in Writes /\ Written < host.cmd.blocks
        /\ s = host.cmd.lba + Written
    <3>1. DOMAIN dev.flash = SectorNo
      BY <1>1 DEF Handshake, TypeOK, DevType
    <3> QED
      BY <1>1, <2>1, <3>1 DEF BD!Erase, BD!Program, BD!Current, BD!Writes, Writes
  <2>3. host.cmd \in Cmds
    BY <1>1, <2>2 DEF Handshake, TypeOK, HostType
  <2>4. host.cmd.lba \in Nat /\ host.cmd.blocks \in Nat
    BY <2>3, CmdsAssumption DEF Command
  <2>5. Written \in Nat
    <3>1. dev.lba \in Nat
      BY <1>1 DEF Handshake, TypeOK, DevType
    <3>2. dev.tag = host.tag => dev.lba >= host.cmd.lba
      BY <1>1, <2>2 DEF Serving, Loading
    <3> QED
      BY <2>4, <3>1, <3>2 DEF Written
  <2>6. s \in host.cmd.lba .. host.cmd.lba + host.cmd.blocks - 1
    BY <2>2, <2>4, <2>5
  <2> QED
    BY <2>2, <2>3, <2>6 DEF WritesTo
<1>2. Handshake /\ Serving /\ [Next]_vars
        => /\ [\A s \in SectorNo : dev'.flash[s] # dev.flash[s] => WritesTo(host.cmd, s)]_vars
           /\ [\A s \in SectorNo : dev'.flash[s] # dev.flash[s] =>
                 WritesTo(host.cmd, s) \/ WritesTo(host.prev, s)]_vars
  BY <1>1
<1> QED
  BY HandshakeInit, HandshakeNext, ServingInit, ServingNext, <1>2, PTL DEF Spec, FlashConfined
=============================================================================

----------------------------- MODULE UsbControl -----------------------------
(***************************************************************************)
(* Endpoint 0: the control transfers that enumerate the device.  The state *)
(* machine of drivers/USBLIB/USB-Driver/src/usb_core.c, its requests with  *)
(* the callbacks of CONFIG/usb_prop.c, the interrupt of usb_int.c and      *)
(* usb_istr.c, the endpoint of the controller and a host.                  *)
(*                                                                         *)
(* The bus moves between the steps of the interrupt.  The controller drops *)
(* a SETUP while the interrupt of an earlier packet is pending, and keeps  *)
(* that interrupt over a bus reset.  Init is the device after its first    *)
(* reset.                                                                  *)
(***************************************************************************)
EXTENDS Naturals, Sequences

CONSTANTS
  Size,            \* the descriptors, and the length of each
  MaxPacketSize,   \* DEF_USBD_UEP0_SIZE (64)
  Requests,        \* the requests of the host
  MaxFaults        \* bound: transfers the host gives up for another, and bus resets

Descriptors == DOMAIN Size
ASSUME SizeAssumption  == \A d \in Descriptors : Size[d] \in Nat \ {0}
\* USB allows packets of 8, 16, 32 or 64 bytes: a line coding fits in one.
ASSUME BoundAssumption == MaxPacketSize \in Nat /\ MaxPacketSize >= 8 /\ MaxFaults \in Nat

Reads  == {"GET_DESCRIPTOR", "GET_STATUS", "GET_CONFIGURATION", "GET_INTERFACE", "GET_MAX_LUN",
           "GET_LINE_CODING"}
Names  == Reads \cup {"SET_LINE_CODING", "SET_ADDRESS", "SET_CONFIGURATION", "SET_INTERFACE",
                      "SET_FEATURE", "CLEAR_FEATURE", "SET_LINE_CTLSTE", "OTHER", "CLASS_OTHER"}
\* What a request is about: a descriptor, one that does not exist, a string
\* whose index is beyond 4, or a recipient.  String 4 passes the check of the
\* index (wValue0 > 4) and lies behind String_Descriptor[4]: it is a descriptor
\* whose size and bytes are what the linker put there, or, if that size is 0,
\* one that does not exist.
Targets == Descriptors \cup {"unknown", "beyond", "device", "interface", "ep4", "absent"}
\* value: the address, configuration, line coding, or number of the interface.
Request == [req : Names, to : Targets, value : Nat, len : Nat]
\* A request announces data when it has a data stage, and only then.
WithData == Reads \cup {"SET_LINE_CODING"}
WellFormed(q) == q.req \notin {"OTHER", "CLASS_OTHER"} => (q.len > 0 <=> q.req \in WithData)
ASSUME RequestsAssumption == Requests \subseteq {q \in Request : WellFormed(q)}
ASSUME NamesAssumption == Descriptors \cap (Names \cup {"none", "beyond"}) = {}

VARIABLES
  dev,     \* Device_Info, Data_Mul_MaxPacketSize, SaveRState and SaveTState, the packet to send
  ep0,     \* the endpoint: status of both directions, what is pending, the packet received
  isr,     \* where USB_Istr is, the direction it serves, did wIstr show a reset, was it a SETUP
  host,    \* phase, request, what it got, its address, what it knows of the device
  faults   \* how many so far, and is a reset pending

vars == <<dev, ep0, isr, host, faults>>

Low(a, b) == IF a < b THEN a ELSE b
Zlp == [of |-> <<"none", 0>>, from |-> 0, len |-> 0]
NoRequest == [req |-> "OTHER", to |-> "device", value |-> 0, len |-> 0]

\* What the host knows of the device: for each part the values it may have.
Known == [conf |-> {0}, wakeup |-> {0}, ep4 |-> {0}, line |-> {0}]

Init ==
  /\ dev = [state |-> "IN_DATA", q |-> NoRequest, wLength |-> 0, wOffset |-> 0, copy |-> "none",
            mul |-> FALSE, psize |-> 0, conf |-> 0, wakeup |-> 0, line |-> 0, ep4 |-> "NAK",
            daddr |-> 0, r |-> "NAK", t |-> "NAK", in |-> Zlp]
  /\ ep0 = [rx |-> "VALID", tx |-> "STALL", ctr |-> {}, out |-> NoRequest]
  /\ isr = [at |-> "idle", dir |-> "tx", reset |-> FALSE, setup |-> FALSE]
  /\ host = [ph |-> "idle", q |-> NoRequest, got |-> <<>>, n |-> 0, addr |-> 0, knows |-> Known,
             result |-> "none", read |-> FALSE]
  /\ faults = [n |-> 0, pending |-> FALSE]

-----------------------------------------------------------------------------
(* usb_core.c and usb_prop.c, as functions of the device.                  *)

Halted(d) == IF d.ep4 = "STALL" THEN 1 ELSE 0

\* The bytes that CopyData points at, in a transfer that has come to wOffset.
Source(d) ==
  CASE d.copy \in Descriptors       -> <<d.copy, 0>>
    [] d.copy = "GET_STATUS"        -> <<"status", IF d.q.to = "device" THEN 2 * d.wakeup
                                                   ELSE IF d.q.to = "ep4" THEN Halted(d) ELSE 0>>
    [] d.copy = "GET_CONFIGURATION" -> <<"conf", d.conf>>
    [] d.copy = "GET_LINE_CODING"   -> <<"line", d.line>>
    [] d.copy = "GET_MAX_LUN" /\ d.q.value <= 1 -> <<"lun", 0>>
    [] d.copy = "GET_INTERFACE"     -> <<"alternate", 0>>
    [] OTHER                        -> <<"address 0", 0>>

StatusIn(d) == [d EXCEPT !.in = Zlp, !.t = "VALID"]
\* CopyData and the packet are written before they are used again.
Stalled(d)  == [d EXCEPT !.state = "STALLED", !.copy = "none", !.in = Zlp]

\* The packet [from, from + n) of what CopyData points at.  Only descriptors are
\* read at the offset: it is left alone by the other routines, whose data fit in
\* one packet (GET_MAX_LUN would count it up for ever).
Moved(d, n)  == IF d.copy \in Descriptors THEN d.wOffset + n ELSE d.wOffset
Packet(d, n) == [of |-> Source(d), from |-> IF d.copy \in Descriptors THEN d.wOffset ELSE 0, len |-> n]

\* Mutant: a packet is always whole.
NextPacket_Whole(d) ==
  LET n == d.psize
  IN [d EXCEPT !.state = IF d.wLength <= n THEN "LAST_IN_DATA" ELSE "IN_DATA", !.in = Packet(d, n),
               !.wLength = @ - n, !.wOffset = Moved(d, n), !.t = "VALID", !.r = "VALID"]

NextPacket(d) ==
  LET n == Low(d.psize, d.wLength)
  IN [d EXCEPT !.state = IF d.wLength <= d.psize THEN "LAST_IN_DATA" ELSE "IN_DATA", !.in = Packet(d, n),
               !.wLength = @ - n, !.wOffset = Moved(d, n), !.t = "VALID", !.r = "VALID"]

\* The next packet; after the last one, the packet of length zero that ends a
\* transfer of whole packets, or the wait for the status.
DataStageIn(d) ==
  IF d.wLength > 0 \/ d.state # "LAST_IN_DATA" THEN NextPacket(d)
  ELSE IF d.mul THEN [StatusIn(d) EXCEPT !.mul = FALSE]
  ELSE [d EXCEPT !.state = "WAIT_STATUS_OUT", !.t = "STALL"]

\* Mutant: the status is not armed.
DataStageOut_NoStatus(d, v) ==
  LET n == Low(d.psize, d.wLength)
      e == [d EXCEPT !.wLength = @ - n, !.line = IF n > 0 THEN v ELSE @]
      f == IF e.wLength # 0 THEN [StatusIn(e) EXCEPT !.r = "VALID"] ELSE e
  IN IF f.wLength >= f.psize THEN [f EXCEPT !.state = "OUT_DATA"]
     ELSE IF f.wLength > 0 THEN [f EXCEPT !.state = "LAST_OUT_DATA"]
     ELSE [f EXCEPT !.state = "WAIT_STATUS_IN"]

\* Bytes that arrive go where CopyData points, UartConfig; PacketSize is what
\* the last read has left.
DataStageOut(d, v) ==
  LET n == Low(d.psize, d.wLength)
      e == [d EXCEPT !.wLength = @ - n, !.line = IF n > 0 THEN v ELSE @]
      f == IF e.wLength # 0 THEN [StatusIn(e) EXCEPT !.r = "VALID"] ELSE e
  IN IF f.wLength >= f.psize THEN [f EXCEPT !.state = "OUT_DATA"]
     ELSE IF f.wLength > 0 THEN [f EXCEPT !.state = "LAST_OUT_DATA"]
     ELSE StatusIn([f EXCEPT !.state = "WAIT_STATUS_IN"])

\* Requests without data.  USBD_NoData_Setup makes a success of every request
\* that is not of a class: Refused is what is left.
Performed(d, q) ==
  CASE q.req = "SET_CONFIGURATION" /\ q.value <= 1 -> [d EXCEPT !.conf = q.value]
    [] q.req = "SET_FEATURE" /\ q.to = "device"    -> [d EXCEPT !.wakeup = 1]
    [] q.req = "CLEAR_FEATURE" /\ q.to = "device"  -> [d EXCEPT !.wakeup = 0]
    [] q.req = "SET_FEATURE" /\ q.to = "ep4" /\ d.conf # 0 -> [d EXCEPT !.ep4 = "STALL"]
    [] q.req = "CLEAR_FEATURE" /\ q.to = "ep4" /\ d.conf # 0 ->
         [d EXCEPT !.ep4 = IF @ = "STALL" THEN "VALID" ELSE @]
    [] OTHER -> d
Refused(d, q) ==
  \/ q.req \in {"CLASS_OTHER", "GET_MAX_LUN", "GET_LINE_CODING", "SET_LINE_CODING"}
  \/ q.req = "SET_ADDRESS" /\ (q.value > 127 \/ d.conf # 0)
NoData_Setup0(d) ==
  IF Refused(d, d.q) THEN Stalled(d)
  ELSE StatusIn([Performed(d, d.q) EXCEPT !.state = "WAIT_STATUS_IN"])

\* CopyRoutine, of usb_core.c or of USBD_Data_Setup.
Routine(d, q) ==
  CASE q.req = "GET_DESCRIPTOR" /\ q.to \in Descriptors \cup {"beyond"} -> q.to
    [] q.req = "GET_STATUS" /\ q.len = 2 /\
         (q.to \in {"device", "ep4"} \/ (q.to = "interface" /\ q.value <= 1 /\ d.conf # 0)) -> q.req
    [] q.req = "GET_INTERFACE" /\ q.len = 1 /\ q.value <= 1 /\ d.conf # 0 -> q.req
    [] q.req \in {"GET_CONFIGURATION", "GET_MAX_LUN", "GET_LINE_CODING", "SET_LINE_CODING"} -> q.req
    [] OTHER -> "none"

\* CopyRoutine(0).  USBD_GetStringDescriptor sets no length beyond index 4.
Length(d, c) ==
  IF c \in Descriptors THEN Size[c]
  ELSE CASE c = "GET_STATUS" -> 2
         [] c \in {"GET_LINE_CODING", "SET_LINE_CODING"} -> 7
         [] c = "beyond" -> d.wLength
         [] OTHER -> 1

\* Mutants: the offset of the last transfer stays; no packet of length zero.
Chosen_KeepsOffset(d) ==
  LET c == Routine(d, d.q)
  IN IF c = "none" THEN d ELSE [d EXCEPT !.copy = c, !.wLength = Length(d, c)]
Mul_Never(d) == FALSE

\* USBD_Data_Setup leaves the offset alone for GET_MAX_LUN.
Chosen(d) ==
  LET c == Routine(d, d.q)
  IN IF c = "none" THEN d
     ELSE [d EXCEPT !.copy = c, !.wLength = Length(d, c), !.wOffset = IF c = "GET_MAX_LUN" THEN @ ELSE 0]

Mul(d) ==
  IF d.wLength >= d.q.len THEN d.mul
  ELSE IF d.wLength < MaxPacketSize THEN FALSE
  ELSE d.mul \/ d.wLength % MaxPacketSize = 0

Data_Setup0(d) ==
  LET e == Chosen(d)
  IN IF Routine(d, d.q) = "none" \/ e.wLength = 0 THEN Stalled(e)
     ELSE IF d.q.req \in Reads
     THEN DataStageIn([e EXCEPT !.wLength = Low(@, d.q.len), !.mul = Mul(e), !.psize = MaxPacketSize])
     ELSE [e EXCEPT !.state = "OUT_DATA", !.r = "VALID"]

Setup0_Process(d, q) ==
  LET e == [d EXCEPT !.q = q, !.state = "SETTING_UP"]
  IN IF q.len = 0 THEN NoData_Setup0(e) ELSE Data_Setup0(e)

In0_Process(d) ==
  IF d.state \in {"IN_DATA", "LAST_IN_DATA"} THEN DataStageIn(d)
  ELSE IF d.state = "WAIT_STATUS_IN" /\ d.q.req = "SET_ADDRESS" THEN Stalled([d EXCEPT !.daddr = d.q.value])
  ELSE Stalled(d)

Out0_Process(d, p) ==
  IF d.state \in {"OUT_DATA", "LAST_OUT_DATA"} THEN DataStageOut(d, p.value) ELSE Stalled(d)

Post0_Process(d) == IF d.state = "STALLED" THEN [d EXCEPT !.r = "STALL", !.t = "STALL"] ELSE d

-----------------------------------------------------------------------------
(* The interrupt: USB_Istr and CTR_LP.                                     *)

\* CTR_LP reads wIstr: a received packet goes first, and a reset that comes
\* later waits for the next interrupt.
Enter ==
  /\ isr.at = "idle" /\ ep0.ctr # {}
  /\ isr' = [isr EXCEPT !.at = "entered", !.dir = IF "rx" \in ep0.ctr THEN "rx" ELSE "tx",
                         !.reset = faults.pending]
  /\ dev' = [dev EXCEPT !.r = ep0.rx, !.t = ep0.tx]
  /\ UNCHANGED <<ep0, host, faults>>

\* Both directions are closed and the interrupt is cleared; until the result is
\* written the endpoint takes nothing, so that one step stands for both.
Process ==
  /\ isr.at = "entered" /\ isr' = [isr EXCEPT !.at = "rest"]
  /\ \E d \in {IF isr.dir = "tx" THEN In0_Process(dev)
                ELSE IF isr.setup THEN Setup0_Process(dev, ep0.out)
                ELSE Out0_Process(dev, ep0.out)} : dev' = Post0_Process(d)
  /\ ep0' = [ep0 EXCEPT !.rx = dev'.r, !.tx = dev'.t, !.ctr = @ \ {isr.dir}]
  /\ UNCHANGED <<host, faults>>

\* Mutant: the configuration survives.
USBD_Reset_KeepsConf(d) == [d EXCEPT !.wakeup = 0, !.ep4 = "NAK", !.daddr = 0]

USBD_Reset(d) == [d EXCEPT !.conf = 0, !.wakeup = 0, !.ep4 = "NAK", !.daddr = 0]

Reset ==
  /\ dev' = USBD_Reset(dev)
  /\ ep0' = [ep0 EXCEPT !.rx = "VALID", !.tx = "STALL"]
  /\ faults' = [faults EXCEPT !.pending = FALSE]

\* The rest of USB_Istr.  A second packet of EP0 waits for the next interrupt.
Rest ==
  /\ isr.at = "rest"
  /\ isr' = [isr EXCEPT !.at = "idle", !.reset = FALSE]
  /\ IF isr.reset THEN Reset ELSE UNCHANGED <<dev, ep0, faults>>
  /\ UNCHANGED host

\* An interrupt without a packet.
OnlyReset ==
  /\ isr.at = "idle" /\ ep0.ctr = {} /\ faults.pending
  /\ Reset
  /\ UNCHANGED <<isr, host>>

Isr == Enter \/ Process \/ Rest \/ OnlyReset

-----------------------------------------------------------------------------
(* The host.                                                               *)

Quiet == isr.at = "idle" /\ ep0.ctr = {} /\ ~faults.pending

\* What the host may ask: class requests of a device it has configured, after
\* it has read something (PacketSize is not set before).
May(q) ==
  /\ q.req \in {"SET_LINE_CODING", "GET_LINE_CODING", "GET_MAX_LUN"} => host.knows.conf = {1} /\ host.read
  /\ q.req = "SET_ADDRESS" => host.knows.conf = {0}

\* The part a request changes, as the host sees it.
Part(q) ==
  CASE q.req = "SET_CONFIGURATION" /\ q.value <= 1 -> {"conf"}
    [] q.req = "SET_LINE_CODING" -> {"line"}
    [] q.req \in {"SET_FEATURE", "CLEAR_FEATURE"} /\ q.to = "device" -> {"wakeup"}
    [] q.req \in {"SET_FEATURE", "CLEAR_FEATURE"} /\ q.to = "ep4" /\ 1 \in host.knows.conf -> {"ep4"}
    [] OTHER -> {}
Sure(q) == q.to = "ep4" => host.knows.conf = {1}
Value(q) == IF q.req = "SET_FEATURE" THEN 1 ELSE IF q.req = "CLEAR_FEATURE" THEN 0 ELSE q.value

Phase(q) == IF q.len = 0 THEN "status_in" ELSE IF q.req \in Reads THEN "in" ELSE "out"

\* A new request, also in the middle of another one, which is given up.
Setup(q) ==
  /\ Quiet /\ May(q)
  /\ \/ host.ph = "idle" /\ UNCHANGED faults
     \/ host.ph \notin {"idle", "reset"} /\ faults.n < MaxFaults
        /\ faults' = [faults EXCEPT !.n = @ + 1]
  /\ dev.daddr = host.addr
  /\ ep0' = [rx |-> "NAK", tx |-> "NAK", ctr |-> {"rx"}, out |-> q]
  /\ isr' = [isr EXCEPT !.setup = TRUE]
  /\ host' = [host EXCEPT !.ph = Phase(q), !.q = q, !.got = <<>>, !.n = 0, !.result = "none",
                !.knows = [f \in DOMAIN @ |-> IF f \in Part(q) THEN @[f] \cup {Value(q)} ELSE @[f]]]
  /\ UNCHANGED dev

Done(res) ==
  [host EXCEPT !.ph = "idle", !.result = res, !.read = @ \/ (res = "ok" /\ host.q.req \in Reads),
     !.addr = IF res = "ok" /\ host.q.req = "SET_ADDRESS" THEN host.q.value ELSE @,
     !.knows = [f \in DOMAIN @ |-> IF res = "ok" /\ f \in Part(host.q) /\ Sure(host.q) THEN {Value(host.q)} ELSE @[f]]]

Taken == ep0' = [ep0 EXCEPT !.tx = "NAK", !.ctr = @ \cup {"tx"}]
Sent  == ep0' = [ep0 EXCEPT !.rx = "NAK", !.ctr = @ \cup {"rx"}, !.out = host.q]

\* A short packet, or the length asked for, ends the data.
HostIn ==
  /\ host.ph = "in" /\ ep0.tx = "VALID" /\ Taken
  /\ LET n == host.n + dev.in.len
     IN host' = [host EXCEPT !.got = Append(@, [packet |-> dev.in, at |-> host.n]), !.n = n,
                   !.ph = IF dev.in.len < MaxPacketSize \/ n >= host.q.len THEN "status_out" ELSE @]
  /\ UNCHANGED <<dev, isr, faults>>

HostOut ==
  /\ host.ph = "out" /\ ep0.rx = "VALID" /\ Sent
  /\ host' = [host EXCEPT !.ph = "status_in"]
  /\ isr' = [isr EXCEPT !.setup = FALSE]
  /\ UNCHANGED <<dev, faults>>

HostStatusIn ==
  /\ host.ph = "status_in" /\ ep0.tx = "VALID" /\ Taken
  /\ host' = Done(IF dev.in = Zlp THEN "ok" ELSE "error")
  /\ UNCHANGED <<dev, isr, faults>>

HostStatusOut ==
  /\ host.ph = "status_out" /\ ep0.rx = "VALID" /\ Sent
  /\ host' = Done("ok")
  /\ isr' = [isr EXCEPT !.setup = FALSE]
  /\ UNCHANGED <<dev, faults>>

HostStall ==
  /\ \/ host.ph \in {"in", "status_in"} /\ ep0.tx = "STALL"
     \/ host.ph \in {"out", "status_out"} /\ ep0.rx = "STALL"
  /\ host' = Done("stall")
  /\ UNCHANGED <<dev, ep0, isr, faults>>

\* The controller clears the registers at once; the host waits until the
\* device has served the reset.
BusReset ==
  /\ host.ph # "reset" /\ faults.n < MaxFaults
  /\ faults' = [faults EXCEPT !.n = @ + 1, !.pending = TRUE]
  /\ ep0' = [ep0 EXCEPT !.rx = "DIS", !.tx = "DIS"]
  /\ host' = [host EXCEPT !.ph = "reset", !.addr = 0, !.result = "none", !.got = <<>>, !.n = 0,
                !.knows = [Known EXCEPT !.line = host.knows.line]]
  /\ UNCHANGED <<dev, isr>>
AfterReset ==
  /\ host.ph = "reset" /\ Quiet
  /\ host' = [host EXCEPT !.ph = "idle"]
  /\ UNCHANGED <<dev, ep0, isr, faults>>

Polls == HostIn \/ HostOut \/ HostStatusIn \/ HostStatusOut \/ HostStall \/ AfterReset

Next == Isr \/ (\E q \in Requests : Setup(q)) \/ Polls \/ BusReset

\* Interrupts are served, and a host that has begun a request polls.
Spec == Init /\ [][Next]_vars /\ WF_vars(Isr) /\ WF_vars(Polls)
-----------------------------------------------------------------------------
(* Properties.                                                             *)

Status == {"DIS", "STALL", "NAK", "VALID"}
States == {"SETTING_UP", "IN_DATA", "LAST_IN_DATA", "OUT_DATA", "LAST_OUT_DATA", "WAIT_STATUS_IN",
           "WAIT_STATUS_OUT", "STALLED"}

\* What a packet holds: a descriptor, or a value of the device.
Origin == (Descriptors \cup {"none", "status", "conf", "line", "lun", "alternate", "address 0"}) \X Nat
InPacket == [of : Origin, from : Nat, len : 0..MaxPacketSize]
Copy == Descriptors \cup Names \cup {"none", "beyond"}
DevType ==
  [state : States, q : Request, wLength : Nat, wOffset : Nat, copy : Copy, mul : BOOLEAN,
   psize : {0, MaxPacketSize}, conf : {0, 1}, wakeup : {0, 1}, line : Nat,
   ep4 : {"STALL", "NAK", "VALID"}, daddr : Nat, r : Status, t : Status, in : InPacket]
Knowledge == [conf : SUBSET {0, 1}, wakeup : SUBSET {0, 1}, ep4 : SUBSET {0, 1}, line : SUBSET Nat]
HostType ==
  [ph : {"idle", "in", "out", "status_in", "status_out", "reset"}, q : Request,
   got : Seq([packet : InPacket, at : Nat]), n : Nat, addr : Nat, knows : Knowledge,
   result : {"none", "ok", "stall", "error"}, read : BOOLEAN]

\* Type correctness: lengths do not wrap below zero.
TypeOK ==
  /\ dev \in DevType /\ host \in HostType
  /\ ep0 \in [rx : Status, tx : Status, ctr : SUBSET {"rx", "tx"}, out : Request]
  /\ isr \in [at : {"idle", "entered", "rest"}, dir : {"rx", "tx"}, reset : BOOLEAN, setup : BOOLEAN]
  /\ faults \in [n : 0..MaxFaults, pending : BOOLEAN]

\* What a read may return, with what the host knows of the device.
Answers(q) ==
  CASE q.req = "GET_DESCRIPTOR"    -> {<<q.to, 0>>}
    [] q.req = "GET_STATUS" -> {<<"status", v>> : v \in
         CASE q.to = "device" -> {2 * w : w \in host.knows.wakeup} [] q.to = "ep4" -> host.knows.ep4 [] OTHER -> {0}}
    [] q.req = "GET_CONFIGURATION" -> {<<"conf", v>> : v \in host.knows.conf}
    [] q.req = "GET_LINE_CODING"   -> {<<"line", v>> : v \in host.knows.line}
    [] q.req = "GET_MAX_LUN"       -> {<<"lun", 0>>}
    [] OTHER                       -> {<<"alternate", 0>>}
Extent(q) ==
  Low(q.len, IF q.req = "GET_DESCRIPTOR" THEN Size[q.to]
             ELSE IF q.req = "GET_STATUS" THEN 2 ELSE IF q.req = "GET_LINE_CODING" THEN 7 ELSE 1)
\* Beyond them the code sends what is at address 0.
Defined(q) == q.req \in Reads /\ q.to # "beyond" /\ (q.req = "GET_MAX_LUN" => q.value <= 1)

\* A read returns the bytes of what was asked for, in order and none twice,
\* up to its length or the length asked for, also after a transfer that was
\* given up, and what it says of the device is what the host has set
\* (usb_core.c:467, 742-782; the offset and Data_Mul_MaxPacketSize outlive a
\* transfer).
DataTrue ==
  Defined(host.q) /\ (host.ph \in {"in", "status_out"} \/ host.result = "ok") =>
    /\ \A i \in DOMAIN host.got :
         LET g == host.got[i]
         IN g.packet = Zlp \/ (g.packet.of \in Answers(host.q) /\ g.packet.from = g.at)
    /\ (host.ph = "status_out" \/ host.result = "ok") => host.n = Extent(host.q)

\* The device supports the request in configuration c.
Supported(q, c) ==
  CASE q.req = "GET_DESCRIPTOR" -> q.to \in Descriptors
    [] q.req = "GET_STATUS"     -> q.len = 2 /\ (q.to \in {"device", "ep4"} \/ (q.to = "interface" /\ q.value <= 1 /\ c = 1))
    [] q.req = "GET_INTERFACE"  -> q.len = 1 /\ q.value <= 1 /\ c = 1
    [] q.req = "SET_ADDRESS"    -> q.value <= 127
    [] q.req = "OTHER"          -> q.len = 0
    [] OTHER                    -> q.req # "CLASS_OTHER"

\* A request the device supports is never stalled, nor its status taken for
\* data; a read it does not support is never answered (usb_core.c:750, 906).
Served ==
  LET q == host.q
  IN /\ host.result \in {"stall", "error"} /\ q.to # "beyond" => \E c \in host.knows.conf : ~Supported(q, c)
     /\ host.result = "ok" /\ Defined(q) => \E c \in host.knows.conf : Supported(q, c)

\* Once the interrupts are served and no transfer runs, device and host agree
\* on the address, the configuration and the features (usb_core.c:845: the
\* address is taken with the status; usb_prop.c:199: a reset takes it back).
Agree ==
  Quiet /\ host.ph = "idle" =>
    /\ dev.daddr = host.addr
    /\ dev.conf \in host.knows.conf /\ dev.wakeup \in host.knows.wakeup
    /\ Halted(dev) \in host.knows.ep4 /\ dev.line \in host.knows.line

\* Every request of the host comes to an end: with an answer, a stall, or a
\* reset (usb_core.c:410, 467, 906: something is always armed).
Answered == host.ph # "idle" ~> host.ph = "idle"
=============================================================================

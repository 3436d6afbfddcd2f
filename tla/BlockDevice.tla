---------------------------- MODULE BlockDevice ----------------------------
(***************************************************************************)
(* What the mass-storage side of the programmer promises to the USB host:  *)
(* a block device that serves one command at a time.  A read returns the   *)
(* packs of the sectors asked for, in order, as they are on the medium; a  *)
(* write replaces whole sectors, in order, each one erased first and then  *)
(* filled with exactly the packs the host sent for it; a write completes   *)
(* only when all its sectors are on the medium; no other command touches   *)
(* the medium.  There are no endpoints, queues or threads here.            *)
(***************************************************************************)
EXTENDS Naturals, Sequences

CONSTANTS
  Sectors,  \* number of sectors of the medium
  Packs,    \* USB packs per sector
  Data,     \* contents of a pack
  Erased,   \* content of an erased pack
  Cmds,     \* commands the host may issue
  NoCmd     \* no command in progress

VARIABLES
  media,    \* [sector -> [pack -> content]]
  req,      \* the command in progress, or NoCmd
  sent,     \* packs the host has sent for it
  got,      \* number of packs the host has received for it
  last,     \* the pack received last
  done      \* number of sectors of a write already on the medium

vars == <<media, req, sent, got, last, done>>

Writes == {"WRITE10", "WR_VERIFY10"}
Blank  == [p \in 0 .. Packs - 1 |-> Erased]

Init ==
  /\ media \in [0 .. Sectors - 1 -> [0 .. Packs - 1 -> Data \cup {Erased}]]
  /\ req = NoCmd /\ sent = <<>> /\ got = 0 /\ last = Erased /\ done = 0

\* The sector a write is about to replace.
Current == req.lba + done

Submit(c) ==
  /\ req = NoCmd
  /\ req' = c
  /\ UNCHANGED <<media, sent, got, last, done>>

\* The host transfers the next pack of a write, or one too many.
Send(v) ==
  /\ req # NoCmd /\ req.op \in Writes
  /\ sent' = Append(sent, v)
  /\ UNCHANGED <<media, req, got, last, done>>

\* The next sector of the write is erased, once its first pack is there.
Erase ==
  /\ req # NoCmd /\ req.op \in Writes
  /\ done < req.blocks /\ Len(sent) > done * Packs
  /\ media' = [media EXCEPT ![Current] = Blank]
  /\ UNCHANGED <<req, sent, got, last, done>>

\* The erased sector receives its packs, once they are all there.
Program ==
  /\ req # NoCmd /\ req.op \in Writes
  /\ done < req.blocks /\ Len(sent) >= (done + 1) * Packs
  /\ media[Current] = Blank
  /\ media' = [media EXCEPT ![Current] = [p \in 0 .. Packs - 1 |-> sent[done * Packs + p + 1]]]
  /\ done' = done + 1
  /\ UNCHANGED <<req, sent, got, last>>

\* The host receives the next pack of a read.
Receive ==
  /\ req # NoCmd /\ req.op = "READ10"
  /\ got < req.blocks * Packs
  /\ last' = media[req.lba + (got \div Packs)][got % Packs]
  /\ got' = got + 1
  /\ UNCHANGED <<media, req, sent, done>>

\* The host is told that the command succeeded.
Complete ==
  /\ req # NoCmd
  /\ req.op = "READ10" => got = req.blocks * Packs
  /\ req.op \in Writes => done = req.blocks
  /\ req' = NoCmd /\ sent' = <<>> /\ got' = 0 /\ last' = Erased /\ done' = 0
  /\ UNCHANGED media

Next ==
  \/ \E c \in Cmds : Submit(c)
  \/ \E v \in Data : Send(v)
  \/ Erase \/ Program \/ Receive \/ Complete

Spec == Init /\ [][Next]_vars
=============================================================================

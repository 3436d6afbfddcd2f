----------------------------- MODULE MCUsbDisk -----------------------------
(* The commands of the hosts UsbDisk is checked with. *)
EXTENDS UsbDisk

Cmd(o, d, n, l, b) == [op |-> o, dir |-> d, packs |-> n, lba |-> l, blocks |-> b]

\* A host that asks for what the commands say: reads and writes of one and of
\* two sectors, a reply of one packet and of several, and no data at all.
GoodCmds ==
  {Cmd("READ10", "in", Packs, 1, 1), Cmd("READ10", "in", 2 * Packs, 0, 2),
   Cmd("WRITE10", "out", Packs, 1, 1), Cmd("WRITE10", "out", 2 * Packs, 0, 2),
   Cmd("INQUIRY", "in", 1, 0, 0), Cmd("MODE_SENSE", "in", 3, 0, 0),
   Cmd("REQUEST_SENSE", "in", 2, 0, 0), Cmd("TEST_READY", "in", 0, 0, 0)}

\* Failing commands with and without an upload, a download the device cuts
\* short and one it waits for more of, among good ones.
FailingCmds ==
  {Cmd("READ10", "in", Packs, 0, 1), Cmd("WRITE10", "out", Packs, 1, 1),
   Cmd("WRITE10", "out", 2 * Packs, 0, 1), Cmd("WRITE10", "out", 1, 0, 1),
   Cmd("UNKNOWN", "in", 1, 0, 0), Cmd("UNKNOWN", "in", 0, 0, 0),
   Cmd("MODE_SENSE2_PAGE", "in", 1, 0, 0), Cmd("TEST_READY", "in", 0, 0, 0)}

\* Reads and writes of one and of two sectors, none of them of the third, a
\* reply of several packets and a command that fails.
RecoverCmds ==
  {Cmd("READ10", "in", Packs, 0, 1), Cmd("READ10", "in", 2 * Packs, 0, 2),
   Cmd("WRITE10", "out", Packs, 1, 1), Cmd("WRITE10", "out", 2 * Packs, 0, 2),
   Cmd("MODE_SENSE", "in", 3, 0, 0), Cmd("UNKNOWN", "in", 1, 0, 0)}

AllCmds == GoodCmds \cup FailingCmds

StallCmds  == {Cmd("UNKNOWN", "out", 1, 0, 0), Cmd("TEST_READY", "in", 0, 0, 0)}
StatusCmds == {Cmd("UNKNOWN", "in", 1, 0, 0), Cmd("MODE_SENSE", "in", 1, 0, 0)}
=============================================================================

------------------------------ MODULE Download ------------------------------
(***************************************************************************)
(* What the offline download promises: the flash of a target is erased     *)
(* once, then filled from its first unit upwards with the units of the     *)
(* file, none twice, and success comes only when all of the file is there. *)
(* Failure may come at any moment; an operation that the programmer has    *)
(* given up may still take effect after it, in its turn, but nothing       *)
(* happens after success.                                                  *)
(*                                                                         *)
(* Nothing is promised of the contents when the file could not be read,    *)
(* and nothing at all when the flash algorithm is not sound.               *)
(***************************************************************************)
EXTENDS Integers

CONSTANTS
  FlashSize,      \* units of flash
  Erased,         \* contents that are not units of the file
  Before,
  Others          \* what a page may be filled up with beyond the file

VARIABLES
  media,     \* the flash: for each unit, the number of the unit of the file
  size,      \* units of the file
  readable,  \* has every read of the file succeeded?
  sound,     \* is the flash algorithm what it should be?
  result     \* "none", "ok" or "failed"

dvars == <<media, size, readable, sound, result>>

Unit == 0 .. FlashSize - 1

Init ==
  /\ media = [u \in Unit |-> Before]
  /\ size \in 0 .. FlashSize /\ readable = TRUE
  /\ sound \in BOOLEAN /\ result = "none"

EraseChip ==
  /\ \A u \in Unit : media[u] = Before
  /\ media' = [u \in Unit |-> Erased]

\* The next n units, from a on: what is below has been programmed.
Program(a, n) ==
  /\ \A u \in Unit : media[u] = Erased <=> u >= a
  /\ \A u \in Unit : media[u] # Before
  /\ \A u \in Unit : media'[u] # media[u] => u \in a .. a + n - 1
  /\ \A u \in Unit \cap (a .. a + n - 1) :
       /\ media'[u] \in Unit \cup Others
       /\ readable /\ u < size => media'[u] = u

Write == EraseChip \/ \E a \in Unit, n \in 1 .. FlashSize : Program(a, n)

\* The file was read to its end, and all of it is in place.
Succeed ==
  /\ result = "none" /\ result' = "ok"
  /\ readable => \A u \in 0 .. size - 1 : media[u] = u

Fail == result = "none" /\ result' = "failed"

Work   == sound /\ Write /\ result # "ok" /\ UNCHANGED <<size, readable, sound, result>>
Answer == sound /\ (Succeed \/ Fail) /\ UNCHANGED <<media, size, readable, sound>>

\* A read fails.
Misread == readable' = FALSE /\ UNCHANGED <<media, size, sound, result>>

\* The algorithm is loaded or turns out to be another; with one that is not
\* sound anything may be in the flash.
Parse    == result = "none" /\ (\A u \in Unit : media[u] = Before) /\ sound' \in BOOLEAN /\ UNCHANGED <<media, size, readable, result>>
Anything == ~sound /\ UNCHANGED <<size, sound>>

Next == Work \/ Answer \/ Misread \/ Parse \/ Anything

Spec == Init /\ [][Next]_dvars
=============================================================================

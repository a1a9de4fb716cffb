------------------------------ MODULE Ecp5Device -----------------------------
(***************************************************************************)
(* The FPGA's configuration port as ecp5_sysconfig_spi.c uses it: the pins *)
(* PROGRAMN, INITN and DONE and the sysCONFIG commands of the slave SPI.   *)
(* The device is not part of the repository.  It may be slow or dead, and  *)
(* it checks the stream it is sent, but not what stood in its              *)
(* configuration memory before.                                            *)
(***************************************************************************)
EXTENDS Naturals

CONSTANTS
  Images,  \* the bitstreams that may be loaded
  MAXLEN   \* bytes of the longest bitstream

ASSUME DeviceAssumption == MAXLEN \in Nat \ {0}

Cells == 0 .. MAXLEN - 1
Blank == <<"blank">>
Garbled == <<"garbled">>
ImageByte(img, k) == <<"byte", img, k>>
Content == {Blank, Garbled} \union {ImageByte(img, k) : img \in Images, k \in Cells}

VARIABLE dev

Dev == [ mode : {"held", "init", "ready", "isc", "wake", "user"},
         busy : BOOLEAN,       \* a command or the check of a burst is under way
         burst : BOOLEAN,      \* what comes before CS rises is configuration data
         sram : [Cells -> Content],
         ptr : 0 .. MAXLEN,    \* the address shift register
         crc : BOOLEAN,        \* the stream of this burst is intact so far
         fail : BOOLEAN,       \* the FAIL and error bits of the status word
         ignored : BOOLEAN ]   \* a command came when it could not be taken

DevInit ==
  dev = [ mode |-> "ready", busy |-> FALSE, burst |-> FALSE,
          sram |-> [k \in Cells |-> Blank], ptr |-> 0, crc |-> TRUE,
          fail |-> FALSE, ignored |-> FALSE ]

initn == dev.mode \notin {"held", "init"}
done == dev.mode = "user"

\* PROGRAMN low takes the device out of whatever it does; released, the
\* device initialises itself.
ProgramnLow ==
  [dev EXCEPT !.mode = "held", !.busy = FALSE, !.burst = FALSE, !.fail = FALSE]
ProgramnHigh == [dev EXCEPT !.mode = "init"]

\* The commands, in the mode in which the device takes them.
Takes(op) ==
  /\ ~dev.busy /\ ~dev.burst
  /\ dev.mode = IF op = "ISC_ENABLE" THEN "ready" ELSE "isc"

Effect(op) ==
  CASE op = "ISC_ENABLE"  -> [dev EXCEPT !.mode = "isc", !.busy = TRUE]
    [] op = "ISC_ERASE"   -> [dev EXCEPT !.busy = TRUE,
                                         !.sram = [k \in Cells |-> Blank]]
    [] op = "INIT_ADDR"   -> [dev EXCEPT !.ptr = 0]
    [] op = "BURST"       -> [dev EXCEPT !.burst = TRUE, !.crc = TRUE]
    [] op = "ISC_DISABLE" -> [dev EXCEPT !.mode = "wake"]

Received(op) == IF Takes(op) THEN Effect(op) ELSE [dev EXCEPT !.ignored = TRUE]

\* The bytes lo .. hi - 1 of an image arrive in a burst, intact or not.
ReceivedData(img, lo, hi, intact) ==
  LET end == dev.ptr + (hi - lo)
      Byte(k) == IF intact THEN ImageByte(img, lo + (k - dev.ptr)) ELSE Garbled
  IN IF ~dev.burst THEN [dev EXCEPT !.ignored = TRUE]
     ELSE [dev EXCEPT
             !.sram = [k \in Cells |->
                         IF k \in dev.ptr .. end - 1 THEN Byte(k) ELSE dev.sram[k]],
             !.ptr = IF end < MAXLEN THEN end ELSE MAXLEN,
             !.crc = dev.crc /\ intact]

\* CS rises: a burst ends, and the device starts to check it.
Deselected(d) == IF d.burst THEN [d EXCEPT !.burst = FALSE, !.busy = TRUE] ELSE d

\* Initialisation ends, a command or the check of a burst is finished, the new
\* design starts.  None of this has to happen.
DevStep ==
  \/ dev.mode = "init" /\ dev' = [dev EXCEPT !.mode = "ready"]
  \/ dev.busy /\ dev' = [dev EXCEPT !.busy = FALSE, !.fail = ~dev.crc]
  \/ dev.mode = "wake" /\ dev' = [dev EXCEPT !.mode = "user"]

\* The configuration memory holds the first len bytes of the image and no others.
Holds(img, len) ==
  \A k \in Cells : dev.sram[k] = IF k < len THEN ImageByte(img, k) ELSE Blank
=============================================================================

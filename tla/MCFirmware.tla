----------------------------- MODULE MCFirmware ------------------------------
(***************************************************************************)
(* Values of the constants of Firmware for TLC: commands of one and two    *)
(* characters, and a program image for each of the four programs.          *)
(***************************************************************************)
EXTENDS Firmware

MCName ==
  [c \in Commands |->
     CASE c = "file" -> <<0>> [] c = "jal" -> <<1>> [] c = "lw" -> <<2>>
       [] c = "lhu" -> <<Letter>> [] c = "lbu" -> <<0, 0>> [] c = "sw" -> <<0, 1>>
       [] c = "sh" -> <<1, 0>> [] c = "sb" -> <<1, Letter>>]

\* The first bytes tell the programs apart.
MCImage ==
  [p \in Programs |->
     [k \in Cells |->
        CASE k = 0 -> IF p \in {"bsort", "ssort"} THEN 1 ELSE 2
          [] k = 1 -> IF p \in {"bsort", "mmult"} THEN 1 ELSE 2
          [] OTHER -> 0]]
=============================================================================

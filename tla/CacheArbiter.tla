----------------------------- MODULE CacheArbiter ----------------------------
(***************************************************************************)
(* rtl/cache/cache_arbiter.sv: the two cache ports onto one memory port.   *)
(* While it is idle a request passes straight through, the D-cache's       *)
(* first; from the next edge on the port stays with that cache until the   *)
(* response has been handed over.                                          *)
(***************************************************************************)
EXTENDS LineTypes

VARIABLE arb   \* state

ArbTypeOK == arb \in {"IDLE", "SERVE_IC", "SERVE_DC"}

ArbInit == arb = "IDLE"

\* Mutant: the D-cache has priority also while the I-cache is served.
SelectedUnlocked(dcReq, icReq) ==
  IF arb = "SERVE_DC" \/ dcReq # NoReq THEN "dc"
  ELSE IF arb = "SERVE_IC" \/ icReq # NoReq THEN "ic"
  ELSE "none"

\* The cache whose wires the memory port carries, given both requests.
Selected(dcReq, icReq) ==
  IF arb = "SERVE_DC" \/ (arb = "IDLE" /\ dcReq # NoReq) THEN "dc"
  ELSE IF arb = "SERVE_IC" \/ icReq # NoReq THEN "ic"
  ELSE "none"

\* Mutants: the port is released without waiting for the response, or not
\* released by the D-cache, or not released by the I-cache.
ArbEdgeNoWait(dcReq, icReq, delivered) ==
  arb' = IF arb = "IDLE" THEN IF dcReq # NoReq THEN "SERVE_DC"
                              ELSE IF icReq # NoReq THEN "SERVE_IC"
                              ELSE "IDLE"
         ELSE "IDLE"
ArbEdgeKeepsDc(dcReq, icReq, delivered) ==
  arb' = IF arb = "IDLE" THEN IF dcReq # NoReq THEN "SERVE_DC"
                              ELSE IF icReq # NoReq THEN "SERVE_IC"
                              ELSE "IDLE"
         ELSE IF delivered /\ arb = "SERVE_IC" THEN "IDLE"
         ELSE arb
ArbEdgeKeepsIc(dcReq, icReq, delivered) ==
  arb' = IF arb = "IDLE" THEN IF dcReq # NoReq THEN "SERVE_DC"
                              ELSE IF icReq # NoReq THEN "SERVE_IC"
                              ELSE "IDLE"
         ELSE IF delivered /\ arb = "SERVE_DC" THEN "IDLE"
         ELSE arb

\* One clock edge: delivered is the response handshake of the memory port.
ArbEdge(dcReq, icReq, delivered) ==
  arb' = IF arb = "IDLE" THEN IF dcReq # NoReq THEN "SERVE_DC"
                              ELSE IF icReq # NoReq THEN "SERVE_IC"
                              ELSE "IDLE"
         ELSE IF delivered THEN "IDLE"
         ELSE arb
=============================================================================

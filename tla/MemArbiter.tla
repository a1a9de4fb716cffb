------------------------------ MODULE MemArbiter -----------------------------
(***************************************************************************)
(* rtl/bus/mem_arbiter4_rr.sv: a round-robin arbiter that accepts one      *)
(* request at a time and stays with its master until the response has been *)
(* taken.  The code has four ports; here there are N.                      *)
(***************************************************************************)
EXTENDS Integers

CONSTANT N   \* ports

ASSUME PortsAssumption == N \in Nat \ {0}

Master == 0 .. (N - 1)

VARIABLES
  active,     \* a request is with the memory
  grant_idx,  \* the master it belongs to
  rr_ptr      \* the master that is first in line

rrVars == <<active, grant_idx, rr_ptr>>

RrTypeOK ==
  /\ active \in BOOLEAN
  /\ grant_idx \in Master
  /\ rr_ptr \in Master

RrInit ==
  /\ active = FALSE
  /\ grant_idx = 0
  /\ rr_ptr = 0

\* The next master in the ring, and how far master m is behind master p.
Succ(p)      == IF p = N - 1 THEN 0 ELSE p + 1
Behind(p, m) == IF m >= p THEN m - p ELSE m - p + N

\* Mutant: fixed priority.
FirstFixed(m, reqs) == m \in reqs /\ \A k \in reqs : m <= k

\* sel_idx: the requesting master that comes first from rr_ptr on.
First(m, reqs) ==
  m \in reqs /\ \A k \in reqs : Behind(rr_ptr, m) <= Behind(rr_ptr, k)

\* Mutant: a request is accepted while the last one still waits for its answer.
RrAcceptWhileActive(m, reqs) ==
  /\ First(m, reqs)
  /\ active' = TRUE
  /\ grant_idx' = m
  /\ UNCHANGED rr_ptr

\* The memory accepts master m's request (req_fire).
RrAccept(m, reqs) ==
  /\ ~active
  /\ First(m, reqs)
  /\ active' = TRUE
  /\ grant_idx' = m
  /\ UNCHANGED rr_ptr

\* Mutants: the pointer stays at the master just served, or does not move.
RrReleaseToSelf ==
  /\ active
  /\ active' = FALSE
  /\ rr_ptr' = grant_idx
  /\ UNCHANGED grant_idx
RrReleaseNoTurn ==
  /\ active
  /\ active' = FALSE
  /\ UNCHANGED <<rr_ptr, grant_idx>>

\* The response is taken (resp_fire).
RrRelease ==
  /\ active
  /\ active' = FALSE
  /\ rr_ptr' = Succ(grant_idx)
  /\ UNCHANGED grant_idx
=============================================================================

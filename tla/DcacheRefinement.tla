-------------------------- MODULE DcacheRefinement ---------------------------
(***************************************************************************)
(* The D-cache and the RAM implement the memory of LineMemory.             *)
(***************************************************************************)
EXTENDS DcacheRam

\* The line the program would read at a mapped address: the cached copy when
\* there is one.
Store == [a \in MappedAddr |-> IF Hit(a) THEN lines[Idx(a)].data ELSE ram[a]]

Memory == INSTANCE LineMemory WITH store <- Store, reply <- dresp

\* Every behaviour of cache and RAM is one of the atomic line memory: loads
\* return the last store to their line, whatever was evicted in between, and
\* no store is lost, duplicated or applied to another line.  MEM1 may ask for
\* any address.  One with bits above the tag (above the lowest 36, by default),
\* which dcache.sv:79 does not compare, hits the line of its lower bits when that
\* is cached and faults when it is not.
ImplementsLineMemory == Memory!LMSpec
=============================================================================

--------------------------------- MODULE Bdd ---------------------------------
(***************************************************************************)
(* bdd.c: builds decision diagrams for the 2N bits of the sum of N x N     *)
(* partial products of a multiplier, and counts their nodes.  A step is a  *)
(* row of a column of one output bit, or one node taken from the stack of  *)
(* the count.  A literal is twice the number of a node, plus one for its   *)
(* complement; 0 and 1 are the constants.  The unique table is a lookup    *)
(* among the nodes: hash chains decide only how long it takes.             *)
(***************************************************************************)
EXTENDS Powers, FiniteSets, SequencesExt

CONSTANT N

ASSUME NAssumption == N \in Nat /\ N > 1

M == 2 * N
NUMVAR == N * N
ALLOC == 2 * N * N * N - 3 * N * N - 2 * N + 7

TwoTo(n) == Powers(2, n)[n]

\* The number of times that i can be halved before it is 0 or 1.
floorlog2(i) == CHOOSE t \in 0 .. i : TwoTo(t) <= i /\ i < TwoTo(t + 1)

UTSIZE == TwoTo(floorlog2(ALLOC))

VARIABLES
  dpc,             \* "off", "rows", "count", "unmark", "done"
  m, col, row,     \* the output, and i and j of its loops
  Var, Var2,
  nbuf, pBuf,       \* the literals handed from row to row
  pSkip,           \* the marked places of pSkip[]
  nodes,           \* the triples <<variable, Then, Else>> of the nodes 1, 2, ...
  pOutputs,        \* the literals of the outputs
  stack,           \* of the count; it lies in pUnique[]
  pMarks, count

bddVars == <<dpc, m, col, row, Var, Var2, nbuf, pBuf, pSkip, nodes, pOutputs,
             stack, pMarks, count>>

nObjs == Len(nodes) + 1
Not(lit) == IF lit % 2 = 0 THEN lit + 1 ELSE lit - 1
NotIf(c, lit) == IF c = 1 THEN Not(lit) ELSE lit

BddThen(lit) == NotIf(lit % 2, nodes[lit \div 2][2])
BddElse(lit) == NotIf(lit % 2, nodes[lit \div 2][3])

-----------------------------------------------------------------------------
(* Nodes.  r holds the nodes and the literals made so far in this row.     *)

\* Finds the node, or makes it.
\* Mutant: compares the children only.
BddUniqueCreateInt_any(r, node, c) ==
  LET Same == {k \in DOMAIN r.nodes : Tail(r.nodes[k]) = Tail(node)}
      new == Len(r.nodes) + 1
  IN IF Same # {} THEN [r EXCEPT !.out = Append(@, 2 * (CHOOSE k \in Same : TRUE) + c)]
     ELSE [nodes |-> Append(r.nodes, node), out |-> Append(r.out, 2 * new + c)]
BddUniqueCreateInt(r, node, c) ==
  LET Same == {k \in DOMAIN r.nodes : r.nodes[k] = node}
      new == Len(r.nodes) + 1
  IN IF Same # {} THEN [r EXCEPT !.out = Append(@, 2 * (CHOOSE k \in Same : TRUE) + c)]
     ELSE [nodes |-> Append(r.nodes, node), out |-> Append(r.out, 2 * new + c)]

\* The Else of a node is never complemented.
\* Mutant: makes the node as it is.
BddUniqueCreate_plain(r, v, t, e) ==
  IF t = e THEN [r EXCEPT !.out = Append(@, e)] ELSE BddUniqueCreateInt(r, <<v, t, e>>, 0)
BddUniqueCreate(r, v, t, e) ==
  LET c == e % 2
  IN IF t = e THEN [r EXCEPT !.out = Append(@, e)]
     ELSE BddUniqueCreateInt(r, <<v, NotIf(c, t), NotIf(c, e)>>, c)

gennode(r, v, pair, fUse) ==
  IF fUse THEN BddUniqueCreate(r, v, pair[1], pair[2])
  ELSE [r EXCEPT !.out = Append(@, pair[2])]

-----------------------------------------------------------------------------
(* The rows of a column.                                                   *)

\* A place of pBuf[] that the row before has not written.
Stray == -2
At(k) == IF k < Len(pBuf) THEN pBuf[k + 1] ELSE Stray

\* min(n, 2^bits), as the code writes it.
Level(bits, n) == IF bits > floorlog2(n) THEN n ELSE TwoTo(bits)

levelsize ==
  IF row < col THEN Level(m - col - 1, col + row) ELSE Level(m - col - 2, col)

\* Then and Else of place k in a row that is not the column's last, and in the last.
Inner(k) ==
  LET wraps == k = levelsize - 1
  IN IF levelsize = nbuf
     THEN <<At(k), IF k = 0 THEN Not(At(1)) ELSE IF wraps THEN At(0) ELSE At(k + 1)>>
     ELSE IF k = 0 THEN <<At(0), 0>>
     ELSE <<IF k = 1 THEN 1 ELSE At(k - 1), IF wraps THEN At(0) ELSE At(k)>>

Outer(k) ==
  IF 2 * levelsize = nbuf
  THEN <<At(2 * k), IF k = 0 THEN Not(At(1)) ELSE At(2 * k + 1)>>
  ELSE IF k = 0 THEN <<At(0), 0>>
  ELSE <<At(2 * k - 1), At(2 * k)>>

\* In the row of the last variable of a high column only some places are kept.
fSkip == row < col /\ col >= N /\ row = N - 1
fUse == M - 1 - col >= N - row /\ row < N

Rotated(S, n) == {(k + 1) % n : k \in {x \in S : x < n}} \union {x \in S : x >= n}
Shortened(S, n) == (IF n - 1 \in S THEN S \union {0} ELSE S \ {0}) \ {n - 1}

\* The marks of a row of n places after 0, 1, ..., nshift shifts: the first of
\* them turn the row around, each of the others makes it shorter by a place.
MarksShifted(marked, n, turns, nshift) ==
  LET S[i \in 0 .. nshift] ==
        IF i = 0 THEN marked
        ELSE IF i <= turns THEN Rotated(S[i - 1], n)
        ELSE Shortened(S[i - 1], n + turns + 1 - i)
  IN S

\* pSkip[] before the row: marks for the row at the top, moved down to this row.
SkipMarks ==
  LET top == Level(m - col - 2, col)
      next == Level(m - col - 1, 2 * col - 1)
      marked == pSkip \union
                (IF 2 * top = next THEN {k \in 0 .. next - 1 : k % 2 = 0}
                 ELSE {0} \union {k \in 0 .. next - 1 : k % 2 = 1})
      nshift == col - 1 - row
      turns == IF levelsize + nshift > next THEN levelsize + nshift - next ELSE 0
  IN MarksShifted(marked, next, turns, nshift)[nshift]

\* Place k of a row, and the nodes and literals behind each of its places.
Place(r, k, marks) ==
  IF fSkip /\ k \in marks THEN [r EXCEPT !.out = Append(@, 0)]
  ELSE gennode(r, Var - row, IF row < col THEN Inner(k) ELSE Outer(k), fUse)
Places(marks) ==
  LET r[k \in 0 .. levelsize] ==
        IF k = 0 THEN [nodes |-> nodes, out |-> <<>>] ELSE Place(r[k - 1], k - 1, marks)
  IN r

\* One row, place by place.
Row ==
  LET marks == IF fSkip THEN SkipMarks ELSE pSkip
      r == Places(marks)[levelsize]
  IN /\ nodes' = r.nodes /\ pBuf' = r.out /\ nbuf' = Len(r.out)
     /\ pSkip' = IF fSkip THEN marks \ (0 .. levelsize - 1) ELSE marks

FirstColumn == col' = 1 /\ row' = 0 /\ nbuf' = 0 /\ pBuf' = <<1>>
ColumnVar(v, i) == IF i < N THEN v - i ELSE v - (M - i - 1)

RowStep ==
  /\ dpc = "rows" /\ col < m - 1
  /\ Row
  /\ IF row < col THEN row' = row + 1 /\ UNCHANGED <<col, Var>>
     ELSE row' = 0 /\ col' = col + 1 /\ Var' = ColumnVar(Var, col + 1)
  /\ UNCHANGED <<dpc, m, Var2, pOutputs, stack, pMarks, count>>

\* The rows of the last column of an output, which is then complete.
LastRow(r, j) ==
  LET lit == Last(r.out)
  IN gennode(r, Var2 - j, <<lit, Not(lit)>>, M - m >= N - j /\ j < N)
LastRows ==
  LET r[j \in 0 .. m] ==
        IF j = 0 THEN [nodes |-> nodes, out |-> <<At(0)>>] ELSE LastRow(r[j - 1], j - 1)
  IN r
LastColumn == LastRows[m]

Output(lit) == IF m = 1 THEN lit ELSE Not(lit)

OutputStep ==
  /\ dpc = "rows" /\ m > 0 /\ col >= m - 1
  /\ nodes' = LastColumn.nodes
  /\ pOutputs' = [pOutputs EXCEPT ![m - 1] = Output(Last(LastColumn.out))]
  /\ Var2' = IF m <= N THEN Var2 + (m - 1) ELSE Var2 + (M - m)
  /\ m' = m - 1
  /\ FirstColumn
  /\ Var' = ColumnVar(NUMVAR - 1, 1)
  /\ UNCHANGED <<dpc, pSkip, stack, pMarks, count>>

-----------------------------------------------------------------------------
(* BddCountNodesArray: marks what is reachable and counts it, then takes   *)
(* the marks away.  m is now the output at which the walk is.              *)

Walk(phase, i) == dpc' = phase /\ m' = i /\ stack' = <<pOutputs[i]>>

\* bdd() returns what BddCountNodesArray() counts.
CountStarts == dpc = "rows" /\ m = 0 /\ Walk("count", 0) /\ UNCHANGED <<pMarks, count>>

\* The top of the stack is taken; its children take its place.
Marked(lit) == lit \div 2 \in pMarks
Visit ==
  LET i == Last(stack)
      fresh == i >= 2 /\ (Marked(i) <=> dpc = "unmark")
  IN /\ dpc \in {"count", "unmark"} /\ stack # <<>>
     /\ stack' = IF fresh THEN Front(stack) \o <<BddElse(i), BddThen(i)>> ELSE Front(stack)
     /\ pMarks' = IF ~fresh THEN pMarks
                  ELSE IF dpc = "count" THEN pMarks \union {i \div 2}
                  ELSE pMarks \ {i \div 2}
     /\ count' = IF fresh /\ dpc = "count" THEN count + 1 ELSE count
     /\ UNCHANGED <<dpc, m>>

WalkEnds ==
  /\ dpc \in {"count", "unmark"} /\ stack = <<>>
  /\ IF m + 1 < M THEN Walk(dpc, m + 1)
     ELSE IF dpc = "count" THEN Walk("unmark", 0)
     ELSE dpc' = "done" /\ UNCHANGED <<m, stack>>
  /\ UNCHANGED <<pMarks, count>>

BddCountNodesArray ==
  /\ CountStarts \/ Visit \/ WalkEnds
  /\ UNCHANGED <<col, row, Var, Var2, nbuf, pBuf, pSkip, nodes, pOutputs>>

bdd_rows == RowStep \/ OutputStep

BddInit(pc) ==
  /\ dpc = pc /\ m = M /\ col = 1 /\ row = 0
  /\ Var = ColumnVar(NUMVAR - 1, 1) /\ Var2 = N - 1
  /\ nbuf = 0 /\ pBuf = <<1>> /\ pSkip = {} /\ nodes = <<>>
  /\ pOutputs = [i \in 0 .. M - 1 |-> Stray]
  /\ stack = <<>> /\ pMarks = {} /\ count = 0

\* main() clears the tables, whatever an earlier run has left in them.
BddMain(pc) ==
  /\ dpc' = pc /\ m' = M /\ col' = 1 /\ row' = 0
  /\ Var' = ColumnVar(NUMVAR - 1, 1) /\ Var2' = N - 1
  /\ nbuf' = 0 /\ pBuf' = <<1>> /\ pSkip' = {} /\ nodes' = <<>>
  /\ pOutputs' = [i \in 0 .. M - 1 |-> Stray]
  /\ stack' = <<>> /\ pMarks' = {} /\ count' = 0

bddResult == count + 1

-----------------------------------------------------------------------------
\* The count marks nodes of the table, and counts each once.
NodesCountedOnce ==
  /\ pMarks \subseteq DOMAIN nodes /\ bddResult <= nObjs
  /\ dpc = "count" => count = Cardinality(pMarks)

\* The buffers are large enough for a row and the unique table for the stack of
\* the count.  A row reads only what the row before has written, and uses up the
\* marks made for it.
RowsWithinBuffers ==
  /\ nbuf <= 2 * M /\ Len(stack) <= UTSIZE
  /\ pSkip \subseteq 0 .. 2 * M - 1
  /\ \A k \in DOMAIN pBuf : pBuf[k] >= 0
  /\ \A k \in DOMAIN nodes : nodes[k][2] >= 0 /\ nodes[k][3] >= 0
  /\ row = 0 => pSkip = {}

\* The arrays are large enough, the table of the nodes too, which is filled to
\* its last place.
BddWithinItsArrays == nObjs <= ALLOC /\ NodesCountedOnce /\ RowsWithinBuffers

\* The variables stand for the partial products, those of the highest column
\* first; column c of the multiplier has Height(c) of them and the weight 2^c.
Height(c) == IF c < N THEN c + 1 ELSE M - 1 - c
Before(c) == IF c >= N THEN ((M - 1 - c) * (M - 2 - c)) \div 2
             ELSE NUMVAR - ((c + 1) * (c + 2)) \div 2
Weight(v) == TwoTo(CHOOSE c \in 0 .. M - 2 : v \in Before(c) .. Before(c) + Height(c) - 1)

\* All pairs of a literal and a sum that some values of the variables below v
\* lead to, from an output and the sum 0, for every v.
Followed(p, v) ==
  IF p[1] >= 2 /\ nodes[p[1] \div 2][1] = v
  THEN {<<BddThen(p[1]), p[2] + Weight(v)>>, <<BddElse(p[1]), p[2]>>}
  ELSE {<<p[1], p[2] + Weight(v)>>, <<p[1], p[2]>>}
Reached(o) ==
  LET pairs[v \in 0 .. NUMVAR] ==
        IF v = 0 THEN {<<pOutputs[o], 0>>}
        ELSE UNION {Followed(p, v - 1) : p \in pairs[v - 1]}
  IN pairs

\* No function has two nodes: a node is there once, it differs in its children,
\* its Else is not complemented, and its children were made before it.
BddReduced ==
  /\ \A k, l \in DOMAIN nodes : nodes[k] = nodes[l] => k = l
  /\ \A k \in DOMAIN nodes :
       /\ nodes[k][2] # nodes[k][3] /\ nodes[k][3] % 2 = 0
       /\ nodes[k][2] < 2 * k /\ nodes[k][3] < 2 * k

\* Output o is bit o of the sum of the partial products, for all their values,
\* and the diagrams are reduced, so that equal functions are equal literals.
BddAddsPartialProducts ==
  /\ BddReduced
  /\ dpc = "count" /\ m = 0 /\ pMarks = {} =>
       \A o \in 0 .. M - 1 : \A p \in Reached(o)[NUMVAR] : p[1] = (p[2] \div TwoTo(o)) % 2
=============================================================================

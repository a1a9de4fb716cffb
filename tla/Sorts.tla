-------------------------------- MODULE Sorts --------------------------------
(***************************************************************************)
(* bsort.c and ssort.c: bubble sort and selection sort of the numbers      *)
(* SIZE, ..., 1.  A step is one round of an inner or outer loop.  Indices  *)
(* are those of C.                                                         *)
(***************************************************************************)
EXTENDS Integers, FiniteSets

CONSTANT SIZE

ASSUME SizeAssumption == SIZE \in Nat /\ SIZE > 1

VARIABLES
  bpc, barray, bi, bj,                \* bubble_sort()
  spc, sarray, si, sj, min_index      \* selection_sort()

bsortVars == <<bpc, barray, bi, bj>>
ssortVars == <<spc, sarray, si, sj, min_index>>

Index == 0 .. SIZE - 1

unsorted_array == [i \in Index |-> SIZE - i]
sorted_array == [i \in Index |-> i + 1]

\* Swaps two elements.
\* Mutant: without the temporary copy.
Swapped_uncopied(a, i, j) == [a EXCEPT ![i] = a[j]]
Swapped(a, i, j) == [a EXCEPT ![i] = a[j], ![j] = a[i]]

\* The number of places in which the result is wrong.
compare_arrays(a) == Cardinality({i \in Index : a[i] # sorted_array[i]})

-----------------------------------------------------------------------------
BsortInit(pc) == bpc = pc /\ barray = unsorted_array /\ bi = 0 /\ bj = 0

\* main(): the arrays are filled.
BsortMain(pc) == bpc' = pc /\ barray' = unsorted_array /\ bi' = 0 /\ bj' = 0

Bubble ==
  /\ bpc = "sort" /\ bi < SIZE - 1 /\ bj < SIZE - bi - 1
  /\ barray' = IF barray[bj] > barray[bj + 1] THEN Swapped(barray, bj, bj + 1) ELSE barray
  /\ bj' = bj + 1
  /\ UNCHANGED <<bpc, bi>>

BubblePassEnds ==
  /\ bpc = "sort" /\ bi < SIZE - 1 /\ bj >= SIZE - bi - 1
  /\ bi' = bi + 1 /\ bj' = 0
  /\ UNCHANGED <<bpc, barray>>

BubbleEnds ==
  /\ bpc = "sort" /\ bi >= SIZE - 1
  /\ bpc' = "done"
  /\ UNCHANGED <<barray, bi, bj>>

bubble_sort == Bubble \/ BubblePassEnds \/ BubbleEnds

BsortSpec == BsortInit("sort") /\ [][bubble_sort]_bsortVars

-----------------------------------------------------------------------------
SsortInit(pc) ==
  spc = pc /\ sarray = unsorted_array /\ si = 0 /\ sj = 1 /\ min_index = 0

SsortMain(pc) ==
  spc' = pc /\ sarray' = unsorted_array /\ si' = 0 /\ sj' = 1 /\ min_index' = 0

SelectNext(i) ==
  IF i < SIZE - 1 THEN spc' = "scan" /\ si' = i /\ sj' = i + 1 /\ min_index' = i
  ELSE spc' = "done" /\ si' = i /\ UNCHANGED <<sj, min_index>>

Scan ==
  /\ spc = "scan" /\ sj < SIZE
  /\ min_index' = IF sarray[sj] < sarray[min_index] THEN sj ELSE min_index
  /\ sj' = sj + 1
  /\ UNCHANGED <<spc, sarray, si>>

Select ==
  /\ spc = "scan" /\ sj >= SIZE
  /\ sarray' = IF min_index # si THEN Swapped(sarray, si, min_index) ELSE sarray
  /\ SelectNext(si + 1)

selection_sort == Scan \/ Select

SsortSpec == SsortInit("scan") /\ [][selection_sort]_ssortVars

-----------------------------------------------------------------------------
\* Both programs sort, so that the number of mismatches they print is 0.
BubbleSorts == bpc = "done" => compare_arrays(barray) = 0
SelectionSorts == spc = "done" => compare_arrays(sarray) = 0
=============================================================================

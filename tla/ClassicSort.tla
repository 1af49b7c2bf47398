---------------------------- MODULE ClassicSort ----------------------------
(***************************************************************************)
(* The sorting algorithms of classic_sort as operators on arrays, that is, *)
(* functions on 0..n-1.  A loop that runs over its indices is a fold; a    *)
(* loop that looks for a place is the place it stops at.  Every access is  *)
(* an application of the array, so that one outside its bounds is an error *)
(* of the evaluation.                                                      *)
(***************************************************************************)
EXTENDS Integers, Sequences, FiniteSets, SequencesExt

CONSTANTS
  Values,   \* the values of the elements
  MaxLen    \* bound: the length of the arrays

ASSUME ClassicSortAssumption == Values \subseteq Int /\ MaxLen \in Nat

VARIABLES
  input,    \* the array the caller passed
  array,    \* the array after the call
  called    \* the algorithm called, "none" before

vars == <<input, array, called>>

Length(a) == Cardinality(DOMAIN a)

(* The indices lo..hi in increasing order.                                 *)
Upto(lo, hi) == [k \in 1..(hi - lo + 1) |-> lo + k - 1]

(* swap_value exchanges by exclusive or: an element with itself gives 0.   *)
swap_value(a, i, j) ==
  IF i = j THEN [a EXCEPT ![i] = 0] ELSE [a EXCEPT ![i] = a[j], ![j] = a[i]]

-----------------------------------------------------------------------------
(* One pass over 0..hi-1: the array, and the place of the last exchange.   *)
bubble_pass(a, hi) ==
  FoldLeft(LAMBDA s, lo : IF s.a[lo - 1] > s.a[lo]
                            THEN [a |-> swap_value(s.a, lo - 1, lo), last |-> lo]
                            ELSE s,
           [a |-> a, last |-> 0], Upto(1, hi - 1))

(* A pass ends where the one before it made its last exchange.             *)
RECURSIVE bubble_from(_, _)
bubble_from(a, hi) ==
  IF hi <= 0 THEN a ELSE LET s == bubble_pass(a, hi) IN bubble_from(s.a, s.last)

bubble_sort(a) == bubble_from(a, Length(a))

-----------------------------------------------------------------------------
(* The first of the smallest elements from i on.                           *)
min_index(a, i) ==
  CHOOSE m \in i..(Length(a) - 1) :
    \A j \in i..(Length(a) - 1) : a[m] <= a[j] /\ (j < m => a[m] < a[j])

(* Variant with a fault: the exchange is not guarded.                      *)
select_step_always(a, i) == swap_value(a, i, min_index(a, i))

select_step(a, i) ==
  IF min_index(a, i) # i THEN swap_value(a, i, min_index(a, i)) ELSE a

select_sort(a) == FoldLeft(select_step, a, Upto(0, Length(a) - 1))

-----------------------------------------------------------------------------
(* The place of a[i] among the elements before it, by steps of rule: where *)
(* the loop `j > 0 && tmp < array[j - 1]', or its like in shell_sort, ends.*)
place(a, i, rule) ==
  CHOOSE j \in {k \in 0..i : (i - k) % rule = 0} :
    /\ j < rule \/ a[j - rule] <= a[i]
    /\ \A k \in j..(i - rule) : (i - k) % rule = 0 => a[i] < a[k]

(* The elements between that place and i move up by rule.                  *)
insert(a, i, rule) ==
  LET p == place(a, i, rule)
  IN  [k \in DOMAIN a |->
         IF k = p THEN a[i]
         ELSE IF p < k /\ k <= i /\ (i - k) % rule = 0 THEN a[k - rule] ELSE a[k]]

insert_sort(a) == FoldLeft(LAMBDA b, i : insert(b, i, 1), a, Upto(1, Length(a) - 1))

-----------------------------------------------------------------------------
(* The order in which shell_sort visits: chain by chain.                   *)
chains(n, rule) ==
  FlattenSeq([i \in 1..rule |->
                [m \in 1..((n - i) \div rule) |-> (i - 1) + m * rule]])

shell_pass(a, rule) ==
  FoldLeft(LAMBDA b, j : IF b[j] < b[j - rule] THEN insert(b, j, rule) ELSE b,
           a, chains(Length(a), rule))

RECURSIVE shell_from(_, _)
shell_from(a, rule) ==
  LET r == rule \div 3 + 1
      b == shell_pass(a, r)
  IN  IF r > 1 THEN shell_from(b, r) ELSE b

shell_sort(a) == shell_from(a, Length(a))

-----------------------------------------------------------------------------
(* From the right, down to the first element that is not above the basis.  *)
from_right(a, i, j, basis) ==
  CHOOSE k \in i..j : (k = i \/ a[k] <= basis) /\ \A m \in (k + 1)..j : a[m] > basis

from_left(a, i, j, basis) ==
  CHOOSE k \in i..j : (k = j \/ a[k] >= basis) /\ \A m \in i..(k - 1) : a[m] < basis

(* The loop `while (i < j)': the array and the place of the basis.         *)
RECURSIVE partition(_, _, _, _)
partition(a, i, j, basis) ==
  IF i >= j
    THEN [a |-> [a EXCEPT ![i] = basis], i |-> i]
    ELSE LET r  == from_right(a, i, j, basis)
             b  == IF i < r THEN [a EXCEPT ![i] = a[r]] ELSE a
             i1 == IF i < r THEN i + 1 ELSE i
             l  == from_left(b, i1, r, basis)
         IN  IF l < r
               THEN partition([b EXCEPT ![r] = b[l]], l, r - 1, basis)
               ELSE partition(b, l, r, basis)

RECURSIVE quick_recursion(_, _, _)
quick_recursion(a, start, end) ==
  IF start >= end
    THEN a
    ELSE LET p == partition(a, start, end, a[start])
         IN  quick_recursion(quick_recursion(p.a, start, p.i - 1), p.i + 1, end)

quick_sort(a) == quick_recursion(a, 0, Length(a) - 1)

-----------------------------------------------------------------------------
(***************************************************************************)
(* The loop of merger, on the array and the buffer l_arr.  The second      *)
(* condition may read l_arr[l_len], which is past the left run: an old     *)
(* element of the buffer.  What it then copies is copied onto itself.      *)
(***************************************************************************)
RECURSIVE merge_loop(_, _, _, _, _, _, _)
merge_loop(a, buf, lo, l_len, r_len, j, k) ==
  IF j >= l_len
    THEN a
    ELSE LET right(b, m) == b[lo + l_len + m]
             left == r_len <= k \/ buf[j] <= right(a, k)
             b    == IF left THEN [a EXCEPT ![lo + j + k] = buf[j]] ELSE a
             j1   == IF left THEN j + 1 ELSE j
             take == k < r_len /\ right(b, k) < buf[j1]
             c    == IF take THEN [b EXCEPT ![lo + j1 + k] = right(b, k)] ELSE b
         IN  merge_loop(c, buf, lo, l_len, r_len, j1, IF take THEN k + 1 ELSE k)

merger(s, lo, mi, hi) ==
  LET buf == [k \in DOMAIN s.buf |-> IF k < mi - lo THEN s.a[lo + k] ELSE s.buf[k]]
  IN  [a |-> merge_loop(s.a, buf, lo, mi - lo, hi - mi, 0, 0), buf |-> buf]

RECURSIVE merge_recursion(_, _, _)
merge_recursion(s, lo, hi) ==
  IF hi - lo <= 1
    THEN s
    ELSE LET mi == (lo + hi) \div 2
         IN  merger(merge_recursion(merge_recursion(s, lo, mi), mi, hi), lo, mi, hi)

merge_sort(a) ==
  IF Length(a) = 0
    THEN a
    ELSE merge_recursion([a |-> a, buf |-> [k \in DOMAIN a |-> 0]], 0, Length(a)).a

-----------------------------------------------------------------------------
Arrays == UNION {[0..(n - 1) -> Values] : n \in 0..MaxLen}

Init ==
  /\ input \in Arrays
  /\ array = input /\ called = "none"

Call(name, a) ==
  /\ called = "none"
  /\ called' = name /\ array' = a
  /\ UNCHANGED input

Bubble == Call("bubble", bubble_sort(array))
Select == Call("select", select_sort(array))
Insert == Call("insert", insert_sort(array))
Shell  == Call("shell", shell_sort(array))
Quick  == Call("quick", quick_sort(array))
Merge  == Call("merge", merge_sort(array))

(* The buffer cannot be allocated: merge_sort returns, and says nothing.   *)
MergeNoMemory == Length(array) > 0 /\ Call("merge, no memory", array)

Next == Bubble \/ Select \/ Insert \/ Shell \/ Quick \/ Merge \/ MergeNoMemory

Spec == Init /\ [][Next]_vars

-----------------------------------------------------------------------------
Sorted(a) == \A i, j \in DOMAIN a : i < j => a[i] <= a[j]

Occurrences(a, v) == Cardinality({i \in DOMAIN a : a[i] = v})

(***************************************************************************)
(* Every algorithm sorts: the result is in order and has the elements of   *)
(* the input, each as often.  That includes the exchange by exclusive or,  *)
(* the shortened passes of bubble_sort and what merger reads beyond the    *)
(* left run.  merge_sort without memory leaves the array as it was.        *)
(***************************************************************************)
Sorts ==
  /\ DOMAIN array = DOMAIN input
  /\ \A v \in Values : Occurrences(array, v) = Occurrences(input, v)
  /\ called \notin {"none", "merge, no memory"} => Sorted(array)

=============================================================================

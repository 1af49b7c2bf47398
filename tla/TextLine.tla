------------------------------ MODULE TextLine ------------------------------
(***************************************************************************)
(* What formatted_text does to one line.  A line is a sequence of kinds of *)
(* characters: "c" for those IS_CH holds of, "p" for parentheses, which    *)
(* are as printable as these but left out by IS_CH, "s" for a space, "t"   *)
(* for a tab and "x" for all others, bytes above 126 among them.           *)
(***************************************************************************)
EXTENDS Integers, Sequences, SequencesExt

Kinds == {"c", "p", "x", "s", "t"}

(* line[line.size()] is a null character.                                  *)
CharAt(line, i) == IF i <= Len(line) THEN line[i] ELSE "nul"

(* The end of the run of characters that starts at i.                      *)
RunEnd(line, i) ==
  CHOOSE k \in i..(Len(line) + 1) :
    CharAt(line, k) # "c" /\ \A m \in i..(k - 1) : line[m] = "c"

(* Is a space inserted before the run that starts at i?                    *)
space_before(line, i) == line[i - 1] # "s" /\ i # 2

(* Is one inserted after the run that ends at e?                           *)
space_after(line, e) == CharAt(line, e) # "s"

(***************************************************************************)
(* The loop of add_line_space, from index i on (the code counts from 0).   *)
(* With is_check it stops where it would insert.                           *)
(***************************************************************************)
RECURSIVE add_from(_, _, _)
add_from(line, i, is_check) ==
  IF i > Len(line) THEN [line |-> line, need |-> FALSE]
  ELSE IF line[i] # "c" THEN add_from(line, i + 1, is_check)
  ELSE LET before == space_before(line, i)
           l1     == IF before THEN InsertAt(line, i, "s") ELSE line
           e      == RunEnd(l1, i)
           after  == space_after(l1, e)
           l2     == IF after THEN InsertAt(l1, e, "s") ELSE l1
       IN  IF is_check /\ (before \/ after)
             THEN [line |-> line, need |-> TRUE]
             ELSE add_from(l2, e + 1, is_check)

add_line_space(line, is_check) == add_from(line, 2, is_check)

Trailing(line) ==
  CHOOSE n \in 0..Len(line) :
    /\ \A i \in (n + 1)..Len(line) : line[i] \in {"s", "t"}
    /\ n > 0 => line[n] \notin {"s", "t"}

eat_trailing_space(line, is_check) ==
  LET n == Trailing(line)
  IN  IF is_check THEN [line |-> line, need |-> n < Len(line)]
                  ELSE [line |-> SubSeq(line, 1, n), need |-> FALSE]

(* Variant with a fault: the functions in the other order.                 *)
func_vec_swapped(flags) ==
  (IF "e" \in flags THEN <<"eat">> ELSE <<>>) \o (IF "i" \in flags THEN <<"add">> ELSE <<>>)

(* get_format_func_array: the functions, in the order they are applied.    *)
func_vec(flags) ==
  (IF "i" \in flags THEN <<"add">> ELSE <<>>) \o (IF "e" \in flags THEN <<"eat">> ELSE <<>>)

func(name, line, is_check) ==
  IF name = "add" THEN add_line_space(line, is_check)
                  ELSE eat_trailing_space(line, is_check)

(* format_check_each_line on one line, formatting: the functions in turn.  *)
format_line(line, flags) ==
  FoldLeft(LAMBDA l, name : func(name, l, FALSE).line, line, func_vec(flags))

(* format_check_each_line on one line, checking: does a function want it?  *)
check_line(line, flags) ==
  \E j \in DOMAIN func_vec(flags) : func(func_vec(flags)[j], line, TRUE).need

=============================================================================

----------------------------- MODULE LineSplitter -----------------------------
(***************************************************************************)
(* What Lab1 and Lab3 promise: the lines of the input are dealt out to the *)
(* files of two children.  A line goes to at most one file and is written  *)
(* there once, and every file keeps the order of the input.  Nothing is    *)
(* said of which child gets a line: that is drawn by lot.  Lines are named *)
(* by their place in the input; the removal of the vowels changes what is  *)
(* in a line, and nothing here looks into it.                              *)
(***************************************************************************)
EXTENDS Naturals

CONSTANT Lines   \* how many lines the input has, a natural number

Child == {1, 2}

VARIABLE written   \* written[c]: the lines in the file of child c

Init == written = [c \in Child |-> {}]

Write(c, n) ==
  /\ \A d \in Child : n \notin written[d]
  /\ \A m \in written[c] : m < n
  /\ written' = [written EXCEPT ![c] = @ \cup {n}]

Next == \E c \in Child, n \in 1 .. Lines : Write(c, n)

Spec == Init /\ [][Next]_written
=============================================================================

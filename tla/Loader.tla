-------------------------------- MODULE Loader --------------------------------
(***************************************************************************)
(* Lab4: program1.cpp, which is linked with the first library, and         *)
(* program2.cpp, which loads the libraries and switches between them.      *)
(* Library 1 has rectangles and binary numbers, library 2 trapezes and     *)
(* ternary ones.  The integrals are floating point: only who calculates    *)
(* them is modelled.                                                       *)
(*                                                                         *)
(* cin is good until a read fails; then no read changes anything.  The     *)
(* first read that finds a word stores 0, one that finds too long a number *)
(* the nearest one; at the end of the input the variable is left alone,    *)
(* which for a local one means any value.                                  *)
(***************************************************************************)
EXTENDS Translation, SequencesExt

Library == {1, 2}
None    == 0       \* nullptr, or a library that was closed

VARIABLES
  program,   \* program 1 or program 2
  pc,        \* "start", "menu", "switch", "integral", "translate", "exited"
  good,      \* cin.good()
  prog,      \* the last command
  real,      \* which library the program says it uses
  lib,       \* the library that is loaded
  symbols,   \* the library SinIntegral and Translation point into
  shown      \* the last translation: the number, the name given, the text

vars == <<program, pc, good, prog, real, lib, symbols, shown>>

Nothing == [x |-> 0, name |-> 1, text |-> Text(FALSE, <<0>>)]

\* The commands: -1 stands for every number without a case of its own.
Command == {-1, 0, 1, 2}

Translated(library, x) ==
  IF library = 1 THEN TranslationBinary(x) ELSE TranslationTernary(x)

\* program1 starts with the library it was linked with, and does not set
\* prog.
Init ==
  /\ program \in {1, 2}
  /\ good = TRUE
  /\ real = 1
  /\ shown = Nothing
  /\ IF program = 1
     THEN pc = "menu" /\ lib = 1 /\ symbols = 1 /\ prog \in Command
     ELSE pc = "start" /\ lib = None /\ symbols = None /\ prog = 1

-----------------------------------------------------------------------------
\* std::cin >> v for a v that has the value old.
Read(old, numbers, extremes, v) ==
  \/ ~ good /\ v = old /\ UNCHANGED good
  \/ good /\ v \in numbers /\ UNCHANGED good
  \/ good /\ v = 0 /\ good' = FALSE          \* a word
  \/ good /\ v \in extremes /\ good' = FALSE  \* a number that is too long
  \/ good /\ v = old /\ good' = FALSE        \* the end of the input

\* dlopen fails, or dlsym, and main returns 1.
Fail ==
  /\ pc' = "exited"
  /\ lib' = None
  /\ symbols' \in {symbols, None}
  /\ UNCHANGED <<program, good, prog, shown>>

\* Mutant: the symbols are not looked up again.
OpenOnly(l) ==
  /\ lib' = l
  /\ symbols' = IF symbols = None THEN l ELSE symbols
  /\ pc' = "menu"
  /\ UNCHANGED <<program, good, prog, shown>>

\* Library l is open and both symbols are found.
Open(l) ==
  /\ lib' = l /\ symbols' = l
  /\ pc' = "menu"
  /\ UNCHANGED <<program, good, prog, shown>>

Load ==
  /\ pc = "start"
  /\ Open(1) \/ Fail
  /\ UNCHANGED real

\* dlclose, then the other library; real changes in any case.
Switch ==
  /\ pc = "switch"
  /\ real' = IF real = 1 THEN 2 ELSE 1
  /\ Open(real') \/ Fail

-----------------------------------------------------------------------------
\* Mutant: a number without a case of its own is ignored.
DispatchOthers(command) ==
  CASE command = 1 -> "integral"
    [] command = 2 -> "translate"
    [] OTHER       -> "switch"

Dispatch(command) ==
  CASE command = 0 /\ program = 2 -> "switch"
    [] command = 1                -> "integral"
    [] command = 2                -> "translate"
    [] OTHER                      -> "exited"

ReadCommand ==
  /\ pc = "menu"
  /\ \E command \in Command :
       Read(prog, Command, {-1}, command) /\ prog' = command
  /\ pc' = Dispatch(prog')
  /\ lib' = IF pc' = "exited" /\ program = 2 THEN None ELSE lib
  /\ UNCHANGED <<program, real, symbols, shown>>

\* A, B and e are read, and the integral is printed.
Integral ==
  /\ pc = "integral"
  /\ good' \in {good, FALSE}
  /\ pc' = "menu"
  /\ UNCHANGED <<program, prog, real, lib, symbols, shown>>

Translate ==
  /\ pc = "translate"
  /\ \E x, uninitialized \in Long :
       /\ Read(uninitialized, Long, {LeastLong, -(LeastLong + 1)}, x)
       /\ shown' = [x |-> x, name |-> real, text |-> Translated(symbols, x)]
  /\ pc' = "menu"
  /\ UNCHANGED <<program, prog, real, lib, symbols>>

\* Only an ended program takes no step.
Next == Load \/ Switch \/ ReadCommand \/ Integral \/ Translate

Spec == Init /\ [][Next]_vars

-----------------------------------------------------------------------------
(***************************************************************************)
(* Type invariant.                                                         *)
(***************************************************************************)
TypeOK ==
  /\ program \in {1, 2}
  /\ pc \in {"start", "menu", "integral", "translate", "exited"}
            \cup IF program = 2 THEN {"switch"} ELSE {}
  /\ good \in BOOLEAN
  /\ prog \in Command
  /\ real \in Library
  /\ lib \in Library \cup {None}
  /\ symbols \in Library \cup {None}
  /\ shown.x \in Long /\ shown.name \in Library
  /\ shown.text.minus \in BOOLEAN
  /\ \A i \in DOMAIN shown.text.digits : shown.text.digits[i] \in 0 .. shown.name

(***************************************************************************)
(* No function is called in a library that was closed, or in another one   *)
(* than the program names to the user, after any number of switches and    *)
(* failures to load, and after a read that failed                          *)
(* (program2.cpp:40-94).                                                   *)
(***************************************************************************)
CallsIntoLoaded ==
  pc \in {"integral", "translate"} => lib # None /\ symbols = lib /\ real = lib

(***************************************************************************)
(* A number that is shown is the one that was read, in the system that is  *)
(* named: ternary texts are sign and magnitude, binary texts of negative   *)
(* numbers the two's complement behind a minus; no text but 0 starts with  *)
(* a 0 (tr_bin.cpp:1-47, tr_tri.cpp:1-40).  The least long has no ternary  *)
(* text: tr_tri.cpp:11 overflows.                                          *)
(***************************************************************************)
Value(digits, base) ==
  FoldLeft(LAMBDA value, digit : value * base + digit, 0, digits)

ShownNumberTrue ==
  LET digits == shown.text.digits
      value  == Value(digits, shown.name + 1)
      minus  == shown.text.minus
  IN  /\ minus <=> shown.x < 0
      /\ IF shown.name = 1
         THEN shown.x = IF minus THEN value - 2^BITS ELSE value
         ELSE shown.x # LeastLong => shown.x = IF minus THEN -value ELSE value
      /\ digits # <<>> /\ digits # <<0>> => digits[1] # 0
=============================================================================

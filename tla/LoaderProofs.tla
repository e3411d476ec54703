----------------------------- MODULE LoaderProofs -----------------------------
(***************************************************************************)
(* Proofs about Lab4, for every width of long: what is called is loaded,   *)
(* the variables keep their types, and what is shown is the number that    *)
(* was read.                                                               *)
(***************************************************************************)
EXTENDS Loader, FiniteSetTheorems, WellFoundedInduction, TLAPS

(***************************************************************************)
(* The inductive invariant: in every state of the main loop library,       *)
(* symbols and name agree; only in the middle of a switch, before the      *)
(* first load and after the end they may differ.                           *)
(***************************************************************************)
Agree == lib = real /\ symbols = real

LoopAgrees ==
  /\ real \in Library
  /\ pc = "start" => real = 1
  /\ pc \in {"menu", "integral", "translate"} => Agree

(***************************************************************************)
(* No step of the two programs breaks the agreement: a switch ends with    *)
(* both symbols found in the library it has opened, or with the program    *)
(* (program1.cpp, program2.cpp).                                           *)
(***************************************************************************)
LEMMA LoopStep == LoopAgrees /\ [Next]_vars => LoopAgrees'
<1> SUFFICES ASSUME LoopAgrees, [Next]_vars PROVE LoopAgrees'
  OBVIOUS
<1> USE DEF LoopAgrees, Agree, Library
<1>1. CASE Load
  BY <1>1 DEF Load, Open, Fail
<1>2. CASE Switch
  BY <1>2 DEF Switch, Open, Fail
<1>3. CASE ReadCommand
  <2>1. pc = "menu" /\ UNCHANGED <<real, symbols>>
    BY <1>3 DEF ReadCommand
  <2>2. pc' \in {"switch", "integral", "translate", "exited"}
    BY <1>3 DEF ReadCommand, Dispatch
  <2>3. pc' # "exited" => lib' = lib
    BY <1>3 DEF ReadCommand
  <2> QED BY <2>1, <2>2, <2>3
<1>4. CASE Integral
  BY <1>4 DEF Integral
<1>5. CASE Translate
  BY <1>5 DEF Translate
<1>6. CASE UNCHANGED vars
  BY <1>6 DEF vars
<1> QED BY <1>1, <1>2, <1>3, <1>4, <1>5, <1>6 DEF Next

(***************************************************************************)
(* No function of a closed library, or of another one than the program     *)
(* names, is ever called (program2.cpp:40-94).                             *)
(***************************************************************************)
THEOREM CallsCorrect == Spec => []CallsIntoLoaded
<1>1. Init => LoopAgrees
  BY DEF Init, LoopAgrees, Agree, Library
<1>2. LoopAgrees => CallsIntoLoaded
  BY DEF LoopAgrees, Agree, CallsIntoLoaded, Library, None
<1> QED BY <1>1, <1>2, LoopStep, PTL DEF Spec
-----------------------------------------------------------------------------
(***************************************************************************)
(* Powers of two and division.                                             *)
(***************************************************************************)

\* There are 2^n subsets of 1 .. n, and twice as many when n grows by one:
\* those with the new number and those without it.
LEMMA PowerOfTwo ==
  ASSUME NEW n \in Nat
  PROVE  2^n \in Nat \ {0} /\ 2^(n + 1) = 2 * 2^n
<1> DEFINE S == SUBSET (1 .. n)
           A == {s \cup {n + 1} : s \in S}
           f == [s \in S |-> s \cup {n + 1}]
<1>1. \A k \in Nat : IsFiniteSet(1 .. k) /\ Cardinality(1 .. k) = k
  BY FS_Interval
<1>2. \A k \in Nat : IsFiniteSet(SUBSET (1 .. k)) /\ Cardinality(SUBSET (1 .. k)) = 2^k
  BY <1>1, FS_SUBSET
<1>3. f \in Bijection(S, A)
  <2>1. f \in [S -> A]
    OBVIOUS
  <2>2. \A s, t \in S : f[s] = f[t] => s = t
    <3> SUFFICES ASSUME NEW s \in S, NEW t \in S, s \cup {n + 1} = t \cup {n + 1}
                 PROVE  s = t
      OBVIOUS
    <3>1. n + 1 \notin 1 .. n
      OBVIOUS
    <3> QED
      BY <3>1
  <2>3. \A a \in A : \E s \in S : f[s] = a
    OBVIOUS
  <2> HIDE DEF S, A, f
  <2>4. f \in Injection(S, A)
    BY <2>1, <2>2 DEF Injection, IsInjective
  <2>5. f \in Surjection(S, A)
    BY <2>1, <2>3 DEF Surjection
  <2> QED
    BY <2>4, <2>5 DEF Bijection
<1>4. IsFiniteSet(A) /\ Cardinality(A) = Cardinality(S)
  BY <1>2, <1>3, FS_Bijection DEF ExistsBijection
<1>5. SUBSET (1 .. n + 1) = S \cup A
  <2>1. 1 .. n + 1 = (1 .. n) \cup {n + 1}
    OBVIOUS
  <2>2. ASSUME NEW t \in SUBSET (1 .. n + 1)
        PROVE  t \in S \cup A
    <3>1. t \ {n + 1} \in S
      BY <2>1
    <3>2. CASE n + 1 \in t
      <4>1. t = (t \ {n + 1}) \cup {n + 1}
        BY <3>2
      <4> QED
        BY <3>1, <4>1
    <3>3. CASE n + 1 \notin t
      BY <3>1, <3>3
    <3> QED
      BY <3>2, <3>3
  <2>3. S \cup A \subseteq SUBSET (1 .. n + 1)
    BY <2>1
  <2> QED
    BY <2>2, <2>3
<1>6. S \cap A = {}
  <2>1. n + 1 \notin 1 .. n
    OBVIOUS
  <2> QED
    BY <2>1
<1>7. Cardinality(S \cup A) = Cardinality(S) + Cardinality(A) - Cardinality({})
  <2>1. IsFiniteSet(S)
    BY <1>2
  <2> HIDE DEF S, A
  <2> QED
    BY <1>4, <1>6, <2>1, FS_Union
<1>8. Cardinality({}) = 0
  BY FS_EmptySet
<1>9. Cardinality(S) \in Nat /\ Cardinality(S) # 0
  <2>1. {} \in S /\ IsFiniteSet(S)
    BY <1>2
  <2> HIDE DEF S
  <2> QED
    BY <2>1, FS_CardinalityType, FS_EmptySet
<1>10. n + 1 \in Nat /\ Cardinality(S) = 2^n /\ Cardinality(S \cup A) = 2^(n + 1)
  <2>1. n + 1 \in Nat
    OBVIOUS
  <2> QED
    BY <1>2, <1>5, <2>1
<1> HIDE DEF S, A
<1> QED
  BY <1>4, <1>7, <1>8, <1>9, <1>10

\* A set of numbers has a least one.
LEMMA Least ==
  ASSUME NEW T, T \subseteq Nat, T # {}
  PROVE  \E x \in T : \A y \in T : x <= y
<1>1. \E x \in T : \A y \in T : ~ (<<y, x>> \in OpToRel(<, Nat))
  BY NatLessThanWellFounded, WFMin, Zenon
<1>2. \E x \in T : \A y \in T : ~ (<<y, x>> \in {ss \in Nat \X Nat : ss[1] < ss[2]})
  BY <1>1 DEF OpToRel
<1>3. \E x \in T : \A y \in T : ~ (y < x)
  BY <1>2
<1> QED BY <1>3

\* What is true of 0, and of k if it is true of k - 1, is true up to n.
LEMMA UpTo ==
  ASSUME NEW n \in Nat, NEW Good, 0 \in Good,
         \A k \in 1 .. n : k - 1 \in Good => k \in Good
  PROVE  0 .. n \subseteq Good
<1> DEFINE T == {k \in 0 .. n : k \notin Good}
<1>1. T \subseteq Nat
  OBVIOUS
<1>2. ASSUME T # {}
      PROVE  FALSE
  <2>1. PICK m \in T : \A x \in T : m <= x
    BY <1>1, <1>2, Least
  <2>2. m \in 1 .. n /\ m - 1 \in 0 .. n /\ m - 1 \notin T
    <3>1. m \in 0 .. n /\ m # 0
      OBVIOUS
    <3>2. m - 1 \notin T
      BY <2>1, <3>1
    <3> QED
      BY <3>1, <3>2
  <2> QED
    BY <2>2
<1> QED
  BY <1>2

\* The rounds of the loop exist.
LEMMA DividedRounds ==
  ASSUME NEW x, NEW base
  PROVE  /\ Divided(x, base)[0] = x
         /\ \A k \in 1 .. BITS : Divided(x, base)[k] = Divided(x, base)[k - 1] \div base
<1> DEFINE Rounds(m, f) == f = [k \in 0 .. m |-> IF k = 0 THEN x ELSE f[k - 1] \div base]
           Good == {m \in Nat : \E f : Rounds(m, f)}
<1>1. 0 \in Good
  <2> DEFINE f == [k \in 0 .. 0 |-> x]
  <2>1. Rounds(0, f)
    OBVIOUS
  <2> HIDE DEF f
  <2> QED
    BY <2>1
<1>2. ASSUME NEW m \in 1 .. BITS, m - 1 \in Good
      PROVE  m \in Good
  <2>1. PICK f : Rounds(m - 1, f)
    BY <1>2
  <2> DEFINE g == [k \in 0 .. m |-> IF k = m THEN f[m - 1] \div base ELSE f[k]]
  <2>2. m \in Nat /\ \A k \in 0 .. m : k # m => k \in 0 .. m - 1 /\ g[k] = f[k]
    BY TranslationAssumption
  <2>3. \A k \in 0 .. m : k # 0 => k - 1 \in 0 .. m /\ k - 1 # m
    BY TranslationAssumption
  <2>4. \A k \in 0 .. m : g[k] = IF k = 0 THEN x ELSE g[k - 1] \div base
    <3> SUFFICES ASSUME NEW k \in 0 .. m
                 PROVE  g[k] = IF k = 0 THEN x ELSE g[k - 1] \div base
      OBVIOUS
    <3>1. CASE k = m
      <4>1. k # 0 /\ m - 1 \in 0 .. m
        BY <3>1
      <4>2. g[m - 1] = f[m - 1]
        BY <2>2, <4>1
      <4> QED
        BY <3>1, <4>1, <4>2
    <3>2. CASE k # m
      <4>1. g[k] = f[k] /\ (k # 0 => g[k - 1] = f[k - 1])
        BY <2>2, <2>3, <3>2
      <4>2. f[k] = IF k = 0 THEN x ELSE f[k - 1] \div base
        BY <2>1, <2>2, <3>2
      <4> QED
        BY <4>1, <4>2
    <3> QED
      BY <3>1, <3>2
  <2>5. Rounds(m, g)
    BY <2>4
  <2> HIDE DEF g, Rounds
  <2> QED
    BY <2>2, <2>5
<1>3. BITS \in Nat /\ BITS \in 0 .. BITS
  BY TranslationAssumption
<1>4. BITS \in Good
  <2> HIDE DEF Good
  <2> QED
    BY <1>1, <1>2, <1>3, UpTo
<1>5. \E f : Rounds(BITS, f)
  BY <1>4
<1>6. Divided(x, base) = CHOOSE f : Rounds(BITS, f)
  BY Zenon DEF Divided
<1>7. Rounds(BITS, Divided(x, base))
  <2> HIDE DEF Rounds
  <2> QED
    BY <1>5, <1>6
<1>8. PICK d : d = Divided(x, base)
  OBVIOUS
<1>9. d = [k \in 0 .. BITS |-> IF k = 0 THEN x ELSE d[k - 1] \div base]
  BY <1>7, <1>8
<1>10. d[0] = x /\ \A k \in 1 .. BITS : d[k] = d[k - 1] \div base
  <2>1. d[0] = x
    BY <1>3, <1>9
  <2>2. \A k \in 1 .. BITS : k \in 0 .. BITS /\ k # 0
    BY <1>3
  <2> QED
    BY <1>9, <2>1, <2>2, Zenon
<1> QED
  BY <1>8, <1>10

\* One round.
LEMMA OneRound ==
  ASSUME NEW y \in Nat, NEW base \in {2, 3}
  PROVE  /\ y \div base \in Nat /\ (y % base) \in 0 .. base - 1
         /\ y = (y \div base) * base + (y % base)
         /\ \A z \in Nat : y < 2 * z => y \div base < z
<1>1. CASE base = 2
  <2>1. /\ y \div 2 \in Nat /\ (y % 2) \in 0 .. 1 /\ y = (y \div 2) * 2 + (y % 2)
        /\ \A z \in Nat : y < 2 * z => y \div 2 < z
    OBVIOUS
  <2> QED
    BY <1>1, <2>1
<1>2. CASE base = 3
  <2>1. /\ y \div 3 \in Nat /\ (y % 3) \in 0 .. 2 /\ y = (y \div 3) * 3 + (y % 3)
        /\ \A z \in Nat : y < 2 * z => y \div 3 < z
    OBVIOUS
  <2> QED
    BY <1>2, <2>1
<1> QED
  BY <1>1, <1>2

\* After BITS - 1 rounds nothing is left of a number.
LEMMA DividedSmall ==
  ASSUME NEW x \in Nat, x < 2^(BITS - 1), NEW base \in {2, 3}
  PROVE  /\ \A k \in 0 .. BITS : Divided(x, base)[k] \in Nat
         /\ Divided(x, base)[BITS - 1] = 0 /\ Divided(x, base)[BITS] = 0
<1> DEFINE f == Divided(x, base)
           Good == {k \in Nat : k < BITS => f[k] \in Nat /\ f[k] < 2^(BITS - 1 - k)}
<1>1. BITS \in Nat /\ BITS - 1 \in Nat
  BY TranslationAssumption
<1>2. f[0] = x /\ \A k \in 1 .. BITS : f[k] = f[k - 1] \div base
  BY DividedRounds
<1> HIDE DEF f
<1>3. 0 \in Good
  <2>1. BITS - 1 - 0 = BITS - 1
    BY <1>1
  <2> QED
    BY <1>2, <2>1
<1>4. ASSUME NEW k \in 1 .. BITS - 1, k - 1 \in Good
      PROVE  k \in Good
  <2>1. f[k - 1] \in Nat /\ f[k - 1] < 2^(BITS - 1 - (k - 1))
    BY <1>1, <1>4
  <2>2. BITS - 1 - k \in Nat /\ BITS - 1 - (k - 1) = (BITS - 1 - k) + 1
    BY <1>1
  <2>3. PICK z \in Nat : z = 2^(BITS - 1 - k) /\ 2^(BITS - 1 - (k - 1)) = 2 * z
    BY <2>2, PowerOfTwo
  <2>4. f[k] = f[k - 1] \div base
    BY <1>1, <1>2
  <2>5. f[k] \in Nat /\ f[k] < z
    BY <2>1, <2>3, <2>4, OneRound
  <2> QED
    BY <2>3, <2>5
<1>5. 0 .. BITS - 1 \subseteq Good
  <2> HIDE DEF Good
  <2> QED
    BY <1>1, <1>3, <1>4, UpTo
<1>6. f[BITS - 1] \in Nat /\ f[BITS - 1] < 2^0
  <2>1. BITS - 1 \in 0 .. BITS - 1 /\ BITS - 1 < BITS /\ BITS - 1 - (BITS - 1) = 0
    BY <1>1
  <2>2. BITS - 1 \in Good
    <3> HIDE DEF Good
    <3> QED
      BY <1>5, <2>1
  <2> QED
    BY <2>1, <2>2
<1>7. f[BITS - 1] = 0
  <2>1. 2^0 = 1
    OBVIOUS
  <2> QED
    BY <1>6, <2>1
<1>8. f[BITS] = 0
  <2>1. BITS \in 1 .. BITS /\ f[BITS] = 0 \div base
    BY <1>1, <1>2, <1>7, TranslationAssumption
  <2>2. \A b \in {2, 3} : 0 \div b = 0
    OBVIOUS
  <2> QED
    BY <2>1, <2>2
<1>9. \A k \in 0 .. BITS : f[k] \in Nat
  BY <1>1, <1>5, <1>8
<1> QED
  BY <1>7, <1>8, <1>9 DEF f

-----------------------------------------------------------------------------
(***************************************************************************)
(* The value of a text.                                                    *)
(***************************************************************************)

\* The largest number of a finite set.
LEMMA Largest ==
  ASSUME NEW n \in Nat, NEW T \in SUBSET (1 .. n), T # {}
  PROVE  Max(T) \in T /\ \A x \in T : x <= Max(T)
<1> DEFINE D == {d \in 0 .. n : n - d \in T}
<1>1. D \subseteq Nat /\ D # {}
  <2>1. PICK x \in T : TRUE
    OBVIOUS
  <2>2. x \in 1 .. n /\ n - (n - x) = x
    OBVIOUS
  <2>3. n - x \in D
    BY <2>1, <2>2
  <2>4. D \subseteq Nat
    OBVIOUS
  <2> HIDE DEF D
  <2> QED
    BY <2>3, <2>4
<1>2. PICK d \in D : \A e \in D : d <= e
  BY <1>1, Least
<1>3. n - d \in T /\ \A x \in T : n - d >= x
  <2> SUFFICES ASSUME NEW x \in T
               PROVE  n - d >= x
    BY <1>2
  <2>1. n - x \in D
    OBVIOUS
  <2> QED
    BY <1>2, <2>1
<1> QED
  BY <1>3 DEF Max

\* v[k] is the value of the first k of n digits.
Summing(v, n, digits, base) ==
  /\ v[0] = 0
  /\ \A k \in 1 .. n : v[k] = v[k - 1] * base + digits[k]
  /\ Value(digits, base) = v[n]

\* The fold goes through the digits from the first to the last: it is a
\* function on the subsets of 1 .. n, defined by their size.
LEMMA ValueSteps ==
  ASSUME NEW n \in Nat, NEW digits, NEW base, DOMAIN digits = 1 .. n
  PROVE  \E v : Summing(v, n, digits, base)
<1> DEFINE S == 1 .. n
           Small(m) == {s \in SUBSET S : Cardinality(s) <= m}
           Step(f, s) == IF s = {} THEN 0
                         ELSE f[s \ {Max(s)}] * base + digits[Max(s)]
           Good == {m \in Nat : \E f : f = [s \in Small(m) |-> Step(f, s)]}
<1>1. \A s \in SUBSET S : IsFiniteSet(s) /\ Cardinality(s) \in Nat /\ Cardinality(s) <= n
  <2>1. IsFiniteSet(S) /\ Cardinality(S) = n
    BY FS_Interval
  <2> QED
    BY <2>1, FS_Subset, FS_CardinalityType
<1>2. \A s \in SUBSET S : s # {} =>
        /\ Max(s) \in s /\ s \ {Max(s)} \in SUBSET S
        /\ Cardinality(s \ {Max(s)}) = Cardinality(s) - 1
  BY <1>1, Largest, FS_RemoveElement
<1>3. 0 \in Good
  <2>1. \A s \in Small(0) : s = {}
    BY <1>1, FS_EmptySet
  <2> DEFINE f == [s \in Small(0) |-> 0]
  <2>2. f = [s \in Small(0) |-> Step(f, s)]
    BY <2>1
  <2> QED
    BY <2>2
<1>4. ASSUME NEW m \in 1 .. n, m - 1 \in Good
      PROVE  m \in Good
  <2>1. PICK f : f = [s \in Small(m - 1) |-> Step(f, s)]
    BY <1>4
  <2> DEFINE h == [s \in Small(m) |-> IF s \in Small(m - 1) THEN f[s] ELSE Step(f, s)]
  <2>2. \A s \in Small(m - 1) : s \in Small(m) /\ h[s] = f[s]
    BY <1>1
  <2>3. ASSUME NEW s \in Small(m), s # {}
        PROVE  s \ {Max(s)} \in Small(m - 1)
    <3>1. s \in SUBSET S /\ Cardinality(s) \in Nat /\ Cardinality(s) <= m
      BY <1>1
    <3>2. s \ {Max(s)} \in SUBSET S /\ Cardinality(s \ {Max(s)}) = Cardinality(s) - 1
      BY <1>2, <2>3, <3>1
    <3> QED
      BY <3>1, <3>2
  <2>4. \A s \in Small(m) : h[s] = Step(h, s)
    BY <2>1, <2>2, <2>3
  <2>5. h = [s \in Small(m) |-> Step(h, s)]
    BY <2>4
  <2> HIDE DEF h, Small, Step
  <2>6. m \in Nat
    OBVIOUS
  <2> QED
    BY <2>5, <2>6
<1>5. n \in Good
  <2>1. n \in 0 .. n
    OBVIOUS
  <2> HIDE DEF Good
  <2> QED
    BY <1>3, <1>4, <2>1, UpTo
<1>6. Small(n) = SUBSET S
  BY <1>1
<1>7. \E f : f = [s \in SUBSET S |-> Step(f, s)]
  <2>1. \E f : f = [s \in Small(n) |-> Step(f, s)]
    BY <1>5
  <2> HIDE DEF Small, Step
  <2> QED
    BY <1>6, <2>1
<1> DEFINE iter == CHOOSE it : it = [s \in SUBSET S |-> Step(it, s)]
<1>8. iter = [s \in SUBSET S |-> Step(iter, s)]
  BY <1>7
<1>9. Value(digits, base) = iter[S]
  BY Zenon DEF Value, FoldLeft, MapThenFoldSet
<1> HIDE DEF iter
<1> DEFINE v == [k \in 0 .. n |-> iter[1 .. k]]
<1>10. v[0] = 0
  <2>1. 1 .. 0 = {} /\ {} \in SUBSET S
    OBVIOUS
  <2> QED
    BY <1>8, <2>1
<1>11. ASSUME NEW k \in 1 .. n
       PROVE  v[k] = v[k - 1] * base + digits[k]
  <2>1. 1 .. k \in SUBSET S /\ 1 .. k # {} /\ k \in 1 .. k
    <3>1. k \in 1 .. k
      OBVIOUS
    <3>2. 1 .. k \in SUBSET S
      OBVIOUS
    <3> QED
      BY <3>1, <3>2
  <2>2. Max(1 .. k) = k
    <3>1. Max(1 .. k) \in 1 .. k /\ k <= Max(1 .. k)
      <4>1. k \in Nat /\ 1 .. k \in SUBSET (1 .. k)
        OBVIOUS
      <4> QED
        BY <2>1, <4>1, Largest
    <3>2. \A x \in 1 .. k : k <= x => x = k
      OBVIOUS
    <3> QED
      BY <3>1, <3>2, Zenon
  <2>3. (1 .. k) \ {k} = 1 .. k - 1 /\ k - 1 \in 0 .. n
    OBVIOUS
  <2>4. iter[1 .. k] = iter[1 .. k - 1] * base + digits[k]
    BY <1>8, <2>1, <2>2, <2>3
  <2> QED
    BY <2>3, <2>4
<1>12. v[n] = iter[S]
  OBVIOUS
<1> HIDE DEF v
<1>13. Summing(v, n, digits, base)
  BY <1>9, <1>10, <1>11, <1>12 DEF Summing
<1> QED
  BY <1>13

-----------------------------------------------------------------------------
(***************************************************************************)
(* The digits of a number.                                                 *)
(***************************************************************************)

\* The digits say what the rounds of the loop have left, from the last one
\* that has left nothing to the first.
LEMMA Positional ==
  ASSUME NEW x \in Nat, x < 2^(BITS - 1), NEW base \in {2, 3},
         NEW pos \in 0 .. BITS, Divided(x, base)[pos] = 0,
         NEW digits, DOMAIN digits = 1 .. pos,
         \A i \in 1 .. pos : digits[i] = Divided(x, base)[pos - i] % base
  PROVE  Value(digits, base) = x
<1>1. PICK d : d = Divided(x, base)
  OBVIOUS
<1>2. /\ \A k \in 0 .. BITS : d[k] \in Nat
      /\ \A k \in 1 .. BITS : d[k] = d[k - 1] \div base
      /\ d[0] = x /\ d[pos] = 0
  BY <1>1, DividedRounds, DividedSmall
<1>3. pos \in Nat /\ BITS \in Nat
  BY TranslationAssumption
<1>4. PICK v : Summing(v, pos, digits, base)
  BY <1>3, ValueSteps
<1> DEFINE Good == {k \in Nat : k <= pos => v[k] = d[pos - k]}
<1>5. 0 \in Good
  <2>1. pos - 0 = pos
    BY <1>3
  <2> QED
    BY <1>2, <1>4, <2>1 DEF Summing
<1>6. ASSUME NEW k \in 1 .. pos, k - 1 \in Good
      PROVE  k \in Good
  <2>1. pos - (k - 1) \in 1 .. BITS /\ pos - k \in 0 .. BITS /\ pos - (k - 1) - 1 = pos - k
    BY <1>3
  <2>2. PICK y \in Nat : y = d[pos - k]
    BY <1>2, <2>1
  <2>3. v[k - 1] = y \div base
    BY <1>2, <1>3, <1>6, <2>1, <2>2
  <2>4. v[k] = v[k - 1] * base + (y % base)
    BY <1>1, <1>4, <2>2 DEF Summing
  <2>5. y = (y \div base) * base + (y % base)
    BY OneRound
  <2> QED
    BY <2>2, <2>3, <2>4, <2>5
<1>7. v[pos] = d[0]
  <2>1. pos \in 0 .. pos /\ pos <= pos /\ pos - pos = 0
    BY <1>3
  <2>2. pos \in Good
    <3> HIDE DEF Good
    <3> QED
      BY <1>3, <1>5, <1>6, <2>1, UpTo
  <2> QED
    BY <2>1, <2>2
<1> QED
  BY <1>2, <1>4, <1>7 DEF Summing

\* Leading zeros: what is before them is nothing.
LEMMA Leading ==
  ASSUME NEW x \in Nat, x < 2^(BITS - 1), NEW base \in {2, 3},
         NEW j \in 0 .. BITS,
         \A i \in 1 .. j : Divided(x, base)[BITS - i] % base = 0
  PROVE  Divided(x, base)[BITS - j] = 0
<1>1. PICK d : d = Divided(x, base)
  OBVIOUS
<1>2. /\ \A k \in 0 .. BITS : d[k] \in Nat
      /\ \A k \in 1 .. BITS : d[k] = d[k - 1] \div base
      /\ d[BITS] = 0
  BY <1>1, DividedRounds, DividedSmall
<1>3. j \in Nat /\ BITS \in Nat
  BY TranslationAssumption
<1> DEFINE Good == {k \in Nat : k <= j => d[BITS - k] = 0}
<1>5. 0 \in Good
  <2>1. BITS - 0 = BITS
    BY <1>3
  <2> QED
    BY <1>2, <2>1
<1>6. ASSUME NEW k \in 1 .. j, k - 1 \in Good
      PROVE  k \in Good
  <2>1. BITS - (k - 1) \in 1 .. BITS /\ BITS - k \in 0 .. BITS /\ BITS - (k - 1) - 1 = BITS - k
    BY <1>3
  <2>2. PICK y \in Nat : y = d[BITS - k]
    BY <1>2, <2>1
  <2>3. y \div base = 0
    BY <1>2, <1>3, <1>6, <2>1, <2>2
  <2>4. (y % base) = 0
    BY <1>1, <2>2
  <2>5. y = (y \div base) * base + (y % base)
    BY OneRound
  <2>6. y = 0
    BY <2>3, <2>4, <2>5
  <2> QED
    <3>1. k \in Nat
      BY <1>3
    <3>2. d[BITS - k] = 0
      BY <2>2, <2>6
    <3> QED
      BY <3>1, <3>2
<1>7. d[BITS - j] = 0
  <2>1. j \in 0 .. j /\ j <= j
    BY <1>3
  <2>2. j \in Good
    <3> HIDE DEF Good
    <3> QED
      BY <1>3, <1>5, <1>6, <2>1, UpTo
  <2> QED
    BY <2>1, <2>2
<1> QED
  BY <1>1, <1>7

\* The inverted digits of x, all of them, are those of 2^BITS - 1 - x.
LEMMA Inverted ==
  ASSUME NEW x \in Nat, x < 2^(BITS - 1),
         NEW digits, DOMAIN digits = 1 .. BITS,
         \A i \in 1 .. BITS : digits[i] = 1 - (Divided(x, 2)[BITS - i] % 2)
  PROVE  Value(digits, 2) = 2^BITS - 1 - x
<1>1. PICK d : d = Divided(x, 2)
  OBVIOUS
<1>2. /\ \A k \in 0 .. BITS : d[k] \in Nat
      /\ \A k \in 1 .. BITS : d[k] = d[k - 1] \div 2
      /\ d[0] = x /\ d[BITS] = 0
  BY <1>1, DividedRounds, DividedSmall
<1>3. BITS \in Nat
  BY TranslationAssumption
<1>4. PICK v : Summing(v, BITS, digits, 2)
  BY <1>3, ValueSteps
<1> DEFINE Good == {k \in Nat : k <= BITS => v[k] = 2^k - 1 - d[BITS - k]}
<1>5. 0 \in Good
  <2>1. BITS - 0 = BITS /\ 2^0 = 1
    BY <1>3
  <2> QED
    BY <1>2, <1>4, <2>1 DEF Summing
<1>6. ASSUME NEW k \in 1 .. BITS, k - 1 \in Good
      PROVE  k \in Good
  <2>1. BITS - (k - 1) \in 1 .. BITS /\ BITS - k \in 0 .. BITS /\ BITS - (k - 1) - 1 = BITS - k
    BY <1>3
  <2>2. PICK y \in Nat : y = d[BITS - k]
    BY <1>2, <2>1
  <2>3. PICK p \in Nat : p = 2^(k - 1) /\ 2^k = 2 * p
    <3>1. k - 1 \in Nat /\ (k - 1) + 1 = k
      OBVIOUS
    <3>2. 2^(k - 1) \in Nat /\ 2^((k - 1) + 1) = 2 * 2^(k - 1)
      BY <3>1, PowerOfTwo
    <3> QED
      BY <3>1, <3>2
  <2>4. v[k - 1] = p - 1 - (y \div 2)
    BY <1>2, <1>3, <1>6, <2>1, <2>2, <2>3
  <2>5. v[k] = v[k - 1] * 2 + (1 - (y % 2))
    BY <1>1, <1>4, <2>2 DEF Summing
  <2>6. y \div 2 \in Nat /\ y = (y \div 2) * 2 + (y % 2) /\ (y % 2) \in 0 .. 1
    BY <2>2
  <2>7. v[k] = 2 * p - 1 - y
    BY <2>4, <2>5, <2>6
  <2> QED
    BY <2>2, <2>3, <2>7
<1>7. v[BITS] = 2^BITS - 1 - d[0]
  <2>1. BITS \in 0 .. BITS /\ BITS <= BITS /\ BITS - BITS = 0
    BY <1>3
  <2>2. BITS \in Good
    <3> HIDE DEF Good
    <3> QED
      BY <1>3, <1>5, <1>6, <2>1, UpTo
  <2> QED
    BY <2>1, <2>2
<1> QED
  BY <1>2, <1>4, <1>7 DEF Summing

\* 0 is shown as 0.
LEMMA ZeroShown ==
  ASSUME NEW base \in {2, 3}
  PROVE  Value(<<0>>, base) = 0
<1>1. PICK v : Summing(v, 1, <<0>>, base)
  <2>1. DOMAIN <<0>> = 1 .. 1 /\ 1 \in Nat
    OBVIOUS
  <2> QED
    BY <2>1, ValueSteps
<1>2. v[0] = 0 /\ v[1] = v[1 - 1] * base + 0 /\ Value(<<0>>, base) = v[1]
  BY <1>1 DEF Summing
<1>3. 1 - 1 = 0
  OBVIOUS
<1> QED
  BY <1>2, <1>3

-----------------------------------------------------------------------------
(***************************************************************************)
(* What the two functions print.                                           *)
(***************************************************************************)

\* What ShownNumberTrue and TypeOK say of a text for x in library name.
Shows(x, name, text) ==
  /\ text.minus <=> x < 0
  /\ text.minus \in BOOLEAN
  /\ IF name = 1
     THEN x = IF text.minus THEN Value(text.digits, 2) - 2^BITS ELSE Value(text.digits, 2)
     ELSE x # LeastLong =>
            x = IF text.minus THEN -Value(text.digits, 3) ELSE Value(text.digits, 3)
  /\ text.digits # <<>> /\ text.digits # <<0>> => text.digits[1] # 0
  /\ \A i \in DOMAIN text.digits : text.digits[i] \in 0 .. name

\* The longs, and the number whose digits are shifted out.
LEMMA Longs ==
  ASSUME NEW x \in Long
  PROVE  /\ x \in Int /\ 2^(BITS - 1) \in Nat /\ 2^BITS \in Nat
         /\ Magnitude(x) \in Nat /\ Magnitude(x) < 2^(BITS - 1)
         /\ x < 0 => Magnitude(x) = -(x + 1)
         /\ ~ (x < 0) => Magnitude(x) = x
         /\ x < 0 /\ x # LeastLong => -x \in Nat /\ -x < 2^(BITS - 1)
<1>1. BITS \in Nat /\ BITS - 1 \in Nat
  BY TranslationAssumption
<1>2. 2^(BITS - 1) \in Nat /\ 2^BITS \in Nat
  BY <1>1, PowerOfTwo
<1>3. PICK p \in Nat : p = 2^(BITS - 1)
  BY <1>2
<1>4. x \in -p .. p - 1 /\ LeastLong = -p
  BY <1>3 DEF Long, LeastLong
<1> QED
  BY <1>2, <1>3, <1>4 DEF Magnitude

\* tr_bin.cpp: x > 0 is shown without leading zeros.
LEMMA PositiveBinary ==
  ASSUME NEW x \in Long, x > 0
  PROVE  Shows(x, 1, TranslationBinary(x))
<1> DEFINE temp == [i \in 1 .. BITS |-> IF x < 0 THEN 1 - Bit(x, i) ELSE Bit(x, i)]
           first == FirstDigit(temp)
           digits == SubSeq(temp, first, BITS)
<1>1. x \in Nat /\ x < 2^(BITS - 1) /\ Magnitude(x) = x /\ BITS \in Nat \ {0}
  BY Longs, TranslationAssumption
<1>2. PICK d : d = Divided(x, 2)
  OBVIOUS
<1>3. \A k \in 0 .. BITS : d[k] \in Nat
  BY <1>1, <1>2, DividedSmall
<1>4. \A i \in 1 .. BITS : temp[i] = d[BITS - i] % 2 /\ temp[i] \in 0 .. 1
  <2>1. \A i \in 1 .. BITS : temp[i] = d[BITS - i] % 2
    BY <1>1, <1>2 DEF Bit
  <2>2. \A i \in 1 .. BITS : BITS - i \in 0 .. BITS
    BY <1>1
  <2> QED
    BY <1>3, <2>1, <2>2
<1>5. DOMAIN temp = 1 .. BITS
  OBVIOUS
<1>6. TranslationBinary(x) = Text(FALSE, digits)
  <2>1. x # 0 /\ (x < 0) = FALSE
    BY <1>1
  <2>2. TranslationBinary(x) = Text(x < 0, digits)
    BY <2>1, Zenon DEF TranslationBinary
  <2> QED
    BY <2>1, <2>2, Zenon
<1> HIDE DEF temp
<1>7. \E i \in 1 .. BITS : temp[i] # 0
  <2> SUFFICES ASSUME \A i \in 1 .. BITS : temp[i] = 0
               PROVE  FALSE
    OBVIOUS
  <2>1. \A i \in 1 .. BITS : Divided(x, 2)[BITS - i] % 2 = 0
    BY <1>2, <1>4
  <2>2. BITS \in 0 .. BITS /\ BITS - BITS = 0
    BY <1>1
  <2>3. Divided(x, 2)[0] = 0
    BY <1>1, <2>1, <2>2, Leading
  <2>4. Divided(x, 2)[0] = x
    BY DividedRounds
  <2> QED
    BY <2>3, <2>4
<1>8. first \in 1 .. BITS /\ temp[first] # 0 /\ \A j \in 1 .. first - 1 : temp[j] = 0
  <2> DEFINE T == {i \in 1 .. BITS : temp[i] # 0}
  <2>1. T \subseteq Nat /\ T # {}
    BY <1>7
  <2>2. PICK m \in T : \A y \in T : m <= y
    BY <2>1, Least
  <2>3. m \in 1 .. BITS /\ temp[m] # 0 /\ \A j \in 1 .. m - 1 : temp[j] = 0
    BY <1>1, <2>2
  <2>4. \E i \in DOMAIN temp : temp[i] # 0 /\ \A j \in 1 .. i - 1 : temp[j] = 0
    BY <1>5, <2>3
  <2> QED
    BY <1>5, <2>4 DEF FirstDigit
<1> HIDE DEF first
<1>9. PICK pos \in 1 .. BITS : pos = BITS - first + 1
  BY <1>1, <1>8
<1>10. /\ DOMAIN digits = 1 .. pos
       /\ \A i \in 1 .. pos : digits[i] = temp[first + i - 1]
  BY <1>1, <1>8, <1>9
<1> HIDE DEF digits
<1>11. \A i \in 1 .. pos : first + i - 1 \in 1 .. BITS /\ BITS - (first + i - 1) = pos - i
  BY <1>1, <1>8, <1>9
<1>12. \A i \in 1 .. pos : digits[i] = Divided(x, 2)[pos - i] % 2 /\ digits[i] \in 0 .. 1
  BY <1>2, <1>4, <1>10, <1>11
<1>13. Divided(x, 2)[pos] = 0
  <2>1. first - 1 \in 0 .. BITS /\ BITS - (first - 1) = pos
    BY <1>1, <1>8, <1>9
  <2>2. \A i \in 1 .. first - 1 : i \in 1 .. BITS
    BY <1>1, <1>8
  <2>3. \A i \in 1 .. first - 1 : Divided(x, 2)[BITS - i] % 2 = 0
    BY <1>2, <1>4, <1>8, <2>2
  <2>4. Divided(x, 2)[BITS - (first - 1)] = 0
    BY <1>1, <2>1, <2>3, Leading
  <2> QED
    BY <2>1, <2>4
<1>14. Value(digits, 2) = x
  <2>1. pos \in 0 .. BITS
    BY <1>1
  <2> QED
    BY <1>1, <1>10, <1>12, <1>13, <2>1, Positional
<1>15. digits[1] # 0
  <2>1. 1 \in 1 .. pos /\ first + 1 - 1 = first
    BY <1>8
  <2> QED
    BY <1>8, <1>10, <2>1
<1> QED
  BY <1>1, <1>6, <1>10, <1>12, <1>14, <1>15 DEF Shows, Text

\* tr_bin.cpp: the two's complement of x < 0 starts with a one.
LEMMA NegativeBinary ==
  ASSUME NEW x \in Long, x < 0
  PROVE  Shows(x, 1, TranslationBinary(x))
<1> DEFINE temp == [i \in 1 .. BITS |-> IF x < 0 THEN 1 - Bit(x, i) ELSE Bit(x, i)]
           first == FirstDigit(temp)
           digits == SubSeq(temp, first, BITS)
<1>1. PICK m \in Nat : m = Magnitude(x)
  BY Longs
<1>2. x \in Int /\ m < 2^(BITS - 1) /\ m = -(x + 1) /\ BITS \in Nat \ {0} /\ 2^BITS \in Nat
  BY <1>1, Longs, TranslationAssumption
<1>3. PICK d : d = Divided(m, 2)
  OBVIOUS
<1>4. (\A k \in 0 .. BITS : d[k] \in Nat) /\ d[BITS - 1] = 0
  BY <1>2, <1>3, DividedSmall
<1>5. \A i \in 1 .. BITS : temp[i] = 1 - (d[BITS - i] % 2) /\ temp[i] \in 0 .. 1
  <2>1. \A i \in 1 .. BITS : temp[i] = 1 - (d[BITS - i] % 2)
    BY <1>1, <1>3 DEF Bit
  <2>2. \A i \in 1 .. BITS : BITS - i \in 0 .. BITS
    BY <1>2
  <2> QED
    BY <1>4, <2>1, <2>2
<1>6. DOMAIN temp = 1 .. BITS /\ temp \in Seq(0 .. 1)
  <2>1. BITS \in Nat /\ temp = [i \in 1 .. BITS |-> temp[i]]
    BY <1>2
  <2> HIDE DEF temp
  <2> QED
    BY <1>5, <2>1
<1>7. TranslationBinary(x) = Text(TRUE, digits)
  <2>1. x # 0 /\ (x < 0) = TRUE
    BY <1>2
  <2>2. TranslationBinary(x) = Text(x < 0, digits)
    BY <2>1, Zenon DEF TranslationBinary
  <2> QED
    BY <2>1, <2>2, Zenon
<1> HIDE DEF temp
<1>8. temp[1] = 1 /\ 1 \in 1 .. BITS
  <2>1. 1 \in 1 .. BITS
    BY <1>2
  <2> QED
    BY <1>4, <1>5, <2>1
<1>9. first = 1
  <2>1. temp[1] # 0 /\ \A j \in 1 .. 1 - 1 : temp[j] = 0
    BY <1>8
  <2>2. /\ first \in 1 .. BITS
        /\ temp[first] # 0 /\ \A j \in 1 .. first - 1 : temp[j] = 0
    BY <1>6, <1>8, <2>1 DEF FirstDigit
  <2> HIDE DEF first
  <2>3. CASE first > 1
    <3>1. 1 \in 1 .. first - 1
      BY <1>2, <2>2, <2>3
    <3> QED
      BY <1>8, <2>2, <3>1
  <2> QED
    BY <1>2, <2>2, <2>3
<1> HIDE DEF first
<1>10. DOMAIN digits = 1 .. BITS /\ \A i \in 1 .. BITS : digits[i] = temp[i]
  BY <1>2, <1>6, <1>9
<1> HIDE DEF digits
<1>11. Value(digits, 2) = 2^BITS - 1 - m
  BY <1>2, <1>3, <1>5, <1>10, Inverted
<1>12. digits[1] # 0 /\ \A i \in DOMAIN digits : digits[i] \in 0 .. 1
  BY <1>5, <1>8, <1>10
<1>13. x = Value(digits, 2) - 2^BITS
  BY <1>2, <1>11
<1> QED
  BY <1>2, <1>7, <1>12, <1>13 DEF Shows, Text

\* Both print 0 as 0.
LEMMA ZeroText ==
  ASSUME NEW name \in {1, 2}
  PROVE  Shows(0, name, Text(FALSE, <<0>>))
<1>1. PICK t : t = Text(FALSE, <<0>>)
  OBVIOUS
<1>2. t.minus = FALSE /\ t.digits = <<0>>
  BY <1>1 DEF Text
<1>3. Value(t.digits, 2) = 0 /\ Value(t.digits, 3) = 0
  BY <1>2, ZeroShown
<1>4. \A i \in DOMAIN t.digits : t.digits[i] = 0
  BY <1>2
<1>5. /\ t.minus <=> 0 < 0
      /\ t.minus \in BOOLEAN
      /\ \A i \in DOMAIN t.digits : t.digits[i] \in 0 .. name
  <2>1. ~ (0 < 0) /\ 0 \in 0 .. name
    OBVIOUS
  <2> QED
    BY <1>2, <1>4, <2>1, Zenon
<1>6. t.digits # <<>> /\ t.digits # <<0>> => t.digits[1] # 0
  BY <1>2
<1>7. /\ name = 1 => 0 = IF t.minus THEN Value(t.digits, 2) - 2^BITS ELSE Value(t.digits, 2)
      /\ name # 1 => 0 = IF t.minus THEN -Value(t.digits, 3) ELSE Value(t.digits, 3)
  BY <1>2, <1>3
<1> QED
  BY <1>1, <1>5, <1>6, <1>7, Zenon DEF Shows

\* tr_bin.cpp.
LEMMA BinaryShows ==
  ASSUME NEW x \in Long
  PROVE  Shows(x, 1, TranslationBinary(x))
<1>1. x \in Int
  BY Longs
<1>2. CASE x = 0
  <2>1. TranslationBinary(x) = Text(FALSE, <<0>>)
    BY <1>2, Zenon DEF TranslationBinary
  <2> QED
    BY <1>2, <2>1, ZeroText
<1> QED
  BY <1>1, <1>2, PositiveBinary, NegativeBinary

\* tr_tri.cpp: the digits of n > 0.
LEMMA TernaryDigits ==
  ASSUME NEW n \in Nat, n > 0, n < 2^(BITS - 1),
         NEW digits, digits = [i \in 1 .. Pos(n) |-> Divided(n, 3)[Pos(n) - i] % 3]
  PROVE  /\ Value(digits, 3) = n /\ digits[1] # 0
         /\ \A i \in DOMAIN digits : digits[i] \in 0 .. 2
<1>1. PICK d : d = Divided(n, 3)
  OBVIOUS
<1>2. BITS \in Nat \ {0}
  BY TranslationAssumption
<1>3. /\ \A k \in 0 .. BITS : d[k] \in Nat
      /\ \A k \in 1 .. BITS : d[k] = d[k - 1] \div 3
      /\ d[0] = n /\ d[BITS] = 0
  BY <1>1, DividedRounds, DividedSmall
<1>4. PICK pos : pos = Pos(n)
  OBVIOUS
<1>5. pos \in 0 .. BITS /\ d[pos] = 0 /\ \A j \in 0 .. pos - 1 : d[j] > 0
  <2> DEFINE T == {k \in 0 .. BITS : d[k] = 0}
  <2>0. BITS \in 0 .. BITS
    BY <1>2
  <2>1. T \subseteq Nat /\ T # {}
    BY <1>3, <2>0
  <2>2. PICK m \in T : \A y \in T : m <= y
    BY <2>1, Least
  <2>3. m \in 0 .. BITS /\ d[m] = 0 /\ \A j \in 0 .. m - 1 : d[j] > 0
    <3>1. m \in 0 .. BITS /\ d[m] = 0
      OBVIOUS
    <3>2. \A j \in 0 .. m - 1 : j \in 0 .. BITS /\ ~ (m <= j)
      BY <1>2, <3>1
    <3>3. \A j \in 0 .. m - 1 : d[j] # 0 /\ d[j] \in Nat
      BY <1>3, <2>2, <3>2
    <3> QED
      BY <3>1, <3>3
  <2>4. \E k \in 0 .. BITS : /\ Divided(n, 3)[k] = 0
                             /\ \A j \in 0 .. k - 1 : Divided(n, 3)[j] > 0
    BY <1>1, <2>3
  <2>5. /\ Pos(n) \in 0 .. BITS /\ Divided(n, 3)[Pos(n)] = 0
        /\ \A j \in 0 .. Pos(n) - 1 : Divided(n, 3)[j] > 0
    BY <2>4, Zenon DEF Pos
  <2> QED
    BY <1>1, <1>4, <2>5
<1>6. pos # 0
  BY <1>3, <1>5
<1>7. DOMAIN digits = 1 .. pos /\ \A i \in 1 .. pos : digits[i] = d[pos - i] % 3
  BY <1>1, <1>4
<1>8. Value(digits, 3) = n
  BY <1>1, <1>5, <1>7, Positional
<1>9. \A i \in 1 .. pos : digits[i] \in 0 .. 2
  <2>1. \A i \in 1 .. pos : pos - i \in 0 .. BITS
    BY <1>2, <1>5
  <2>2. \A y \in Nat : (y % 3) \in 0 .. 2
    OBVIOUS
  <2> QED
    BY <1>3, <1>7, <2>1, <2>2
<1>10. digits[1] # 0
  <2>1. 1 \in 1 .. pos /\ pos - 1 \in 0 .. pos - 1 /\ pos \in 1 .. BITS
    BY <1>2, <1>5, <1>6
  <2>2. d[pos - 1] > 0 /\ d[pos] = d[pos - 1] \div 3 /\ d[pos - 1] \in Nat
    BY <1>2, <1>3, <1>5, <2>1
  <2>3. PICK y \in Nat : y = d[pos - 1]
    BY <2>2
  <2>4. y > 0 /\ y \div 3 = 0
    BY <1>5, <2>2, <2>3
  <2>5. (y % 3) # 0
    BY <2>4
  <2> QED
    BY <1>7, <2>1, <2>3, <2>5
<1> QED
  BY <1>7, <1>8, <1>9, <1>10

\* tr_tri.cpp.
LEMMA TernaryShows ==
  ASSUME NEW x \in Long
  PROVE  Shows(x, 2, TranslationTernary(x))
<1>1. x \in Int /\ BITS \in Nat \ {0}
  BY Longs, TranslationAssumption
<1>2. CASE x = 0
  <2>1. TranslationTernary(x) = Text(FALSE, <<0>>)
    BY <1>2, Zenon DEF TranslationTernary
  <2> QED
    BY <1>2, <2>1, ZeroText
<1>3. CASE x # 0 /\ x # LeastLong
  <2>1. PICK n : n = IF x < 0 /\ x # LeastLong THEN -x ELSE x
    OBVIOUS
  <2>2. n \in Nat /\ n > 0 /\ n < 2^(BITS - 1) /\ x = IF x < 0 THEN -n ELSE n
    <3>1. CASE x < 0
      BY <1>1, <1>3, <2>1, <3>1, Longs
    <3>2. CASE ~ (x < 0)
      <4>1. x \in Nat /\ x < 2^(BITS - 1)
        BY <1>1, <3>2, Longs
      <4> QED
        BY <1>3, <2>1, <3>2, <4>1
    <3> QED
      BY <3>1, <3>2
  <2>3. PICK digits : digits = [i \in 1 .. Pos(n) |-> Divided(n, 3)[Pos(n) - i] % 3]
    OBVIOUS
  <2>4. TranslationTernary(x) = Text(x < 0, digits)
    <3>1. (IF n > 0 THEN Pos(n) ELSE 0) = Pos(n)
      BY <2>2
    <3> QED
      BY <1>3, <2>1, <2>3, <3>1, Zenon DEF TranslationTernary
  <2>5. /\ Value(digits, 3) = n /\ digits[1] # 0
        /\ \A i \in DOMAIN digits : digits[i] \in 0 .. 2
    BY <2>2, <2>3, TernaryDigits
  <2>6. CASE x < 0
    <3>1. TranslationTernary(x) = Text(TRUE, digits)
      <4>1. (x < 0) = TRUE
        BY <2>6
      <4> QED
        BY <2>4, <4>1, Zenon
    <3> QED
      BY <2>2, <2>5, <2>6, <3>1 DEF Shows, Text
  <2>7. CASE ~ (x < 0)
    <3>1. TranslationTernary(x) = Text(FALSE, digits)
      <4>1. (x < 0) = FALSE
        BY <2>7
      <4> QED
        BY <2>4, <4>1, Zenon
    <3> QED
      BY <2>2, <2>5, <2>7, <3>1 DEF Shows, Text
  <2> QED
    BY <2>6, <2>7
<1>4. CASE x # 0 /\ x = LeastLong
  <2>1. x < 0
    <3>1. BITS - 1 \in Nat
      BY <1>1
    <3>2. 2^(BITS - 1) \in Nat \ {0}
      BY <3>1, PowerOfTwo
    <3> QED
      BY <1>4, <3>2 DEF LeastLong
  <2>2. PICK digits : digits = [i \in 1 .. 0 |-> Divided(x, 3)[0 - i] % 3]
    OBVIOUS
  <2>3. TranslationTernary(x) = Text(x < 0, digits)
    <3>1. (IF x < 0 /\ x # LeastLong THEN -x ELSE x) = x
      BY <1>4
    <3>2. (IF x > 0 THEN Pos(x) ELSE 0) = 0
      BY <1>1, <2>1
    <3> QED
      BY <1>4, <2>2, <3>1, <3>2, Zenon DEF TranslationTernary
  <2>4. TranslationTernary(x) = Text(TRUE, digits)
    <3>1. (x < 0) = TRUE
      BY <2>1
    <3> QED
      BY <2>3, <3>1, Zenon
  <2>5. DOMAIN digits = {} /\ digits = <<>>
    BY <2>2
  <2> QED
    BY <1>4, <2>1, <2>4, <2>5 DEF Shows, Text
<1> QED
  BY <1>2, <1>3, <1>4

-----------------------------------------------------------------------------
(***************************************************************************)
(* The types, and what is shown.                                           *)
(***************************************************************************)
ShownTrue == shown.x \in Long /\ shown.name \in Library /\ Shows(shown.x, shown.name, shown.text)

Control ==
  /\ program \in {1, 2}
  /\ pc \in {"start", "menu", "integral", "translate", "exited"}
            \cup IF program = 2 THEN {"switch"} ELSE {}
  /\ good \in BOOLEAN
  /\ prog \in Command
  /\ lib \in Library \cup {None}
  /\ symbols \in Library \cup {None}

LoaderInv == LoopAgrees /\ Control /\ ShownTrue

\* Zero, and the two ends.
LEMMA SomeLongs == {0, LeastLong, -(LeastLong + 1)} \subseteq Long
<1>1. BITS - 1 \in Nat
  BY TranslationAssumption
<1>2. PICK p \in Nat \ {0} : p = 2^(BITS - 1)
  BY <1>1, PowerOfTwo
<1> QED
  BY <1>2 DEF Long, LeastLong

\* A text is made by the library that is named.
LEMMA TranslateShows ==
  ASSUME LoopAgrees, Translate
  PROVE  ShownTrue'
<1>1. PICK x, uninitialized \in Long :
        /\ Read(uninitialized, Long, {LeastLong, -(LeastLong + 1)}, x)
        /\ shown' = [x |-> x, name |-> real, text |-> Translated(symbols, x)]
  BY DEF Translate
<1>2. x \in Long
  BY <1>1, SomeLongs DEF Read
<1>3. real \in Library /\ symbols = real
  BY DEF LoopAgrees, Agree, Translate
<1>4. Shows(x, real, Translated(symbols, x))
  <2>1. CASE real = 1
    BY <1>2, <1>3, <2>1, BinaryShows DEF Translated
  <2>2. CASE real = 2
    BY <1>2, <1>3, <2>2, TernaryShows DEF Translated
  <2> QED
    BY <1>3, <2>1, <2>2 DEF Library
<1>5. shown'.x = x /\ shown'.name = real /\ shown'.text = Translated(symbols, x)
  BY <1>1
<1> QED
  BY <1>2, <1>3, <1>4, <1>5 DEF ShownTrue

LEMMA LoaderStep == LoaderInv /\ [Next]_vars => LoaderInv'
<1> SUFFICES ASSUME LoaderInv, [Next]_vars PROVE LoaderInv'
  OBVIOUS
<1>0. LoopAgrees /\ Control /\ ShownTrue /\ LoopAgrees'
  BY LoopStep DEF LoaderInv
<1>1. CASE Load
  <2>1. UNCHANGED shown
    BY <1>1 DEF Load, Open, Fail
  <2>2. Control'
    BY <1>0, <1>1 DEF Control, Load, Open, Fail, Library
  <2> QED
    BY <1>0, <2>1, <2>2 DEF LoaderInv, ShownTrue
<1>2. CASE Switch
  <2>1. UNCHANGED shown
    BY <1>2 DEF Switch, Open, Fail
  <2>2. Control'
    BY <1>0, <1>2 DEF Control, Switch, Open, Fail, Library
  <2> QED
    BY <1>0, <2>1, <2>2 DEF LoaderInv, ShownTrue
<1>3. CASE ReadCommand
  <2>1. UNCHANGED shown
    BY <1>3 DEF ReadCommand
  <2>2. good' \in BOOLEAN /\ prog' \in Command
    BY <1>0, <1>3 DEF Control, ReadCommand, Read, Command
  <2>3. /\ pc' \in {"integral", "translate", "exited"} \cup IF program = 2 THEN {"switch"} ELSE {}
        /\ lib' \in {lib, None} /\ UNCHANGED <<program, symbols>>
    BY <1>3 DEF ReadCommand, Dispatch
  <2>4. Control'
    BY <1>0, <2>2, <2>3 DEF Control
  <2> QED
    BY <1>0, <2>1, <2>4 DEF LoaderInv, ShownTrue
<1>4. CASE Integral
  <2>1. UNCHANGED shown
    BY <1>4 DEF Integral
  <2>2. Control'
    BY <1>0, <1>4 DEF Control, Integral
  <2> QED
    BY <1>0, <2>1, <2>2 DEF LoaderInv, ShownTrue
<1>5. CASE Translate
  <2>1. good' \in BOOLEAN
    BY <1>0, <1>5 DEF Control, Translate, Read
  <2>2. Control'
    BY <1>0, <1>5, <2>1 DEF Control, Translate
  <2> QED
    BY <1>0, <1>5, <2>2, TranslateShows DEF LoaderInv
<1>6. CASE UNCHANGED vars
  BY <1>0, <1>6 DEF LoaderInv, Control, ShownTrue, vars
<1> QED
  BY <1>1, <1>2, <1>3, <1>4, <1>5, <1>6 DEF Next

LEMMA LoaderInit == Init => LoaderInv
<1> SUFFICES ASSUME Init PROVE LoaderInv
  OBVIOUS
<1>1. LoopAgrees
  BY DEF Init, LoopAgrees, Agree, Library
<1>2. Control
  BY DEF Init, Control, Library, Command
<1>3. ShownTrue
  <2>1. shown.x = 0 /\ shown.name = 1 /\ shown.text = Text(FALSE, <<0>>)
    BY DEF Init, Nothing
  <2>2. Shows(0, 1, Text(FALSE, <<0>>)) /\ 0 \in Long
    BY ZeroText, SomeLongs
  <2> QED
    BY <2>1, <2>2 DEF ShownTrue, Library
<1> QED
  BY <1>1, <1>2, <1>3 DEF LoaderInv

(***************************************************************************)
(* Type correctness: among others, every digit that is shown is one of the *)
(* system that is named, for every width of long (program1.cpp,            *)
(* program2.cpp).                                                          *)
(***************************************************************************)
THEOREM TypeCorrect == Spec => []TypeOK
<1>1. LoaderInv => TypeOK
  <2> SUFFICES ASSUME LoaderInv PROVE TypeOK
    OBVIOUS
  <2>1. /\ shown.text.minus \in BOOLEAN
        /\ \A i \in DOMAIN shown.text.digits : shown.text.digits[i] \in 0 .. shown.name
    BY Zenon DEF LoaderInv, ShownTrue, Shows
  <2> QED
    BY <2>1 DEF LoaderInv, LoopAgrees, Control, ShownTrue, TypeOK
<1> QED BY <1>1, LoaderInit, LoaderStep, PTL DEF Spec

(***************************************************************************)
(* What is shown is the number that was read: binary texts behind a minus  *)
(* are its two's complement, ternary ones its magnitude, for every width   *)
(* of long and every number but the least long in ternary                  *)
(* (tr_bin.cpp:1-47, tr_tri.cpp:1-40).                                     *)
(***************************************************************************)
THEOREM ShownCorrect == Spec => []ShownNumberTrue
<1>1. LoaderInv => ShownNumberTrue
  <2> SUFFICES ASSUME LoaderInv PROVE ShownNumberTrue
    OBVIOUS
  <2>1. shown.name \in {1, 2} /\ Shows(shown.x, shown.name, shown.text)
    BY DEF LoaderInv, ShownTrue, Library
  <2>2. (shown.name = 1 => shown.name + 1 = 2) /\ (shown.name # 1 => shown.name + 1 = 3)
    BY <2>1
  <2>3. CASE shown.name = 1
    BY <2>1, <2>2, <2>3, Zenon DEF Shows, ShownNumberTrue
  <2>4. CASE shown.name # 1
    BY <2>1, <2>2, <2>4, Zenon DEF Shows, ShownNumberTrue
  <2> QED
    BY <2>3, <2>4
<1> QED BY <1>1, LoaderInit, LoaderStep, PTL DEF Spec
===============================================================================

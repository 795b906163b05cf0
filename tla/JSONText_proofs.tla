-------------------------- MODULE JSONText_proofs --------------------------
(***************************************************************************)
(* Proofs about the scanners of JSON, for any text and any size of the     *)
(* buffer for numbers: none of them looks beyond the terminator, and a     *)
(* block comment ends where it should.                                     *)
(*                                                                         *)
(* A loop of a scanner either stops, with a verdict, or goes on from a     *)
(* later position: jump says where, -1 for stopping, and res the verdict.  *)
(* That the recursive function of such a loop is one, and what it keeps,   *)
(* is shown by induction from the end of the text.                         *)
(***************************************************************************)
EXTENDS JSONText, WellFoundedInduction, TLAPS

\* Induction over the naturals, for a set (a property would be an operator parameter).
LEMMA SetInduction ==
  ASSUME NEW S, 0 \in S, \A n \in Nat : n \in S => n + 1 \in S
  PROVE  \A n \in Nat : n \in S
<1>1. SUFFICES ASSUME Nat \ S # {} PROVE FALSE
  OBVIOUS
<1>2. PICK x \in Nat \ S : \A y \in Nat \ S : ~(<<y, x>> \in OpToRel(<, Nat))
  BY <1>1, NatLessThanWellFounded, WFMin, Zenon
<1>3. x # 0 /\ x - 1 \in Nat
  BY SMT
<1>4. <<x - 1, x>> \in OpToRel(<, Nat)
  BY <1>3, SMT DEF OpToRel
<1>5. x - 1 \in S
  BY <1>2, <1>3, <1>4
<1>6. QED
  BY <1>3, <1>5

\* A set of naturals that is not empty has a least one.
LEMMA LeastExists ==
  ASSUME NEW S, S \subseteq Nat, S # {}
  PROVE  \E x \in S : \A y \in S : x <= y
<1>1. PICK x \in S : \A y \in S : ~(<<y, x>> \in OpToRel(<, Nat))
  BY NatLessThanWellFounded, WFMin, Zenon
<1>2. ASSUME NEW y \in S, y < x PROVE FALSE
  <2>1. <<y, x>> \in OpToRel(<, Nat)
    BY <1>2, SMT DEF OpToRel
  <2>2. QED
    BY <1>1, <2>1
<1>3. QED
  BY <1>2, SMT

\* What holds at a position of K when it holds at all later ones holds in K.
LEMMA Backwards ==
  ASSUME NEW N \in Nat, NEW K \in SUBSET (0..N), NEW S,
         \A i \in K : (\A j \in K : j > i => j \in S) => i \in S
  PROVE  \A i \in K : i \in S
<1> DEFINE T == {n \in Nat : \A i \in K : i > N - n => i \in S}
<1>1. 0 \in T
  BY SMT
<1>2. ASSUME NEW n \in Nat, n \in T PROVE n + 1 \in T
  <2>1. ASSUME NEW i \in K, i > N - (n + 1) PROVE i \in S
    <3>1. \A j \in K : j > i => j > N - n
      BY <2>1, SMT
    <3>2. QED
      BY <3>1, <1>2
  <2>2. QED
    BY <2>1, SMT
<1> HIDE DEF T
<1>3. \A n \in Nat : n \in T
  BY <1>1, <1>2, SetInduction
<1>4. N + 1 \in T
  BY <1>3, SMT
<1>5. \A i \in K : i > N - (N + 1)
  BY SMT
<1>6. QED
  BY <1>4, <1>5 DEF T

\* A loop stops or goes on from a later position.
Forward(jump, N) == \A i \in 0..N : jump[i] = -1 \/ jump[i] \in i + 1..N

\* f is what such a loop computes.
Loop(f, jump, res, N) ==
  f = [i \in 0..N |-> IF jump[i] = -1 THEN res[i] ELSE f[jump[i]]]

\* The recursive function of a loop exists.
LEMMA LoopExists ==
  ASSUME NEW N \in Nat, NEW jump, NEW res, Forward(jump, N)
  PROVE  \E f : Loop(f, jump, res, N)
<1> DEFINE R == {res[i] : i \in 0..N}
           Good(n) == \E f \in [0..N -> R] : \A i \in 0..N :
                        i > N - n => f[i] = IF jump[i] = -1 THEN res[i] ELSE f[jump[i]]
           S == {n \in Nat : n <= N + 1 => Good(n)}
<1>1. 0 \in S
  <2>1. [i \in 0..N |-> res[i]] \in [0..N -> R]
    OBVIOUS
  <2>2. \A i \in 0..N : ~(i > N - 0)
    BY SMT
  <2>3. Good(0)
    BY <2>1, <2>2
  <2>4. QED
    BY <2>3
<1>2. ASSUME NEW n \in Nat, n \in S PROVE n + 1 \in S
  <2>1. SUFFICES ASSUME n + 1 <= N + 1 PROVE Good(n + 1)
    BY SMT
  <2>2. n <= N + 1
    BY <2>1, SMT
  <2>3. PICK f \in [0..N -> R] : \A i \in 0..N :
          i > N - n => f[i] = IF jump[i] = -1 THEN res[i] ELSE f[jump[i]]
    BY <1>2, <2>2
  <2> DEFINE m == N - n
             x == IF jump[m] = -1 THEN res[m] ELSE f[jump[m]]
             g == [f EXCEPT ![m] = x]
  <2>4. m \in 0..N
    BY <2>1, SMT
  <2>5. x \in R
    <3>1. CASE jump[m] = -1
      BY <3>1, <2>4
    <3>2. CASE jump[m] # -1
      <4>1. jump[m] \in 0..N
        BY <3>2, <2>4, SMT DEF Forward
      <4>2. QED
        BY <3>2, <4>1
    <3>3. QED
      BY <3>1, <3>2
  <2> HIDE DEF x, R
  <2>6. g \in [0..N -> R] /\ g[m] = x /\ \A i \in 0..N : i # m => g[i] = f[i]
    BY <2>4, <2>5
  <2> HIDE DEF g
  <2>7. ASSUME NEW i \in 0..N, i > N - (n + 1)
        PROVE  g[i] = IF jump[i] = -1 THEN res[i] ELSE g[jump[i]]
    <3>1. jump[i] # -1 => jump[i] \in 0..N /\ jump[i] > i
      BY SMT DEF Forward
    <3>2. i = m \/ i > N - n
      BY <2>7, <2>4, SMT
    <3>3. jump[i] # -1 => jump[i] # m
      BY <3>1, <3>2, <2>4, SMT
    <3>4. CASE i = m
      BY <2>6, <3>1, <3>3, <3>4 DEF x
    <3>5. CASE i > N - n
      <4>1. i # m
        BY <3>5, <2>4, SMT
      <4>2. QED
        BY <2>3, <2>6, <3>1, <3>3, <3>5, <4>1
    <3>6. QED
      BY <3>2, <3>4, <3>5
  <2>8. QED
    BY <2>6, <2>7
<1> HIDE DEF S
<1>3. N + 1 \in S
  BY <1>1, <1>2, SetInduction
<1>4. Good(N + 1)
  BY <1>3, SMT DEF S
<1>5. PICK f \in [0..N -> R] : \A i \in 0..N :
        i > N - (N + 1) => f[i] = IF jump[i] = -1 THEN res[i] ELSE f[jump[i]]
  BY <1>4
<1>6. \A i \in 0..N : i > N - (N + 1)
  BY SMT
<1>7. QED
  BY <1>5, <1>6 DEF Loop

-----------------------------------------------------------------------------
(* Positions of a text.                                                    *)

\* At says "end" outside a text, and nowhere else.
LEMMA AtEnd ==
  ASSUME NEW t \in Texts
  PROVE  /\ Len(t) \in Nat /\ DOMAIN t = 1..Len(t)
         /\ \A p \in Int : At(t, p) = "end" <=> p \notin 1..Len(t)
         /\ \A p \in 1..Len(t) : At(t, p) = t[p]
<1>1. Len(t) \in Nat /\ DOMAIN t = 1..Len(t) /\ \A i \in 1..Len(t) : t[i] \in STRING \ {"end"}
  BY SMT DEF Texts
<1>2. QED
  BY <1>1 DEF At

\* The end of what is neither of chars nor the terminator.
LEMMA FirstProps ==
  ASSUME NEW t \in Texts, NEW p \in 1..Len(t) + 1, NEW chars
  PROVE  First(t, p, chars) \in p..Len(t) + 1
<1> DEFINE S == {q \in p..Len(t) + 1 : At(t, q) \in chars \cup {"end"}}
<1>1. Len(t) + 1 \in S /\ S \subseteq Nat
  BY AtEnd, SMT
<1>2. \E x \in S : \A y \in S : x <= y
  BY <1>1, LeastExists
<1>3. First(t, p, chars) \in S
  BY <1>2 DEF First, Min
<1>4. QED
  BY <1>3

\* The end of a row of digits: the row is empty unless there is a digit at p.
LEMMA NonDigitProps ==
  ASSUME NEW t \in Texts, NEW p \in 1..Len(t) + 1
  PROVE  /\ NonDigit(t, p) \in p..Len(t) + 1
         /\ At(t, NonDigit(t, p)) \notin Digit
<1> DEFINE S == {q \in p..Len(t) + 1 : At(t, q) \notin Digit}
<1>1. Len(t) + 1 \in S /\ S \subseteq Nat
  <2>1. At(t, Len(t) + 1) = "end" /\ Len(t) + 1 \in p..Len(t) + 1 /\ p..Len(t) + 1 \subseteq Nat
    BY AtEnd, SMT
  <2>2. QED
    BY <2>1 DEF Digit
<1>2. \E x \in S : \A y \in S : x <= y
  BY <1>1, LeastExists
<1>3. NonDigit(t, p) \in S
  BY <1>2 DEF NonDigit, Min
<1>4. QED
  BY <1>3

-----------------------------------------------------------------------------
(* Verdicts.                                                               *)

\* Where a scanner may stop, by what it says.
LEMMA StaysIs ==
  ASSUME NEW t \in Texts, NEW p \in Nat, NEW q \in Int, p <= q, q <= Len(t) + 1
  PROVE  /\ q \in 1..Len(t) => Stays(t, p, Ok(q))
         /\ q = Len(t) + 1 => Stays(t, p, More(q)) /\ Stays(t, p, End(q))
         /\ Stays(t, p, Wrong(q))
         /\ Stays(t, p, Silent(q))
<1>1. q \in p..Len(t) + 1 /\ DOMAIN t = 1..Len(t)
  BY AtEnd, SMT
<1>2. Stays(t, p, Wrong(q)) /\ Stays(t, p, Silent(q))
  BY <1>1 DEF Stays, Wrong, Silent
<1>3. q \in 1..Len(t) => Stays(t, p, Ok(q))
  BY <1>1 DEF Stays, Ok
<1>4. q = Len(t) + 1 => Stays(t, p, More(q)) /\ Stays(t, p, End(q))
  BY <1>1 DEF Stays, More, End
<1>5. QED
  BY <1>2, <1>3, <1>4

\* What may be said of a later position may be said of an earlier one.
LEMMA StaysBefore ==
  ASSUME NEW t \in Texts, NEW p \in Nat, NEW q \in Nat, p <= q, NEW r, Stays(t, q, r)
  PROVE  Stays(t, p, r)
BY AtEnd, SMT DEF Stays

-----------------------------------------------------------------------------
(* Numbers.                                                                *)

\* Exponents, from what follows a digit.
LEMMA ExponentStays ==
  ASSUME NEW t \in Texts, NEW p \in 2..Len(t) + 1, NEW o \in Nat, o <= p - 1
  PROVE  Stays(t, o, Exponent(t, p))
<1> DEFINE q == IF At(t, p + 1) \in {"-", "+"} THEN p + 2 ELSE p + 1
           r == NonDigit(t, q)
<1>1. Len(t) \in Nat /\ p - 1 \in 1..Len(t) /\ p \in Int /\ p + 1 \in Int
  BY AtEnd, SMT
<1>2. CASE At(t, p) # "e"
  <2>1. o <= p - 1 /\ p - 1 <= Len(t) + 1 /\ p - 1 \in Int
    BY <1>1, SMT
  <2>2. Stays(t, o, Ok(p - 1))
    BY <1>1, <2>1, StaysIs
  <2>3. QED
    BY <1>2, <2>2 DEF Exponent
<1>3. CASE At(t, p) = "e"
  <2>1. p \in 1..Len(t)
    BY <1>1, <1>3, AtEnd
  <2>2. At(t, p + 1) \in {"-", "+"} => p + 1 \in 1..Len(t)
    BY <1>1, AtEnd
  <2>3. q \in 1..Len(t) + 1 /\ q > p
    BY <2>1, <2>2, <1>1, SMT
  <2> HIDE DEF q
  <2>4. r \in q..Len(t) + 1
    BY <2>3, NonDigitProps
  <2>5. At(t, r) = "end" => r = Len(t) + 1
    BY <2>3, <2>4, <1>1, AtEnd, SMT
  <2> HIDE DEF r
  <2>6. Stays(t, o, Wrong(q))
    <3>1. o <= q /\ q <= Len(t) + 1 /\ q \in Int
      BY <1>1, <2>3, SMT
    <3>2. QED
      BY <3>1, StaysIs
  <2>7. At(t, r) = "end" => Stays(t, o, More(r))
    <3>1. o <= r /\ r <= Len(t) + 1 /\ r \in Int
      BY <1>1, <2>3, <2>4, SMT
    <3>2. QED
      BY <2>5, <3>1, StaysIs
  <2>8. r # q => Stays(t, o, Ok(r - 1))
    <3>1. SUFFICES ASSUME r # q PROVE Stays(t, o, Ok(r - 1))
      OBVIOUS
    <3>2. r - 1 \in 1..Len(t) /\ o <= r - 1 /\ r - 1 <= Len(t) + 1 /\ r - 1 \in Int
      BY <1>1, <2>3, <2>4, <3>1, SMT
    <3>3. QED
      BY <3>2, StaysIs
  <2>9. Exponent(t, p) = IF r = q THEN Wrong(q) ELSE IF At(t, r) = "end" THEN More(r) ELSE Ok(r - 1)
    BY <1>3 DEF Exponent, q, r
  <2>10. QED
    BY <2>6, <2>7, <2>8, <2>9
<1>4. QED
  BY <1>2, <1>3

\* The rest of a number, from what follows its first digits.
LEMMA FractionStays ==
  ASSUME NEW t \in Texts, NEW p \in 2..Len(t) + 1, NEW o \in Nat, o <= p - 1
  PROVE  Stays(t, o, Fraction(t, p))
<1> DEFINE r == NonDigit(t, p + 1)
<1>1. Len(t) \in Nat /\ p \in Int
  BY AtEnd, SMT
<1>2. CASE At(t, p) # "."
  BY <1>2, ExponentStays DEF Fraction
<1>3. CASE At(t, p) = "."
  <2>1. p \in 1..Len(t)
    BY <1>1, <1>3, AtEnd
  <2>2. p + 1 \in 1..Len(t) + 1
    BY <1>1, <2>1, SMT
  <2>3. r \in p + 1..Len(t) + 1
    BY <2>2, NonDigitProps
  <2> HIDE DEF r
  <2>4. At(t, r) = "end" => r = Len(t) + 1
    BY <2>2, <2>3, <1>1, AtEnd, SMT
  <2>5. Stays(t, o, Wrong(p + 1))
    <3>1. o <= p + 1 /\ p + 1 <= Len(t) + 1 /\ p + 1 \in Int
      BY <1>1, <2>2, SMT
    <3>2. QED
      BY <3>1, StaysIs
  <2>6. At(t, r) = "end" => Stays(t, o, More(r))
    <3>1. o <= r /\ r <= Len(t) + 1 /\ r \in Int
      BY <1>1, <2>2, <2>3, SMT
    <3>2. QED
      BY <2>4, <3>1, StaysIs
  <2>7. Stays(t, o, Exponent(t, r))
    BY <1>1, <2>2, <2>3, ExponentStays, SMT
  <2>8. Fraction(t, p) = IF r = p + 1 THEN Wrong(p + 1)
                         ELSE IF At(t, r) = "end" THEN More(r) ELSE Exponent(t, r)
    BY <1>3 DEF Fraction, r
  <2>9. QED
    BY <2>5, <2>6, <2>7, <2>8
<1>4. QED
  BY <1>2, <1>3

\* A number, whatever follows a "-".
LEMMA NumberStays ==
  ASSUME NEW t \in Texts, NEW p \in 1..Len(t), t[p] \in Digit \cup {"-"}
  PROVE  Stays(t, p, check_number(t, p)) /\ Stays(t, p, call_number(t, p))
<1> DEFINE q == IF At(t, p) = "-" THEN p + 1 ELSE p
           r == NonDigit(t, q)
<1>1. Len(t) \in Nat /\ p \in Nat /\ DOMAIN t = 1..Len(t)
  BY AtEnd, SMT
<1>2. At(t, p) \in Digit \cup {"-"}
  BY AtEnd
<1>3. q \in p..Len(t) + 1 /\ (q = p => At(t, q) \in Digit)
  BY <1>1, <1>2, SMT
<1> HIDE DEF q
<1>4. q \in 1..Len(t) + 1 /\ q \in Nat
  BY <1>1, <1>3, SMT
<1>5. r \in q..Len(t) + 1 /\ At(t, r) \notin Digit
  BY <1>4, NonDigitProps
<1> HIDE DEF r
<1>6. r > p
  BY <1>1, <1>3, <1>4, <1>5, SMT
<1>7. At(t, q) = "end" => Stays(t, p, More(q))
  <2>1. At(t, q) = "end" => q = Len(t) + 1
    BY <1>1, <1>3, <1>4, AtEnd, SMT
  <2>2. p <= q /\ q <= Len(t) + 1 /\ q \in Int
    BY <1>1, <1>3, SMT
  <2>3. QED
    BY <1>1, <2>1, <2>2, StaysIs
<1>8. At(t, q) # "end" => q \in 1..Len(t)
  BY <1>4, AtEnd
<1>9. At(t, q) = "inf" => Stays(t, p, Ok(q))
  <2>1. SUFFICES ASSUME At(t, q) = "inf" PROVE Stays(t, p, Ok(q))
    OBVIOUS
  <2>2. q \in 1..Len(t)
    BY <2>1, <1>8
  <2>3. p <= q /\ q <= Len(t) + 1 /\ q \in Int
    BY <1>1, <1>3, SMT
  <2>4. QED
    BY <1>1, <2>2, <2>3, StaysIs
<1>10. At(t, q) = "0" => Stays(t, p, Fraction(t, q + 1))
  <2>1. SUFFICES ASSUME At(t, q) = "0" PROVE Stays(t, p, Fraction(t, q + 1))
    OBVIOUS
  <2>2. q \in 1..Len(t)
    BY <2>1, <1>8
  <2>3. \A x \in 2..Len(t) + 1 : p <= x - 1 => Stays(t, p, Fraction(t, x))
    BY <1>1, FractionStays
  <2>4. q + 1 \in 2..Len(t) + 1 /\ p <= (q + 1) - 1
    BY <1>1, <1>3, <2>2, SMT
  <2>5. QED
    BY <2>3, <2>4, Zenon
<1>11. At(t, r) = "end" => Stays(t, p, More(r))
  <2>1. At(t, r) = "end" => r = Len(t) + 1
    BY <1>1, <1>4, <1>5, AtEnd, SMT
  <2>2. p <= r /\ r <= Len(t) + 1 /\ r \in Int
    BY <1>1, <1>4, <1>5, <1>6, SMT
  <2>3. QED
    BY <1>1, <2>1, <2>2, StaysIs
<1>12. Stays(t, p, Fraction(t, r))
  <2>1. r \in 2..Len(t) + 1 /\ p <= r - 1
    BY <1>1, <1>4, <1>5, <1>6, SMT
  <2>2. QED
    BY <1>1, <2>1, FractionStays
<1>13. check_number(t, p) = IF At(t, q) = "end" THEN More(q)
                           ELSE IF At(t, q) = "inf" THEN Ok(q)
                           ELSE IF At(t, q) = "0" THEN Fraction(t, q + 1)
                           ELSE IF At(t, q) = "9" /\ At(t, r) = "end" THEN More(r)
                           ELSE Fraction(t, r)
  BY DEF check_number, q, r
<1>14. Stays(t, p, check_number(t, p))
  BY <1>7, <1>9, <1>10, <1>11, <1>12, <1>13
<1> DEFINE n == check_number(t, p)
<1> HIDE DEF n
<1>15. n.v = "ok" => n.p \in 1..Len(t) /\ n.p >= p
  BY <1>1, <1>14, SMT DEF n, Stays
<1>16. n.v = "ok" => Stays(t, p, Wrong(n.p + 1))
  <2>1. SUFFICES ASSUME n.v = "ok" PROVE Stays(t, p, Wrong(n.p + 1))
    OBVIOUS
  <2>2. p <= n.p + 1 /\ n.p + 1 <= Len(t) + 1 /\ n.p + 1 \in Int
    BY <1>1, <1>15, <2>1, SMT
  <2>3. QED
    BY <1>1, <2>2, StaysIs
<1>17. \/ call_number(t, p) = n
       \/ n.v = "ok" /\ call_number(t, p) = Wrong(n.p + 1)
  <2>1. CASE n.v = "ok" /\ n.p + 1 - p > NumberSize /\ At(t, n.p) # "inf"
    <3>1. call_number(t, p) = Wrong(n.p + 1)
      BY <2>1, Zenon DEF call_number, n
    <3>2. QED
      BY <2>1, <3>1
  <2>2. CASE ~(n.v = "ok" /\ n.p + 1 - p > NumberSize /\ At(t, n.p) # "inf")
    <3>1. call_number(t, p) = n
      BY <2>2, Zenon DEF call_number, n
    <3>2. QED
      BY <3>1
  <2>3. QED
    BY <2>1, <2>2
<1>18. Stays(t, p, call_number(t, p))
  BY <1>14, <1>16, <1>17 DEF n
<1>19. QED
  BY <1>14, <1>18

-----------------------------------------------------------------------------
(* Loops of scanners.                                                      *)

\* From a position of K the loop stops with a verdict that may be given d characters
\* further on, or goes on in K.
Steady(t, K, d, jump, res) ==
  \A i \in K : \/ jump[i] \in K /\ jump[i] > i
               \/ jump[i] = -1 /\ Stays(t, i + d, res[i])

\* Such a loop gives a verdict that may be given.
LEMMA LoopStays ==
  ASSUME NEW t \in Texts, NEW K \in SUBSET (0..Len(t) + 1), NEW d \in Nat,
         NEW jump, NEW res, NEW f, Steady(t, K, d, jump, res),
         Loop(f, jump, res, Len(t) + 1)
  PROVE  \A i \in K : Stays(t, i + d, f[i])
<1> DEFINE S == {i \in K : Stays(t, i + d, f[i])}
           N == Len(t) + 1
<1>1. N \in Nat
  BY AtEnd, SMT
<1>2. \A i \in K : i \in 0..N /\ i \in Nat /\ i + d \in Nat
  BY <1>1, SMT
<1>3. \A i \in K : f[i] = IF jump[i] = -1 THEN res[i] ELSE f[jump[i]]
  BY <1>2, Zenon DEF Loop
<1>4. ASSUME NEW i \in K, \A j \in K : j > i => j \in S PROVE i \in S
  <2>1. CASE jump[i] \in K /\ jump[i] > i
    <3>1. jump[i] # -1
      BY <1>2, <2>1, SMT
    <3>2. Stays(t, jump[i] + d, f[i])
      BY <1>3, <1>4, <2>1, <3>1
    <3>3. \A x \in K : x > i => i + d <= x + d /\ x + d \in Nat
      BY <1>2, SMT
    <3>4. Stays(t, i + d, f[i])
      BY <1>2, <2>1, <3>2, <3>3, StaysBefore
    <3>5. QED
      BY <3>4
  <2>2. CASE jump[i] = -1 /\ Stays(t, i + d, res[i])
    BY <1>3, <2>2
  <2>3. QED
    BY <2>1, <2>2 DEF Steady
<1> HIDE DEF S
<1>5. \A i \in K : i \in S
  BY <1>1, <1>4, Backwards
<1>6. QED
  BY <1>5 DEF S

-----------------------------------------------------------------------------
(* Comments.                                                               *)

\* f is the recursive function of BlockEnd.
EndsBlock(f, t) ==
  f = [i \in Positions(t) |->
        CASE At(t, i) = "end" -> Ok(i - 1)
          [] At(t, i) = "*" /\ At(t, i + 1) = "end" -> Ok(i)
          [] At(t, i) = "*" /\ At(t, i + 1) = "/" -> Ok(i + 1)
          [] At(t, i) = "*" /\ At(t, i + 1) \notin {"/", "end"} -> f[i + 2]
          [] OTHER -> f[i + 1]]

\* What BlockEnd says from position i on.
LEMMA BlockEndSteps ==
  ASSUME NEW t \in Texts
  PROVE  \A i \in 0..Len(t) + 1 :
           /\ At(t, i) = "end" => BlockEnd(t, i) = Ok(i - 1)
           /\ At(t, i) = "*" /\ At(t, i + 1) = "end" => BlockEnd(t, i) = Ok(i)
           /\ At(t, i) = "*" /\ At(t, i + 1) = "/" => BlockEnd(t, i) = Ok(i + 1)
           /\ At(t, i) = "*" /\ At(t, i + 1) \notin {"/", "end"} =>
                BlockEnd(t, i) = BlockEnd(t, i + 2)
           /\ At(t, i) \notin {"*", "end"} => BlockEnd(t, i) = BlockEnd(t, i + 1)
<1> DEFINE N == Len(t) + 1
           Stop(i) == \/ At(t, i) = "end"
                      \/ At(t, i) = "*" /\ At(t, i + 1) \in {"/", "end"}
           jump == [i \in 0..N |-> IF Stop(i) THEN -1 ELSE IF At(t, i) = "*" THEN i + 2 ELSE i + 1]
           res == [i \in 0..N |-> IF At(t, i) = "end" THEN Ok(i - 1)
                                  ELSE IF At(t, i + 1) = "end" THEN Ok(i) ELSE Ok(i + 1)]
<1>1. N \in Nat /\ Positions(t) = 0..N /\ Len(t) \in Nat
  BY AtEnd, SMT DEF Positions
<1>2. ASSUME NEW i \in 0..N, ~Stop(i) PROVE i + 1 \in i + 1..N /\ (At(t, i) = "*" => i + 2 \in i + 1..N)
  <2>1. i \in 1..Len(t)
    <3>1. i \in Int
      BY <1>1, SMT
    <3>2. At(t, i) # "end"
      BY <1>2
    <3>3. QED
      BY <3>1, <3>2, AtEnd
  <2>2. At(t, i) = "*" => i + 1 \in 1..Len(t)
    BY <1>1, <1>2, AtEnd, SMT
  <2>3. QED
    BY <1>1, <2>1, <2>2, SMT
<1>3. \A i \in 0..N : i # -1 /\ i + 1 # -1 /\ i + 2 # -1
  BY SMT
<1>4. \A i \in 0..N : /\ jump[i] = IF Stop(i) THEN -1 ELSE IF At(t, i) = "*" THEN i + 2 ELSE i + 1
                      /\ res[i] = IF At(t, i) = "end" THEN Ok(i - 1)
                                  ELSE IF At(t, i + 1) = "end" THEN Ok(i) ELSE Ok(i + 1)
  OBVIOUS
<1> HIDE DEF jump, res
<1>5. Forward(jump, N)
  BY <1>2, <1>4 DEF Forward
<1>6. PICK f : Loop(f, jump, res, N)
  BY <1>1, <1>5, LoopExists
<1> DEFINE Body(g, i) == CASE At(t, i) = "end" -> Ok(i - 1)
                           [] At(t, i) = "*" /\ At(t, i + 1) = "end" -> Ok(i)
                           [] At(t, i) = "*" /\ At(t, i + 1) = "/" -> Ok(i + 1)
                           [] At(t, i) = "*" /\ At(t, i + 1) \notin {"/", "end"} -> g[i + 2]
                           [] OTHER -> g[i + 1]
<1>7. ASSUME NEW i \in 0..N PROVE f[i] = Body(f, i)
  <2>1. f[i] = IF jump[i] = -1 THEN res[i] ELSE f[jump[i]]
    BY <1>6 DEF Loop
  <2>2. CASE Stop(i)
    BY <1>4, <2>1, <2>2
  <2>3. CASE ~Stop(i)
    <3>1. jump[i] = IF At(t, i) = "*" THEN i + 2 ELSE i + 1
      BY <1>4, <2>3
    <3>2. jump[i] # -1
      BY <1>3, <3>1
    <3>3. f[i] = f[IF At(t, i) = "*" THEN i + 2 ELSE i + 1]
      BY <2>1, <3>1, <3>2
    <3>4. CASE At(t, i) = "*"
      <4>1. At(t, i) # "end" /\ At(t, i + 1) \notin {"/", "end"}
        BY <2>3, <3>4
      <4>2. f[i] = f[i + 2]
        BY <3>3, <3>4
      <4>3. Body(f, i) = f[i + 2]
        BY <3>4, <4>1
      <4>4. QED
        BY <4>2, <4>3
    <3>5. CASE At(t, i) # "*"
      <4>1. At(t, i) # "end"
        BY <2>3
      <4>2. f[i] = f[i + 1]
        BY <3>3, <3>5
      <4>3. Body(f, i) = f[i + 1]
        BY <3>5, <4>1
      <4>4. QED
        BY <4>2, <4>3
    <3>6. QED
      BY <3>4, <3>5
  <2>4. QED
    BY <2>2, <2>3
<1>8. EndsBlock(f, t)
  BY <1>1, <1>6, <1>7 DEF EndsBlock, Loop
<1> DEFINE end == CHOOSE g : EndsBlock(g, t)
<1>9. \A i : BlockEnd(t, i) = end[i]
  BY DEF BlockEnd, EndsBlock
<1>10. EndsBlock(end, t)
  BY <1>8
<1> HIDE DEF end
<1>11. \A i \in 0..N : end[i] = Body(end, i)
  BY <1>1, <1>10 DEF EndsBlock
<1>12. QED
  BY <1>9, <1>11

\* Where a comment may end, and where a "*" hides the next one.
Closes(t, i) == At(t, i) = "*" /\ At(t, i + 1) = "/"
Hides(t, i) == At(t, i) = "*" /\ At(t, i + 1) = "*"

\* What BlockEnd says from q on is where a comment ends.
EndsRight(t, q) ==
  /\ BlockEnd(t, q).v = "ok"
  /\ BlockEnd(t, q).p \in 0..Len(t)
  /\ q <= Len(t) => BlockEnd(t, q).p >= q
  /\ q = Len(t) + 1 => BlockEnd(t, q).p = Len(t)
  /\ (\A i \in q..Len(t) - 1 : ~Closes(t, i)) => BlockEnd(t, q).p = Len(t)
  /\ \A e \in q..Len(t) - 1 :
       Closes(t, e) /\ (\A i \in q..e - 1 : ~Closes(t, i)) =>
         /\ BlockEnd(t, q).p >= e + 1
         /\ (\A i \in q..e - 1 : ~Hides(t, i)) => BlockEnd(t, q).p = e + 1

\* It is where a comment ends if that is so from a position on that is reached next.
LEMMA EndsLater ==
  ASSUME NEW t \in Texts, NEW q \in 1..Len(t), NEW n \in {q + 1, q + 2}, n <= Len(t) + 1,
         EndsRight(t, n), BlockEnd(t, q) = BlockEnd(t, n),
         ~Closes(t, q), n = q + 2 => At(t, q) = "*" /\ At(t, q + 1) # "end"
  PROVE  EndsRight(t, q)
<1> DEFINE N == Len(t)
           p == BlockEnd(t, n).p
<1>1. N \in Nat /\ q \in Nat /\ n \in Nat /\ q < n
  BY AtEnd, SMT
<1>2. /\ BlockEnd(t, n).v = "ok" /\ p \in 0..N
      /\ n <= N => p >= n
      /\ n = N + 1 => p = N
  BY DEF EndsRight
<1>3. (\A i \in n..N - 1 : ~Closes(t, i)) => p = N
  BY DEF EndsRight
<1>4. \A e \in n..N - 1 : Closes(t, e) /\ (\A i \in n..e - 1 : ~Closes(t, i)) =>
         /\ p >= e + 1
         /\ (\A i \in n..e - 1 : ~Hides(t, i)) => p = e + 1
  BY DEF EndsRight
<1> HIDE DEF p
<1>5. p >= q
  BY <1>1, <1>2, SMT
<1>6. ASSUME \A i \in q..N - 1 : ~Closes(t, i) PROVE p = N
  <2>1. \A i \in n..N - 1 : i \in q..N - 1
    BY <1>1, SMT
  <2>2. QED
    BY <1>3, <1>6, <2>1
<1>7. ASSUME NEW e \in q..N - 1, Closes(t, e), \A i \in q..e - 1 : ~Closes(t, i)
      PROVE  p >= e + 1 /\ ((\A i \in q..e - 1 : ~Hides(t, i)) => p = e + 1)
  <2>1. e # q
    BY <1>7
  <2>2. CASE e \in n..N - 1
    <3>1. \A i \in n..e - 1 : i \in q..e - 1
      BY <1>1, <2>2, SMT
    <3>2. QED
      BY <1>4, <1>7, <2>2, <3>1
  <2>3. CASE e \notin n..N - 1
    <3>1. n = q + 2 /\ e = q + 1
      BY <1>1, <2>1, <2>3, SMT
    <3>2. At(t, q) = "*" /\ At(t, q + 1) = "*" /\ At(t, q + 2) = "/"
      BY <1>1, <1>7, <3>1, SMT DEF Closes
    <3>3. Hides(t, q) /\ q \in q..e - 1
      BY <1>1, <3>1, <3>2, SMT DEF Hides
    <3>4. q + 2 \in 1..N
      <4>1. q + 2 \in Int /\ At(t, q + 2) # "end"
        BY <1>1, <3>2, SMT
      <4>2. QED
        BY <4>1, AtEnd
    <3>5. p >= e + 1
      BY <1>1, <1>2, <3>1, <3>4, SMT
    <3>6. QED
      BY <3>3, <3>5
  <2>4. QED
    BY <2>2, <2>3
<1>8. q <= N /\ q # N + 1
  BY <1>1, SMT
<1>9. QED
  BY <1>2, <1>5, <1>6, <1>7, <1>8, Zenon DEF EndsRight, p

\* A block comment ends where it should, from anywhere.
LEMMA BlockEndRight ==
  ASSUME NEW t \in Texts
  PROVE  \A q \in 1..Len(t) + 1 : EndsRight(t, q)
<1> DEFINE N == Len(t)
           K == 1..N + 1
           S == {q \in K : EndsRight(t, q)}
<1>1. N \in Nat /\ N + 1 \in Nat /\ K \in SUBSET (0..N + 1)
  BY AtEnd, SMT
<1>2. ASSUME NEW q \in K, \A j \in K : j > q => j \in S PROVE EndsRight(t, q)
  <2>1. q \in 0..N + 1 /\ q \in Int /\ q + 1 \in Int /\ q <= N + 1 /\ q >= 1
    BY <1>1, SMT
  <2>2. \A r : Ok(r).v = "ok" /\ Ok(r).p = r
    BY DEF Ok
  <2>3. CASE At(t, q) = "end"
    <3>1. q = N + 1
      <4>1. q \notin 1..N
        BY <2>1, <2>3, AtEnd
      <4>2. QED
        BY <1>1, <2>1, <4>1, SMT
    <3>2. BlockEnd(t, q) = Ok(q - 1)
      BY <2>1, <2>3, BlockEndSteps
    <3>3. BlockEnd(t, q).v = "ok" /\ BlockEnd(t, q).p = q - 1
      BY <2>2, <3>2
    <3>4. QED
      BY <1>1, <3>1, <3>3, SMT DEF EndsRight
  <2>4. CASE At(t, q) = "*" /\ At(t, q + 1) = "end"
    <3>1. q = N
      <4>1. q \in 1..N /\ q + 1 \notin 1..N
        BY <2>1, <2>4, AtEnd
      <4>2. QED
        BY <1>1, <2>1, <4>1, SMT
    <3>2. BlockEnd(t, q) = Ok(q)
      BY <2>1, <2>4, BlockEndSteps
    <3>3. BlockEnd(t, q).v = "ok" /\ BlockEnd(t, q).p = q
      BY <2>2, <3>2
    <3>4. QED
      BY <1>1, <3>1, <3>3, SMT DEF EndsRight
  <2>5. CASE At(t, q) = "*" /\ At(t, q + 1) = "/"
    <3>1. q + 1 \in 1..N
      BY <2>1, <2>5, AtEnd
    <3>2. BlockEnd(t, q) = Ok(q + 1)
      BY <2>1, <2>5, BlockEndSteps
    <3>3. BlockEnd(t, q).v = "ok" /\ BlockEnd(t, q).p = q + 1
      BY <2>2, <3>2
    <3>4. Closes(t, q) /\ q \in q..N - 1
      BY <1>1, <2>1, <2>5, <3>1, SMT DEF Closes
    <3>5. \A e \in q..N - 1 : (\A i \in q..e - 1 : ~Closes(t, i)) => e = q
      <4>1. \A e \in q..N - 1 : e # q => q \in q..e - 1
        BY <1>1, <2>1, SMT
      <4>2. QED
        BY <3>4, <4>1
    <3>6. q + 1 \in 0..N /\ q + 1 >= q /\ q # N + 1 /\ q + 1 >= q + 1
      BY <1>1, <2>1, <3>1, SMT
    <3>7. QED
      BY <3>3, <3>4, <3>5, <3>6, Zenon DEF EndsRight
  <2>6. CASE At(t, q) = "*" /\ At(t, q + 1) \notin {"/", "end"}
    <3>1. q \in 1..N /\ q + 1 \in 1..N
      BY <2>1, <2>6, AtEnd
    <3>2. q + 2 \in K /\ q + 2 > q /\ q + 2 <= N + 1
      BY <1>1, <2>1, <3>1, SMT
    <3>3. EndsRight(t, q + 2)
      BY <1>2, <3>2
    <3>4. BlockEnd(t, q) = BlockEnd(t, q + 2)
      BY <2>1, <2>6, BlockEndSteps
    <3>5. ~Closes(t, q)
      BY <2>6 DEF Closes
    <3> HIDE DEF N, K, S
    <3>6. QED
      BY <2>6, <3>1, <3>2, <3>3, <3>4, <3>5, EndsLater DEF N
  <2>7. CASE At(t, q) \notin {"*", "end"}
    <3>1. q \in 1..N
      BY <2>1, <2>7, AtEnd
    <3>2. q + 1 \in K /\ q + 1 > q /\ q + 1 <= N + 1 /\ q + 1 # q + 2
      BY <1>1, <2>1, <3>1, SMT
    <3>3. EndsRight(t, q + 1)
      BY <1>2, <3>2
    <3>4. BlockEnd(t, q) = BlockEnd(t, q + 1)
      BY <2>1, <2>7, BlockEndSteps
    <3>5. ~Closes(t, q)
      BY <2>7 DEF Closes
    <3> HIDE DEF N, K, S
    <3>6. QED
      BY <3>1, <3>2, <3>3, <3>4, <3>5, EndsLater DEF N
  <2>8. QED
    BY <2>3, <2>4, <2>5, <2>6, <2>7
<1>3. \A q \in K : (\A j \in K : j > q => j \in S) => q \in S
  BY <1>2
<1> HIDE DEF S
<1>4. \A q \in K : q \in S
  BY <1>1, <1>3, Backwards
<1>5. QED
  BY <1>4 DEF S

\* BlockComments, for any text.
LEMMA BlockEndComments ==
  ASSUME NEW t \in Texts
  PROVE  BlockComments(t)
<1> DEFINE N == Len(t)
<1>1. /\ N \in Nat /\ DOMAIN t = 1..N
      /\ \A i \in 1..N : At(t, i) = t[i]
  BY AtEnd
<1> SUFFICES ASSUME NEW q \in 1..N
             PROVE  LET ends == {i \in q..N - 1 : t[i] = "*" /\ t[i + 1] = "/"}
                        p == BlockEnd(t, q).p
                    IN IF ends = {} THEN p = N
                       ELSE LET e == Min(ends)
                            IN /\ p >= e + 1
                               /\ (~\E i \in q..e - 1 : t[i] = "*" /\ t[i + 1] = "*") => p = e + 1
  BY <1>1 DEF BlockComments
<1> DEFINE ends == {i \in q..N - 1 : t[i] = "*" /\ t[i + 1] = "/"}
           p == BlockEnd(t, q).p
<1>2. \A i \in q..N - 1 : i \in 1..N /\ i + 1 \in 1..N
  BY <1>1, SMT
<1>3. \A i \in q..N - 1 : /\ i \in ends <=> Closes(t, i)
                          /\ Hides(t, i) <=> t[i] = "*" /\ t[i + 1] = "*"
  BY <1>1, <1>2 DEF Closes, Hides
<1>4. ends \subseteq q..N - 1 /\ ends \subseteq Nat
  BY <1>1, SMT
<1> HIDE DEF ends, p
<1>5. EndsRight(t, q)
  <2>1. q \in 1..N + 1
    BY <1>1, SMT
  <2>2. QED
    BY <2>1, BlockEndRight
<1>6. CASE ends = {}
  <2>1. \A i \in q..N - 1 : ~Closes(t, i)
    BY <1>3, <1>6
  <2>2. p = N
    BY <1>5, <2>1 DEF EndsRight, p
  <2>3. QED
    BY <1>6, <2>2 DEF ends, p
<1>7. CASE ends # {}
  <2> DEFINE e == Min(ends)
  <2>1. e \in ends /\ \A y \in ends : e <= y
    <3>1. \E x \in ends : \A y \in ends : x <= y
      BY <1>4, <1>7, LeastExists
    <3>2. QED
      BY <3>1 DEF Min
  <2> HIDE DEF e
  <2>2. e \in q..N - 1 /\ Closes(t, e)
    BY <1>3, <1>4, <2>1
  <2>3. \A i \in q..e - 1 : i \in q..N - 1 /\ ~(e <= i)
    BY <1>1, <2>2, SMT
  <2>4. \A i \in q..e - 1 : ~Closes(t, i)
    BY <1>3, <2>1, <2>3
  <2>5. p >= e + 1 /\ ((\A i \in q..e - 1 : ~Hides(t, i)) => p = e + 1)
    BY <1>5, <2>2, <2>4 DEF EndsRight, p
  <2>6. (~\E i \in q..e - 1 : t[i] = "*" /\ t[i + 1] = "*") => \A i \in q..e - 1 : ~Hides(t, i)
    BY <1>3, <2>3
  <2>7. QED
    BY <1>7, <2>5, <2>6 DEF ends, p, e
<1>8. QED
  BY <1>6, <1>7

\* A comment, of either kind, and what only begins like one.
LEMMA CommentStays ==
  ASSUME NEW t \in Texts, NEW p \in 1..Len(t)
  PROVE  Stays(t, p + 1, skip_comment(t, p))
<1> DEFINE N == Len(t)
<1>1. N \in Nat /\ p \in Nat /\ p + 1 \in Nat /\ p + 1 \in Int /\ p + 1 <= N + 1 /\ p + 1 <= p + 1
  BY AtEnd, SMT
<1>2. CASE At(t, p + 1) = "end"
  <2>1. p + 1 = N + 1
    <3>1. p + 1 \notin 1..N
      BY <1>1, <1>2, AtEnd
    <3>2. QED
      BY <1>1, <3>1, SMT
  <2>2. Stays(t, p + 1, More(p + 1))
    BY <1>1, <2>1, StaysIs
  <2>3. QED
    BY <1>2, <2>2 DEF skip_comment
<1>3. CASE At(t, p + 1) = "/"
  <2>1. p + 1 \in 1..N
    BY <1>1, <1>3, AtEnd
  <2>2. p + 2 \in 1..N + 1
    BY <1>1, <2>1, SMT
  <2> DEFINE r == First(t, p + 2, {"nl"})
  <2>3. r \in p + 2..N + 1
    BY <2>2, FirstProps
  <2> HIDE DEF r
  <2>4. r - 1 \in Int /\ p + 1 <= r - 1 /\ r - 1 <= N + 1 /\ r - 1 \in 1..N
    BY <1>1, <2>3, SMT
  <2>5. Stays(t, p + 1, Ok(r - 1))
    BY <1>1, <2>4, StaysIs
  <2>6. QED
    BY <1>3, <2>5 DEF skip_comment, r
<1>4. CASE At(t, p + 1) = "*"
  <2>1. p + 1 \in 1..N
    BY <1>1, <1>4, AtEnd
  <2>2. p + 2 \in 1..N + 1
    BY <1>1, <2>1, SMT
  <2>3. EndsRight(t, p + 2)
    BY <2>2, BlockEndRight
  <2> DEFINE r == BlockEnd(t, p + 2)
  <2>4. r.v = "ok" /\ r.p \in 0..N /\ (p + 2 <= N => r.p >= p + 2) /\ (p + 2 = N + 1 => r.p = N)
    BY <2>3 DEF EndsRight
  <2> HIDE DEF r
  <2>5. r.p \in 1..N /\ r.p \in p + 1..N + 1
    BY <1>1, <2>1, <2>4, SMT
  <2>6. Stays(t, p + 1, r)
    BY <2>4, <2>5, AtEnd DEF Stays
  <2>7. QED
    BY <1>4, <2>6 DEF skip_comment, r
<1>5. CASE At(t, p + 1) \notin {"end", "/", "*"}
  <2>1. Stays(t, p + 1, Wrong(p + 1))
    BY <1>1, StaysIs
  <2>2. QED
    BY <1>5, <2>1 DEF skip_comment
<1>6. QED
  BY <1>2, <1>3, <1>4, <1>5

-----------------------------------------------------------------------------
(* Spaces and comments before what counts.                                 *)

\* f is the recursive function of Beyond.
SkipsAll(f, t) ==
  f = [i \in Positions(t) |->
        CASE At(t, i + 1) \in Space -> f[i + 1]
          [] At(t, i + 1) = "/" -> After(skip_comment(t, i + 1), f, 0)
          [] At(t, i + 1) = "end" -> End(i + 1)
          [] OTHER -> Ok(i + 1)]

\* Whatever precedes the next character that counts.
LEMMA BeyondStays ==
  ASSUME NEW t \in Texts
  PROVE  \A p \in 0..Len(t) : Stays(t, p + 1, Beyond(t, p))
<1> DEFINE N == Len(t) + 1
           K == 0..Len(t)
           Goes(i) == \/ At(t, i + 1) \in Space
                      \/ At(t, i + 1) = "/" /\ skip_comment(t, i + 1).v = "ok"
           Onward(i) == IF At(t, i + 1) \in Space THEN i + 1 ELSE skip_comment(t, i + 1).p
           Verdict(i) == IF At(t, i + 1) = "end" THEN End(i + 1)
                         ELSE IF At(t, i + 1) = "/" THEN skip_comment(t, i + 1) ELSE Ok(i + 1)
           jump == [i \in 0..N |-> IF Goes(i) THEN Onward(i) ELSE -1]
           res == [i \in 0..N |-> Verdict(i)]
           Body(g, i) == CASE At(t, i + 1) \in Space -> g[i + 1]
                           [] At(t, i + 1) = "/" -> After(skip_comment(t, i + 1), g, 0)
                           [] At(t, i + 1) = "end" -> End(i + 1)
                           [] OTHER -> Ok(i + 1)
           Beyonds(g) == SkipsAll(g, t)
<1>1. N \in Nat /\ Positions(t) = 0..N /\ Len(t) \in Nat /\ K \in SUBSET (0..N)
  BY AtEnd, SMT DEF Positions
<1>2. ASSUME NEW i \in 0..N, Goes(i) PROVE Onward(i) \in K /\ Onward(i) > i /\ Onward(i) \in i + 1..N
  <2>1. At(t, i + 1) # "end"
    BY <1>2 DEF Space
  <2>2. i + 1 \in 1..Len(t)
    <3>1. i + 1 \in Int
      BY <1>1, SMT
    <3>2. QED
      BY <2>1, <3>1, AtEnd
  <2>3. CASE At(t, i + 1) \in Space
    BY <1>1, <2>2, <2>3, SMT
  <2>4. CASE At(t, i + 1) \notin Space
    <3> DEFINE c == skip_comment(t, i + 1)
    <3>1. c.v = "ok" /\ Stays(t, i + 1 + 1, c)
      BY <1>2, <2>2, <2>4, CommentStays
    <3>2. Onward(i) = c.p
      BY <2>4
    <3> HIDE DEF c, Onward, Goes
    <3>3. c.p \in 1..Len(t) /\ c.p \in i + 1 + 1..Len(t) + 1
      BY <3>1, AtEnd DEF Stays
    <3>4. QED
      BY <1>1, <2>2, <3>2, <3>3, SMT
  <2>5. QED
    BY <2>3, <2>4
<1>3. \A i \in 0..N : i # -1
  BY SMT
<1>4. \A i \in 0..N : jump[i] = (IF Goes(i) THEN Onward(i) ELSE -1) /\ res[i] = Verdict(i)
  OBVIOUS
<1> HIDE DEF jump, res
<1>5. Forward(jump, N)
  <2> HIDE DEF Goes, Onward
  <2> QED
    BY <1>2, <1>4 DEF Forward
<1>6. ASSUME NEW i \in 0..N, NEW g
      PROVE  Body(g, i) = IF jump[i] = -1 THEN res[i] ELSE g[jump[i]]
  <2>1. CASE Goes(i)
    <3>1. Onward(i) \in K
      BY <1>2, <2>1
    <3>2. jump[i] = Onward(i) /\ jump[i] # -1
      <4> HIDE DEF Goes, Onward
      <4> QED
        BY <1>1, <1>3, <1>4, <2>1, <3>1
    <3>3. Body(g, i) = g[Onward(i)]
      <4>1. CASE At(t, i + 1) \in Space
        BY <4>1 DEF Space
      <4>2. CASE At(t, i + 1) \notin Space
        <5>1. Onward(i) = skip_comment(t, i + 1).p
          BY <4>2
        <5>2. Onward(i) + 0 = Onward(i)
          <6> HIDE DEF Onward
          <6> QED
            BY <1>1, <3>1, SMT
        <5>3. Body(g, i) = g[skip_comment(t, i + 1).p + 0]
          BY <2>1, <4>2 DEF After
        <5>4. QED
          BY <5>1, <5>2, <5>3
      <4>3. QED
        BY <4>1, <4>2
    <3>4. QED
      BY <3>2, <3>3
  <2>2. CASE ~Goes(i)
    <3>1. jump[i] = -1 /\ res[i] = Verdict(i)
      BY <1>4, <2>2
    <3>2. Body(g, i) = Verdict(i)
      BY <2>2 DEF After
    <3>3. QED
      BY <3>1, <3>2
  <2>3. QED
    BY <2>1, <2>2
<1>7. \A g : Beyonds(g) <=> Loop(g, jump, res, N)
  <2>1. \A g : Beyonds(g) <=> g = [i \in 0..N |-> Body(g, i)]
    BY <1>1 DEF SkipsAll
  <2> HIDE DEF Body
  <2>2. QED
    BY <1>6, <2>1 DEF Loop
<1> DEFINE beyond == CHOOSE g : Beyonds(g)
<1>8. \A i : Beyond(t, i) = beyond[i]
  BY DEF Beyond, SkipsAll
<1>9. Loop(beyond, jump, res, N)
  <2>1. \E g : Loop(g, jump, res, N)
    BY <1>1, <1>5, LoopExists
  <2> HIDE DEF Beyonds
  <2>2. QED
    BY <1>7, <2>1
<1> HIDE DEF beyond
<1>10. Steady(t, K, 1, jump, res)
  <2>1. ASSUME NEW i \in K, ~Goes(i) PROVE Stays(t, i + 1, Verdict(i))
    <3>1. i + 1 \in Int /\ i + 1 \in Nat /\ i + 1 <= Len(t) + 1 /\ i + 1 <= i + 1 /\ i + 1 <= i + 1 + 1
          /\ i + 1 + 1 \in Nat
      BY <1>1, SMT
    <3>2. CASE At(t, i + 1) = "end"
      <4>1. i + 1 = Len(t) + 1
        <5>1. i + 1 \notin 1..Len(t)
          BY <3>1, <3>2, AtEnd
        <5>2. QED
          BY <1>1, <5>1, SMT
      <4>2. Stays(t, i + 1, End(i + 1))
        BY <3>1, <4>1, StaysIs
      <4>3. QED
        BY <3>2, <4>2
    <3>3. CASE At(t, i + 1) # "end"
      <4>1. i + 1 \in 1..Len(t)
        BY <3>1, <3>3, AtEnd
      <4>2. Stays(t, i + 1 + 1, skip_comment(t, i + 1))
        BY <4>1, CommentStays
      <4>3. Stays(t, i + 1, skip_comment(t, i + 1))
        BY <3>1, <4>2, StaysBefore
      <4>4. Stays(t, i + 1, Ok(i + 1))
        BY <3>1, <4>1, StaysIs
      <4>5. QED
        BY <3>3, <4>3, <4>4
    <3>4. QED
      BY <3>2, <3>3
  <2>2. \A i \in K : i \in 0..N
    BY <1>1
  <2> HIDE DEF K, Goes, Onward, Verdict
  <2>3. QED
    BY <1>2, <1>4, <2>1, <2>2 DEF Steady
<1>11. \A i \in K : Stays(t, i + 1, beyond[i])
  BY <1>1, <1>9, <1>10, LoopStays
<1>12. QED
  BY <1>8, <1>11

\* f is the recursive function of Opening.
SeeksRoot(f, t, step) ==
  f = [i \in Positions(t) |->
        CASE At(t, i) \in Space -> f[i + 1]
          [] At(t, i) = "/" -> After(skip_comment(t, i), f, step)
          [] At(t, i) = "end" -> More(i)
          [] At(t, i) = "{" -> Ok(i)
          [] OTHER -> Wrong(i)]

\* Whatever precedes the root, for all readers.
LEMMA OpeningStays ==
  ASSUME NEW t \in Texts, NEW step \in {0, 1}
  PROVE  \A p \in 1..Len(t) : Stays(t, p, Opening(t, p, step))
<1> DEFINE N == Len(t) + 1
           K == 1..N
           Goes(i) == \/ At(t, i) \in Space
                      \/ At(t, i) = "/" /\ skip_comment(t, i).v = "ok"
           Onward(i) == IF At(t, i) \in Space THEN i + 1 ELSE skip_comment(t, i).p + step
           Verdict(i) == IF At(t, i) = "end" THEN More(i)
                         ELSE IF At(t, i) = "/" THEN skip_comment(t, i)
                         ELSE IF At(t, i) = "{" THEN Ok(i) ELSE Wrong(i)
           jump == [i \in 0..N |-> IF Goes(i) THEN Onward(i) ELSE -1]
           res == [i \in 0..N |-> Verdict(i)]
           Body(g, i) == CASE At(t, i) \in Space -> g[i + 1]
                           [] At(t, i) = "/" -> After(skip_comment(t, i), g, step)
                           [] At(t, i) = "end" -> More(i)
                           [] At(t, i) = "{" -> Ok(i)
                           [] OTHER -> Wrong(i)
           Opens(g) == SeeksRoot(g, t, step)
<1>1. N \in Nat /\ Positions(t) = 0..N /\ Len(t) \in Nat /\ K \in SUBSET (0..N)
  BY AtEnd, SMT DEF Positions
<1>2. ASSUME NEW i \in 0..N, Goes(i) PROVE Onward(i) \in K /\ Onward(i) > i /\ Onward(i) \in i + 1..N
  <2>1. At(t, i) # "end"
    BY <1>2 DEF Space
  <2>2. i \in 1..Len(t)
    <3>1. i \in Int
      BY <1>1, SMT
    <3>2. QED
      BY <2>1, <3>1, AtEnd
  <2>3. CASE At(t, i) \in Space
    BY <1>1, <2>2, <2>3, SMT
  <2>4. CASE At(t, i) \notin Space
    <3> DEFINE c == skip_comment(t, i)
    <3>1. c.v = "ok" /\ Stays(t, i + 1, c)
      BY <1>2, <2>2, <2>4, CommentStays
    <3>2. Onward(i) = c.p + step
      BY <2>4
    <3> HIDE DEF c, Onward, Goes
    <3>3. c.p \in 1..Len(t) /\ c.p \in i + 1..Len(t) + 1
      BY <3>1, AtEnd DEF Stays
    <3>4. QED
      BY <1>1, <2>2, <3>2, <3>3, SMT
  <2>5. QED
    BY <2>3, <2>4
<1>3. -1 \notin 0..N
  BY SMT
<1>4. \A i \in 0..N : jump[i] = (IF Goes(i) THEN Onward(i) ELSE -1) /\ res[i] = Verdict(i)
  OBVIOUS
<1> HIDE DEF jump, res
<1>5. Forward(jump, N)
  <2> HIDE DEF Goes, Onward
  <2> QED
    BY <1>2, <1>4 DEF Forward
<1>6. ASSUME NEW i \in 0..N, NEW g
      PROVE  Body(g, i) = IF jump[i] = -1 THEN res[i] ELSE g[jump[i]]
  <2>1. CASE Goes(i)
    <3>1. Onward(i) \in 0..N
      BY <1>1, <1>2, <2>1
    <3>2. jump[i] = Onward(i) /\ jump[i] # -1
      <4> HIDE DEF Goes, Onward
      <4> QED
        BY <1>3, <1>4, <2>1, <3>1
    <3>3. Body(g, i) = g[Onward(i)]
      BY <2>1 DEF Space, After
    <3>4. QED
      BY <3>2, <3>3
  <2>2. CASE ~Goes(i)
    <3>1. jump[i] = -1 /\ res[i] = Verdict(i)
      BY <1>4, <2>2
    <3>2. Body(g, i) = Verdict(i)
      BY <2>2 DEF After
    <3>3. QED
      BY <3>1, <3>2
  <2>3. QED
    BY <2>1, <2>2
<1>7. \A g : Opens(g) <=> Loop(g, jump, res, N)
  <2>1. \A g : Opens(g) <=> g = [i \in 0..N |-> Body(g, i)]
    BY <1>1 DEF SeeksRoot
  <2> HIDE DEF Body
  <2>2. QED
    BY <1>6, <2>1 DEF Loop
<1> DEFINE open == CHOOSE g : Opens(g)
<1>8. \A i : Opening(t, i, step) = open[i]
  BY DEF Opening, SeeksRoot
<1>9. Loop(open, jump, res, N)
  <2>1. \E g : Loop(g, jump, res, N)
    BY <1>1, <1>5, LoopExists
  <2> HIDE DEF Opens
  <2>2. QED
    BY <1>7, <2>1
<1> HIDE DEF open
<1>10. \A i \in K : i \in 0..N /\ i + 0 = i
  BY <1>1, SMT
<1>11. Steady(t, K, 0, jump, res)
  <2>1. ASSUME NEW i \in K, ~Goes(i) PROVE Stays(t, i, Verdict(i))
    <3>1. i \in Int /\ i \in Nat /\ i + 1 \in Nat /\ i <= Len(t) + 1 /\ i <= i /\ i <= i + 1
      BY <1>1, SMT
    <3>2. CASE At(t, i) = "end"
      <4>1. i = Len(t) + 1
        <5>1. i \notin 1..Len(t)
          BY <3>1, <3>2, AtEnd
        <5>2. QED
          BY <1>1, <5>1, SMT
      <4>2. Stays(t, i, More(i))
        BY <3>1, <4>1, StaysIs
      <4>3. QED
        BY <3>2, <4>2
    <3>3. CASE At(t, i) # "end"
      <4>1. i \in 1..Len(t)
        BY <3>1, <3>3, AtEnd
      <4>2. Stays(t, i + 1, skip_comment(t, i))
        BY <4>1, CommentStays
      <4>3. Stays(t, i, skip_comment(t, i))
        BY <3>1, <4>2, StaysBefore
      <4>4. Stays(t, i, Ok(i)) /\ Stays(t, i, Wrong(i))
        BY <3>1, <4>1, StaysIs
      <4>5. QED
        BY <3>3, <4>3, <4>4
    <3>4. QED
      BY <3>2, <3>3
  <2> HIDE DEF K, Goes, Onward, Verdict
  <2>2. QED
    BY <1>2, <1>4, <1>10, <2>1 DEF Steady
<1>12. \A i \in K : Stays(t, i + 0, open[i])
  BY <1>1, <1>9, <1>11, LoopStays
<1>13. \A p \in 1..Len(t) : p \in K
  BY <1>1, SMT
<1>14. QED
  BY <1>8, <1>10, <1>12, <1>13

-----------------------------------------------------------------------------
(* Strings.                                                                *)

\* f is the recursive function of String.
ReadsString(f, t, taken, pairs) ==
  f = [i \in Positions(t) |->
        CASE At(t, i + 1) = "end" -> More(i + 1)
          [] At(t, i + 1) = "Q" -> Ok(i + 1)
          [] At(t, i + 1) = "cont" -> Silent(i + 1)
          [] At(t, i + 1) \in Lead -> Utf8(t, i + 1, f)
          [] At(t, i + 1) = "\\" -> Escaped(t, i + 2, taken, pairs, f)
          [] OTHER -> f[i + 1]]

\* A row of characters that are taken does not go beyond the terminator.
LEMMA TakenProps ==
  ASSUME NEW t \in Texts, NEW p \in 1..Len(t) + 1, NEW n \in Nat, NEW chars, "end" \notin chars
  PROVE  Taken(t, p, n, chars) \in p..p + n /\ Taken(t, p, n, chars) <= Len(t) + 1
<1> DEFINE S == {q \in p..p + n : q = p + n \/ At(t, q) \notin chars}
<1>1. Len(t) \in Nat /\ p \in Nat /\ p + n \in p..p + n /\ p..p + n \subseteq Nat
  BY AtEnd, SMT
<1>2. p + n \in S /\ S \subseteq Nat
  BY <1>1
<1>3. \E x \in S : \A y \in S : x <= y
  BY <1>2, LeastExists
<1>4. Taken(t, p, n, chars) \in S /\ \A y \in S : Taken(t, p, n, chars) <= y
  BY <1>3 DEF Taken, Min
<1>5. CASE p + n <= Len(t) + 1
  BY <1>1, <1>4, <1>5, SMT
<1>6. CASE ~(p + n <= Len(t) + 1)
  <2>1. Len(t) + 1 \in p..p + n
    BY <1>1, <1>6, SMT
  <2>2. At(t, Len(t) + 1) = "end"
    BY <1>1, AtEnd, SMT
  <2>3. Len(t) + 1 \in S
    BY <2>1, <2>2
  <2>4. QED
    BY <1>4, <2>3
<1>7. QED
  BY <1>5, <1>6

\* What is said of a character that is not taken.
LEMMA RefusedStays ==
  ASSUME NEW t \in Texts, NEW p \in 1..Len(t) + 1, NEW o \in Nat, o <= p
  PROVE  Stays(t, o, Refused(t, p)) /\ (At(t, p) = "end" => Stays(t, o, More(p)))
<1>1. Len(t) \in Nat /\ p \in Int /\ p <= Len(t) + 1
  BY AtEnd, SMT
<1>2. At(t, p) = "end" => p = Len(t) + 1
  <2>1. At(t, p) = "end" => p \notin 1..Len(t)
    BY <1>1, AtEnd
  <2>2. p \notin 1..Len(t) => p = Len(t) + 1
    BY <1>1, SMT
  <2>3. QED
    BY <2>1, <2>2
<1>3. QED
  BY <1>1, <1>2, StaysIs DEF Refused

\* Before the terminator there is a next position.
LEMMA HasNext ==
  ASSUME NEW t \in Texts, NEW p \in 1..Len(t) + 1, At(t, p) # "end"
  PROVE  p \in 1..Len(t) /\ p + 1 \in 1..Len(t) + 1
<1>1. Len(t) \in Nat /\ p \in Int
  BY AtEnd, SMT
<1>2. p \in 1..Len(t)
  BY <1>1, AtEnd
<1>3. QED
  BY <1>1, <1>2, SMT

\* What is said of the second half of a surrogate pair.
LEMMA SecondHalfStays ==
  ASSUME NEW t \in Texts, NEW p \in 1..Len(t) + 1, NEW o \in Nat, o <= p,
         NEW taken \in SUBSET Hex
  PROVE  Stays(t, o, SecondHalf(t, p, taken))
<1> DEFINE k == Taken(t, p + 2, 4, taken)
<1>1. Len(t) \in Nat /\ p \in Int
  BY AtEnd, SMT
<1>2. CASE At(t, p) # "\\"
  BY <1>2, RefusedStays DEF SecondHalf
<1>3. CASE At(t, p) = "\\" /\ At(t, p + 1) # "u"
  <2>1. p + 1 \in 1..Len(t) + 1 /\ o <= p + 1
    BY <1>1, <1>3, HasNext, SMT
  <2>2. QED
    BY <1>3, <2>1, RefusedStays DEF SecondHalf
<1>4. CASE At(t, p) = "\\" /\ At(t, p + 1) = "u"
  <2>1. p + 1 \in 1..Len(t) + 1
    BY <1>4, HasNext
  <2>2. (p + 1) + 1 \in 1..Len(t) + 1
    BY <1>4, <2>1, HasNext
  <2>3. p + 2 \in 1..Len(t) + 1 /\ (p + 2) + 4 = p + 6
    BY <1>1, <2>2, SMT
  <2>4. "end" \notin taken
    BY DEF Hex, Digit
  <2>5. k \in p + 2..p + 6 /\ k <= Len(t) + 1
    BY <2>3, <2>4, TakenProps
  <2> HIDE DEF k
  <2>6. k \in 1..Len(t) + 1 /\ o <= k
    BY <1>1, <2>5, SMT
  <2>7. Stays(t, o, Refused(t, k))
    BY <2>6, RefusedStays
  <2>8. k = p + 6 => Stays(t, o, Wrong(p + 5))
    <3>1. k = p + 6 => p + 5 \in Int /\ o <= p + 5 /\ p + 5 <= Len(t) + 1
      BY <1>1, <2>5, SMT
    <3>2. QED
      BY <3>1, StaysIs
  <2>9. SecondHalf(t, p, taken) = IF k = p + 6 THEN Wrong(p + 5) ELSE Refused(t, k)
    BY <1>4 DEF SecondHalf, k
  <2>10. QED
    BY <2>7, <2>8, <2>9
<1>5. QED
  BY <1>2, <1>3, <1>4

\* Where a character of several bytes ends, and what is said if it does not.
Utf8Size(t, p) == IF At(t, p) = "utf2" THEN 2 ELSE 3
Utf8Stop(t, p) == Taken(t, p + 1, Utf8Size(t, p) - 1, {"cont"})
Utf8Goes(t, p) == Utf8Stop(t, p) = p + Utf8Size(t, p)

Utf8Verdict(t, p) ==
  IF At(t, Utf8Stop(t, p)) = "end" THEN More(Utf8Stop(t, p)) ELSE Silent(Utf8Stop(t, p))

LEMMA Utf8Steps ==
  ASSUME NEW t, NEW p, NEW g
  PROVE  Utf8(t, p, g) = IF Utf8Goes(t, p) THEN g[Utf8Stop(t, p) - 1] ELSE Utf8Verdict(t, p)
<1> DEFINE n == IF At(t, p) = "utf2" THEN 2 ELSE 3
           k == Taken(t, p + 1, n - 1, {"cont"})
<1>1. Utf8(t, p, g) = CASE k = p + n -> g[k - 1]
                        [] k # p + n /\ At(t, k) = "end" -> More(k)
                        [] OTHER -> Silent(k)
  BY DEF Utf8
<1>2. Utf8Goes(t, p) = (k = p + n) /\ Utf8Stop(t, p) = k
  BY DEF Utf8Goes, Utf8Stop, Utf8Size
<1>3. Utf8Verdict(t, p) = IF At(t, k) = "end" THEN More(k) ELSE Silent(k)
  BY <1>2 DEF Utf8Verdict
<1> HIDE DEF n, k
<1>4. CASE k = p + n
  BY <1>1, <1>2, <1>4
<1>5. CASE k # p + n
  BY <1>1, <1>2, <1>3, <1>5
<1>6. QED
  BY <1>4, <1>5

LEMMA Utf8Stays ==
  ASSUME NEW t \in Texts, NEW p \in 1..Len(t)
  PROVE  /\ Utf8Goes(t, p) => Utf8Stop(t, p) - 1 \in 1..Len(t) /\ Utf8Stop(t, p) - 1 > p
         /\ Stays(t, p, Utf8Verdict(t, p))
<1> DEFINE n == IF At(t, p) = "utf2" THEN 2 ELSE 3
           k == Taken(t, p + 1, n - 1, {"cont"})
<1>1. Len(t) \in Nat /\ p \in Nat /\ p + 1 \in 1..Len(t) + 1 /\ n \in {2, 3} /\ n - 1 \in Nat
  BY AtEnd, SMT
<1>2. k \in p + 1..(p + 1) + (n - 1) /\ k <= Len(t) + 1
  <2>1. "end" \notin {"cont"}
    OBVIOUS
  <2> HIDE DEF n
  <2>2. QED
    BY <1>1, <2>1, TakenProps
<1>3. Utf8Goes(t, p) = (k = p + n) /\ Utf8Stop(t, p) = k
  BY DEF Utf8Goes, Utf8Stop, Utf8Size
<1>4. Utf8Verdict(t, p) = IF At(t, k) = "end" THEN More(k) ELSE Silent(k)
  BY <1>3 DEF Utf8Verdict
<1> HIDE DEF n, k
<1>5. k \in 1..Len(t) + 1 /\ k \in Int /\ p <= k /\ (k = p + n => k - 1 \in 1..Len(t) /\ k - 1 > p)
  BY <1>1, <1>2, SMT
<1>6. At(t, k) = "end" => Stays(t, p, More(k))
  BY <1>1, <1>5, RefusedStays
<1>7. Stays(t, p, Silent(k))
  BY <1>1, <1>2, <1>5, StaysIs
<1>8. QED
  BY <1>3, <1>4, <1>5, <1>6, <1>7

\* Whether the loop goes on after a "\" before p, and where; what is said if not.
EscapeStop(t, p, taken) == Taken(t, p + 1, 4, taken)

EscapeGoes(t, p, taken, pairs) ==
  \/ At(t, p) \in {"Q", "\\", "/"}
  \/ At(t, p) = "u" /\ EscapeStop(t, p, taken) = p + 5 /\ ~(pairs /\ High(t, p + 1))

EscapeTail(t, p, taken) == IF At(t, p) = "u" THEN EscapeStop(t, p, taken) - 1 ELSE p

EscapeVerdict(t, p, taken) ==
  IF At(t, p) # "u" THEN Refused(t, p)
  ELSE IF EscapeStop(t, p, taken) = p + 5 THEN SecondHalf(t, EscapeStop(t, p, taken), taken)
  ELSE Refused(t, EscapeStop(t, p, taken))

LEMMA EscapedSteps ==
  ASSUME NEW t, NEW p, NEW g, NEW taken, NEW pairs \in BOOLEAN
  PROVE  Escaped(t, p, taken, pairs, g) =
           IF EscapeGoes(t, p, taken, pairs) THEN g[EscapeTail(t, p, taken)]
                                             ELSE EscapeVerdict(t, p, taken)
<1> DEFINE k == EscapeStop(t, p, taken)
           high == pairs /\ High(t, p + 1)
<1>1. Escaped(t, p, taken, pairs, g) =
        CASE At(t, p) \in {"Q", "\\", "/"} -> g[p]
          [] At(t, p) = "u" /\ k = p + 5 /\ ~high -> g[k - 1]
          [] At(t, p) = "u" /\ k = p + 5 /\ high -> SecondHalf(t, k, taken)
          [] At(t, p) = "u" /\ k # p + 5 -> Refused(t, k)
          [] OTHER -> Refused(t, p)
  BY DEF Escaped, EscapeStop
<1>2. /\ EscapeGoes(t, p, taken, pairs) =
           (At(t, p) \in {"Q", "\\", "/"} \/ (At(t, p) = "u" /\ k = p + 5 /\ ~high))
      /\ EscapeTail(t, p, taken) = IF At(t, p) = "u" THEN k - 1 ELSE p
      /\ EscapeVerdict(t, p, taken) = IF At(t, p) # "u" THEN Refused(t, p)
                                      ELSE IF k = p + 5 THEN SecondHalf(t, k, taken)
                                      ELSE Refused(t, k)
  BY DEF EscapeGoes, EscapeTail, EscapeVerdict
<1> HIDE DEF k, high
<1>3. CASE At(t, p) \in {"Q", "\\", "/"}
  BY <1>1, <1>2, <1>3
<1>4. CASE At(t, p) = "u"
  <2>1. CASE k = p + 5 /\ ~high
    BY <1>1, <1>2, <1>4, <2>1
  <2>2. CASE k = p + 5 /\ high
    BY <1>1, <1>2, <1>4, <2>2
  <2>3. CASE k # p + 5
    BY <1>1, <1>2, <1>4, <2>3
  <2>4. QED
    BY <2>1, <2>2, <2>3
<1>5. CASE At(t, p) \notin {"Q", "\\", "/", "u"}
  BY <1>1, <1>2, <1>5
<1>6. QED
  BY <1>3, <1>4, <1>5

\* Where the loop goes on after a "\", and what is said if it does not.
LEMMA EscapeStays ==
  ASSUME NEW t \in Texts, NEW p \in 1..Len(t) + 1, NEW o \in Nat, o <= p,
         NEW taken \in SUBSET Hex, NEW pairs \in BOOLEAN
  PROVE  /\ EscapeGoes(t, p, taken, pairs) => EscapeTail(t, p, taken) \in p..Len(t)
         /\ Stays(t, o, EscapeVerdict(t, p, taken))
<1> DEFINE k == EscapeStop(t, p, taken)
<1>1. Len(t) \in Nat /\ p \in Nat
  BY AtEnd, SMT
<1>2. CASE At(t, p) # "u"
  <2>1. EscapeGoes(t, p, taken, pairs) => At(t, p) # "end"
    BY <1>2 DEF EscapeGoes
  <2>2. At(t, p) # "end" => p \in p..Len(t)
    BY <1>1, HasNext, SMT
  <2>3. QED
    BY <1>2, <2>1, <2>2, RefusedStays DEF EscapeTail, EscapeVerdict
<1>3. CASE At(t, p) = "u"
  <2>1. p + 1 \in 1..Len(t) + 1 /\ (p + 1) + 4 = p + 5 /\ "end" \notin taken
    <3>1. p + 1 \in 1..Len(t) + 1
      BY <1>3, HasNext
    <3>2. "end" \notin taken
      BY DEF Hex, Digit
    <3>3. QED
      BY <1>1, <3>1, <3>2, SMT
  <2>2. k \in p + 1..p + 5 /\ k <= Len(t) + 1
    BY <2>1, TakenProps DEF EscapeStop
  <2> HIDE DEF k
  <2>3. k \in 1..Len(t) + 1 /\ o <= k /\ k - 1 \in p..Len(t)
    BY <1>1, <2>2, SMT
  <2>4. Stays(t, o, Refused(t, k)) /\ Stays(t, o, SecondHalf(t, k, taken))
    BY <2>3, RefusedStays, SecondHalfStays
  <2>5. QED
    BY <1>3, <2>3, <2>4 DEF EscapeTail, EscapeVerdict, k
<1>4. QED
  BY <1>2, <1>3

\* A string, whichever hexadecimal digits the reader understands.
LEMMA StringStays ==
  ASSUME NEW t \in Texts, NEW taken \in SUBSET Hex, NEW pairs \in BOOLEAN
  PROVE  \A p \in 1..Len(t) : Stays(t, p + 1, String(t, p, taken, pairs))
<1> DEFINE N == Len(t) + 1
           K == 1..Len(t)
           Goes(i) == \/ At(t, i + 1) = "\\" /\ EscapeGoes(t, i + 2, taken, pairs)
                      \/ At(t, i + 1) \in Lead /\ Utf8Goes(t, i + 1)
                      \/ At(t, i + 1) \notin {"end", "Q", "cont", "\\"} \cup Lead
           Onward(i) == IF At(t, i + 1) = "\\" THEN EscapeTail(t, i + 2, taken)
                        ELSE IF At(t, i + 1) \in Lead THEN Utf8Stop(t, i + 1) - 1 ELSE i + 1
           Verdict(i) == IF At(t, i + 1) = "end" THEN More(i + 1)
                         ELSE IF At(t, i + 1) = "Q" THEN Ok(i + 1)
                         ELSE IF At(t, i + 1) = "cont" THEN Silent(i + 1)
                         ELSE IF At(t, i + 1) \in Lead THEN Utf8Verdict(t, i + 1)
                         ELSE EscapeVerdict(t, i + 2, taken)
           jump == [i \in 0..N |-> IF Goes(i) THEN Onward(i) ELSE -1]
           res == [i \in 0..N |-> Verdict(i)]
           Body(g, i) == CASE At(t, i + 1) = "end" -> More(i + 1)
                           [] At(t, i + 1) = "Q" -> Ok(i + 1)
                           [] At(t, i + 1) = "cont" -> Silent(i + 1)
                           [] At(t, i + 1) \in Lead -> Utf8(t, i + 1, g)
                           [] At(t, i + 1) = "\\" -> Escaped(t, i + 2, taken, pairs, g)
                           [] OTHER -> g[i + 1]
           Reads(g) == ReadsString(g, t, taken, pairs)
<1>1. N \in Nat /\ Positions(t) = 0..N /\ Len(t) \in Nat /\ K \in SUBSET (0..N)
  BY AtEnd, SMT DEF Positions
<1>2. ASSUME NEW i \in 0..N, Goes(i) PROVE Onward(i) \in K /\ Onward(i) > i /\ Onward(i) \in i + 1..N
  <2>1. i + 1 \in Int /\ "end" \notin Lead /\ "\\" \notin Lead
    BY <1>1, SMT DEF Lead
  <2>2. CASE At(t, i + 1) = "\\"
    <3>1. EscapeGoes(t, i + 2, taken, pairs) /\ Onward(i) = EscapeTail(t, i + 2, taken)
      BY <1>2, <2>1, <2>2
    <3> HIDE DEF Onward, Goes
    <3>2. i + 1 \in 1..Len(t)
      BY <2>1, <2>2, AtEnd
    <3>3. i + 2 \in 1..Len(t) + 1 /\ 0 \in Nat /\ 0 <= i + 2
      BY <1>1, <3>2, SMT
    <3>4. EscapeTail(t, i + 2, taken) \in i + 2..Len(t)
      BY <3>1, <3>3, EscapeStays
    <3>5. QED
      BY <1>1, <3>1, <3>4, SMT
  <2>3. CASE At(t, i + 1) \in Lead
    <3>1. Utf8Goes(t, i + 1) /\ Onward(i) = Utf8Stop(t, i + 1) - 1
      BY <1>2, <2>1, <2>3
    <3> HIDE DEF Onward, Goes
    <3>2. i + 1 \in 1..Len(t)
      BY <2>1, <2>3, AtEnd
    <3>3. Utf8Stop(t, i + 1) - 1 \in 1..Len(t) /\ Utf8Stop(t, i + 1) - 1 > i + 1
      BY <3>1, <3>2, Utf8Stays
    <3>4. QED
      BY <1>1, <3>1, <3>3, SMT
  <2>4. CASE At(t, i + 1) \notin {"\\"} \cup Lead
    <3>1. At(t, i + 1) # "end" /\ Onward(i) = i + 1
      BY <1>2, <2>4
    <3>2. i + 1 \in 1..Len(t)
      BY <2>1, <3>1, AtEnd
    <3> HIDE DEF Onward, Goes
    <3>3. QED
      BY <1>1, <3>1, <3>2, SMT
  <2>5. QED
    BY <2>2, <2>3, <2>4
<1>3. -1 \notin 0..N
  BY SMT
<1>4. \A i \in 0..N : jump[i] = (IF Goes(i) THEN Onward(i) ELSE -1) /\ res[i] = Verdict(i)
  OBVIOUS
<1> HIDE DEF jump, res
<1>5. Forward(jump, N)
  <2> HIDE DEF Goes, Onward
  <2> QED
    BY <1>2, <1>4 DEF Forward
<1>6. ASSUME NEW i \in 0..N, NEW g
      PROVE  Body(g, i) = IF jump[i] = -1 THEN res[i] ELSE g[jump[i]]
  <2>1. Escaped(t, i + 2, taken, pairs, g) =
          IF EscapeGoes(t, i + 2, taken, pairs) THEN g[EscapeTail(t, i + 2, taken)]
                                                ELSE EscapeVerdict(t, i + 2, taken)
    BY EscapedSteps
  <2>2. Utf8(t, i + 1, g) = IF Utf8Goes(t, i + 1) THEN g[Utf8Stop(t, i + 1) - 1]
                                                  ELSE Utf8Verdict(t, i + 1)
    BY Utf8Steps
  <2>3. \A c \in Lead : c \notin {"end", "Q", "cont", "\\"}
    BY DEF Lead
  <2>4. CASE Goes(i)
    <3>1. Onward(i) \in 0..N
      BY <1>1, <1>2, <2>4
    <3>2. jump[i] = Onward(i) /\ jump[i] # -1
      <4> HIDE DEF Goes, Onward
      <4> QED
        BY <1>3, <1>4, <2>4, <3>1
    <3>3. Body(g, i) = g[Onward(i)]
      BY <2>1, <2>2, <2>3, <2>4
    <3>4. QED
      BY <3>2, <3>3
  <2>5. CASE ~Goes(i)
    <3>1. jump[i] = -1 /\ res[i] = Verdict(i)
      BY <1>4, <2>5
    <3>2. Body(g, i) = Verdict(i)
      BY <2>1, <2>2, <2>3, <2>5
    <3>3. QED
      BY <3>1, <3>2
  <2>6. QED
    BY <2>4, <2>5
<1>7. \A g : Reads(g) <=> Loop(g, jump, res, N)
  <2>1. \A g : Reads(g) <=> g = [i \in 0..N |-> Body(g, i)]
    BY <1>1 DEF ReadsString
  <2> HIDE DEF Body
  <2>2. QED
    BY <1>6, <2>1 DEF Loop
<1> DEFINE rest == CHOOSE g : Reads(g)
<1>8. \A i : String(t, i, taken, pairs) = rest[i]
  BY DEF String, ReadsString
<1>9. Loop(rest, jump, res, N)
  <2>1. \E g : Loop(g, jump, res, N)
    BY <1>1, <1>5, LoopExists
  <2> HIDE DEF Reads
  <2>2. QED
    BY <1>7, <2>1
<1> HIDE DEF rest
<1>10. Steady(t, K, 1, jump, res)
  <2>1. ASSUME NEW i \in K, ~Goes(i) PROVE Stays(t, i + 1, Verdict(i))
    <3>1. i + 1 \in Int /\ i + 1 \in Nat /\ i + 1 <= Len(t) + 1 /\ i + 1 <= i + 1 /\ i + 1 <= i + 2
      BY <1>1, SMT
    <3>2. CASE At(t, i + 1) = "end"
      <4>1. i + 1 = Len(t) + 1
        <5>1. i + 1 \notin 1..Len(t)
          BY <3>1, <3>2, AtEnd
        <5>2. QED
          BY <1>1, <5>1, SMT
      <4>2. Stays(t, i + 1, More(i + 1))
        BY <3>1, <4>1, StaysIs
      <4>3. QED
        BY <3>2, <4>2
    <3>3. CASE At(t, i + 1) # "end"
      <4>1. i + 1 \in 1..Len(t)
        BY <3>1, <3>3, AtEnd
      <4>2. Stays(t, i + 1, Ok(i + 1)) /\ Stays(t, i + 1, Silent(i + 1))
        BY <3>1, <4>1, StaysIs
      <4>3. i + 2 \in 1..Len(t) + 1
        BY <1>1, <4>1, SMT
      <4>4. Stays(t, i + 1, EscapeVerdict(t, i + 2, taken))
        BY <3>1, <4>3, EscapeStays
      <4>5. Stays(t, i + 1, Utf8Verdict(t, i + 1))
        BY <4>1, Utf8Stays
      <4>6. QED
        BY <3>3, <4>2, <4>4, <4>5
    <3>4. QED
      BY <3>2, <3>3
  <2>2. \A i \in K : i \in 0..N
    BY <1>1
  <2> HIDE DEF K, Goes, Onward, Verdict
  <2>3. QED
    BY <1>2, <1>4, <2>1, <2>2 DEF Steady
<1>11. \A i \in K : Stays(t, i + 1, rest[i])
  BY <1>1, <1>9, <1>10, LoopStays
<1>12. QED
  BY <1>8, <1>11

-----------------------------------------------------------------------------
(* The theorems.                                                           *)

\* No scanner of the three readers looks beyond the terminator of a text, and each
\* has reached it when it asks for more (the skip_ macros, json_skip_comment,
\* json_check_number and json_call_number, and the three readers of strings).
THEOREM ScannersKept == \A t \in Texts : ScannersStay(t)
<1> SUFFICES ASSUME NEW t \in Texts PROVE ScannersStay(t)
  OBVIOUS
<1>1. DOMAIN t = 1..Len(t) /\ \A p \in 1..Len(t) : p \in Nat
  BY AtEnd, SMT
<1>2. \A p \in 0..Len(t) : Stays(t, p + 1, Beyond(t, p))
  BY BeyondStays
<1>3. \A p \in 1..Len(t) : Stays(t, p, Opening(t, p, 0)) /\ Stays(t, p, Opening(t, p, 1))
  BY OpeningStays
<1>4. \A p \in 1..Len(t) : Stays(t, p + 1, skip_comment(t, p))
  BY CommentStays
<1>5. \A p \in 1..Len(t) : t[p] \in Digit \cup {"-"} =>
        Stays(t, p, check_number(t, p)) /\ Stays(t, p, call_number(t, p))
  BY NumberStays
<1>6. \A p \in 1..Len(t) : /\ Stays(t, p + 1, check_string(t, p))
                          /\ Stays(t, p + 1, parse_string(t, p))
                          /\ Stays(t, p + 1, call_string(t, p))
  <2>1. Hex \in SUBSET Hex /\ Hex \ {"d"} \in SUBSET Hex
    OBVIOUS
  <2>2. QED
    BY <2>1, StringStays DEF check_string, parse_string, call_string
<1>7. QED
  BY <1>1, <1>2, <1>3, <1>4, <1>5, <1>6 DEF ScannersStay

\* In any text, json_skip_comment ends a block comment where the comment ends, but
\* for a "*" that hides the next one, and never before.
THEOREM CommentsEnd == \A t \in Texts : BlockComments(t)
BY BlockEndComments

=============================================================================

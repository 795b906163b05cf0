------------------------ MODULE TouchScreen_proofs ------------------------
(***************************************************************************)
(* Proofs about touches, for any list of areas, any fingers and any number *)
(* of pointers that move at once: motionEvent's pointers follow the        *)
(* fingers, the two tracking vectors stay in step, and a short touch is    *)
(* told as what it was.                                                    *)
(*                                                                         *)
(* recordTrack walks over the areas in a recursive function; that it is    *)
(* one, and what it keeps at each step, is shown by induction over a set.  *)
(***************************************************************************)
EXTENDS TouchScreen, FiniteSetTheorems, SequenceTheorems, WellFoundedInduction, TLAPS

\* Induction over the naturals, for a set (a property would be an operator parameter).
LEMMA SetInduction ==
  ASSUME NEW S, 0 \in S, \A n \in Nat : n \in S => n + 1 \in S
  PROVE  \A n \in Nat : n \in S
<1>1. SUFFICES ASSUME Nat \ S # {} PROVE FALSE
  OBVIOUS
<1>2. PICK x \in Nat \ S : \A y \in Nat \ S : ~(<<y, x>> \in OpToRel(<, Nat))
  BY <1>1, NatLessThanWellFounded, WFMin, Zenon
<1>3. x # 0 /\ x - 1 \in Nat
  BY SMT
<1>4. <<x - 1, x>> \in OpToRel(<, Nat)
  BY <1>3, SMT DEF OpToRel
<1>5. x - 1 \in S
  BY <1>2, <1>3, <1>4
<1>6. QED
  BY <1>3, <1>5

\* A set of naturals that is not empty has a least one.
LEMMA LeastExists ==
  ASSUME NEW S, S \subseteq Nat, S # {}
  PROVE  \E x \in S : \A y \in S : x <= y
<1>1. PICK x \in S : \A y \in S : ~(<<y, x>> \in OpToRel(<, Nat))
  BY NatLessThanWellFounded, WFMin, Zenon
<1>2. ASSUME NEW y \in S, y < x PROVE FALSE
  <2>1. <<y, x>> \in OpToRel(<, Nat)
    BY <1>2, SMT DEF OpToRel
  <2>2. QED
    BY <1>1, <2>1
<1>3. QED
  BY <1>2, SMT

\* next takes an element of T at each of N steps to one of T.
Closed(next, T, N) == \A t \in T, n \in 1..N : next[<<t, n>>] \in T

\* f iterates next N times, from base.
Iterates(f, next, base, T, N) ==
  /\ f \in [0..N -> T]
  /\ f[0] = base
  /\ \A n \in 1..N : f[n] = next[<<f[n - 1], n>>]

\* What a recursive function defines by a step from its predecessor exists.
LEMMA RecursionExists ==
  ASSUME NEW T, NEW N \in Nat, NEW base \in T, NEW next, Closed(next, T, N)
  PROVE  \E f : Iterates(f, next, base, T, N)
<1> DEFINE Good(n) == \E f \in [0..n -> T] : /\ f[0] = base
                                /\ \A i \in 1..n : f[i] = next[<<f[i - 1], i>>]
           S == {n \in Nat : n <= N => Good(n)}
<1>1. 0 \in S
  <2>1. /\ [i \in 0..0 |-> base] \in [0..0 -> T] /\ [i \in 0..0 |-> base][0] = base
        /\ \A i \in 1..0 : FALSE
    BY SMT
  <2>2. Good(0)
    BY <2>1
  <2>3. QED
    BY <2>2
<1>2. ASSUME NEW n \in Nat, n \in S PROVE n + 1 \in S
  <2>1. SUFFICES ASSUME n + 1 <= N PROVE Good(n + 1)
    BY SMT
  <2>2. PICK f \in [0..n -> T] : f[0] = base /\ \A i \in 1..n : f[i] = next[<<f[i - 1], i>>]
    BY <1>2, <2>1, SMT
  <2> DEFINE g == [i \in 0..n + 1 |-> IF i = n + 1 THEN next[<<f[n], n + 1>>] ELSE f[i]]
  <2>3. next[<<f[n], n + 1>>] \in T
    BY <2>1, <2>2, SMT DEF Closed
  <2>4. g \in [0..n + 1 -> T]
    BY <2>2, <2>3, SMT
  <2>5. g[0] = base
    BY <2>2, SMT
  <2>6. ASSUME NEW i \in 1..n + 1 PROVE g[i] = next[<<g[i - 1], i>>]
    <3>1. CASE i = n + 1
      <4>1. g[i] = next[<<f[n], n + 1>>] /\ g[i - 1] = f[n]
        BY <3>1, SMT
      <4>2. QED BY <3>1, <4>1
    <3>2. CASE i # n + 1
      <4>1. i \in 1..n /\ g[i] = f[i] /\ g[i - 1] = f[i - 1]
        BY <3>2, SMT
      <4>2. QED BY <4>1, <2>2
    <3>3. QED BY <3>1, <3>2
  <2> HIDE DEF g
  <2>7. QED
    BY <2>4, <2>5, <2>6
<1> HIDE DEF S
<1>3. N \in S
  BY <1>1, <1>2, SetInduction
<1>4. Good(N)
  BY <1>3, SMT DEF S
<1>5. QED
  BY <1>4 DEF Iterates

-----------------------------------------------------------------------------
(* The operators of the model: lists.                                      *)

\* findPointerIndex returns an index of the id, or none when there is none.
LEMMA FindProps ==
  ASSUME NEW S, NEW list \in Seq(S), NEW id
  PROVE  /\ Find(list, id) = 0 => \A i \in DOMAIN list : list[i].id # id
         /\ Find(list, id) # 0 => /\ Find(list, id) \in DOMAIN list
                                 /\ list[Find(list, id)].id = id
         /\ Find(list, id) \in Nat
<1> DEFINE I == {i \in 1..Len(list) : list[i].id = id}
<1>1. I # {} => \E m \in I : \A y \in I : m <= y
  <2>1. I \subseteq Nat
    BY SMT
  <2>2. QED
    BY <2>1, LeastExists
<1>2. Find(list, id) = IF \E i \in DOMAIN list : list[i].id = id
                       THEN IF I # {} THEN CHOOSE m \in I : \A y \in I : m <= y ELSE 0 ELSE 0
  BY DEF Find, SelectInSeq, Min
<1>3. DOMAIN list = 1..Len(list) /\ 1..Len(list) \subseteq Nat \ {0} /\ 0 \in Nat
  BY SMT
<1>4. CASE \E i \in DOMAIN list : list[i].id = id
  <2>1. I # {} /\ Find(list, id) \in I
    BY <1>1, <1>2, <1>3, <1>4
  <2>2. QED
    BY <2>1, <1>3
<1>5. CASE ~\E i \in DOMAIN list : list[i].id = id
  BY <1>2, <1>3, <1>5
<1>6. QED
  BY <1>4, <1>5

\* What stays when one element is removed: the others, in their order.
LEMMA RemoveAtProps ==
  ASSUME NEW S, NEW s \in Seq(S), NEW i \in DOMAIN s
  PROVE  /\ RemoveAt(s, i) \in Seq(S)
         /\ Len(RemoveAt(s, i)) = Len(s) - 1
         /\ \A j \in 1..Len(s) - 1 : RemoveAt(s, i)[j] = IF j < i THEN s[j] ELSE s[j + 1]
<1> DEFINE a == SubSeq(s, 1, i - 1)
           b == SubSeq(s, i + 1, Len(s))
<1>1. i \in 1..Len(s) /\ Len(s) \in Nat
  OBVIOUS
<1>2. a \in Seq(S) /\ Len(a) = i - 1 /\ \A j \in 1..i - 1 : a[j] = s[j]
  BY <1>1, SMT
<1>3. b \in Seq(S) /\ Len(b) = Len(s) - i /\ \A j \in 1..Len(s) - i : b[j] = s[i + j]
  BY <1>1, SMT
<1>4. RemoveAt(s, i) = a \o b
  BY DEF RemoveAt
<1> HIDE DEF a, b
<1>5. QED
  BY <1>1, <1>2, <1>3, <1>4, SMT

\* The element that is at j when the one at i has been removed was here before.
Src(j, i) == IF j < i THEN j ELSE j + 1

\* The same, by where each element that stays has come from.
LEMMA RemoveAtSrc ==
  ASSUME NEW S, NEW s \in Seq(S), NEW i \in DOMAIN s
  PROVE  /\ RemoveAt(s, i) \in Seq(S) /\ Len(RemoveAt(s, i)) = Len(s) - 1
         /\ \A j \in DOMAIN RemoveAt(s, i) : /\ Src(j, i) \in DOMAIN s /\ Src(j, i) # i
                                             /\ RemoveAt(s, i)[j] = s[Src(j, i)]
         /\ \A j, m \in DOMAIN RemoveAt(s, i) : j < m <=> Src(j, i) < Src(m, i)
         /\ \A k \in DOMAIN s : k # i => \E j \in DOMAIN RemoveAt(s, i) : Src(j, i) = k
<1> DEFINE r == RemoveAt(s, i)
           n == Len(s)
<1>1. /\ r \in Seq(S) /\ Len(r) = n - 1
      /\ \A j \in 1..n - 1 : r[j] = IF j < i THEN s[j] ELSE s[j + 1]
  BY RemoveAtProps
<1> HIDE DEF r
<1>2. n \in Nat /\ DOMAIN s = 1..n /\ DOMAIN r = 1..n - 1 /\ i \in 1..n
  BY <1>1, SMT
<1> HIDE DEF n
<1>3. ASSUME NEW j \in 1..n - 1
      PROVE  Src(j, i) \in 1..n /\ Src(j, i) # i /\ r[j] = s[Src(j, i)]
  <2>1. CASE j < i
    BY <1>1, <1>2, <2>1, SMT DEF Src
  <2>2. CASE ~(j < i)
    BY <1>1, <1>2, <2>2, SMT DEF Src
  <2>3. QED
    BY <2>1, <2>2
<1>4. \A j, m \in 1..n - 1 : j < m <=> Src(j, i) < Src(m, i)
  BY <1>2, SMT DEF Src
<1>5. ASSUME NEW k \in 1..n, k # i PROVE \E j \in 1..n - 1 : Src(j, i) = k
  <2>1. CASE k < i
    BY <1>2, <2>1, SMT DEF Src
  <2>2. CASE ~(k < i)
    <3>1. k - 1 \in 1..n - 1 /\ Src(k - 1, i) = k
      BY <1>2, <1>5, <2>2, SMT DEF Src
    <3>2. QED BY <3>1
  <2>3. QED
    BY <2>1, <2>2
<1>6. QED
  BY <1>1, <1>2, <1>3, <1>4, <1>5 DEF r, n

-----------------------------------------------------------------------------
(* recordTrack, for every list of areas.                                   *)

\* Tracking vectors in step: no area twice, and told adds up to the last place.
TrackSet ==
  {t \in [list : Seq(Area), last : Seq(Place), told : [Area -> Place \cup {Nowhere}],
          processed : BOOLEAN] :
     /\ Len(t.list) = Len(t.last)
     /\ \A i \in DOMAIN t.list : t.told[t.list[i]] = t.last[i]
     /\ \A i, j \in DOMAIN t.list : t.list[i] = t.list[j] => i = j}

\* The areas that are entered.
Listed(t) == {t.list[i] : i \in DOMAIN t.list}

\* Where an area is in the tracking vectors.
LEMMA TrackedProps ==
  ASSUME NEW t \in TrackSet, NEW a
  PROVE  /\ Tracked(t, a) = 0 => a \notin Listed(t)
         /\ Tracked(t, a) # 0 => Tracked(t, a) \in DOMAIN t.list /\ t.list[Tracked(t, a)] = a
         /\ Tracked(t, a) \in Nat
<1> DEFINE l == [j \in DOMAIN t.list |-> [id |-> t.list[j]]]
<1>1. t.list \in Seq(Area)
  BY DEF TrackSet
<1>2. l \in Seq([id : Area]) /\ DOMAIN l = DOMAIN t.list
  <2>1. Len(t.list) \in Nat /\ DOMAIN t.list = 1..Len(t.list)
    BY <1>1, SMT
  <2>2. \A j \in DOMAIN t.list : [id |-> t.list[j]] \in [id : Area]
    BY <1>1, <2>1, SMT
  <2>3. l \in [1..Len(t.list) -> [id : Area]]
    BY <2>1, <2>2
  <2>4. QED
    BY <2>1, <2>3, SeqDef
<1>3. \A j \in DOMAIN l : l[j].id = t.list[j]
  OBVIOUS
<1>4. Tracked(t, a) = Find(l, a)
  BY DEF Tracked
<1> HIDE DEF l
<1>5. QED
  BY <1>2, <1>3, <1>4, FindProps DEF Listed

\* An area that is entered or moved over keeps the vectors in step.
LEMMA UnderTracks ==
  ASSUME NEW t \in TrackSet, NEW a \in Area, NEW x \in Place, NEW handled
  PROVE  Under(t, a, x, handled) \in TrackSet
<1> DEFINE i == Tracked(t, a)
           enter == [t EXCEPT !.list = Append(@, a), !.last = Append(@, x), !.told[a] = x]
           move == [t EXCEPT !.last[i] = x, !.told[a] = @ + x - t.last[i]]
<1>0. /\ t \in [list : Seq(Area), last : Seq(Place), told : [Area -> Place \cup {Nowhere}],
                 processed : BOOLEAN]
      /\ Len(t.list) = Len(t.last)
      /\ \A j \in DOMAIN t.list : t.told[t.list[j]] = t.last[j]
      /\ \A j, k \in DOMAIN t.list : t.list[j] = t.list[k] => j = k
  BY DEF TrackSet
<1>1. Under(t, a, x, handled) =
        IF t.processed THEN t
        ELSE [(IF i = 0 THEN enter ELSE move) EXCEPT !.processed = a \in handled]
  BY DEF Under
<1>2. ASSUME NEW u \in TrackSet PROVE [u EXCEPT !.processed = a \in handled] \in TrackSet
  <2>1. u \in [list : Seq(Area), last : Seq(Place), told : [Area -> Place \cup {Nowhere}],
               processed : BOOLEAN]
    BY <1>2 DEF TrackSet
  <2> DEFINE v == [u EXCEPT !.processed = a \in handled]
  <2>2. v = [list |-> u.list, last |-> u.last, told |-> u.told, processed |-> a \in handled]
    BY <2>1
  <2> HIDE DEF v
  <2>3. /\ v \in [list : Seq(Area), last : Seq(Place), told : [Area -> Place \cup {Nowhere}],
                  processed : BOOLEAN]
        /\ v.list = u.list /\ v.last = u.last /\ v.told = u.told
    BY <2>1, <2>2
  <2>4. v \in TrackSet
    BY <1>2, <2>3 DEF TrackSet
  <2>5. QED
    BY <2>4 DEF v
<1>3. ASSUME i = 0 PROVE enter \in TrackSet
  <2>1. a \notin Listed(t)
    BY <1>3, TrackedProps
  <2>2. \A j \in DOMAIN t.list : t.list[j] # a
    BY <2>1 DEF Listed
  <2>3. /\ enter \in [list : Seq(Area), last : Seq(Place), told : [Area -> Place \cup {Nowhere}],
                      processed : BOOLEAN]
        /\ enter.list = Append(t.list, a) /\ enter.last = Append(t.last, x)
        /\ enter.told = [t.told EXCEPT ![a] = x]
    <3>1. /\ Append(t.list, a) \in Seq(Area) /\ Append(t.last, x) \in Seq(Place)
          /\ [t.told EXCEPT ![a] = x] \in [Area -> Place \cup {Nowhere}]
      BY <1>0, SMT
    <3>2. enter.list = Append(t.list, a) /\ enter.last = Append(t.last, x)
      BY <1>0
    <3>3. enter.told = [t.told EXCEPT ![a] = x]
      BY <1>0
    <3>4. enter \in [list : Seq(Area), last : Seq(Place),
                     told : [Area -> Place \cup {Nowhere}], processed : BOOLEAN]
      BY <1>0, <3>1
    <3> HIDE DEF enter
    <3>5. QED
      BY <3>2, <3>3, <3>4
  <2>4. Len(enter.list) = Len(enter.last)
    BY <1>0, <2>3, SMT
  <2>5. \A j \in DOMAIN enter.list : enter.told[enter.list[j]] = enter.last[j]
    BY <1>0, <2>2, <2>3, SMT
  <2>6. \A j, k \in DOMAIN enter.list : enter.list[j] = enter.list[k] => j = k
    BY <1>0, <2>2, <2>3, SMT
  <2> HIDE DEF enter
  <2>7. QED
    BY <2>3, <2>4, <2>5, <2>6 DEF TrackSet
<1>4. ASSUME i # 0 PROVE move \in TrackSet
  <2>1. i \in DOMAIN t.list /\ t.list[i] = a /\ i \in Nat
    BY <1>4, TrackedProps
  <2>2. t.told[a] = t.last[i] /\ t.last[i] \in Place /\ i \in DOMAIN t.last
    BY <1>0, <2>1, SMT
  <2>3. t.told[a] + x - t.last[i] = x
    <3>1. t.last[i] \in Int /\ x \in Int
      BY <2>2, TouchAssumption
    <3>2. QED
      BY <2>2, <3>1, SMT
  <2> HIDE DEF i
  <2>4. /\ move \in [list : Seq(Area), last : Seq(Place), told : [Area -> Place \cup {Nowhere}],
                     processed : BOOLEAN]
        /\ move.list = t.list /\ move.last = [t.last EXCEPT ![i] = x]
        /\ move.told = [t.told EXCEPT ![a] = x]
    <3>1. /\ t.last \in Seq(Place) /\ t.list \in Seq(Area)
          /\ t.told \in [Area -> Place \cup {Nowhere}] /\ t.processed \in BOOLEAN
      BY <1>0
    <3>2. /\ [t.last EXCEPT ![i] = x] \in Seq(Place)
          /\ [t.told EXCEPT ![a] = x] \in [Area -> Place \cup {Nowhere}]
      BY <3>1, <2>2, SMT
    <3>3. move.list = t.list /\ move.last = [t.last EXCEPT ![i] = x]
      BY <1>0
    <3>4. move.told = [t.told EXCEPT ![a] = x]
      BY <1>0, <2>3
    <3>5. move \in [list : Seq(Area), last : Seq(Place),
                    told : [Area -> Place \cup {Nowhere}], processed : BOOLEAN]
      BY <1>0, <2>3, <3>2
    <3> HIDE DEF move
    <3>6. QED
      BY <3>3, <3>4, <3>5
  <2> HIDE DEF move
  <2>5. Len(move.list) = Len(move.last)
    BY <1>0, <2>2, <2>4, SMT
  <2>6. \A j \in DOMAIN move.list : move.told[move.list[j]] = move.last[j]
    BY <1>0, <2>1, <2>2, <2>4, SMT
  <2>7. QED
    BY <1>0, <2>4, <2>5, <2>6 DEF TrackSet
<1> HIDE DEF enter, move, i
<1>5. QED
  BY <1>1, <1>2, <1>3, <1>4

\* So does one that is left, and it is out then.
LEMMA OutTracks ==
  ASSUME NEW t \in TrackSet, NEW a \in Area
  PROVE  Out(t, a) \in TrackSet /\ Listed(Out(t, a)) = Listed(t) \ {a}
<1> DEFINE i == Tracked(t, a)
           out == [t EXCEPT !.list = RemoveAt(@, i), !.last = RemoveAt(@, i),
                                    !.told[a] = Nowhere]
<1>0. /\ t \in [list : Seq(Area), last : Seq(Place), told : [Area -> Place \cup {Nowhere}],
                 processed : BOOLEAN]
      /\ Len(t.list) = Len(t.last)
      /\ \A j \in DOMAIN t.list : t.told[t.list[j]] = t.last[j]
      /\ \A j, k \in DOMAIN t.list : t.list[j] = t.list[k] => j = k
  BY DEF TrackSet
<1>1. Out(t, a) = IF i = 0 THEN t ELSE out
  BY DEF Out
<1>2. CASE i = 0
  BY <1>1, <1>2, TrackedProps
<1>3. CASE i # 0
  <2>1. i \in DOMAIN t.list /\ t.list[i] = a /\ i \in DOMAIN t.last
    BY <1>0, <1>3, TrackedProps, SMT
  <2> DEFINE n == Len(t.list)
             l == RemoveAt(t.list, i)
             k == RemoveAt(t.last, i)
  <2>2. /\ l \in Seq(Area) /\ Len(l) = n - 1 /\ k \in Seq(Place) /\ Len(k) = n - 1
    BY <1>0, <2>1, RemoveAtSrc
  <2>2a. /\ \A j \in DOMAIN l : Src(j, i) \in DOMAIN t.list /\ Src(j, i) # i /\ l[j] = t.list[Src(j, i)]
         /\ \A j, m \in DOMAIN l : j < m <=> Src(j, i) < Src(m, i)
         /\ \A j \in DOMAIN t.list : j # i => \E m \in DOMAIN l : Src(m, i) = j
    BY <1>0, <2>1, RemoveAtSrc
  <2>2b. \A j \in DOMAIN k : k[j] = t.last[Src(j, i)]
    BY <1>0, <2>1, RemoveAtSrc
  <2>3. out.list = l /\ out.last = k /\ out.told = [t.told EXCEPT ![a] = Nowhere]
    BY <1>0
  <2>4. out \in [list : Seq(Area), last : Seq(Place),
                 told : [Area -> Place \cup {Nowhere}], processed : BOOLEAN]
    BY <1>0, <2>2
  <2> HIDE DEF out, l, k, i
  <2>5. n \in Nat /\ DOMAIN t.list = 1..n /\ DOMAIN l = 1..n - 1 /\ DOMAIN k = 1..n - 1 /\ i \in 1..n
    BY <1>0, <2>1, <2>2, SMT
  <2> DEFINE src(j) == Src(j, i)
  <2> HIDE DEF n
  <2>6. /\ \A j \in 1..n - 1 : /\ src(j) \in 1..n /\ src(j) # i
                              /\ l[j] = t.list[src(j)] /\ k[j] = t.last[src(j)]
        /\ \A j, m \in 1..n - 1 : src(j) = src(m) => j = m
        /\ \A j \in 1..n : j # i => \E m \in 1..n - 1 : src(m) = j
    <3>1. \A j, m \in 1..n - 1 : src(j) = src(m) => ~(j < m) /\ ~(m < j)
      <4>1. \A j \in 1..n - 1 : src(j) \in Int
        BY <2>2a, <2>5, SMT
      <4> HIDE DEF src
      <4>2. \A j, m \in 1..n - 1 : j < m <=> src(j) < src(m)
        BY <2>2a, <2>5 DEF src
      <4>3. QED
        BY <4>1, <4>2, SMT
    <3>2. \A j, m \in 1..n - 1 : src(j) = src(m) => j = m
      BY <2>5, <3>1, SMT
    <3>3. QED
      BY <2>2a, <2>2b, <2>5, <3>2
  <2> HIDE DEF src
  <2>7. \A j \in DOMAIN l : l[j] # a /\ out.told[l[j]] = k[j]
    <3>1. SUFFICES ASSUME NEW j \in 1..n - 1 PROVE l[j] # a /\ out.told[l[j]] = k[j]
      BY <2>5
    <3>2. l[j] # a
      BY <1>0, <2>1, <2>5, <2>6
    <3>3. l[j] \in Area
      BY <2>2, <2>5, SMT
    <3>4. t.told[l[j]] = k[j]
      BY <1>0, <2>5, <2>6
    <3>5. QED
      BY <1>0, <2>3, <3>2, <3>3, <3>4
  <2>8. \A j, m \in DOMAIN l : l[j] = l[m] => j = m
    <3>1. SUFFICES ASSUME NEW j \in 1..n - 1, NEW m \in 1..n - 1, l[j] = l[m] PROVE j = m
      BY <2>5
    <3>2. src(j) = src(m)
      BY <1>0, <2>5, <2>6, <3>1
    <3>3. QED
      BY <2>6, <3>2
  <2>9. out \in TrackSet
    BY <2>2, <2>3, <2>4, <2>7, <2>8 DEF TrackSet
  <2>10. Listed(out) = Listed(t) \ {a}
    <3>1. Listed(t) = {t.list[j] : j \in 1..n} /\ Listed(out) = {l[j] : j \in 1..n - 1}
      BY <2>3, <2>5 DEF Listed
    <3>2. \A j \in 1..n - 1 : l[j] \in Listed(t) /\ l[j] # a
      BY <2>5, <2>6, <2>7, <3>1
    <3>3. ASSUME NEW j \in 1..n, t.list[j] # a PROVE \E m \in 1..n - 1 : l[m] = t.list[j]
      BY <2>1, <2>6, <3>3
    <3>4. QED
      BY <3>1, <3>2, <3>3
  <2>11. QED
    BY <1>1, <1>3, <2>9, <2>10 DEF i, out
<1>4. QED
  BY <1>2, <1>3

\* One area of recordTrack.
LEMMA VisitTracks ==
  ASSUME NEW t \in TrackSet, NEW a \in Area, NEW x \in Place, NEW handled
  PROVE  /\ Visit(t, a, x, FALSE, handled) \in TrackSet
         /\ Visit(t, a, x, TRUE, handled) \in TrackSet
BY UnderTracks, OutTracks DEF Visit

\* w is the walk of recordTrack over the areas, with the vectors in step all along.
Walks(w, t, x, stop, handled) ==
  /\ w[Len(Areas)] = recordTrack(t, x, stop, handled)
  /\ w[0] = [t EXCEPT !.processed = FALSE]
  /\ \A n \in 1..Len(Areas) : w[n] = Visit(w[n - 1], Areas[n], x, stop, handled)
  /\ \A n \in 0..Len(Areas) : w[n] \in TrackSet

\* recordTrack walks: its recursion is a function.
LEMMA WalkExists ==
  ASSUME NEW t \in TrackSet, NEW x \in Place, NEW stop \in BOOLEAN, NEW handled
  PROVE  \E w : Walks(w, t, x, stop, handled)
<1> DEFINE N == Len(Areas)
           base == [t EXCEPT !.processed = FALSE]
           walk == CHOOSE w : w = [n \in 0..N |->
                     IF n = 0 THEN base ELSE Visit(w[n - 1], Areas[n], x, stop, handled)]
           next == [p \in TrackSet \X (1..N) |-> Visit(p[1], Areas[p[2]], x, stop, handled)]
<1>1. recordTrack(t, x, stop, handled) = walk[N]
  BY DEF recordTrack
<1>2. N \in Nat /\ \A n \in 1..N : Areas[n] \in Area
  BY TouchAssumption, SMT DEF Area
<1>3. base \in TrackSet
  <2>1. t \in [list : Seq(Area), last : Seq(Place), told : [Area -> Place \cup {Nowhere}],
               processed : BOOLEAN]
    BY DEF TrackSet
  <2>2. /\ base \in [list : Seq(Area), last : Seq(Place), told : [Area -> Place \cup {Nowhere}],
                     processed : BOOLEAN]
        /\ base.list = t.list /\ base.last = t.last /\ base.told = t.told
    BY <2>1
  <2> HIDE DEF base
  <2>3. QED
    BY <2>2 DEF TrackSet
<1>4. \A s \in TrackSet, n \in 1..N : Visit(s, Areas[n], x, stop, handled) \in TrackSet
  <2>1. CASE stop = TRUE
    BY <1>2, <2>1, VisitTracks
  <2>2. CASE stop = FALSE
    BY <1>2, <2>2, VisitTracks
  <2>3. QED
    BY <2>1, <2>2
<1>5. \A s \in TrackSet, n \in 1..N : next[<<s, n>>] = Visit(s, Areas[n], x, stop, handled)
  OBVIOUS
<1> HIDE DEF base, next, N, walk
<1>6. PICK f : Iterates(f, next, base, TrackSet, N)
  <2>1. Closed(next, TrackSet, N)
    BY <1>4, <1>5 DEF Closed
  <2>2. QED
    BY <2>1, <1>2, <1>3, RecursionExists, Zenon
<1>7. \A n \in 1..N : n - 1 \in 0..N /\ n \in 0..N /\ n # 0
  BY <1>2, SMT
<1>8. f = [n \in 0..N |-> IF n = 0 THEN base ELSE Visit(f[n - 1], Areas[n], x, stop, handled)]
  <2>1. ASSUME NEW n \in 0..N, n # 0 PROVE f[n] = Visit(f[n - 1], Areas[n], x, stop, handled)
    <3>1. n \in 1..N
      BY <2>1, <1>2, SMT
    <3>2. QED
      BY <3>1, <1>5, <1>6, <1>7 DEF Iterates
  <2>2. QED
    BY <1>6, <2>1 DEF Iterates
<1>9. walk = [n \in 0..N |-> IF n = 0 THEN base ELSE Visit(walk[n - 1], Areas[n], x, stop, handled)]
  BY <1>8 DEF walk
<1>10. walk[0] = base /\ \A n \in 1..N : walk[n] = Visit(walk[n - 1], Areas[n], x, stop, handled)
  <2>1. 0 \in 0..N
    BY <1>2, SMT
  <2>2. QED
    BY <1>7, <1>9, <2>1
<1> DEFINE Good == {n \in Nat : n <= N => walk[n] \in TrackSet}
<1>11. 0 \in Good
  BY <1>3, <1>10
<1>12. ASSUME NEW n \in Nat, n \in Good PROVE n + 1 \in Good
  <2>1. SUFFICES ASSUME n + 1 <= N PROVE walk[n + 1] \in TrackSet
    BY SMT
  <2>2. n <= N /\ n + 1 \in 1..N /\ n + 1 - 1 = n
    BY <1>2, <2>1, SMT
  <2>3. walk[n] \in TrackSet
    BY <1>12, <2>2
  <2> HIDE DEF Good
  <2>4. QED
    BY <1>4, <1>10, <2>2, <2>3
<1> HIDE DEF Good
<1>13. \A n \in Nat : n \in Good
  BY <1>11, <1>12, SetInduction
<1>14. \A n \in 0..N : walk[n] \in TrackSet
  BY <1>2, <1>13, SMT DEF Good
<1>15. Walks(walk, t, x, stop, handled)
  BY <1>1, <1>10, <1>14 DEF Walks, N, base
<1>16. QED
  BY <1>15

\* All areas of recordTrack, whatever their number and whoever handles what.
LEMMA RecordTrackTracks ==
  ASSUME NEW t \in TrackSet, NEW x \in Place, NEW stop \in BOOLEAN, NEW handled
  PROVE  recordTrack(t, x, stop, handled) \in TrackSet
<1>1. PICK w : Walks(w, t, x, stop, handled)
  BY WalkExists, Zenon
<1>2. Len(Areas) \in 0..Len(Areas)
  BY TouchAssumption, SMT
<1>3. QED
  BY <1>1, <1>2 DEF Walks

\* With stop, every area is left: each is visited, and no other was entered.
LEMMA RecordTrackLeaves ==
  ASSUME NEW t \in TrackSet, NEW x \in Place, NEW handled
  PROVE  Listed(recordTrack(t, x, TRUE, handled)) = {}
<1> DEFINE N == Len(Areas)
           Rest(n) == Area \ {Areas[i] : i \in 1..n}
<1>1. PICK w : Walks(w, t, x, TRUE, handled)
  BY WalkExists, Zenon
<1>2. N \in Nat /\ \A n \in 1..N : Areas[n] \in Area
  BY TouchAssumption, SMT DEF Area
<1>3. /\ \A n \in 1..N : w[n] = Out(w[n - 1], Areas[n])
      /\ \A n \in 0..N : w[n] \in TrackSet
      /\ recordTrack(t, x, TRUE, handled) = w[N]
  BY <1>1 DEF Walks, Visit
<1>4. Listed(w[0]) \subseteq Rest(0)
  <2>1. w[0] \in TrackSet
    BY <1>2, <1>3, SMT
  <2>2. w[0].list \in Seq(Area)
    BY <2>1 DEF TrackSet
  <2>3. Listed(w[0]) \subseteq Area
    BY <2>2, SMT DEF Listed
  <2>4. Rest(0) = Area
    BY SMT
  <2>5. QED
    BY <2>3, <2>4
<1> DEFINE Good == {n \in Nat : n <= N => Listed(w[n]) \subseteq Rest(n)}
<1> HIDE DEF N
<1>5. ASSUME NEW n \in Nat, n \in Good PROVE n + 1 \in Good
  <2>1. SUFFICES ASSUME n + 1 <= N PROVE Listed(w[n + 1]) \subseteq Rest(n + 1)
    BY SMT
  <2>2. n <= N /\ n + 1 \in 1..N /\ n + 1 - 1 = n /\ n \in 0..N
    BY <1>2, <2>1, SMT
  <2>3. Listed(w[n]) \subseteq Rest(n)
    BY <1>5, <2>2
  <2>4. Rest(n + 1) = Rest(n) \ {Areas[n + 1]}
    <3>1. 1..n + 1 = (1..n) \cup {n + 1}
      BY SMT
    <3>2. QED
      BY <3>1
  <2> HIDE DEF Rest, Good
  <2>5. Listed(w[n + 1]) = Listed(w[n]) \ {Areas[n + 1]}
    <3>1. w[n] \in TrackSet /\ Areas[n + 1] \in Area
      BY <1>2, <1>3, <2>2
    <3>2. w[n + 1] = Out(w[n], Areas[n + 1])
      BY <1>3, <2>2
    <3>3. QED
      BY <3>1, <3>2, OutTracks
  <2>6. QED
    BY <2>3, <2>4, <2>5
<1>6. 0 \in Good
  BY <1>4
<1> HIDE DEF Good
<1>7. \A n \in Nat : n \in Good
  BY <1>5, <1>6, SetInduction
<1>8. Listed(w[N]) \subseteq Rest(N)
  BY <1>2, <1>7, SMT DEF Good
<1>9. Rest(N) = {}
  BY <1>2, TouchAssumption DEF N, Area, ToSet
<1>10. QED
  BY <1>3, <1>8, <1>9

\* recordTrack for each pointer that moved, whatever their number.
LEMMA RepeatedTracks ==
  ASSUME Tracking \in TrackSet, NEW x \in Place, NEW times \in Nat, NEW handled
  PROVE  Repeated(x, times, handled) \in TrackSet
<1> DEFINE rounds == CHOOSE r : r = [n \in 0..times |->
             IF n = 0 THEN Tracking ELSE recordTrack(r[n - 1], x, FALSE, handled[n])]
           next == [p \in TrackSet \X (1..times) |-> recordTrack(p[1], x, FALSE, handled[p[2]])]
<1>1. Repeated(x, times, handled) = rounds[times]
  BY DEF Repeated
<1>2. \A s \in TrackSet, n \in 1..times :
        /\ next[<<s, n>>] = recordTrack(s, x, FALSE, handled[n])
        /\ recordTrack(s, x, FALSE, handled[n]) \in TrackSet
  BY RecordTrackTracks
<1> HIDE DEF next, rounds
<1>3. PICK f : Iterates(f, next, Tracking, TrackSet, times)
  <2>1. Closed(next, TrackSet, times)
    BY <1>2 DEF Closed
  <2>2. QED
    BY <2>1, RecursionExists, Zenon
<1>4. \A n \in 1..times : n - 1 \in 0..times /\ n \in 0..times /\ n # 0
  BY SMT
<1>5. f = [n \in 0..times |->
             IF n = 0 THEN Tracking ELSE recordTrack(f[n - 1], x, FALSE, handled[n])]
  <2>1. ASSUME NEW n \in 0..times, n # 0 PROVE f[n] = recordTrack(f[n - 1], x, FALSE, handled[n])
    <3>1. n \in 1..times
      BY <2>1, SMT
    <3>2. f[n - 1] \in TrackSet
      BY <3>1, <1>3, <1>4 DEF Iterates
    <3>3. QED
      BY <3>1, <3>2, <1>2, <1>3 DEF Iterates
  <2>2. QED
    BY <1>3, <2>1 DEF Iterates
<1> DEFINE Round(s, n) == recordTrack(s, x, FALSE, handled[n])
<1>6. rounds = [n \in 0..times |-> IF n = 0 THEN Tracking ELSE Round(rounds[n - 1], n)]
  BY <1>5 DEF rounds
<1>7a. \A s \in TrackSet, n \in 1..times : Round(s, n) \in TrackSet
  BY <1>2
<1> HIDE DEF Round
<1>7b. rounds[0] = Tracking /\ \A n \in 1..times : rounds[n] = Round(rounds[n - 1], n)
  <2>1. 0 \in 0..times
    BY SMT
  <2>2. QED
    BY <1>4, <1>6, <2>1
<1> DEFINE Good == {n \in Nat : n <= times => rounds[n] \in TrackSet}
<1>7. 0 \in Good
  BY <1>7b
<1>8. ASSUME NEW n \in Nat, n \in Good PROVE n + 1 \in Good
  <2>1. SUFFICES ASSUME n + 1 <= times PROVE rounds[n + 1] \in TrackSet
    BY SMT
  <2>2. n <= times /\ n + 1 \in 1..times /\ n + 1 - 1 = n
    BY <2>1, SMT
  <2>3. rounds[n] \in TrackSet
    BY <1>8, <2>2
  <2> HIDE DEF Good
  <2>4. QED
    BY <2>2, <2>3, <1>7a, <1>7b
<1> HIDE DEF Good
<1>9. \A n \in Nat : n \in Good
  BY <1>7, <1>8, SetInduction
<1>10. rounds[times] \in TrackSet
  BY <1>9, SMT DEF Good
<1>11. QED
  BY <1>1, <1>10

-----------------------------------------------------------------------------
(* The inductive invariant.                                                *)

\* The types of the hand and the pointers; no finger is on the glass twice.
Hands ==
  /\ fingers \in Seq([id : Id, seen : BOOLEAN]) /\ pointers \in Seq([id : Id, at : Place])
  /\ running \in BOOLEAN /\ lost \in 0..MaxLost
  /\ \A f, g \in DOMAIN fingers : fingers[f].id = fingers[g].id => f = g

\* While a touch goes on there is a first pointer.
FirstThere == touchDown => pointers # <<>>

\* The part that is about fingers and pointers.
HandsInv == Hands /\ FirstThere /\ PointersFollow

\* The types of the touch screen.
ScreenTypes ==
  /\ touchDown \in BOOLEAN /\ touchCancel \in BOOLEAN
  /\ touchTimeout \in {"off", "armed", "due"}
  /\ touchList \in [first : Place \cup {Nowhere}, count : 0..2]
  /\ touchLast \in Place \cup {Nowhere}
  /\ gesture \in [start : Place \cup {Nowhere}, moved : BOOLEAN, long : BOOLEAN]
  /\ report \in {"silent", "cancelled", "none", "gesture"} \cup Area

\* The tracking vectors are in step.
Tracks == Tracking \in TrackSet

\* Without a touch nothing of the last one is left, its timeout neither.
Quiet == ~touchDown => /\ ~touchCancel /\ touchTimeout = "off"
                       /\ gesture = NoGesture

\* What the screen has recorded of a touch is what the finger did.
Recorded ==
  touchDown =>
    /\ gesture.long <=> TimedOut
    /\ touchLast \in Place /\ gesture.start \in Place
    /\ touchList.first = gesture.start /\ touchList.count # 0
    /\ touchList.count = 1 => touchLast = touchList.first
    /\ lost = 0 => (gesture.moved <=> touchList.count = 2)

\* The part of the inductive invariant that is about the screen.
ScreenInv == ScreenTypes /\ Tracks /\ AllLeft /\ Quiet /\ Recorded

-----------------------------------------------------------------------------
(* The screen.                                                             *)

\* Tracking vectors in step are stored in step.
LEMMA SetTrackingTracks ==
  ASSUME NEW t \in TrackSet, SetTracking(t)
  PROVE  Tracks' /\ (Listed(t) = {} => trackingList' = <<>>)
<1>1. t \in [list : Seq(Area), last : Seq(Place), told : [Area -> Place \cup {Nowhere}],
             processed : BOOLEAN]
  BY DEF TrackSet
<1>2. Tracking' = [list |-> t.list, last |-> t.last, told |-> t.told, processed |-> FALSE]
  BY DEF SetTracking, Tracking
<1> DEFINE u == [list |-> t.list, last |-> t.last, told |-> t.told, processed |-> FALSE]
<1>3. /\ u \in [list : Seq(Area), last : Seq(Place), told : [Area -> Place \cup {Nowhere}],
                processed : BOOLEAN]
      /\ u.list = t.list /\ u.last = t.last /\ u.told = t.told
  BY <1>1
<1>4. Tracking' = u
  BY <1>2
<1> HIDE DEF u
<1>5. u \in TrackSet
  BY <1>3 DEF TrackSet
<1>6. Tracks'
  BY <1>4, <1>5 DEF Tracks
<1>7. ASSUME Listed(t) = {} PROVE t.list = <<>>
  <2>1. t.list \in Seq(Area)
    BY <1>1
  <2>2. ~(1 \in DOMAIN t.list)
    BY <1>7 DEF Listed
  <2>3. Len(t.list) = 0
    BY <2>1, <2>2, SMT
  <2>4. QED
    BY <2>1, <2>3, EmptySeq
<1>8. QED
  BY <1>6, <1>7 DEF SetTracking

\* record keeps the first point, and tells one point from more.
LEMMA RecordProps ==
  ASSUME NEW list, list \in [first : Place \cup {Nowhere}, count : 0..2],
         NEW last \in Place \cup {Nowhere}, NEW x \in Place, record(list, last, x)
  PROVE  /\ touchList' \in [first : Place \cup {Nowhere}, count : 0..2]
         /\ touchLast' \in Place \cup {Nowhere}
         /\ last \in Place => /\ touchLast' \in Place
                              /\ list.count # 0 =>
                                   /\ touchList'.first = list.first
                                   /\ touchList'.count = IF Far(last, x) THEN 2 ELSE list.count
                                   /\ ~Far(last, x) => touchLast' = last
         /\ last = Nowhere /\ list = NoPoints =>
              touchLast' = x /\ touchList' = [first |-> x, count |-> 1]
<1>1. Nowhere \notin Place
  BY TouchAssumption
<1>2. ASSUME NEW l \in [first : Place \cup {Nowhere}, count : 0..2]
      PROVE  [l EXCEPT !.count = 2] \in [first : Place \cup {Nowhere}, count : 0..2]
             /\ [l EXCEPT !.count = 2].first = l.first /\ [l EXCEPT !.count = 2].count = 2
  OBVIOUS
<1>3. CASE last = Nowhere \/ Far(last, x)
  <2>1. /\ touchLast' = x
        /\ touchList' = IF list.count = 0 THEN [first |-> x, count |-> 1]
                                         ELSE [list EXCEPT !.count = 2]
    BY <1>3 DEF record
  <2>2. CASE list.count = 0
    BY <1>1, <1>3, <2>1, <2>2 DEF NoPoints
  <2>3. CASE list.count # 0
    <3>1. list # NoPoints
      BY <2>3 DEF NoPoints
    <3>2. QED
      BY <1>1, <1>2, <1>3, <2>1, <2>3, <3>1
  <2>4. QED
    BY <2>2, <2>3
<1>4. CASE ~(last = Nowhere \/ Far(last, x))
  BY <1>4 DEF record
<1>5. QED
  BY <1>3, <1>4

\* onTouchStart, at whatever place.
LEMMA StartKeeps ==
  ASSUME ScreenInv, NEW x \in Place, NEW handled, onTouchStart(x, handled),
         lost' = lost,
         gesture' = IF x \in Screen
                    THEN [start |-> x, moved |-> FALSE, long |-> touchDown /\ gesture.long]
                    ELSE gesture
  PROVE  ScreenInv' /\ (touchDown => touchDown')
<1> USE DEF ScreenInv
<1>0. Nowhere \notin Place
  BY TouchAssumption
<1> DEFINE b == touchDown /\ gesture.long
<1>1. CASE x \in Screen
  <2>1. /\ touchDown' = TRUE /\ touchCancel' = TimedOut
        /\ touchTimeout' = IF TimedOut THEN "off" ELSE "armed"
        /\ record(NoPoints, Nowhere, x)
        /\ SetTracking(recordTrack(Tracking, x, FALSE, handled))
        /\ report' = "silent"
        /\ gesture' = [start |-> x, moved |-> FALSE, long |-> b]
    BY <1>1 DEF onTouchStart
  <2>1a. b <=> TimedOut
    BY DEF Quiet, Recorded, TimedOut, ScreenTypes
  <2>1b. b \in BOOLEAN
    OBVIOUS
  <2> HIDE DEF b
  <2>2. touchLast' = x /\ touchList' = [first |-> x, count |-> 1]
    <3>1. NoPoints \in [first : Place \cup {Nowhere}, count : 0..2]
      BY DEF NoPoints
    <3>2. QED
      BY <2>1, <3>1, RecordProps
  <2>3. TimedOut \in BOOLEAN
    BY DEF TimedOut, ScreenTypes
  <2>4. ScreenTypes'
    <3>2. gesture' \in [start : Place \cup {Nowhere}, moved : BOOLEAN, long : BOOLEAN]
      <4>1. \A c \in BOOLEAN : [start |-> x, moved |-> FALSE, long |-> c]
                                 \in [start : Place \cup {Nowhere}, moved : BOOLEAN, long : BOOLEAN]
        OBVIOUS
      <4>2. gesture' = [start |-> x, moved |-> FALSE, long |-> b]
        BY <2>1
      <4>3. QED
        BY <4>1, <4>2, <2>1b, Zenon
    <3>3. touchList' \in [first : Place \cup {Nowhere}, count : 0..2] /\ touchLast' \in Place \cup {Nowhere}
      BY <2>2
    <3>4. touchTimeout' \in {"off", "armed", "due"} /\ touchCancel' \in BOOLEAN
      BY <2>1, <2>3
    <3>5. QED
      BY <2>1, <3>2, <3>3, <3>4 DEF ScreenTypes
  <2>5. Tracks' /\ AllLeft'
    <3>1. recordTrack(Tracking, x, FALSE, handled) \in TrackSet
      BY RecordTrackTracks DEF Tracks
    <3>2. QED
      BY <2>1, <3>1, SetTrackingTracks DEF AllLeft
  <2>6. Quiet'
    BY <2>1 DEF Quiet
  <2>7. gesture'.long <=> TimedOut'
    <3>1. TimedOut' <=> TimedOut
      BY <2>1, <2>3 DEF TimedOut
    <3>2. gesture'.long = b
      BY <2>1
    <3>3. QED
      BY <2>1a, <3>1, <3>2
  <2>8. /\ gesture'.start = x /\ ~gesture'.moved
        /\ touchList'.first = x /\ touchList'.count = 1
    BY <2>1, <2>2
  <2>9. Recorded'
    BY <2>2, <2>7, <2>8 DEF Recorded
  <2>10. QED
    BY <2>1, <2>4, <2>5, <2>6, <2>9
<1>2. CASE x \notin Screen
  <2>1. /\ touchCancel' = TimedOut
        /\ touchTimeout' = IF touchTimeout = "due" THEN "off" ELSE touchTimeout
        /\ UNCHANGED <<touchDown, touchList, touchLast, trackingList, trackingLast, told, report,
                       gesture, lost>>
    BY <1>2 DEF onTouchStart
  <2>2. TimedOut' <=> TimedOut
    BY <2>1 DEF TimedOut
  <2>3. ScreenTypes'
    BY <2>1 DEF ScreenTypes, TimedOut
  <2>4. Tracks' /\ AllLeft'
    BY <2>1 DEF Tracks, AllLeft, Tracking
  <2>5. Quiet'
    BY <2>1 DEF Quiet, TimedOut
  <2>6. Recorded'
    BY <2>1, <2>2 DEF Recorded
  <2>7. QED
    BY <2>1, <2>3, <2>4, <2>5, <2>6
<1>3. QED
  BY <1>1, <1>2

\* onTouchMove, told of as much as the model knows of the gesture.
LEMMA MoveKeeps ==
  ASSUME ScreenInv, NEW x \in Place, NEW times \in Nat, NEW handled,
         onTouchMove(x, times, handled), lost' = lost,
         gesture' \in [start : Place \cup {Nowhere}, moved : BOOLEAN, long : BOOLEAN],
         gesture'.start = gesture.start, gesture'.long <=> gesture.long,
         ~touchDown => gesture' = gesture,
         gesture.moved => gesture'.moved,
         touchDown /\ lost = 0 /\ ~gesture.moved => (gesture'.moved <=> Far(gesture.start, x))
  PROVE  ScreenInv' /\ touchDown' = touchDown
<1> USE DEF ScreenInv
<1>1. /\ touchCancel' = TimedOut
      /\ touchTimeout' = IF touchTimeout = "due" THEN "off" ELSE touchTimeout
      /\ touchDown' = touchDown /\ report' = report
  BY DEF onTouchMove
<1>2. TimedOut' <=> TimedOut
  BY <1>1 DEF TimedOut
<1>3. /\ touchCancel' \in BOOLEAN /\ touchTimeout' \in {"off", "armed", "due"}
      /\ touchDown' \in BOOLEAN /\ report' \in {"silent", "cancelled", "none", "gesture"} \cup Area
  BY <1>1 DEF ScreenTypes, TimedOut
<1>4. Quiet'
  BY <1>1 DEF Quiet, TimedOut
<1>5. CASE touchDown
  <2>1. record(touchList, touchLast, x) /\ SetTracking(Repeated(x, times, handled))
    BY <1>5 DEF onTouchMove
  <2>2. Tracks' /\ AllLeft'
    <3>1. Repeated(x, times, handled) \in TrackSet
      BY RepeatedTracks DEF Tracks
    <3>2. QED
      BY <1>1, <1>5, <2>1, <3>1, SetTrackingTracks DEF AllLeft
  <2>3. touchList \in [first : Place \cup {Nowhere}, count : 0..2] /\ touchLast \in Place \cup {Nowhere}
    BY DEF ScreenTypes
  <2>4. /\ touchLast \in Place /\ touchList.count # 0
        /\ gesture.start \in Place /\ touchList.first = gesture.start
        /\ touchList.count = 1 => touchLast = touchList.first
        /\ lost = 0 => (gesture.moved <=> touchList.count = 2)
        /\ gesture.long <=> TimedOut
    BY <1>5 DEF Recorded
  <2>5. /\ touchList' \in [first : Place \cup {Nowhere}, count : 0..2]
        /\ touchLast' \in Place \cup {Nowhere} /\ touchLast' \in Place
        /\ touchList'.first = touchList.first
        /\ touchList'.count = IF Far(touchLast, x) THEN 2 ELSE touchList.count
        /\ ~Far(touchLast, x) => touchLast' = touchLast
    BY <2>1, <2>3, <2>4, RecordProps, Zenon
  <2>6. ScreenTypes'
    BY <1>3, <2>5 DEF ScreenTypes
  <2>7. touchList.count \in 0..2 /\ touchList'.count \in 0..2
    BY <2>3, <2>5
  <2>8. lost' = 0 => (gesture'.moved <=> touchList'.count = 2)
    <3>1. SUFFICES ASSUME lost = 0 PROVE gesture'.moved <=> touchList'.count = 2
      OBVIOUS
    <3>2. CASE touchList.count = 2
      BY <2>4, <2>5, <3>1, <3>2
    <3>3. CASE touchList.count # 2
      <4>1. touchList.count = 1 /\ ~gesture.moved
        BY <2>4, <2>7, <3>1, <3>3, SMT
      <4>2. gesture'.moved <=> Far(touchLast, x)
        BY <1>5, <2>4, <3>1, <4>1
      <4>3. QED
        BY <2>5, <4>1, <4>2
    <3>4. QED
      BY <3>2, <3>3
  <2>9. touchList'.count = 1 => touchLast' = touchList'.first
    BY <2>4, <2>5
  <2>10. touchList'.count # 0
    BY <2>4, <2>5
  <2>11. Recorded'
    BY <1>2, <2>4, <2>5, <2>8, <2>9, <2>10 DEF Recorded
  <2>12. QED
    BY <1>1, <1>4, <2>2, <2>6, <2>11
<1>6. CASE ~touchDown
  <2>1. UNCHANGED <<touchList, touchLast, trackingList, trackingLast, told>>
    BY <1>6 DEF onTouchMove
  <2>2. Tracks' /\ AllLeft'
    BY <1>1, <2>1 DEF Tracks, AllLeft, Tracking
  <2>3. ScreenTypes' /\ Recorded'
    BY <1>1, <1>3, <1>6, <2>1 DEF ScreenTypes, Recorded
  <2>4. QED
    BY <1>1, <1>4, <2>2, <2>3
<1>7. QED
  BY <1>5, <1>6 DEF ScreenTypes

\* The step that ShortTouchTold is about.
ShortTouch ==
  touchDown /\ ~touchDown' /\ lost' = 0 =>
    IF gesture.long THEN report' = "cancelled"
    ELSE IF gesture.moved THEN report' \in {"gesture", "silent"}
    ELSE IF \E a \in Area : gesture.start \in Inside[a]
         THEN report' \in Area /\ gesture.start \in Inside[report']
         ELSE report' = "none"

\* onTouchEnd, which tells the gesture.
LEMMA EndKeeps ==
  ASSUME ScreenInv, NEW x \in Place, onTouchEnd(x), lost' = 0 => lost = 0,
         gesture' = IF touchDown' THEN gesture ELSE NoGesture
  PROVE  ScreenInv' /\ ~touchDown' /\ ShortTouch
<1> USE DEF ScreenInv
<1>0. NoGesture \in [start : Place \cup {Nowhere}, moved : BOOLEAN, long : BOOLEAN]
  BY DEF NoGesture
<1>1. CASE touchDown
  <2>1. /\ SetTracking(recordTrack(Tracking, x, TRUE, {}))
        /\ touchDown' = FALSE /\ touchTimeout' = "off" /\ touchCancel' = FALSE
        /\ IF TimedOut THEN report' = "cancelled" ELSE report' \in Outcomes
        /\ touchList' = NoPoints /\ touchLast' = Nowhere /\ gesture' = NoGesture
    BY <1>1 DEF onTouchEnd
  <2>2. Tracks' /\ AllLeft'
    <3>1. /\ recordTrack(Tracking, x, TRUE, {}) \in TrackSet
          /\ Listed(recordTrack(Tracking, x, TRUE, {})) = {}
      BY RecordTrackTracks, RecordTrackLeaves DEF Tracks
    <3>2. QED
      BY <2>1, <3>1, SetTrackingTracks DEF AllLeft
  <2>3. Outcomes \subseteq {"silent", "none", "gesture"} \cup Area
    BY DEF Outcomes
  <2>4. ScreenTypes'
    <3>1. report' \in {"silent", "cancelled", "none", "gesture"} \cup Area
      BY <2>1, <2>3
    <3>2. NoPoints \in [first : Place \cup {Nowhere}, count : 0..2]
      BY DEF NoPoints
    <3>3. QED
      BY <1>0, <2>1, <3>1, <3>2 DEF ScreenTypes
  <2>5. Quiet' /\ Recorded'
    BY <2>1 DEF Quiet, Recorded
  <2>6. ShortTouch
    <3>1. SUFFICES ASSUME lost = 0
          PROVE  IF gesture.long THEN report' = "cancelled"
                 ELSE IF gesture.moved THEN report' \in {"gesture", "silent"}
                 ELSE IF \E a \in Area : gesture.start \in Inside[a]
                      THEN report' \in Area /\ gesture.start \in Inside[report']
                      ELSE report' = "none"
      BY DEF ShortTouch
    <3>2. /\ touchList.first = gesture.start /\ touchList.count # 0
          /\ gesture.moved <=> touchList.count = 2
          /\ gesture.long <=> TimedOut
      BY <1>1, <3>1 DEF Recorded
    <3>3. touchList.count \in 0..2
      BY DEF ScreenTypes
    <3>4. ~gesture.moved => touchList.count = 1
      BY <3>2, <3>3, SMT
    <3>5. gesture.moved => touchList.count # 1
      BY <3>2
    <3>6. CASE gesture.long
      BY <2>1, <3>2, <3>6
    <3>7. CASE ~gesture.long /\ gesture.moved
      BY <2>1, <3>2, <3>5, <3>7 DEF Outcomes
    <3>8. CASE ~gesture.long /\ ~gesture.moved
      <4>1. report' \in IF {a \in Area : gesture.start \in Inside[a]} = {} THEN {"none"}
                        ELSE {a \in Area : gesture.start \in Inside[a]}
        BY <2>1, <3>2, <3>4, <3>8 DEF Outcomes
      <4>2. QED
        BY <3>8, <4>1
    <3>9. QED
      BY <3>6, <3>7, <3>8
  <2>7. QED
    BY <2>1, <2>2, <2>4, <2>5, <2>6
<1>2. CASE ~touchDown
  <2>1. /\ touchCancel' = TimedOut
        /\ touchTimeout' = IF touchTimeout = "due" THEN "off" ELSE touchTimeout
        /\ UNCHANGED <<touchDown, touchList, touchLast, trackingList, trackingLast, told, report>>
        /\ gesture' = NoGesture
    BY <1>2 DEF onTouchEnd
  <2>2. Tracks' /\ AllLeft'
    BY <2>1 DEF Tracks, AllLeft, Tracking
  <2>3. ScreenTypes'
    BY <1>0, <2>1 DEF ScreenTypes, TimedOut
  <2>4. Quiet' /\ Recorded' /\ ShortTouch
    BY <1>2, <2>1 DEF Quiet, Recorded, ShortTouch, TimedOut
  <2>5. QED
    BY <1>2, <2>1, <2>2, <2>3, <2>4
<1>3. QED
  BY <1>1, <1>2 DEF ScreenTypes

\* A step that leaves the screen alone.
LEMMA RestKeeps ==
  ASSUME ScreenInv, UNCHANGED <<screenVars, gesture>>, lost' = 0 => lost = 0
  PROVE  ScreenInv' /\ touchDown' = touchDown
<1>1. UNCHANGED <<touchDown, touchCancel, touchTimeout, touchList, touchLast,
                trackingList, trackingLast, told, report, gesture>>
  BY DEF screenVars
<1>2. QED
  BY <1>1 DEF ScreenInv, ScreenTypes, Tracks, AllLeft, Quiet, Recorded, Tracking, TimedOut

\* The timeout of a touch.
LEMMA ElapseKeeps ==
  ASSUME ScreenInv, Elapse
  PROVE  ScreenInv'
<1> USE DEF ScreenInv
<1>1. /\ touchTimeout = "armed" /\ touchTimeout' = "due"
      /\ gesture' = [gesture EXCEPT !.long = TRUE]
      /\ UNCHANGED <<touchDown, touchCancel, touchList, touchLast,
                     trackingList, trackingLast, told, report, lost>>
  BY DEF Elapse
<1>2. touchDown
  BY <1>1 DEF Quiet
<1>3. /\ gesture' \in [start : Place \cup {Nowhere}, moved : BOOLEAN, long : BOOLEAN]
      /\ gesture'.long /\ gesture'.start = gesture.start /\ gesture'.moved = gesture.moved
  BY <1>1 DEF ScreenTypes
<1>4. ScreenTypes' /\ Tracks' /\ AllLeft' /\ Quiet'
  BY <1>1, <1>2, <1>3 DEF ScreenTypes, Tracks, AllLeft, Quiet, Tracking
<1>5. Recorded'
  BY <1>1, <1>2, <1>3 DEF Recorded, TimedOut
<1>6. QED
  BY <1>4, <1>5

-----------------------------------------------------------------------------
(* The pointers.                                                           *)

\* A finger on the glass, and a pointer of motionEvent.
Finger == [id : Id, seen : BOOLEAN]
Pointer == [id : Id, at : Place]

\* The ids of a list, and those of fingers whose start arrived.
Ids(s) == {s[i].id : i \in DOMAIN s}
SeenIds(fs) == {fs[f].id : f \in {g \in DOMAIN fs : fs[g].seen}}

\* No id twice.
Distinct(fs) == \A f, g \in DOMAIN fs : fs[f].id = fs[g].id => f = g

\* Pointers are in the order of their fingers.
InOrder(ps, fs) == \A i, j \in DOMAIN ps, f, g \in DOMAIN fs :
                      i < j /\ ps[i].id = fs[f].id /\ ps[j].id = fs[g].id => f < g

\* The pointers are the fingers whose start arrived, in their order.
Follow(ps, fs) == Ids(ps) = SeenIds(fs) /\ InOrder(ps, fs)

\* A pointer, moved to where it ends.
Moved(ps, p, x) == [ps EXCEPT ![p].at = x]

\* Its place is another then, and all ids stay.
LEMMA RemovePointer ==
  ASSUME NEW ps \in Seq(Pointer), NEW p \in DOMAIN ps, NEW x \in Place
  PROVE  /\ Moved(ps, p, x) \in Seq(Pointer) /\ DOMAIN Moved(ps, p, x) = DOMAIN ps
         /\ \A k \in DOMAIN ps : Moved(ps, p, x)[k].id = ps[k].id
         /\ RemoveAt(Moved(ps, p, x), p) \in Seq(Pointer)
<1> DEFINE moved == Moved(ps, p, x)
<1>1. [ps[p] EXCEPT !.at = x] \in Pointer /\ [ps[p] EXCEPT !.at = x].id = ps[p].id
  <2>1. ps[p] \in Pointer
    BY SMT
  <2>2. \A r \in Pointer : [r EXCEPT !.at = x] \in Pointer /\ [r EXCEPT !.at = x].id = r.id
    BY DEF Pointer
  <2>3. QED
    BY <2>1, <2>2
<1>2. moved = [ps EXCEPT ![p] = [ps[p] EXCEPT !.at = x]]
  BY DEF Moved
<1> HIDE DEF moved
<1>3. moved \in Seq(Pointer) /\ DOMAIN moved = DOMAIN ps
  BY <1>1, <1>2, SMT
<1>4. \A k \in DOMAIN ps : moved[k].id = ps[k].id
  BY <1>1, <1>2, SMT
<1>5. p \in DOMAIN moved
  BY <1>3
<1>6. RemoveAt(moved, p) \in Seq(Pointer)
  BY <1>3, <1>5, RemoveAtSrc
<1>7. QED
  BY <1>3, <1>4, <1>6 DEF moved

\* A finger goes down, and its pointer is appended if its start arrives.
LEMMA AppendFollows ==
  ASSUME NEW fs \in Seq(Finger), NEW ps \in Seq(Pointer), Distinct(fs),
         NEW r \in Finger, r.id \notin Ids(fs)
  PROVE  /\ Distinct(Append(fs, r))
         /\ Follow(ps, fs) /\ ~r.seen => Follow(ps, Append(fs, r))
         /\ Follow(ps, fs) /\ r.seen =>
              \A x \in Place : Follow(Append(ps, [id |-> r.id, at |-> x]), Append(fs, r))
<1> DEFINE fr == Append(fs, r)
           n == Len(fs)
           m == Len(ps)
<1>1. /\ n \in Nat /\ DOMAIN fs = 1..n /\ DOMAIN fr = 1..n + 1
      /\ fr[n + 1] = r /\ \A f \in 1..n : fr[f] = fs[f] /\ f \in 1..n + 1 /\ f # n + 1 /\ f < n + 1
      /\ n + 1 \in 1..n + 1
      /\ \A f \in 1..n + 1 : f \in 1..n \/ f = n + 1
      /\ m \in Nat /\ DOMAIN ps = 1..m
  BY SMT
<1> HIDE DEF fr, n, m
<1>2. \A f \in 1..n : fs[f].id # r.id
  BY <1>1 DEF Ids
<1>3. Distinct(fr)
  BY <1>1, <1>2 DEF Distinct
<1>4. SUFFICES ASSUME Follow(ps, fs)
               PROVE  /\ ~r.seen => Follow(ps, fr)
                      /\ r.seen => \A x \in Place : Follow(Append(ps, [id |-> r.id, at |-> x]), fr)
  BY <1>3 DEF fr
<1>5. SeenIds(fr) = IF r.seen THEN SeenIds(fs) \cup {r.id} ELSE SeenIds(fs)
  BY <1>1 DEF SeenIds
<1>6. \A i \in 1..m : ps[i].id # r.id
  <2>1. r.id \notin SeenIds(fs)
    BY <1>1, <1>2 DEF SeenIds
  <2>2. QED
    BY <1>1, <1>4, <2>1 DEF Follow, Ids
<1>7. ASSUME NEW i \in 1..m, NEW j \in 1..m, NEW f \in 1..n + 1, NEW g \in 1..n + 1,
             i < j, ps[i].id = fr[f].id, ps[j].id = fr[g].id
      PROVE  f < g
  <2>1. f \in 1..n /\ g \in 1..n
    BY <1>1, <1>6, <1>7
  <2>2. ps[i].id = fs[f].id /\ ps[j].id = fs[g].id
    BY <1>1, <1>7, <2>1
  <2>3. QED
    BY <1>1, <1>4, <1>7, <2>1, <2>2 DEF Follow, InOrder
<1>8. ASSUME ~r.seen PROVE Follow(ps, fr)
  <2>1. InOrder(ps, fr)
    BY <1>1, <1>7 DEF InOrder
  <2>2. QED
    BY <1>4, <1>5, <1>8, <2>1 DEF Follow
<1>9. ASSUME r.seen, NEW x \in Place PROVE Follow(Append(ps, [id |-> r.id, at |-> x]), fr)
  <2> DEFINE q == [id |-> r.id, at |-> x]
             pq == Append(ps, q)
  <2>1. q.id = r.id /\ q \in Pointer
    BY DEF Pointer, Finger
  <2> HIDE DEF q
  <2>2. /\ DOMAIN pq = 1..m + 1
        /\ pq[m + 1] = q /\ \A i \in 1..m : pq[i] = ps[i] /\ i \in 1..m + 1
        /\ m + 1 \in 1..m + 1
        /\ \A i \in 1..m + 1 : i \in 1..m \/ i = m + 1
        /\ \A i \in 1..m + 1 : ~(m + 1 < i)
    BY <2>1, SMT DEF m
  <2> HIDE DEF pq
  <2>3. Ids(pq) = Ids(ps) \cup {r.id}
    BY <1>1, <2>1, <2>2 DEF Ids
  <2>4. ASSUME NEW i \in 1..m + 1, NEW j \in 1..m + 1, NEW f \in 1..n + 1, NEW g \in 1..n + 1,
               i < j, pq[i].id = fr[f].id, pq[j].id = fr[g].id
        PROVE  f < g
    <3>1. i \in 1..m /\ pq[i] = ps[i]
      BY <2>2, <2>4
    <3>2. f \in 1..n
      BY <1>1, <1>6, <2>4, <3>1
    <3>3. CASE j \in 1..m
      BY <1>7, <2>2, <2>4, <3>1, <3>3
    <3>4. CASE j = m + 1
      <4>1. fr[g].id = r.id
        BY <2>1, <2>2, <2>4, <3>4
      <4>2. g = n + 1
        BY <1>1, <1>2, <4>1
      <4>3. QED
        BY <1>1, <3>2, <4>2
    <3>5. QED
      BY <2>2, <3>3, <3>4
  <2>5. InOrder(pq, fr)
    BY <1>1, <2>2, <2>4 DEF InOrder
  <2>6. Follow(pq, fr)
    BY <1>4, <1>5, <1>9, <2>3, <2>5 DEF Follow
  <2>7. QED
    BY <2>6 DEF pq, q
<1>10. QED
  BY <1>8, <1>9

\* A finger goes up.
LEMMA RemoveDistinct ==
  ASSUME NEW fs \in Seq(Finger), Distinct(fs), NEW i \in DOMAIN fs
  PROVE  Distinct(RemoveAt(fs, i)) /\ RemoveAt(fs, i) \in Seq(Finger)
<1> DEFINE fr == RemoveAt(fs, i)
<1>1. /\ fr \in Seq(Finger)
      /\ \A j \in DOMAIN fr : Src(j, i) \in DOMAIN fs /\ fr[j] = fs[Src(j, i)]
      /\ \A j, m \in DOMAIN fr : j < m <=> Src(j, i) < Src(m, i)
  BY RemoveAtSrc
<1>2. DOMAIN fr \subseteq Nat /\ DOMAIN fs \subseteq Nat
  BY <1>1, SMT
<1> HIDE DEF fr
<1>3. SUFFICES ASSUME NEW f \in DOMAIN fr, NEW g \in DOMAIN fr, fr[f].id = fr[g].id PROVE f = g
  BY <1>1 DEF Distinct, fr
<1>4. Src(f, i) = Src(g, i)
  BY <1>1, <1>3 DEF Distinct
<1>5. ~(Src(f, i) < Src(g, i)) /\ ~(Src(g, i) < Src(f, i))
  BY <1>1, <1>2, <1>4, SMT
<1>6. ~(f < g) /\ ~(g < f)
  BY <1>1, <1>5
<1>7. QED
  BY <1>2, <1>6, SMT

\* A finger goes up, and its pointer is removed if it had one.
LEMMA RemoveFollows ==
  ASSUME NEW fs \in Seq(Finger), NEW ps \in Seq(Pointer), Distinct(fs), Follow(ps, fs),
         NEW i \in DOMAIN fs
  PROVE  /\ Distinct(RemoveAt(fs, i)) /\ RemoveAt(fs, i) \in Seq(Finger)
         /\ ~fs[i].seen => fs[i].id \notin Ids(ps) /\ Follow(ps, RemoveAt(fs, i))
         /\ fs[i].seen => fs[i].id \in Ids(ps)
         /\ fs[i].seen => \A p \in DOMAIN ps, x \in Place : ps[p].id = fs[i].id =>
              Follow(RemoveAt(Moved(ps, p, x), p), RemoveAt(fs, i))
<1> DEFINE fr == RemoveAt(fs, i)
<1>1. /\ fr \in Seq(Finger)
      /\ \A j \in DOMAIN fr : /\ Src(j, i) \in DOMAIN fs /\ Src(j, i) # i
                              /\ fr[j] = fs[Src(j, i)]
      /\ \A j, m \in DOMAIN fr : j < m <=> Src(j, i) < Src(m, i)
      /\ \A k \in DOMAIN fs : k # i => \E j \in DOMAIN fr : Src(j, i) = k
  BY RemoveAtSrc
<1>1a. DOMAIN fr \subseteq Nat /\ DOMAIN fs \subseteq Nat /\ DOMAIN ps \subseteq Nat
  BY <1>1, SMT
<1> HIDE DEF fr
<1>2. Distinct(fr)
  BY RemoveDistinct DEF fr
<1>3. SeenIds(fr) = SeenIds(fs) \ {fs[i].id}
  <2>1. ASSUME NEW f \in DOMAIN fr, fr[f].seen PROVE fr[f].id \in SeenIds(fs) \ {fs[i].id}
    BY <1>1, <2>1 DEF SeenIds, Distinct
  <2>2. ASSUME NEW f \in DOMAIN fs, fs[f].seen, fs[f].id # fs[i].id
        PROVE  fs[f].id \in SeenIds(fr)
    <3>1. PICK j \in DOMAIN fr : Src(j, i) = f
      BY <1>1, <2>2
    <3>2. fr[j] = fs[f]
      BY <1>1, <3>1
    <3>3. QED
      BY <2>2, <3>2 DEF SeenIds
  <2>3. QED
    BY <2>1, <2>2 DEF SeenIds
<1>4. fs[i].seen <=> fs[i].id \in Ids(ps)
  BY DEF Follow, SeenIds, Distinct
<1>5. InOrder(ps, fr)
  <2>1. SUFFICES ASSUME NEW j \in DOMAIN ps, NEW k \in DOMAIN ps,
                        NEW f \in DOMAIN fr, NEW g \in DOMAIN fr,
                        j < k, ps[j].id = fr[f].id, ps[k].id = fr[g].id
                 PROVE  f < g
    BY DEF InOrder
  <2>2. Src(f, i) < Src(g, i)
    BY <1>1, <2>1 DEF Follow, InOrder
  <2>3. QED
    BY <1>1, <2>2
<1>6. ASSUME ~fs[i].seen PROVE Follow(ps, fr)
  <2>1. Ids(ps) = SeenIds(fr)
    BY <1>3, <1>4, <1>6 DEF Follow
  <2>2. QED
    BY <1>5, <2>1 DEF Follow
<1>7. ASSUME fs[i].seen, NEW p \in DOMAIN ps, NEW x \in Place, ps[p].id = fs[i].id
      PROVE  Follow(RemoveAt(Moved(ps, p, x), p), fr)
  <2> DEFINE moved == Moved(ps, p, x)
             pr == RemoveAt(moved, p)
  <2>1. /\ moved \in Seq(Pointer) /\ DOMAIN moved = DOMAIN ps
        /\ \A k \in DOMAIN ps : moved[k].id = ps[k].id
    BY RemovePointer
  <2> HIDE DEF moved
  <2>2. p \in DOMAIN moved
    BY <2>1
  <2>3. /\ \A j \in DOMAIN pr : /\ Src(j, p) \in DOMAIN moved /\ Src(j, p) # p
                              /\ pr[j] = moved[Src(j, p)]
        /\ \A j, m \in DOMAIN pr : j < m <=> Src(j, p) < Src(m, p)
        /\ \A k \in DOMAIN moved : k # p => \E j \in DOMAIN pr : Src(j, p) = k
    BY <2>1, <2>2, RemoveAtSrc
  <2> HIDE DEF pr
  <2>4. \A j \in DOMAIN pr : Src(j, p) \in DOMAIN ps /\ Src(j, p) # p /\ pr[j].id = ps[Src(j, p)].id
    BY <2>1, <2>3
  <2>5. \A k \in DOMAIN ps : k # p => ps[k].id # fs[i].id
    <3>1. SUFFICES ASSUME NEW k \in DOMAIN ps, k # p, ps[k].id = fs[i].id PROVE FALSE
      OBVIOUS
    <3>2. k < p \/ p < k
      BY <1>1a, <3>1, SMT
    <3>3. i < i
      BY <1>7, <3>1, <3>2 DEF Follow, InOrder
    <3>4. QED
      BY <1>1a, <3>3, SMT
  <2>6. Ids(pr) = Ids(ps) \ {fs[i].id}
    <3>1. ASSUME NEW j \in DOMAIN pr PROVE pr[j].id \in Ids(ps) \ {fs[i].id}
      BY <2>4, <2>5 DEF Ids
    <3>2. ASSUME NEW k \in DOMAIN ps, ps[k].id # fs[i].id PROVE ps[k].id \in Ids(pr)
      <4>1. PICK j \in DOMAIN pr : Src(j, p) = k
        BY <1>7, <2>1, <2>3, <3>2
      <4>2. QED
        BY <2>4, <4>1 DEF Ids
    <3>3. QED
      BY <3>1, <3>2 DEF Ids
  <2>7. InOrder(pr, fr)
    <3>1. SUFFICES ASSUME NEW j \in DOMAIN pr, NEW k \in DOMAIN pr,
                          NEW f \in DOMAIN fr, NEW g \in DOMAIN fr,
                          j < k, pr[j].id = fr[f].id, pr[k].id = fr[g].id
                   PROVE  f < g
      BY DEF InOrder
    <3>2. Src(j, p) < Src(k, p)
      BY <2>3, <3>1
    <3>3. QED
      BY <1>5, <2>4, <3>1, <3>2 DEF InOrder
  <2>8. Follow(pr, fr)
    BY <1>3, <2>6, <2>7 DEF Follow
  <2>9. QED
    BY <2>8 DEF pr, moved
<1>8. QED
  BY <1>1, <1>2, <1>4, <1>6, <1>7 DEF fr

\* The invariant in the words of the lemmas above.
LEMMA HandsEquiv ==
  /\ Hands <=> /\ fingers \in Seq(Finger) /\ pointers \in Seq(Pointer)
               /\ running \in BOOLEAN /\ lost \in 0..MaxLost /\ Distinct(fingers)
  /\ PointersFollow <=> (lost = 0 => Follow(pointers, fingers))
BY DEF Hands, Finger, Pointer, Distinct, PointersFollow, Follow, Ids, SeenIds, InOrder

\* The same of the next state.
LEMMA HandsEquivNext ==
  /\ Hands' <=> /\ fingers' \in Seq(Finger) /\ pointers' \in Seq(Pointer)
                /\ running' \in BOOLEAN /\ lost' \in 0..MaxLost /\ Distinct(fingers')
  /\ PointersFollow' <=> (lost' = 0 => Follow(pointers', fingers'))
BY DEF Hands, Finger, Pointer, Distinct, PointersFollow, Follow, Ids, SeenIds, InOrder

-----------------------------------------------------------------------------
(* The actions.                                                            *)

\* ACTION_DOWN and ACTION_POINTER_DOWN.
LEMMA DownKeeps ==
  ASSUME HandsInv, ScreenInv, NEW id \in Id, NEW x \in Place, Down(id, x)
  PROVE  HandsInv' /\ ScreenInv' /\ (touchDown => touchDown')
<1>0. /\ fingers \in Seq(Finger) /\ pointers \in Seq(Pointer)
      /\ running \in BOOLEAN /\ lost \in 0..MaxLost /\ Distinct(fingers)
      /\ lost = 0 => Follow(pointers, fingers)
  BY HandsEquiv DEF HandsInv
<1>e. /\ Hands' <=> /\ fingers' \in Seq(Finger) /\ pointers' \in Seq(Pointer)
                    /\ running' \in BOOLEAN /\ lost' \in 0..MaxLost /\ Distinct(fingers')
      /\ PointersFollow' <=> (lost' = 0 => Follow(pointers', fingers'))
  BY HandsEquivNext
<1> DEFINE r == [id |-> id, seen |-> running]
<1>1. fingers' = Append(fingers, r) /\ UNCHANGED <<running, lost>>
  BY DEF Down
<1>2. r \in Finger /\ r.id = id /\ r.seen = running
  <2>1. \A c \in BOOLEAN : [id |-> id, seen |-> c] \in Finger
    BY DEF Finger
  <2>2. QED
    BY <1>0, <2>1, Zenon
<1>3. id \notin Ids(fingers)
  BY DEF Down, Ids
<1> HIDE DEF r
<1>4. /\ Distinct(fingers') /\ fingers' \in Seq(Finger)
      /\ Follow(pointers, fingers) /\ ~running => Follow(pointers, fingers')
      /\ Follow(pointers, fingers) /\ running =>
           Follow(Append(pointers, [id |-> id, at |-> x]), fingers')
  <2>1. /\ Distinct(Append(fingers, r))
        /\ Follow(pointers, fingers) /\ ~r.seen => Follow(pointers, Append(fingers, r))
        /\ Follow(pointers, fingers) /\ r.seen =>
             Follow(Append(pointers, [id |-> r.id, at |-> x]), Append(fingers, r))
    BY <1>0, <1>2, <1>3, AppendFollows
  <2>2. Append(fingers, r) \in Seq(Finger)
    BY <1>0, <1>2, SMT
  <2>3. QED
    BY <1>1, <1>2, <2>1, <2>2
<1>5. CASE running
  <2>1. pointers' = Append(pointers, [id |-> id, at |-> x])
    BY <1>5 DEF Down
  <2>2. [id |-> id, at |-> x] \in Pointer
    BY DEF Pointer
  <2>3. pointers' \in Seq(Pointer) /\ pointers' # <<>> /\ pointers'[1] \in Pointer
    BY <1>0, <2>1, <2>2, SMT
  <2>4. pointers'[1].at \in Place
    BY <2>3 DEF Pointer
  <2>5. PICK handled \in Answers : onTouchStart(pointers'[1].at, handled)
    BY <1>5 DEF Down
  <2>6. gesture' = IF pointers'[1].at \in Screen
                   THEN [start |-> pointers'[1].at, moved |-> FALSE,
                         long |-> touchDown /\ gesture.long]
                   ELSE gesture
    BY <1>5 DEF Down
  <2>7. ScreenInv' /\ (touchDown => touchDown')
    <3> DEFINE y == pointers'[1].at
    <3>1. y \in Place /\ onTouchStart(y, handled)
          /\ gesture' = IF y \in Screen
                        THEN [start |-> y, moved |-> FALSE, long |-> touchDown /\ gesture.long]
                        ELSE gesture
      BY <2>4, <2>5, <2>6
    <3> HIDE DEF y
    <3>2. QED
      BY <3>1, <1>1, StartKeeps, Zenon
  <2>8. HandsInv'
    BY <1>0, <1>e, <1>1, <1>4, <1>5, <2>1, <2>3 DEF HandsInv, FirstThere
  <2>9. QED
    BY <2>7, <2>8
<1>6. CASE ~running
  <2>1. UNCHANGED <<pointers, screenVars, gesture>>
    BY <1>6 DEF Down
  <2>2. ScreenInv' /\ touchDown' = touchDown
    BY <1>1, <2>1, RestKeeps
  <2>3. HandsInv'
    BY <1>0, <1>e, <1>1, <1>4, <1>6, <2>1, <2>2 DEF HandsInv, FirstThere
  <2>4. QED
    BY <2>2, <2>3
<1>7. QED
  BY <1>5, <1>6

\* ACTION_UP, ACTION_POINTER_UP and ACTION_CANCEL.
LEMMA LeaveKeeps ==
  ASSUME HandsInv, ScreenInv, NEW i \in DOMAIN fingers, NEW x \in Place, NEW all \in BOOLEAN,
         Leave(i, x, all)
  PROVE  HandsInv' /\ ScreenInv' /\ ShortTouch
<1>0. /\ fingers \in Seq(Finger) /\ pointers \in Seq(Pointer)
      /\ running \in BOOLEAN /\ lost \in 0..MaxLost /\ Distinct(fingers)
      /\ lost = 0 => Follow(pointers, fingers)
  BY HandsEquiv DEF HandsInv
<1>e. /\ Hands' <=> /\ fingers' \in Seq(Finger) /\ pointers' \in Seq(Pointer)
                    /\ running' \in BOOLEAN /\ lost' \in 0..MaxLost /\ Distinct(fingers')
      /\ PointersFollow' <=> (lost' = 0 => Follow(pointers', fingers'))
  BY HandsEquivNext
<1> DEFINE gone == {f \in DOMAIN fingers :
                      fingers[f].seen /\ (f = i \/ all) /\ (f # i \/ ~running)}
           id == fingers[i].id
           p == Find(pointers, id)
<1>1. /\ fingers' = IF all THEN <<>> ELSE RemoveAt(fingers, i)
      /\ Ends(id, x)
      /\ lost' = lost + Cardinality(gone) /\ lost' <= MaxLost
      /\ gesture' = IF touchDown' THEN gesture ELSE NoGesture
      /\ running' = running
  BY DEF Leave
<1>2. /\ IsFiniteSet(gone) /\ Cardinality(gone) \in Nat
      /\ Cardinality(gone) = 0 => gone = {}
  <2>1. IsFiniteSet(DOMAIN fingers)
    <3>1. DOMAIN fingers = 1..Len(fingers) /\ Len(fingers) \in Nat
      BY <1>0, SMT
    <3>2. 1 \in Int /\ Len(fingers) \in Int
      BY <3>1, SMT
    <3>3. QED
      BY <3>1, <3>2, FS_Interval, Zenon
  <2>2. IsFiniteSet(gone)
    BY <2>1, FS_Subset
  <2>3. QED
    BY <2>2, FS_CardinalityType, FS_EmptySet
<1> HIDE DEF gone
<1>3. lost' \in 0..MaxLost /\ (lost' = 0 => lost = 0 /\ gone = {})
  BY <1>0, <1>1, <1>2, TouchAssumption, SMT
<1>4. p \in Nat /\ (p # 0 => p \in DOMAIN pointers /\ pointers[p].id = id)
      /\ (p = 0 => id \notin Ids(pointers))
  BY <1>0, FindProps DEF Ids
<1>5. /\ Distinct(RemoveAt(fingers, i)) /\ RemoveAt(fingers, i) \in Seq(Finger)
      /\ lost = 0 =>
           /\ ~fingers[i].seen => id \notin Ids(pointers) /\ Follow(pointers, RemoveAt(fingers, i))
           /\ fingers[i].seen => id \in Ids(pointers)
           /\ fingers[i].seen /\ p # 0 =>
                Follow(RemoveAt(Moved(pointers, p, x), p), RemoveAt(fingers, i))
  <2>1. Distinct(RemoveAt(fingers, i)) /\ RemoveAt(fingers, i) \in Seq(Finger)
    BY <1>0, RemoveDistinct
  <2>2. QED
    BY <1>0, <1>4, <2>1, RemoveFollows
<1>6. HandsInv' /\ ScreenInv' /\ ShortTouch
  <2>1. CASE running /\ p # 0
    <3> DEFINE moved == Moved(pointers, p, x)
    <3>1. onTouchEnd(moved[1].at) /\ pointers' = RemoveAt(moved, p)
      BY <1>1, <2>1 DEF Ends, Moved
    <3>2. moved \in Seq(Pointer) /\ DOMAIN moved = DOMAIN pointers /\ pointers' \in Seq(Pointer)
      BY <1>0, <1>4, <2>1, <3>1, RemovePointer
    <3> HIDE DEF moved
    <3>3. moved[1] \in Pointer
      BY <1>4, <2>1, <3>2, SMT
    <3>4. moved[1].at \in Place
      BY <3>3 DEF Pointer
    <3>5. ScreenInv' /\ ~touchDown' /\ ShortTouch
      <4> DEFINE y == moved[1].at
      <4>1. y \in Place /\ onTouchEnd(y)
        BY <3>1, <3>4
      <4> HIDE DEF y
      <4>2. QED
        BY <4>1, <1>1, <1>3, EndKeeps, Zenon
    <3>6. Distinct(fingers') /\ fingers' \in Seq(Finger)
      <4>1. Distinct(<<>>) /\ <<>> \in Seq(Finger)
        BY SMT DEF Distinct
      <4>2. QED
        BY <1>1, <1>5, <4>1
    <3>7. ASSUME lost' = 0 PROVE Follow(pointers', fingers')
      <4>1. lost = 0 /\ gone = {}
        BY <1>3, <3>7
      <4>2. fingers[i].seen
        BY <1>4, <1>5, <2>1, <4>1 DEF Follow, Ids
      <4>3. Follow(pointers', RemoveAt(fingers, i))
        BY <1>5, <2>1, <3>1, <4>1, <4>2 DEF moved
      <4>4. ASSUME all PROVE Follow(pointers', <<>>)
        <5>1. \A f \in DOMAIN fingers : fingers[f].seen => f = i
          BY <4>1, <4>4 DEF gone
        <5>2. \A j \in DOMAIN RemoveAt(fingers, i) : ~RemoveAt(fingers, i)[j].seen
          BY <1>0, <5>1, RemoveAtSrc
        <5>3. Ids(pointers') = {}
          BY <4>3, <5>2 DEF Follow, SeenIds
        <5>4. Ids(pointers') = SeenIds(<<>>)
          BY <5>3, SMT DEF SeenIds
        <5>5. InOrder(pointers', <<>>)
          BY SMT DEF InOrder
        <5>6. QED
          BY <5>4, <5>5 DEF Follow
      <4>5. QED
        BY <1>1, <4>3, <4>4
    <3>8. HandsInv'
      BY <1>e, <1>0, <1>1, <1>3, <3>2, <3>5, <3>6, <3>7 DEF HandsInv, FirstThere
    <3>9. QED
      BY <3>5, <3>8
  <2>2. CASE ~(running /\ p # 0)
    <3>1. UNCHANGED <<pointers, screenVars>>
      BY <1>1, <2>2 DEF Ends
    <3>2. touchDown' = touchDown
      BY <3>1 DEF screenVars
    <3>3. gesture' = gesture
      BY <1>1, <3>2 DEF ScreenInv, Quiet
    <3>4. ScreenInv'
      BY <1>3, <3>1, <3>3, RestKeeps
    <3>5. ShortTouch
      BY <3>2 DEF ShortTouch
    <3>6. Distinct(fingers') /\ fingers' \in Seq(Finger)
      <4>1. Distinct(<<>>) /\ <<>> \in Seq(Finger)
        BY SMT DEF Distinct
      <4>2. QED
        BY <1>1, <1>5, <4>1
    <3>7. ASSUME lost' = 0 PROVE Follow(pointers', fingers')
      <4>1. lost = 0 /\ gone = {}
        BY <1>3, <3>7
      <4>2. ~fingers[i].seen
        <5>1. SUFFICES ASSUME fingers[i].seen PROVE FALSE
          OBVIOUS
        <5>2. running
          BY <4>1, <5>1 DEF gone
        <5>3. id \in Ids(pointers)
          BY <1>5, <4>1, <5>1
        <5>4. QED
          BY <1>4, <2>2, <5>2, <5>3
      <4>3. Follow(pointers', RemoveAt(fingers, i))
        BY <1>5, <3>1, <4>1, <4>2
      <4>4. ASSUME all PROVE Follow(pointers', <<>>)
        <5>1. \A f \in DOMAIN fingers : ~fingers[f].seen
          BY <4>1, <4>2, <4>4 DEF gone
        <5>2. Ids(pointers') = {}
          BY <1>0, <3>1, <4>1, <5>1 DEF Follow, SeenIds
        <5>3. Ids(pointers') = SeenIds(<<>>)
          BY <5>2, SMT DEF SeenIds
        <5>4. InOrder(pointers', <<>>)
          BY SMT DEF InOrder
        <5>5. QED
          BY <5>3, <5>4 DEF Follow
      <4>5. QED
        BY <1>1, <4>3, <4>4
    <3>8. HandsInv'
      BY <1>e, <1>0, <1>1, <1>3, <3>1, <3>2, <3>6, <3>7 DEF HandsInv, FirstThere
    <3>9. QED
      BY <3>4, <3>5, <3>8
  <2>3. QED
    BY <2>1, <2>2
<1>7. QED
  BY <1>6

\* ACTION_MOVE: the first pointer is where the first of the fingers it knows is.
LEMMA MoveStepKeeps ==
  ASSUME HandsInv, ScreenInv, NEW to \in [Id -> Place], Move(to)
  PROVE  HandsInv' /\ ScreenInv' /\ touchDown' = touchDown
<1>0. /\ fingers \in Seq(Finger) /\ pointers \in Seq(Pointer)
      /\ running \in BOOLEAN /\ lost \in 0..MaxLost /\ Distinct(fingers)
      /\ lost = 0 => Follow(pointers, fingers)
  BY HandsEquiv DEF HandsInv
<1> DEFINE ids == {fingers[f].id : f \in DOMAIN fingers}
           known == {id \in ids : Find(pointers, id) # 0}
           at(p) == IF \E id \in known : Find(pointers, id) = p
                    THEN [pointers[p] EXCEPT !.at = to[pointers[p].id]] ELSE pointers[p]
           far == touchDown /\ gesture.start # Nowhere
                    /\ \E f \in DOMAIN fingers : Oldest(f) /\ Far(gesture.start, to[fingers[f].id])
           moved == gesture.moved \/ far
<1>1. /\ running /\ known # {}
      /\ pointers' = [p \in DOMAIN pointers |-> at(p)]
      /\ \E handled \in [1..Cardinality(known) -> Answers] :
           onTouchMove(pointers'[1].at, Cardinality(known), handled)
      /\ gesture' = [gesture EXCEPT !.moved = moved]
      /\ UNCHANGED <<fingers, running, lost>>
  BY DEF Move, handVars
<1>2. moved \in BOOLEAN /\ far \in BOOLEAN
  OBVIOUS
<1> HIDE DEF moved, far
<1>3. /\ gesture' \in [start : Place \cup {Nowhere}, moved : BOOLEAN, long : BOOLEAN]
      /\ gesture'.start = gesture.start /\ gesture'.long = gesture.long /\ gesture'.moved = moved
      /\ ~touchDown => gesture' = gesture
  <2>1. gesture \in [start : Place \cup {Nowhere}, moved : BOOLEAN, long : BOOLEAN]
    BY DEF ScreenInv, ScreenTypes
  <2> DEFINE w(c) == [gesture EXCEPT !.moved = c]
  <2>2. \A c \in BOOLEAN :
          /\ w(c) \in [start : Place \cup {Nowhere}, moved : BOOLEAN, long : BOOLEAN]
          /\ w(c).start = gesture.start /\ w(c).long = gesture.long
          /\ w(c).moved = c
          /\ gesture.moved = c => w(c) = gesture
    BY <2>1
  <2>3. ~touchDown => gesture.moved = moved
    BY <2>1 DEF moved, far
  <2> DEFINE u == w(moved)
  <2>5. gesture' = u
    BY <1>1
  <2> HIDE DEF w
  <2>4. /\ u \in [start : Place \cup {Nowhere}, moved : BOOLEAN, long : BOOLEAN]
        /\ u.start = gesture.start /\ u.long = gesture.long /\ u.moved = moved
        /\ gesture.moved = moved => u = gesture
    BY <1>2, <2>2, Zenon
  <2> HIDE DEF u
  <2>6. QED
    BY <2>3, <2>4, <2>5
<1>4. IsFiniteSet(known) /\ Cardinality(known) \in Nat
  <2>1. IsFiniteSet(DOMAIN fingers)
    <3>1. DOMAIN fingers = 1..Len(fingers) /\ Len(fingers) \in Nat
      BY <1>0, SMT
    <3>2. 1 \in Int /\ Len(fingers) \in Int
      BY <3>1, SMT
    <3>3. QED
      BY <3>1, <3>2, FS_Interval, Zenon
  <2>2. IsFiniteSet(ids)
    <3> DEFINE F == [f \in DOMAIN fingers |-> fingers[f].id]
    <3>1. F \in Surjection(DOMAIN fingers, ids)
      BY DEF Surjection
    <3>2. QED
      BY <2>1, <3>1, FS_Surjection
  <2>3. QED
    BY <2>2, FS_Subset, FS_CardinalityType
<1>5. ASSUME NEW p \in DOMAIN pointers PROVE at(p) \in Pointer /\ at(p).id = pointers[p].id
  <2>1. pointers[p] \in Pointer
    BY <1>0, SMT
  <2>2. to[pointers[p].id] \in Place
    BY <2>1 DEF Pointer
  <2>3. \A q \in Pointer, y \in Place : [q EXCEPT !.at = y] \in Pointer /\ [q EXCEPT !.at = y].id = q.id
    BY DEF Pointer
  <2>4. QED
    BY <2>1, <2>2, <2>3
<1>6. /\ pointers' \in Seq(Pointer) /\ DOMAIN pointers' = DOMAIN pointers
      /\ \A p \in DOMAIN pointers : pointers'[p] = at(p)
  <2>1. DOMAIN pointers = 1..Len(pointers) /\ Len(pointers) \in Nat
    BY <1>0, SMT
  <2>2. pointers' \in [1..Len(pointers) -> Pointer]
    BY <1>1, <1>5, <2>1
  <2>3. QED
    BY <1>1, <2>1, <2>2, SeqDef
<1>7. 1 \in DOMAIN pointers
  <2>1. PICK id \in known : TRUE
    BY <1>1
  <2>2. Find(pointers, id) \in DOMAIN pointers
    BY <1>0, <2>1, FindProps
  <2>3. QED
    BY <1>0, <2>2, SMT
<1> DEFINE x == pointers'[1].at
<1>8. x \in Place
  BY <1>5, <1>6, <1>7 DEF Pointer
<1>9. ASSUME touchDown, lost = 0 PROVE far <=> Far(gesture.start, x)
  <2>1. gesture.start \in Place /\ gesture.start # Nowhere
    BY <1>9, TouchAssumption DEF ScreenInv, Recorded
  <2>2. PICK f \in DOMAIN fingers : fingers[f].seen /\ fingers[f].id = pointers[1].id
    BY <1>0, <1>7, <1>9 DEF Follow, Ids, SeenIds
  <2>3. ASSUME NEW g \in DOMAIN fingers, fingers[g].seen PROVE g = f \/ f < g
    <3>1. PICK j \in DOMAIN pointers : pointers[j].id = fingers[g].id
      BY <1>0, <1>9, <2>3 DEF Follow, Ids, SeenIds
    <3>2. j = 1 \/ 1 < j
      BY <1>0, <3>1, SMT
    <3>3. QED
      BY <1>0, <1>7, <1>9, <2>2, <3>1, <3>2 DEF Follow, InOrder, Distinct
  <2>4. \A g \in DOMAIN fingers : Oldest(g) <=> g = f
    <3>1. DOMAIN fingers = 1..Len(fingers) /\ Len(fingers) \in Nat /\ f \in Nat
      BY <1>0, SMT
    <3>2. \A g \in DOMAIN fingers : \A h \in 1..g - 1 : h \in DOMAIN fingers /\ h < g
      BY <3>1, SMT
    <3>3. Oldest(f)
      <4>1. SUFFICES ASSUME NEW h \in 1..f - 1, fingers[h].seen PROVE FALSE
        BY <2>2 DEF Oldest
      <4>2. h \in DOMAIN fingers /\ h < f
        BY <3>2
      <4>3. h = f \/ f < h
        BY <2>3, <4>1, <4>2
      <4>4. QED
        BY <3>1, <4>2, <4>3, SMT
    <3>4. ASSUME NEW g \in DOMAIN fingers, Oldest(g), g # f PROVE FALSE
      <4>1. f < g
        BY <2>3, <3>4 DEF Oldest
      <4>2. f \in 1..g - 1
        BY <3>1, <4>1, SMT
      <4>3. QED
        BY <2>2, <3>4, <4>2 DEF Oldest
    <3>5. QED
      BY <3>3, <3>4
  <2>5. x = to[fingers[f].id]
    <3>1. Find(pointers, fingers[f].id) = 1
      <4> DEFINE k == Find(pointers, fingers[f].id)
      <4>1. k # 0 /\ k \in DOMAIN pointers /\ pointers[k].id = pointers[1].id
        BY <1>0, <1>7, <2>2, FindProps
      <4> HIDE DEF k
      <4>2. k \in Nat /\ (k = 1 \/ 1 < k)
        BY <1>0, <4>1, SMT
      <4>3. ~(1 < k)
        <5>1. SUFFICES ASSUME 1 < k PROVE f < f
          BY <1>0, SMT
        <5>2. QED
          BY <1>0, <1>7, <1>9, <2>2, <4>1, <5>1 DEF Follow, InOrder
      <4>4. QED
        BY <4>2, <4>3 DEF k
    <3>2. fingers[f].id \in known
      BY <3>1
    <3>3. at(1) = [pointers[1] EXCEPT !.at = to[pointers[1].id]]
      BY <3>1, <3>2
    <3>4. pointers[1] \in Pointer
      BY <1>0, <1>7, SMT
    <3>5. [pointers[1] EXCEPT !.at = to[pointers[1].id]].at = to[pointers[1].id]
      BY <3>4 DEF Pointer
    <3>6. QED
      BY <1>6, <1>7, <2>2, <3>3, <3>5
  <2>6. QED
    BY <1>9, <2>1, <2>4, <2>5 DEF far
<1>10. PICK handled : onTouchMove(x, Cardinality(known), handled)
  BY <1>1
<1> HIDE DEF x, known, at
<1>11. ScreenInv' /\ touchDown' = touchDown
  <2>1. gesture.moved => gesture'.moved
    BY <1>3 DEF moved
  <2>2. touchDown /\ lost = 0 /\ ~gesture.moved => (gesture'.moved <=> Far(gesture.start, x))
    BY <1>3, <1>9 DEF moved
  <2>3. QED
    BY <1>1, <1>3, <1>4, <1>8, <1>10, <2>1, <2>2, MoveKeeps
<1>12. Hands' /\ FirstThere'
  <2>1. pointers' # <<>>
    BY <1>6, <1>7, SMT
  <2>2. QED
    BY <1>0, <1>1, <1>6, <2>1, HandsEquivNext DEF FirstThere
<1>13. PointersFollow'
  <2>1. \A p \in DOMAIN pointers : pointers'[p].id = pointers[p].id
    BY <1>5, <1>6
  <2>2. Follow(pointers, fingers) => Follow(pointers', fingers')
    BY <1>1, <1>6, <2>1 DEF Follow, Ids, InOrder
  <2>3. QED
    BY <1>0, <1>1, <2>2, HandsEquivNext
<1>14. QED
  BY <1>11, <1>12, <1>13 DEF HandsInv

\* Nothing is on the glass.
LEMMA InitHolds == Init => HandsInv /\ ScreenInv
<1> SUFFICES ASSUME Init PROVE HandsInv /\ ScreenInv
  OBVIOUS
<1>1. Nowhere \notin Place /\ MaxLost \in Nat
  BY TouchAssumption
<1>2. Hands /\ FirstThere
  BY <1>1, SMT DEF Init, Hands, FirstThere
<1>3. PointersFollow
  BY SMT DEF Init, PointersFollow
<1>4. ScreenTypes /\ AllLeft /\ Quiet /\ Recorded
  <2>1. /\ NoPoints \in [first : Place \cup {Nowhere}, count : 0..2]
        /\ NoGesture \in [start : Place \cup {Nowhere}, moved : BOOLEAN, long : BOOLEAN]
    BY DEF NoPoints, NoGesture
  <2>2. ScreenTypes
    BY <2>1 DEF Init, ScreenTypes
  <2>3. QED
    BY <2>2 DEF Init, AllLeft, Quiet, Recorded
<1>5. Tracks
  <2> DEFINE t == [list |-> <<>>, last |-> <<>>, told |-> [a \in Area |-> Nowhere],
                   processed |-> FALSE]
  <2>1. Tracking = t
    BY DEF Init, Tracking
  <2>2. /\ t.list = <<>> /\ t.last = <<>>
        /\ t \in [list : Seq(Area), last : Seq(Place), told : [Area -> Place \cup {Nowhere}],
                  processed : BOOLEAN]
    BY SMT
  <2> HIDE DEF t
  <2>3. Len(t.list) = Len(t.last) /\ DOMAIN t.list = {}
    BY <2>2, SMT
  <2>4. t \in TrackSet
    BY <2>2, <2>3 DEF TrackSet
  <2>5. QED
    BY <2>1, <2>4 DEF Tracks
<1>6. QED
  BY <1>2, <1>3, <1>4, <1>5 DEF HandsInv, ScreenInv

\* Every step keeps the invariant, and tells a short touch as it should.
LEMMA StepKeeps ==
  HandsInv /\ ScreenInv /\ [Next]_vars => HandsInv' /\ ScreenInv' /\ (ShortTouch \/ vars' = vars)
<1> SUFFICES ASSUME HandsInv, ScreenInv, [Next]_vars
             PROVE  HandsInv' /\ ScreenInv' /\ (ShortTouch \/ vars' = vars)
  OBVIOUS
<1>1. ASSUME NEW id \in Id, NEW x \in Place, Down(id, x)
      PROVE  HandsInv' /\ ScreenInv' /\ ShortTouch
  BY <1>1, DownKeeps DEF ShortTouch
<1>2. ASSUME NEW to \in [Id -> Place], Move(to)
      PROVE  HandsInv' /\ ScreenInv' /\ ShortTouch
  BY <1>2, MoveStepKeeps DEF ShortTouch
<1>3. ASSUME NEW i \in DOMAIN fingers, NEW x \in Place,
             Leave(i, x, FALSE) \/ Leave(i, x, TRUE)
      PROVE  HandsInv' /\ ScreenInv' /\ ShortTouch
  <2>1. CASE Leave(i, x, FALSE)
    BY <2>1, LeaveKeeps
  <2>2. CASE Leave(i, x, TRUE)
    BY <2>2, LeaveKeeps
  <2>3. QED
    BY <1>3, <2>1, <2>2
<1>4. CASE Elapse
  <2>1. UNCHANGED <<fingers, running, pointers, lost, touchDown>>
    BY <1>4 DEF Elapse, handVars
  <2>2. HandsInv'
    BY <2>1, HandsEquiv, HandsEquivNext DEF HandsInv, FirstThere
  <2>3. QED
    BY <1>4, <2>1, <2>2, ElapseKeeps DEF ShortTouch
<1>5. CASE Switch
  <2>1. UNCHANGED <<fingers, pointers, screenVars, gesture, lost>> /\ running' = ~running
    BY <1>5 DEF Switch
  <2>2. ScreenInv' /\ touchDown' = touchDown
    BY <2>1, RestKeeps
  <2>3. HandsInv'
    BY <2>1, <2>2, HandsEquiv, HandsEquivNext DEF HandsInv, FirstThere
  <2>4. QED
    BY <2>2, <2>3 DEF ShortTouch
<1>6. CASE UNCHANGED vars
  <2>1. UNCHANGED <<fingers, running, pointers, screenVars, gesture, lost>>
    BY <1>6 DEF vars, handVars
  <2>2. ScreenInv' /\ touchDown' = touchDown
    BY <2>1, RestKeeps
  <2>3. HandsInv'
    BY <2>1, <2>2, HandsEquiv, HandsEquivNext DEF HandsInv, FirstThere
  <2>4. QED
    BY <1>6, <2>2, <2>3
<1>7. QED
  BY <1>1, <1>2, <1>3, <1>4, <1>5, <1>6 DEF Next

-----------------------------------------------------------------------------
(* The theorems.                                                           *)

\* The inductive invariant holds whatever the areas and their number, the fingers, what the
\* handlers process, and the ends of touches that do not arrive.
THEOREM Invariance == Spec => [](HandsInv /\ ScreenInv)
<1>1. HandsInv /\ ScreenInv /\ [Next]_vars => (HandsInv /\ ScreenInv)'
  BY StepKeeps
<1>2. QED
  BY InitHolds, <1>1, PTL DEF Spec

\* motionEvent's pointers are the fingers whose start arrived, in their order, as long as
\* every end arrives too, however many fingers come and go.
THEOREM PointersKept == Spec => []PointersFollow
<1>1. HandsInv /\ ScreenInv => PointersFollow
  BY DEF HandsInv
<1>2. QED
  BY Invariance, <1>1, PTL

\* The invariant says what the runs check of the areas.
LEMMA AreasTracked == HandsInv /\ ScreenInv => TracksAreas
<1> SUFFICES ASSUME HandsInv, ScreenInv PROVE TracksAreas
  OBVIOUS
<1>1. Tracking \in TrackSet
  BY DEF ScreenInv, Tracks
<1>2. /\ trackingList = Tracking.list /\ trackingLast = Tracking.last /\ told = Tracking.told
  BY DEF Tracking
<1>3. /\ trackingList \in Seq(Area) /\ trackingLast \in Seq(Place)
      /\ Len(trackingList) = Len(trackingLast)
      /\ \A i \in DOMAIN trackingList : told[trackingList[i]] = trackingLast[i]
  BY <1>1, <1>2 DEF TrackSet
<1>4. ToSet(trackingList) \subseteq Area /\ ToSet(trackingLast) \subseteq Place
  BY <1>3, SMT DEF ToSet
<1>5. /\ \A i \in DOMAIN fingers : fingers[i] \in [id : Id, seen : BOOLEAN]
      /\ \A i \in DOMAIN pointers : pointers[i] \in [id : Id, at : Place]
      /\ running \in BOOLEAN /\ lost \in 0..MaxLost
  <2>1. \A S : \A s \in Seq(S) : \A i \in DOMAIN s : s[i] \in S
    BY SMT
  <2>2. QED
    BY <2>1 DEF HandsInv, Hands
<1>6. TypeOK
  BY <1>4, <1>5 DEF TypeOK, ScreenInv, ScreenTypes, HandsInv, FirstThere
<1>7. QED
  BY <1>3, <1>6 DEF TracksAreas, DeltasAddUp, ScreenInv

\* An area that was entered hears where the finger goes, and is left when the touch ends:
\* the two vectors stay in step through every walk over the areas.
THEOREM AreasKept == Spec => []TracksAreas
BY Invariance, AreasTracked, PTL

\* A short touch becomes a click on an area it began in, a long one is cancelled, and neither
\* spoils the next: what onTouchEnd records and clears is enough to tell them apart.
THEOREM ShortTouchesTold == Spec => ShortTouchTold
<1>1. HandsInv /\ ScreenInv /\ [Next]_vars => [ShortTouch]_vars
  BY StepKeeps
<1>2. Spec => [][ShortTouch]_vars
  BY Invariance, <1>1, PTL DEF Spec
<1>3. QED
  BY <1>2 DEF ShortTouchTold, ShortTouch
=============================================================================

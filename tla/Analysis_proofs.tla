--------------------------- MODULE Analysis_proofs ---------------------------
(***************************************************************************)
(* Proofs about what passes between the fetcher and a site, and about what *)
(* the plugins name from what came.                                        *)
(***************************************************************************)
EXTENDS Analysis, Induction, FiniteSetTheorems, SequenceTheorems

-----------------------------------------------------------------------------
(* Reading a body: the size and the flag depend on the total alone.        *)
LEMMA TotalSteps ==
  ASSUME NEW cs \in Seq(Nat)
  PROVE  \E f \in [0..Len(cs) -> Nat] :
           /\ f[0] = 0 /\ \A n \in 1..Len(cs) : f[n] = f[n - 1] + cs[n]
           /\ Total(cs) = f[Len(cs)]
<1> DEFINE step == [n \in 1..Len(cs) |-> [a \in Nat |-> a + cs[n]]]
           Fills(f) == f = [n \in 0..Len(cs) |-> IF n = 0 THEN 0 ELSE f[n - 1] + cs[n]]
<1>0. Len(cs) \in Nat /\ \A n \in 1..Len(cs) : cs[n] \in Nat
  OBVIOUS
<1>1. PICK f \in [0..Len(cs) -> Nat] : Steps(f, Len(cs), 0, step)
  <2>1. step \in [1..Len(cs) -> [Nat -> Nat]] /\ 0 \in Nat
    BY <1>0
  <2> HIDE DEF step
  <2> QED
    BY <1>0, <2>1, StepwiseFunction
<1>2. \A n \in 1..Len(cs) : f[n] = f[n - 1] + cs[n]
  <2> TAKE n \in 1..Len(cs)
  <2>1. f[n - 1] \in Nat
    BY <1>0
  <2> QED
    BY <1>1, <2>1 DEF Steps
<1>3. Fills(f)
  BY <1>0, <1>1, <1>2 DEF Steps
<1> DEFINE upTo == CHOOSE g : Fills(g)
<1>4. Fills(upTo)
  BY <1>3
<1>5. Total(cs) = upTo[Len(cs)]
  BY DEF Total
<1> HIDE DEF upTo
<1>6. upTo[0] = 0 /\ \A n \in 1..Len(cs) : upTo[n] = upTo[n - 1] + cs[n]
  <2>1. 0 \in 0..Len(cs) /\ \A n \in 1..Len(cs) : n \in 0..Len(cs) /\ n # 0
    BY <1>0
  <2>2. \A n \in 0..Len(cs) : upTo[n] = IF n = 0 THEN 0 ELSE upTo[n - 1] + cs[n]
    BY <1>4
  <2> QED
    BY <2>1, <2>2
<1>7. \A n \in 0..Len(cs) : upTo[n] \in Nat
  <2>1. upTo[0] \in Nat /\ \A n \in 1..Len(cs) : upTo[n - 1] \in Nat => upTo[n] \in Nat
    BY <1>0, <1>6
  <2> QED
    BY <1>0, <2>1, HandedOn
<1>8. upTo = [n \in 0..Len(cs) |-> upTo[n]]
  BY <1>4
<1>9. upTo \in [0..Len(cs) -> Nat]
  BY <1>7, <1>8
<1> QED
  BY <1>5, <1>6, <1>9

\* One round of readBodyWithLimit.
ReadStep(f, cs, n) ==
  IF n = 0 THEN [size |-> 0, truncated |-> FALSE]
  ELSE IF f[n - 1].truncated THEN f[n - 1]
  ELSE IF cs[n] >= MaxBody - f[n - 1].size
  THEN [size |-> MaxBody, truncated |-> TRUE]
  ELSE [size |-> f[n - 1].size + cs[n], truncated |-> FALSE]

ReadOf(total) == [size |-> Least(MaxBody, total), truncated |-> total >= MaxBody]

LEMMA ReadTotal ==
  ASSUME NEW cs \in Seq(Nat)
  PROVE  Read(cs) = ReadOf(Total(cs)) /\ Total(cs) \in Nat
<1> DEFINE Fills(g) == g = [n \in 0..Len(cs) |-> ReadStep(g, cs, n)]
<1>0. Len(cs) \in Nat /\ MaxBody \in Nat \ {0} /\ \A n \in 1..Len(cs) : cs[n] \in Nat
  BY ExchangeAssumption
<1>1. PICK f \in [0..Len(cs) -> Nat] :
        /\ f[0] = 0 /\ \A n \in 1..Len(cs) : f[n] = f[n - 1] + cs[n]
        /\ Total(cs) = f[Len(cs)]
  BY TotalSteps
<1>2. ASSUME NEW n \in 0..Len(cs), NEW g, n # 0 => g[n - 1] = ReadOf(f[n - 1])
      PROVE  ReadStep(g, cs, n) = ReadOf(f[n])
  <2>1. CASE n = 0
    <3>1. Least(MaxBody, 0) = 0 /\ (0 >= MaxBody) = FALSE
      BY <1>0 DEF Least
    <3> QED
      BY <1>1, <2>1, <3>1 DEF ReadStep, ReadOf
  <2>2. CASE n # 0
    <3>0. n \in 1..Len(cs) /\ n - 1 \in 0..Len(cs)
      BY <1>0, <2>2
    <3>1. f[n - 1] \in Nat /\ f[n] = f[n - 1] + cs[n] /\ cs[n] \in Nat
      BY <1>0, <1>1, <3>0
    <3>2. g[n - 1].size = Least(MaxBody, f[n - 1]) /\ g[n - 1].truncated = (f[n - 1] >= MaxBody)
      BY <1>2, <2>2 DEF ReadOf
    <3>3. CASE f[n - 1] >= MaxBody
      <4>1. ReadStep(g, cs, n) = ReadOf(f[n - 1])
        BY <1>2, <2>2, <3>2, <3>3 DEF ReadStep
      <4>2. Least(MaxBody, f[n - 1]) = MaxBody /\ Least(MaxBody, f[n]) = MaxBody
        BY <1>0, <3>1, <3>3 DEF Least
      <4>3. (f[n - 1] >= MaxBody) = TRUE /\ (f[n] >= MaxBody) = TRUE
        BY <1>0, <3>1, <3>3
      <4> QED
        BY <4>1, <4>2, <4>3 DEF ReadOf
    <3>4. CASE ~(f[n - 1] >= MaxBody)
      <4>1. g[n - 1].size = f[n - 1] /\ ~g[n - 1].truncated
        BY <1>0, <3>1, <3>2, <3>4, SMTT(20) DEF Least
      <4>2. CASE f[n] >= MaxBody
        <5>1. cs[n] >= MaxBody - f[n - 1] /\ Least(MaxBody, f[n]) = MaxBody
          BY <1>0, <3>1, <4>2 DEF Least
        <5>2. (f[n] >= MaxBody) = TRUE
          BY <4>2
        <5> QED
          BY <2>2, <4>1, <5>1, <5>2 DEF ReadStep, ReadOf
      <4>3. CASE ~(f[n] >= MaxBody)
        <5>1. ~(cs[n] >= MaxBody - f[n - 1]) /\ Least(MaxBody, f[n]) = f[n]
          BY <1>0, <3>1, <4>3 DEF Least
        <5>2. (f[n] >= MaxBody) = FALSE
          BY <4>3
        <5> QED
          BY <2>2, <3>1, <4>1, <5>1, <5>2 DEF ReadStep, ReadOf
      <4> QED
        BY <4>2, <4>3
    <3> QED
      BY <3>3, <3>4
  <2> QED
    BY <2>1, <2>2
<1> DEFINE r == [n \in 0..Len(cs) |-> ReadOf(f[n])]
<1>3. Fills(r)
  <2>1. \A n \in 0..Len(cs) : ReadStep(r, cs, n) = ReadOf(f[n])
    <3> TAKE n \in 0..Len(cs)
    <3>1. n # 0 => r[n - 1] = ReadOf(f[n - 1])
      BY <1>0
    <3> HIDE DEF r
    <3> QED
      BY <1>2, <3>1
  <2> QED
    BY <2>1
<1> DEFINE upTo == CHOOSE g : Fills(g)
<1>4. Fills(upTo)
  BY <1>3
<1>5. Read(cs) = upTo[Len(cs)]
  BY DEF Read, ReadStep
<1> HIDE DEF upTo
<1> DEFINE S == {n \in 0..Len(cs) : upTo[n] = ReadOf(f[n])}
<1>6. 0 \in S
  BY <1>0, <1>2, <1>4
<1>7. \A n \in 1..Len(cs) : n - 1 \in S => n \in S
  BY <1>0, <1>2, <1>4
<1>8. Len(cs) \in S
  <2> HIDE DEF S
  <2> QED
    <3>1. 0..Len(cs) \subseteq S
      BY <1>0, <1>6, <1>7, InductionUpTo
    <3> QED
      BY <1>0, <3>1
<1> QED
  BY <1>0, <1>1, <1>5, <1>8

-----------------------------------------------------------------------------
LEMMA Appended ==
  ASSUME NEW E, NEW s \in Seq(E), NEW e \in E
  PROVE  /\ Append(s, e) \in Seq(E) /\ Len(Append(s, e)) = Len(s) + 1 /\ Len(s) \in Nat
         /\ \A n \in 1..Len(s) : Append(s, e)[n] = s[n]
         /\ Append(s, e)[Len(s) + 1] = e
  OBVIOUS

(* Sifting, one member at a time. *)
SiftStep(s, S, x, n) == IF s[n] \in S THEN Append(x, s[n]) ELSE x

Sifts(f, s, S) ==
  /\ f[0] = <<>> /\ \A n \in 1..Len(s) : f[n] = SiftStep(s, S, f[n - 1], n)
  /\ Sift(s, S) = f[Len(s)]

LEMMA SiftSteps ==
  ASSUME NEW E, NEW s \in Seq(E), NEW S
  PROVE  \E f \in [0..Len(s) -> Seq(E)] : Sifts(f, s, S)
<1> DEFINE step == [n \in 1..Len(s) |-> [x \in Seq(E) |-> SiftStep(s, S, x, n)]]
           Fills(f) == f = [n \in 0..Len(s) |-> IF n = 0 THEN <<>> ELSE SiftStep(s, S, f[n - 1], n)]
<1>0. Len(s) \in Nat /\ <<>> \in Seq(E) /\ \A n \in 1..Len(s) : s[n] \in E
  OBVIOUS
<1>1. ASSUME NEW n \in 1..Len(s), NEW x \in Seq(E) PROVE SiftStep(s, S, x, n) \in Seq(E)
  BY <1>0, Appended DEF SiftStep
<1>2. PICK f \in [0..Len(s) -> Seq(E)] : Steps(f, Len(s), <<>>, step)
  <2>1. step \in [1..Len(s) -> [Seq(E) -> Seq(E)]]
    BY <1>1
  <2> HIDE DEF step
  <2> QED
    BY <1>0, <2>1, StepwiseFunction
<1>3. \A n \in 1..Len(s) : f[n] = SiftStep(s, S, f[n - 1], n)
  <2> TAKE n \in 1..Len(s)
  <2>1. f[n - 1] \in Seq(E)
    BY <1>0
  <2> QED
    BY <1>2, <2>1 DEF Steps
<1>4. Fills(f)
  BY <1>0, <1>2, <1>3 DEF Steps
<1> DEFINE upTo == CHOOSE g : Fills(g)
<1>5. Fills(upTo)
  BY <1>4
<1>6. Sift(s, S) = upTo[Len(s)]
  BY DEF Sift, SiftStep
<1> HIDE DEF upTo
<1>7. upTo[0] = <<>> /\ \A n \in 1..Len(s) : upTo[n] = SiftStep(s, S, upTo[n - 1], n)
  <2>1. 0 \in 0..Len(s) /\ \A n \in 1..Len(s) : n \in 0..Len(s) /\ n # 0
    BY <1>0
  <2>2. \A n \in 0..Len(s) : upTo[n] = IF n = 0 THEN <<>> ELSE SiftStep(s, S, upTo[n - 1], n)
    BY <1>5
  <2> QED
    BY <2>1, <2>2
<1>8. \A n \in 0..Len(s) : upTo[n] \in Seq(E)
  <2>1. upTo[0] \in Seq(E) /\ \A n \in 1..Len(s) : upTo[n - 1] \in Seq(E) => upTo[n] \in Seq(E)
    BY <1>0, <1>1, <1>7
  <2> QED
    BY <1>0, <2>1, HandedOn
<1>9. upTo = [n \in 0..Len(s) |-> upTo[n]]
  BY <1>5
<1>10. upTo \in [0..Len(s) -> Seq(E)]
  BY <1>8, <1>9
<1> QED
  BY <1>6, <1>7, <1>10 DEF Sifts

\* q is what is left of the first n members of s, and p says where it was.
Sifted(q, p, s, S, n) ==
  /\ p \in [1..Len(q) -> 1..n]
  /\ \A i \in 1..Len(q) : q[i] = s[p[i]] /\ s[p[i]] \in S
  /\ \A i, j \in 1..Len(q) : i < j => p[i] < p[j]
  /\ \A m \in 1..n : s[m] \in S => \E i \in 1..Len(q) : p[i] = m
SiftedUpTo(q, s, S, n) == \E p \in [1..Len(q) -> 1..n] : Sifted(q, p, s, S, n)

LEMMA SiftOn ==
  ASSUME NEW E, NEW s \in Seq(E), NEW S, NEW n \in 1..Len(s), NEW q \in Seq(E),
         SiftedUpTo(q, s, S, n - 1)
  PROVE  SiftedUpTo(SiftStep(s, S, q, n), s, S, n)
<1>0. Len(s) \in Nat /\ n \in Nat /\ s[n] \in E /\ Len(q) \in Nat
  OBVIOUS
<1>1. PICK p \in [1..Len(q) -> 1..(n - 1)] : Sifted(q, p, s, S, n - 1)
  BY DEF SiftedUpTo
<1>2. CASE s[n] \in S
  <2> DEFINE x == Append(q, s[n])
             r == [i \in 1..(Len(q) + 1) |-> IF i = Len(q) + 1 THEN n ELSE p[i]]
  <2>1. /\ Len(x) = Len(q) + 1 /\ x[Len(q) + 1] = s[n]
        /\ \A i \in 1..Len(q) : x[i] = q[i]
    BY <1>0, Appended
  <2>2. r \in [1..Len(x) -> 1..n]
    BY <1>0, <2>1
  <2>3. \A i \in 1..Len(q) : r[i] = p[i] /\ p[i] \in 1..(n - 1)
    BY <1>0
  <2>4. r[Len(q) + 1] = n
    BY <1>0
  <2>5. SiftStep(s, S, q, n) = x
    BY <1>2 DEF SiftStep
  <2> HIDE DEF x, r
  <2>6. \A i \in 1..Len(x) : i \in 1..Len(q) \/ i = Len(q) + 1
    BY <1>0, <2>1
  <2>7. \A i \in 1..Len(x) : x[i] = s[r[i]] /\ s[r[i]] \in S
    BY <1>1, <1>2, <2>1, <2>3, <2>4, <2>6 DEF Sifted
  <2>8. \A i, j \in 1..Len(x) : i < j => r[i] < r[j]
    <3> SUFFICES ASSUME NEW i \in 1..Len(x), NEW j \in 1..Len(x), i < j PROVE r[i] < r[j]
      OBVIOUS
    <3>1. i \in 1..Len(q)
      BY <1>0, <2>1
    <3>2. CASE j \in 1..Len(q)
      BY <1>1, <2>3, <3>1, <3>2 DEF Sifted
    <3>3. CASE j = Len(q) + 1
      BY <1>0, <2>3, <2>4, <3>1, <3>3
    <3> QED
      BY <2>6, <3>2, <3>3
  <2>9. ASSUME NEW m \in 1..n, s[m] \in S PROVE \E i \in 1..Len(x) : r[i] = m
    <3>1. CASE m = n
      <4>1. Len(q) + 1 \in 1..Len(x)
        BY <1>0, <2>1
      <4> QED
        BY <2>4, <3>1, <4>1
    <3>2. CASE m # n
      <4>1. m \in 1..(n - 1)
        BY <1>0, <3>2
      <4>2. PICK i \in 1..Len(q) : p[i] = m
        BY <1>1, <2>9, <4>1 DEF Sifted
      <4>3. i \in 1..Len(x) /\ r[i] = m
        BY <1>0, <2>1, <2>3, <4>2
      <4> QED
        BY <4>3
    <3> QED
      BY <3>1, <3>2
  <2> QED
    BY <2>2, <2>5, <2>7, <2>8, <2>9 DEF Sifted, SiftedUpTo
<1>3. CASE s[n] \notin S
  <2>1. SiftStep(s, S, q, n) = q
    BY <1>3 DEF SiftStep
  <2>2. p \in [1..Len(q) -> 1..n]
    BY <1>0
  <2>3. ASSUME NEW m \in 1..n, s[m] \in S PROVE \E i \in 1..Len(q) : p[i] = m
    <3>1. m \in 1..(n - 1)
      BY <1>0, <1>3, <2>3
    <3> QED
      BY <1>1, <2>3, <3>1 DEF Sifted
  <2>4. Sifted(q, p, s, S, n)
    BY <1>1, <2>2, <2>3 DEF Sifted
  <2> QED
    BY <2>1, <2>2, <2>4 DEF SiftedUpTo
<1> QED
  BY <1>2, <1>3

(* What sifting leaves are the members of s that are in S, in their order. *)
LEMMA SiftPlaces ==
  ASSUME NEW E, NEW s \in Seq(E), NEW S
  PROVE  Sift(s, S) \in Seq(E) /\ SiftedUpTo(Sift(s, S), s, S, Len(s))
<1>0. Len(s) \in Nat
  OBVIOUS
<1>1. PICK f \in [0..Len(s) -> Seq(E)] : Sifts(f, s, S)
  BY SiftSteps
<1> DEFINE T == {n \in 0..Len(s) : SiftedUpTo(f[n], s, S, n)}
<1>2. 0 \in T
  <2>1. Sifted(f[0], <<>>, s, S, 0) /\ <<>> \in [1..Len(f[0]) -> 1..0]
    BY <1>1 DEF Sifted, Sifts
  <2> QED
    BY <1>0, <2>1 DEF SiftedUpTo
<1>3. \A n \in 1..Len(s) : n - 1 \in T => n \in T
  <2> SUFFICES ASSUME NEW n \in 1..Len(s), n - 1 \in T PROVE n \in T
    OBVIOUS
  <2>1. f[n - 1] \in Seq(E) /\ SiftedUpTo(f[n - 1], s, S, n - 1)
    BY <1>0
  <2> QED
    BY <1>0, <1>1, <2>1, SiftOn DEF Sifts
<1>4. Len(s) \in T
  <2> HIDE DEF T
  <2>1. 0..Len(s) \subseteq T
    BY <1>0, <1>2, <1>3, InductionUpTo
  <2> QED
    BY <1>0, <2>1
<1> QED
  BY <1>0, <1>1, <1>4 DEF Sifts

-----------------------------------------------------------------------------
\* The cookies a jar may hold.
Kept == {Stored(c, HostOf[r], t) : c \in Offered, r \in Request, t \in Nat}

LEMMA KeptExpires == \A c \in Kept : c.expires \in Int \cup {None}
<1> SUFFICES ASSUME NEW c \in Offered, NEW r \in Request, NEW t \in Nat
             PROVE  Stored(c, HostOf[r], t).expires \in Int \cup {None}
  BY DEF Kept
<1>1. c.maxAge \in Int \cup {None} /\ c.expires \in Int \cup {None}
  BY ExchangeAssumption
<1>2. Expiry(c, t) \in Int \cup {None}
  BY <1>1 DEF Expiry
<1> QED
  BY <1>2 DEF Stored

LEMMA HandedKept ==
  ASSUME NEW cs \in Seq(Offered), NEW r \in Request, now \in Nat
  PROVE  Handed(cs, HostOf[r]) \in Seq(Kept)
<1>1. Len(cs) \in Nat /\ DOMAIN cs = 1..Len(cs) /\ \A n \in 1..Len(cs) : cs[n] \in Offered
  OBVIOUS
<1>2. \A n \in 1..Len(cs) : Stored(cs[n], HostOf[r], now) \in Kept
  BY <1>1 DEF Kept
<1>3. Handed(cs, HostOf[r]) = [n \in 1..Len(cs) |-> Stored(cs[n], HostOf[r], now)]
  BY <1>1 DEF Handed
<1> QED
  BY <1>1, <1>2, <1>3

(* Being of one identity is an equivalence. *)
LEMMA SameFacts ==
  /\ \A a : Same(a, a)
  /\ \A a, b : Same(a, b) => Same(b, a)
  /\ \A a, b, c : Same(a, b) /\ Same(b, c) => Same(a, c)
  BY DEF Same

(* Of two cookies of one identity one is not the newest. *)
LEMMA NewestDiffer ==
  ASSUME NEW g \in Seq(Kept), NEW m \in Newest(g, Len(g)), NEW n \in Newest(g, Len(g)),
         Same(g[m], g[n])
  PROVE  m = n
<1>1. m \in 1..Len(g) /\ n \in 1..Len(g) /\ Len(g) \in Nat
  BY DEF Newest
<1>2. ~(m < n)
  BY <1>1, SameFacts DEF Newest
<1>3. ~(n < m)
  BY <1>1, SameFacts DEF Newest
<1> QED
  BY <1>1, <1>2, <1>3

(* A cookie that is taken in is the newest of its identity. *)
LEMMA NewestGrows ==
  ASSUME NEW g \in Seq(Kept), NEW c \in Kept
  PROVE  Newest(Append(g, c), Len(g) + 1) =
           {n \in Newest(g, Len(g)) : ~Same(c, g[n])} \cup {Len(g) + 1}
<1> DEFINE x == Append(g, c)
<1>1. /\ Len(g) \in Nat /\ x[Len(g) + 1] = c
      /\ \A n \in 1..Len(g) : x[n] = g[n]
  BY Appended
<1> HIDE DEF x
<1>2. ASSUME NEW n \in Newest(x, Len(g) + 1), n # Len(g) + 1
      PROVE  n \in Newest(g, Len(g)) /\ ~Same(c, g[n])
  <2>1. n \in 1..Len(g) /\ \A m \in (n + 1)..(Len(g) + 1) : ~Same(x[m], x[n])
    BY <1>1, <1>2 DEF Newest
  <2>2. ASSUME NEW m \in (n + 1)..Len(g) PROVE ~Same(g[m], g[n])
    <3>1. m \in 1..Len(g) /\ m \in (n + 1)..(Len(g) + 1)
      BY <1>1, <2>1
    <3> QED
      BY <1>1, <2>1, <3>1
  <2>3. Len(g) + 1 \in (n + 1)..(Len(g) + 1)
    BY <1>1, <2>1
  <2> QED
    BY <1>1, <2>1, <2>2, <2>3 DEF Newest
<1>3. ASSUME NEW n \in Newest(g, Len(g)), ~Same(c, g[n])
      PROVE  n \in Newest(x, Len(g) + 1)
  <2>1. n \in 1..Len(g) /\ \A m \in (n + 1)..Len(g) : ~Same(g[m], g[n])
    BY DEF Newest
  <2>2. ASSUME NEW m \in (n + 1)..(Len(g) + 1) PROVE ~Same(x[m], x[n])
    <3>1. CASE m = Len(g) + 1
      BY <1>1, <1>3, <2>1, <3>1
    <3>2. CASE m # Len(g) + 1
      <4>1. m \in 1..Len(g) /\ m \in (n + 1)..Len(g)
        BY <1>1, <2>1, <3>2
      <4> QED
        BY <1>1, <2>1, <4>1
    <3> QED
      BY <3>1, <3>2
  <2>3. n \in 1..(Len(g) + 1)
    BY <1>1, <2>1
  <2> QED
    BY <2>2, <2>3 DEF Newest
<1>4. Len(g) + 1 \in Newest(x, Len(g) + 1)
  BY <1>1 DEF Newest
<1> QED
  BY <1>2, <1>3, <1>4 DEF x

-----------------------------------------------------------------------------
\* The jar a against what was taken in, g: h says where its cookies are from.
Tracks(a, g, h) ==
  /\ h \in [1..Len(a) -> 1..Len(g)]
  /\ \A k \in 1..Len(a) : a[k] = g[h[k]] /\ h[k] \in Newest(g, Len(g))
  /\ \A j, k \in 1..Len(a) : j < k => h[j] < h[k]

Later(g, k, n) == {m \in Newest(g, k) : m > n}
Pushed(g, n) == Cardinality(Later(g, Len(g), n)) >= MaxCookies

\* Nothing that is live is missing but what the limit pushed out.
Misses(a, g, t, h) ==
  \A n \in Newest(g, Len(g)) : Live(g[n], t) => Pushed(g, n) \/ \E k \in 1..Len(a) : h[k] = n

Holds(a, g, t) ==
  /\ a \in Seq(Kept) /\ g \in Seq(Kept)
  /\ \E h \in [1..Len(a) -> 1..Len(g)] : Tracks(a, g, h) /\ Misses(a, g, t, h)

LEMMA LaterFinite ==
  ASSUME NEW g \in Seq(Kept), NEW n
  PROVE  IsFiniteSet(Later(g, Len(g), n)) /\ Cardinality(Later(g, Len(g), n)) \in Nat
<1>1. Len(g) \in Nat /\ IsFiniteSet(1..Len(g)) /\ Later(g, Len(g), n) \subseteq 1..Len(g)
  BY FS_Interval DEF Later, Newest
<1> QED
  BY <1>1, FS_Subset, FS_CardinalityType

(* One cookie in, at most one out: what was pushed stays pushed. *)
LEMMA PushedStays ==
  ASSUME NEW g \in Seq(Kept), NEW c \in Kept, NEW n \in 1..Len(g), Pushed(g, n)
  PROVE  Pushed(Append(g, c), n)
<1> DEFINE x == Append(g, c)
           A == Later(g, Len(g), n)
           B == Later(x, Len(x), n)
<1>1. Len(g) \in Nat /\ Len(x) = Len(g) + 1 /\ x \in Seq(Kept) /\ MaxCookies \in Nat
  BY Appended, ExchangeAssumption
<1>2. B = {m \in A : ~Same(c, g[m])} \cup {Len(g) + 1}
  BY <1>1, NewestGrows DEF Later
<1>3. Len(g) + 1 \notin A
  BY <1>1 DEF Later, Newest
<1>4. /\ IsFiniteSet(A) /\ IsFiniteSet(B)
      /\ Cardinality(A) \in Nat /\ Cardinality(B) \in Nat /\ Cardinality(A) >= MaxCookies
  BY <1>1, LaterFinite DEF Pushed
<1> HIDE DEF x, A, B
<1>5. \E q : A \ {q} \subseteq B
  <2>1. CASE \A m \in A : ~Same(c, g[m])
    BY <1>2, <2>1
  <2>2. CASE \E q \in A : Same(c, g[q])
    <3>1. PICK q \in A : Same(c, g[q])
      BY <2>2
    <3>2. ASSUME NEW m \in A, m # q PROVE ~Same(c, g[m])
      <4>1. m \in Newest(g, Len(g)) /\ q \in Newest(g, Len(g))
        BY DEF A, Later
      <4> QED
        BY <3>1, <3>2, <4>1, NewestDiffer, SameFacts
    <3> QED
      BY <1>2, <3>2
  <2> QED
    BY <2>1, <2>2
<1>6. PICK q : A \ {q} \subseteq B
  BY <1>5
<1> DEFINE D == A \ {q}
<1>7. IsFiniteSet(D) /\ Cardinality(D) \in Nat /\ Cardinality(D) >= Cardinality(A) - 1
  <2>1. IsFiniteSet(A \ {q}) /\
          Cardinality(A \ {q}) = IF q \in A THEN Cardinality(A) - 1 ELSE Cardinality(A)
    BY <1>4, FS_RemoveElement
  <2>2. Cardinality(A \ {q}) \in Nat
    BY <2>1, FS_CardinalityType
  <2> QED
    BY <1>4, <2>1, <2>2
<1>8. Len(g) + 1 \notin D /\ D \cup {Len(g) + 1} \subseteq B
  BY <1>2, <1>3, <1>6
<1> HIDE DEF D
<1>9. Cardinality(D \cup {Len(g) + 1}) = Cardinality(D) + 1
  BY <1>7, <1>8, FS_AddElement
<1>10. Cardinality(D \cup {Len(g) + 1}) <= Cardinality(B)
  BY <1>4, <1>8, FS_Subset
<1> QED
  BY <1>1, <1>4, <1>7, <1>9, <1>10 DEF Pushed, B, x

(* Sifting a jar leaves its cookies where they are from. *)
SiftedJar(q, r, a, h, S) ==
  /\ \A i \in 1..Len(q) : q[i] \in S
  /\ \A k \in 1..Len(a) : a[k] \in S => \E i \in 1..Len(q) : r[i] = h[k]

LEMMA SiftTracks ==
  ASSUME NEW a \in Seq(Kept), NEW g \in Seq(Kept), NEW S,
         NEW h \in [1..Len(a) -> 1..Len(g)], Tracks(a, g, h)
  PROVE  \E r \in [1..Len(Sift(a, S)) -> 1..Len(g)] :
           Tracks(Sift(a, S), g, r) /\ SiftedJar(Sift(a, S), r, a, h, S)
<1> DEFINE q == Sift(a, S)
<1>1. q \in Seq(Kept) /\ SiftedUpTo(q, a, S, Len(a))
  BY SiftPlaces
<1>2. Len(q) \in Nat /\ Len(a) \in Nat /\ Len(g) \in Nat
  BY <1>1
<1> HIDE DEF q
<1>3. PICK p \in [1..Len(q) -> 1..Len(a)] : Sifted(q, p, a, S, Len(a))
  BY <1>1 DEF SiftedUpTo
<1> DEFINE r == [i \in 1..Len(q) |-> h[p[i]]]
<1>4. r \in [1..Len(q) -> 1..Len(g)] /\ \A i \in 1..Len(q) : r[i] = h[p[i]] /\ p[i] \in 1..Len(a)
  OBVIOUS
<1> HIDE DEF r
<1>5. \A i \in 1..Len(q) : q[i] = g[r[i]] /\ r[i] \in Newest(g, Len(g)) /\ q[i] \in S
  BY <1>3, <1>4, SMTT(20) DEF Sifted, Tracks
<1>6. \A i, j \in 1..Len(q) : i < j => r[i] < r[j]
  BY <1>3, <1>4 DEF Sifted, Tracks
<1>7. \A k \in 1..Len(a) : a[k] \in S => \E i \in 1..Len(q) : r[i] = h[k]
  BY <1>3, <1>4 DEF Sifted
<1>8. Tracks(q, g, r)
  BY <1>4, <1>5, <1>6 DEF Tracks
<1>9. SiftedJar(q, r, a, h, S)
  BY <1>5, <1>7 DEF SiftedJar
<1> QED
  BY <1>4, <1>8, <1>9 DEF q

(* Reading the jar drops what has expired, and nothing else. *)
LEMMA FreshHolds ==
  ASSUME NEW a, NEW g, NEW t, Holds(a, g, t)
  PROVE  Holds(Fresh(a, t), g, t)
<1> DEFINE q == Fresh(a, t)
<1>1. a \in Seq(Kept) /\ g \in Seq(Kept)
  BY DEF Holds
<1>2. PICK h \in [1..Len(a) -> 1..Len(g)] : Tracks(a, g, h) /\ Misses(a, g, t, h)
  BY DEF Holds
<1>3. q \in Seq(Kept)
  BY <1>1, SiftPlaces DEF Fresh
<1>4. PICK r \in [1..Len(q) -> 1..Len(g)] :
        Tracks(q, g, r) /\ SiftedJar(q, r, a, h, LiveOf(a, t))
  BY <1>1, <1>2, SiftTracks DEF Fresh
<1> HIDE DEF q
<1>5. Misses(q, g, t, r)
  <2> SUFFICES ASSUME NEW n \in Newest(g, Len(g)), Live(g[n], t), ~Pushed(g, n)
               PROVE  \E i \in 1..Len(q) : r[i] = n
    BY DEF Misses
  <2>1. PICK k \in 1..Len(a) : h[k] = n
    BY <1>2 DEF Misses
  <2>2. a[k] = g[n] /\ DOMAIN a = 1..Len(a)
    BY <1>1, <1>2, <2>1 DEF Tracks
  <2>3. a[k] \in LiveOf(a, t)
    BY <2>2 DEF LiveOf
  <2> QED
    BY <1>4, <2>1, <2>3 DEF SiftedJar
<1> QED
  BY <1>1, <1>3, <1>4, <1>5 DEF Holds, q

(* A live cookie takes the place of the one of its identity. *)
LEMMA PutHolds ==
  ASSUME NEW a, NEW g, NEW t, NEW c \in Kept, Live(c, t), Holds(a, g, t)
  PROVE  Holds(Put(a, c, t), Append(g, c), t)
<1> DEFINE S == Others(a, c)
           q == Sift(a, S)
           x == Append(q, c)
           y == Append(g, c)
<1>1. a \in Seq(Kept) /\ g \in Seq(Kept)
  BY DEF Holds
<1>2. PICK h \in [1..Len(a) -> 1..Len(g)] : Tracks(a, g, h) /\ Misses(a, g, t, h)
  BY DEF Holds
<1>3. q \in Seq(Kept)
  BY <1>1, SiftPlaces
<1>4. PICK r \in [1..Len(q) -> 1..Len(g)] : Tracks(q, g, r) /\ SiftedJar(q, r, a, h, S)
  BY <1>1, <1>2, SiftTracks
<1>5. Put(a, c, t) = x
  BY DEF Put
<1>6. /\ x \in Seq(Kept) /\ Len(x) = Len(q) + 1 /\ Len(q) \in Nat
      /\ x[Len(q) + 1] = c /\ \A i \in 1..Len(q) : x[i] = q[i]
  BY <1>3, Appended
<1>7. /\ y \in Seq(Kept) /\ Len(y) = Len(g) + 1 /\ Len(g) \in Nat
      /\ y[Len(g) + 1] = c /\ \A i \in 1..Len(g) : y[i] = g[i]
  BY <1>1, Appended
<1>8. Newest(y, Len(y)) = {n \in Newest(g, Len(g)) : ~Same(c, g[n])} \cup {Len(g) + 1}
  BY <1>1, <1>7, NewestGrows
<1>9. /\ \A k \in 1..Len(a) : a[k] \in S <=> ~Same(c, a[k])
      /\ \A z \in S : ~Same(c, z)
  <2>1. DOMAIN a = 1..Len(a)
    BY <1>1
  <2> QED
    BY <2>1 DEF Others
<1>10. \A n \in Newest(g, Len(g)) : Pushed(g, n) => Pushed(y, n)
  BY <1>1, PushedStays DEF Newest
<1> HIDE DEF S, q, x, y
<1> DEFINE u == [i \in 1..Len(x) |-> IF i = Len(q) + 1 THEN Len(g) + 1 ELSE r[i]]
<1>11. /\ u \in [1..Len(x) -> 1..Len(y)] /\ u[Len(q) + 1] = Len(g) + 1
       /\ \A i \in 1..Len(q) : u[i] = r[i] /\ u[i] \in 1..Len(g)
  <2>1. \A i \in 1..Len(q) : i \in 1..Len(x) /\ i # Len(q) + 1 /\ r[i] \in 1..Len(g)
    BY <1>6
  <2>2. Len(q) + 1 \in 1..Len(x)
    BY <1>6
  <2>3. \A i \in 1..Len(x) : i \in 1..Len(q) \/ i = Len(q) + 1
    BY <1>6
  <2>4. u \in [1..Len(x) -> 1..Len(y)]
    BY <1>7, <2>1, <2>3
  <2> QED
    BY <2>1, <2>2, <2>4
<1>12. \A i \in 1..Len(x) : i \in 1..Len(q) \/ i = Len(q) + 1
  BY <1>6
<1> HIDE DEF u
<1>13. Tracks(x, y, u)
  <2>1. ASSUME NEW i \in 1..Len(q)
        PROVE  x[i] = y[u[i]] /\ u[i] \in Newest(y, Len(y))
    <3>1. q[i] = g[r[i]] /\ r[i] \in Newest(g, Len(g))
      BY <1>4 DEF Tracks
    <3>2. ~Same(c, g[r[i]])
      BY <1>4, <1>9, <3>1 DEF SiftedJar
    <3> QED
      BY <1>6, <1>7, <1>8, <1>11, <3>1, <3>2
  <2>2. x[Len(q) + 1] = y[u[Len(q) + 1]] /\ u[Len(q) + 1] \in Newest(y, Len(y))
    BY <1>6, <1>7, <1>8, <1>11
  <2>3. \A i, j \in 1..Len(x) : i < j => u[i] < u[j]
    <3> SUFFICES ASSUME NEW i \in 1..Len(x), NEW j \in 1..Len(x), i < j PROVE u[i] < u[j]
      OBVIOUS
    <3>1. i \in 1..Len(q)
      BY <1>6
    <3>2. CASE j \in 1..Len(q)
      BY <1>4, <1>11, <3>1, <3>2 DEF Tracks
    <3>3. CASE j = Len(q) + 1
      BY <1>7, <1>11, <3>1, <3>3
    <3> QED
      BY <1>12, <3>2, <3>3
  <2> QED
    BY <1>11, <1>12, <2>1, <2>2, <2>3 DEF Tracks
<1>14. Misses(x, y, t, u)
  <2> SUFFICES ASSUME NEW n \in Newest(y, Len(y)), Live(y[n], t), ~Pushed(y, n)
               PROVE  \E i \in 1..Len(x) : u[i] = n
    BY DEF Misses
  <2>1. CASE n = Len(g) + 1
    <3>1. Len(q) + 1 \in 1..Len(x)
      BY <1>6
    <3> QED
      BY <1>11, <2>1, <3>1
  <2>2. CASE n \in Newest(g, Len(g)) /\ ~Same(c, g[n])
    <3>1. n \in 1..Len(g) /\ y[n] = g[n] /\ ~Pushed(g, n)
      BY <1>7, <1>10, <2>2 DEF Newest
    <3>2. PICK k \in 1..Len(a) : h[k] = n
      BY <1>2, <2>2, <3>1 DEF Misses
    <3>3. a[k] \in S
      BY <1>2, <1>9, <2>2, <3>2 DEF Tracks
    <3>4. PICK i \in 1..Len(q) : r[i] = n
      BY <1>4, <3>2, <3>3 DEF SiftedJar
    <3>5. i \in 1..Len(x) /\ u[i] = n
      BY <1>6, <1>11, <3>4
    <3> QED
      BY <3>5
  <2> QED
    BY <1>8, <2>1, <2>2
<1> QED
  BY <1>5, <1>6, <1>7, <1>11, <1>13, <1>14 DEF Holds, y

(* What is evicted has as many newer cookies behind it as the jar takes. *)
LEMMA EvictHolds ==
  ASSUME NEW a, NEW g, NEW t, Holds(a, g, t)
  PROVE  Holds(Evict(a), g, t)
<1>1. a \in Seq(Kept) /\ g \in Seq(Kept) /\ Len(a) \in Nat /\ Len(g) \in Nat
  BY DEF Holds
<1>2. PICK h \in [1..Len(a) -> 1..Len(g)] : Tracks(a, g, h) /\ Misses(a, g, t, h)
  BY DEF Holds
<1>3. MaxCookies \in Nat \ {0}
  BY ExchangeAssumption
<1>4. CASE ~(Len(a) > MaxCookies)
  BY <1>4 DEF Evict
<1>5. CASE Len(a) > MaxCookies
  <2> DEFINE d == Len(a) - MaxCookies
             x == SubSeq(a, d + 1, Len(a))
             u == [i \in 1..MaxCookies |-> h[i + d]]
  <2>1. d \in Nat /\ d + MaxCookies = Len(a) /\ d > 0
    BY <1>1, <1>3, <1>5
  <2>2. Evict(a) = x
    BY <1>5 DEF Evict
  <2>3. /\ x \in Seq(Kept) /\ Len(x) = MaxCookies
        /\ \A i \in 1..MaxCookies : x[i] = a[i + d]
    <3>1. \A i \in (d + 1)..Len(a) : a[i] \in Kept
      BY <1>1, <2>1
    <3>2. /\ x \in Seq(Kept) /\ Len(x) = IF d + 1 <= Len(a) THEN Len(a) - (d + 1) + 1 ELSE 0
          /\ \A i \in 1..(Len(a) - (d + 1) + 1) : x[i] = a[d + 1 + i - 1]
      BY <1>1, <2>1, <3>1, SubSeqProperties
    <3>3. Len(x) = MaxCookies /\ Len(a) - (d + 1) + 1 = MaxCookies
      BY <1>1, <1>3, <2>1, <3>2
    <3>4. \A i \in 1..MaxCookies : d + 1 + i - 1 = i + d
      BY <2>1
    <3> QED
      BY <3>2, <3>3, <3>4
  <2>4. \A i \in 1..MaxCookies : i + d \in 1..Len(a)
    BY <1>1, <1>3, <2>1
  <2>5. u \in [1..Len(x) -> 1..Len(g)] /\ \A i \in 1..Len(x) : u[i] = h[i + d]
    BY <2>3, <2>4
  <2>6. \A k \in 1..Len(a) : k <= d \/ (k - d \in 1..MaxCookies /\ (k - d) + d = k)
    BY <1>1, <1>3, <2>1
  <2> HIDE DEF d, x, u
  <2>7. Tracks(x, g, u)
    <3>1. \A i \in 1..Len(x) : x[i] = g[u[i]] /\ u[i] \in Newest(g, Len(g))
      BY <1>2, <2>3, <2>4, <2>5 DEF Tracks
    <3>2. \A i, j \in 1..Len(x) : i < j => u[i] < u[j]
      <4> SUFFICES ASSUME NEW i \in 1..Len(x), NEW j \in 1..Len(x), i < j PROVE u[i] < u[j]
        OBVIOUS
      <4>1. i + d \in 1..Len(a) /\ j + d \in 1..Len(a) /\ i + d < j + d
        BY <2>1, <2>3, <2>4
      <4> QED
        BY <1>2, <2>5, <4>1 DEF Tracks
    <3> QED
      BY <2>5, <3>1, <3>2 DEF Tracks
  <2>8. ASSUME NEW k \in 1..Len(a), k <= d PROVE Pushed(g, h[k])
    <3> DEFINE B == Later(g, Len(g), h[k])
    <3>1. IsFiniteSet(B) /\ Cardinality(B) \in Nat
      BY <1>1, LaterFinite
    <3>2. \A i \in 1..MaxCookies : u[i] \in B
      <4> SUFFICES ASSUME NEW i \in 1..MaxCookies PROVE u[i] \in B
        OBVIOUS
      <4>1. i + d \in 1..Len(a) /\ k < i + d
        BY <2>1, <2>4, <2>8
      <4>2. h[k] < h[i + d] /\ h[i + d] \in Newest(g, Len(g))
        BY <1>2, <4>1 DEF Tracks
      <4>3. u[i] = h[i + d]
        BY <2>3, <2>5
      <4>4. h[k] \in 1..Len(g) /\ h[i + d] \in 1..Len(g)
        BY <4>1
      <4> QED
        BY <1>1, <4>2, <4>3, <4>4 DEF Later
    <3> HIDE DEF B
    <3>3. \A i, j \in 1..MaxCookies : u[i] = u[j] => i = j
      <4> SUFFICES ASSUME NEW i \in 1..MaxCookies, NEW j \in 1..MaxCookies, u[i] = u[j]
                   PROVE  i = j
        OBVIOUS
      <4>1. u[i] \in Nat /\ u[j] \in Nat /\ i \in Nat /\ j \in Nat
        BY <1>1, <1>3, <2>3, <2>5
      <4>2. ~(i < j) /\ ~(j < i)
        BY <2>3, <2>7, <4>1 DEF Tracks
      <4> QED
        BY <4>1, <4>2
    <3>4. u \in Injection(1..MaxCookies, B)
      <4>1. u \in [1..MaxCookies -> B]
        BY <2>3, <2>5, <3>2
      <4> QED
        BY <3>3, <4>1 DEF Injection, IsInjective
    <3>5. Cardinality(1..MaxCookies) <= Cardinality(B)
      BY <3>1, <3>4, FS_Injection
    <3>6. Cardinality(1..MaxCookies) = MaxCookies
      BY <1>3, FS_Interval
    <3> QED
      BY <1>3, <3>1, <3>5, <3>6 DEF Pushed, B
  <2>9. Misses(x, g, t, u)
    <3> SUFFICES ASSUME NEW n \in Newest(g, Len(g)), Live(g[n], t), ~Pushed(g, n)
                 PROVE  \E i \in 1..Len(x) : u[i] = n
      BY DEF Misses
    <3>1. PICK k \in 1..Len(a) : h[k] = n
      BY <1>2 DEF Misses
    <3>2. k - d \in 1..Len(x) /\ (k - d) + d = k
      BY <2>3, <2>6, <2>8, <3>1
    <3>3. u[k - d] = n
      BY <2>5, <3>1, <3>2
    <3> QED
      BY <3>2, <3>3
  <2> QED
    BY <1>1, <2>2, <2>3, <2>5, <2>7, <2>9 DEF Holds
<1> QED
  BY <1>4, <1>5

(* Time only makes cookies expire. *)
LEMMA TickHolds ==
  ASSUME NEW a, NEW g, NEW t \in Nat, Holds(a, g, t)
  PROVE  Holds(a, g, t + 1)
<1>1. g \in Seq(Kept) /\ Len(g) \in Nat
  BY DEF Holds
<1>2. \A n \in Newest(g, Len(g)) : Live(g[n], t + 1) => Live(g[n], t)
  <2> TAKE n \in Newest(g, Len(g))
  <2>1. g[n] \in Kept
    BY <1>1 DEF Newest
  <2>2. g[n].expires \in Int \cup {None}
    BY <2>1, KeptExpires
  <2> QED
    BY <2>2 DEF Live
<1>3. PICK h \in [1..Len(a) -> 1..Len(g)] : Tracks(a, g, h) /\ Misses(a, g, t, h)
  BY DEF Holds
<1>4. Misses(a, g, t + 1, h)
  BY <1>2, <1>3 DEF Misses
<1> QED
  BY <1>3, <1>4 DEF Holds

(* The cookies of an answer, one at a time. *)
Puts(f, a, cs, t) ==
  /\ f[0] = a /\ \A n \in 1..Len(cs) : f[n] = Put(f[n - 1], cs[n], t)
  /\ SetAll(a, cs, t) = Evict(f[Len(cs)])

LEMMA SetSteps ==
  ASSUME NEW a \in Seq(Kept), NEW cs \in Seq(Kept), NEW t
  PROVE  \E f \in [0..Len(cs) -> Seq(Kept)] : Puts(f, a, cs, t)
<1> DEFINE step == [n \in 1..Len(cs) |-> [x \in Seq(Kept) |-> Put(x, cs[n], t)]]
           Fills(f) == f = [n \in 0..Len(cs) |-> IF n = 0 THEN a ELSE Put(f[n - 1], cs[n], t)]
<1>0. Len(cs) \in Nat /\ \A n \in 1..Len(cs) : cs[n] \in Kept
  OBVIOUS
<1>1. ASSUME NEW n \in 1..Len(cs), NEW x \in Seq(Kept) PROVE Put(x, cs[n], t) \in Seq(Kept)
  <2>1. Sift(x, Others(x, cs[n])) \in Seq(Kept) /\ cs[n] \in Kept
    BY <1>0, SiftPlaces
  <2> QED
    BY <2>1, Appended DEF Put
<1>2. PICK f \in [0..Len(cs) -> Seq(Kept)] : Steps(f, Len(cs), a, step)
  <2>1. step \in [1..Len(cs) -> [Seq(Kept) -> Seq(Kept)]]
    BY <1>1
  <2> HIDE DEF step
  <2> QED
    BY <1>0, <2>1, StepwiseFunction
<1>3. \A n \in 1..Len(cs) : f[n] = Put(f[n - 1], cs[n], t)
  <2> TAKE n \in 1..Len(cs)
  <2>1. f[n - 1] \in Seq(Kept)
    BY <1>0
  <2> QED
    BY <1>2, <2>1 DEF Steps
<1>4. Fills(f)
  BY <1>0, <1>2, <1>3 DEF Steps
<1> DEFINE upTo == CHOOSE g : Fills(g)
<1>5. Fills(upTo)
  BY <1>4
<1>6. SetAll(a, cs, t) = Evict(upTo[Len(cs)])
  BY DEF SetAll
<1> HIDE DEF upTo
<1>7. upTo[0] = a /\ \A n \in 1..Len(cs) : upTo[n] = Put(upTo[n - 1], cs[n], t)
  BY <1>0, <1>5
<1>8. \A n \in 0..Len(cs) : upTo[n] \in Seq(Kept)
  <2>1. \A n \in 1..Len(cs) : upTo[n - 1] \in Seq(Kept) => upTo[n] \in Seq(Kept)
    BY <1>0, <1>1, <1>7
  <2>2. upTo[0] \in Seq(Kept)
    BY <1>7
  <2> QED
    BY <1>0, <2>1, <2>2, HandedOn
<1>9. upTo = [n \in 0..Len(cs) |-> upTo[n]]
  BY <1>5
<1>10. upTo \in [0..Len(cs) -> Seq(Kept)]
  BY <1>8, <1>9
<1> QED
  BY <1>6, <1>7, <1>10 DEF Puts

LEMMA ConcatAppend ==
  ASSUME NEW E, NEW g \in Seq(E), NEW x \in Seq(E), NEW c \in E
  PROVE  g \o Append(x, c) = Append(g \o x, c)
<1>1. /\ Append(x, c) \in Seq(E) /\ Len(Append(x, c)) = Len(x) + 1
      /\ g \o x \in Seq(E) /\ Len(g \o x) = Len(g) + Len(x)
      /\ Len(x) \in Nat /\ Len(g) \in Nat
  BY Appended, ConcatProperties
<1>2. /\ g \o Append(x, c) \in Seq(E) /\ Append(g \o x, c) \in Seq(E)
      /\ Len(g \o Append(x, c)) = Len(g) + Len(x) + 1
      /\ Len(Append(g \o x, c)) = Len(g) + Len(x) + 1
  BY <1>1, Appended, ConcatProperties
<1>3. ASSUME NEW i \in 1..(Len(g) + Len(x) + 1)
      PROVE  (g \o Append(x, c))[i] = Append(g \o x, c)[i]
  OBVIOUS
<1> QED
  BY <1>2, <1>3, SeqEqual

(* What the jar takes in of a list are the live ones; the others leave it   *)
(* as it is.                                                                *)
LEMMA SetAllHolds ==
  ASSUME NEW a, NEW g, NEW t, NEW cs \in Seq(Kept), Holds(a, g, t)
  PROVE  Holds(SetAll(a, cs, t), g \o Fresh(cs, t), t)
<1> DEFINE S == LiveOf(cs, t)
<1>1. a \in Seq(Kept) /\ g \in Seq(Kept) /\ Len(cs) \in Nat
  BY DEF Holds
<1>2. PICK f \in [0..Len(cs) -> Seq(Kept)] : Puts(f, a, cs, t)
  BY <1>1, SetSteps
<1>3. PICK e \in [0..Len(cs) -> Seq(Kept)] : Sifts(e, cs, S)
  BY SiftSteps
<1>4. \A n \in 1..Len(cs) : cs[n] \in Kept /\ (cs[n] \in S <=> Live(cs[n], t))
  BY DEF LiveOf
<1> HIDE DEF S
<1> DEFINE T == {n \in 0..Len(cs) : Holds(f[n], g \o e[n], t)}
<1>5. 0 \in T
  <2>1. f[0] = a /\ g \o e[0] = g
    BY <1>1, <1>2, <1>3, ConcatEmptySeq DEF Puts, Sifts
  <2>2. Holds(f[0], g \o e[0], t)
    BY <2>1, Zenon
  <2>3. 0 \in 0..Len(cs)
    BY <1>1
  <2> QED
    BY <2>2, <2>3, Zenon
<1>6. ASSUME NEW n \in 1..Len(cs), n - 1 \in T PROVE n \in T
  <2>1. Holds(f[n - 1], g \o e[n - 1], t)
    BY <1>6
  <2>2. f[n] = Put(f[n - 1], cs[n], t) /\ e[n] = SiftStep(cs, S, e[n - 1], n)
    BY <1>2, <1>3 DEF Puts, Sifts
  <2>3. CASE Live(cs[n], t)
    <3>1. e[n] = Append(e[n - 1], cs[n])
      BY <1>4, <2>2, <2>3 DEF SiftStep
    <3>2. e[n - 1] \in Seq(Kept) /\ cs[n] \in Kept
      <4>1. n - 1 \in 0..Len(cs)
        BY <1>1
      <4> QED
        BY <1>4, <4>1, Zenon
    <3>3. g \o e[n] = Append(g \o e[n - 1], cs[n])
      BY <1>1, <3>1, <3>2, ConcatAppend
    <3>4. Holds(Put(f[n - 1], cs[n], t), Append(g \o e[n - 1], cs[n]), t)
      BY <2>1, <2>3, <3>2, PutHolds
    <3>5. Holds(f[n], g \o e[n], t)
      BY <2>2, <3>3, <3>4, Zenon
    <3>6. n \in 0..Len(cs)
      BY <1>1
    <3> QED
      BY <3>5, <3>6, Zenon
  <2>4. CASE ~Live(cs[n], t)
    <3>1. e[n] = e[n - 1] /\ f[n] = f[n - 1]
      BY <1>4, <2>2, <2>4 DEF SiftStep, Put
    <3> QED
      BY <1>1, <2>1, <3>1
  <2> QED
    BY <2>3, <2>4
<1>7. Holds(f[Len(cs)], g \o e[Len(cs)], t)
  <2>1. \A n \in 1..Len(cs) : n - 1 \in T => n \in T
    BY <1>6
  <2> HIDE DEF T
  <2>2. 0..Len(cs) \subseteq T
    BY <1>1, <1>5, <2>1, InductionUpTo
  <2>3. Len(cs) \in T
    BY <1>1, <2>2, SMTT(20)
  <2> QED
    BY <2>3 DEF T
<1>8. Fresh(cs, t) = e[Len(cs)] /\ SetAll(a, cs, t) = Evict(f[Len(cs)])
  BY <1>2, <1>3 DEF Fresh, Puts, Sifts, S
<1> QED
  BY <1>7, <1>8, EvictHolds

-----------------------------------------------------------------------------
\* What the code does, of one request, sent when the jar had taken in g: all of
\* the cookies that apply, and in CookiesApply some of them.
Carries(r, s, g) ==
  LET fits == Applying(g, s.after, r, s.at)
  IN IF "Cookie" \in Extras \cup OneOff[r] THEN s.cookies = {}
     ELSE /\ s.cookies \subseteq {g[n] : n \in fits}
          /\ \A n \in fits : g[n] \notin s.cookies =>
               Cardinality(Later(g, s.after, n)) >= MaxCookies

CarriedAll ==
  \A r \in Request : phase[r] # "new" /\ kind # "browser" =>
    sent[r].after \in 0..Len(given) /\ Carries(r, sent[r], given)

ExchangeInv ==
  /\ now \in Nat
  /\ DOMAIN phase = Request /\ DOMAIN sent = Request
  /\ Holds(jar, given, now)
  /\ CarriedAll

Extends(x, g) ==
  /\ g \in Seq(Kept) /\ x \in Seq(Kept) /\ Len(g) <= Len(x)
  /\ \A n \in 1..Len(g) : x[n] = g[n]

(* What the jar takes in later says nothing about a request sent before. *)
LEMMA CarriesStays ==
  ASSUME NEW r, NEW s, NEW g, NEW x, Extends(x, g),
         s.after \in 0..Len(g), Carries(r, s, g)
  PROVE  s.after \in 0..Len(x) /\ Carries(r, s, x)
<1>1. Len(g) \in Nat /\ Len(x) \in Nat /\ s.after \in 0..Len(x)
  BY DEF Extends
<1>2. \A n \in 1..s.after : x[n] = g[n]
  BY <1>1 DEF Extends
<1>3. Newest(x, s.after) = Newest(g, s.after)
  <2>1. \A n \in 1..s.after : \A m \in (n + 1)..s.after : m \in 1..s.after
    BY <1>1
  <2> QED
    BY <1>2, <2>1 DEF Newest
<1>4. \A n \in Newest(g, s.after) : x[n] = g[n]
  BY <1>2 DEF Newest
<1>5. /\ Applying(x, s.after, r, s.at) = Applying(g, s.after, r, s.at)
      /\ \A n : Later(x, s.after, n) = Later(g, s.after, n)
  BY <1>3, <1>4 DEF Applying, Later
<1>6. \A n \in Applying(g, s.after, r, s.at) : x[n] = g[n]
  BY <1>4 DEF Applying
<1> QED
  BY <1>1, <1>3, <1>5, <1>6 DEF Carries

(* A request that is sent now carries what applies now. *)
LEMMA SentCarries ==
  ASSUME NEW r \in Request, NEW s, Holds(jar, given, now), kind # "browser",
         s.cookies = Cookies(r), s.at = now, s.after = Len(given)
  PROVE  s.after \in 0..Len(given) /\ Carries(r, s, given)
<1>1. /\ jar \in Seq(Kept) /\ given \in Seq(Kept) /\ Len(given) \in Nat
      /\ DOMAIN jar = 1..Len(jar)
  BY DEF Holds
<1>2. PICK h \in [1..Len(jar) -> 1..Len(given)] :
        Tracks(jar, given, h) /\ Misses(jar, given, now, h)
  BY DEF Holds
<1>3. "Cookie" \in DOMAIN Layered(r) <=> "Cookie" \in Extras \cup OneOff[r]
  BY DEF Layered, Defaults, BrowserHeaders
<1>4. CASE "Cookie" \in Extras \cup OneOff[r]
  BY <1>1, <1>3, <1>4 DEF Cookies, Carries
<1>5. CASE "Cookie" \notin Extras \cup OneOff[r]
  <2> DEFINE fits == Applying(given, Len(given), r, now)
  <2>1. s.cookies = Matching(r, now)
    BY <1>3, <1>5 DEF Cookies
  <2>2. \A n \in fits : given[n] \in Matching(r, now) <=> \E k \in 1..Len(jar) : jar[k] = given[n]
    BY <1>1 DEF Matching, Applying
  <2>3. ASSUME NEW c \in Matching(r, now) PROVE \E n \in fits : given[n] = c
    <3>1. PICK k \in 1..Len(jar) : jar[k] = c
      BY <1>1 DEF Matching
    <3>2. given[h[k]] = c /\ h[k] \in Newest(given, Len(given))
      BY <1>2, <3>1 DEF Tracks
    <3>3. h[k] \in fits
      BY <3>2 DEF Matching, Applying
    <3> QED
      BY <3>2, <3>3
  <2>4. ASSUME NEW n \in fits, given[n] \notin Matching(r, now) PROVE Pushed(given, n)
    <3>1. n \in Newest(given, Len(given)) /\ Live(given[n], now)
      BY DEF Applying
    <3>2. ~\E k \in 1..Len(jar) : jar[k] = given[n]
      BY <2>2, <2>4
    <3>3. ~\E k \in 1..Len(jar) : h[k] = n
      BY <1>2, <3>2 DEF Tracks
    <3> QED
      BY <1>2, <3>1, <3>3 DEF Misses
  <2> HIDE DEF fits
  <2>5. Matching(r, now) \subseteq {given[n] : n \in fits}
    BY <2>3
  <2>6. \A n \in fits : given[n] \notin Matching(r, now) =>
          Cardinality(Later(given, s.after, n)) >= MaxCookies
    BY <2>4 DEF Pushed
  <2>7. Applying(given, s.after, r, s.at) = fits
    BY DEF fits
  <2>8. Carries(r, s, given)
    BY <1>5, <2>1, <2>5, <2>6, <2>7 DEF Carries
  <2> QED
    BY <1>1, <2>8
<1> QED
  BY <1>4, <1>5

(* An empty jar has taken in nothing. *)
LEMMA EmptyHolds == \A t : Holds(<<>>, <<>>, t)
<1> TAKE t
<1>1. <<>> \in Seq(Kept) /\ Len(<<>>) = 0 /\ <<>> \in [1..0 -> 1..0]
  OBVIOUS
<1>2. \A n \in 1..0 : FALSE
  OBVIOUS
<1>3. Newest(<<>>, 0) = {}
  BY <1>2 DEF Newest
<1>4. Tracks(<<>>, <<>>, <<>>)
  BY <1>1, <1>2 DEF Tracks
<1>5. Misses(<<>>, <<>>, t, <<>>)
  BY <1>1, <1>3 DEF Misses
<1> QED
  BY <1>1, <1>4, <1>5 DEF Holds

LEMMA InitExchange == Init => ExchangeInv
<1> SUFFICES ASSUME Init PROVE ExchangeInv
  OBVIOUS
<1>1. CASE part # "exchange"
  <2>1. jar = <<>> /\ given = <<>> /\ now = 1 /\ phase = [r \in Request |-> "new"]
        /\ sent = [r \in Request |-> None]
    BY <1>1 DEF Init, Idle
  <2>2. Holds(jar, given, now)
    BY <2>1, EmptyHolds
  <2>3. \A r \in Request : phase[r] = "new"
    BY <2>1
  <2>4. DOMAIN phase = Request /\ DOMAIN sent = Request /\ now \in Nat
    BY <2>1
  <2> QED
    BY <2>2, <2>3, <2>4 DEF ExchangeInv, CarriedAll
<1>2. CASE part = "exchange"
  <2>1. now = 1 /\ phase = [r \in Request |-> "new"] /\ sent = [r \in Request |-> None]
    BY <1>2 DEF Init, ExchangeInit
  <2>2. PICK first \in Request :
          LET cs == IF kind = "browser" THEN <<>> ELSE Handed(Injected, HostOf[first])
          IN jar = SetAll(<<>>, cs, now) /\ given = Fresh(cs, now)
    BY <1>2 DEF Init, ExchangeInit
  <2> DEFINE cs == IF kind = "browser" THEN <<>> ELSE Handed(Injected, HostOf[first])
  <2>3. cs \in Seq(Kept)
    <3>1. <<>> \in Seq(Kept)
      OBVIOUS
    <3>2. Handed(Injected, HostOf[first]) \in Seq(Kept)
      BY <2>1, HandedKept, ExchangeAssumption
    <3> QED
      BY <3>1, <3>2
  <2>4. jar = SetAll(<<>>, cs, now) /\ given = Fresh(cs, now)
    BY <2>2
  <2> HIDE DEF cs
  <2>5. Holds(SetAll(<<>>, cs, now), <<>> \o Fresh(cs, now), now)
    BY <2>3, EmptyHolds, SetAllHolds
  <2>6. <<>> \o Fresh(cs, now) = Fresh(cs, now)
    BY <2>3, SiftPlaces, ConcatEmptySeq DEF Fresh
  <2>7. Holds(jar, given, now)
    BY <2>1, <2>4, <2>5, <2>6
  <2>8. \A r \in Request : phase[r] = "new"
    BY <2>1
  <2>9. DOMAIN phase = Request /\ DOMAIN sent = Request /\ now \in Nat
    BY <2>1
  <2> QED
    BY <2>7, <2>8, <2>9 DEF ExchangeInv, CarriedAll
<1> QED
  BY <1>1, <1>2

LEMMA ExtendsSelf == ASSUME NEW g \in Seq(Kept) PROVE Extends(g, g)
  BY DEF Extends

LEMMA ExtendsOn == ASSUME NEW g \in Seq(Kept), NEW x \in Seq(Kept) PROVE Extends(g \o x, g)
<1>1. /\ g \o x \in Seq(Kept) /\ Len(g \o x) = Len(g) + Len(x)
      /\ Len(g) \in Nat /\ Len(x) \in Nat
      /\ \A i \in 1..(Len(g) + Len(x)) : (g \o x)[i] = IF i <= Len(g) THEN g[i] ELSE x[i - Len(g)]
  BY ConcatProperties
<1> QED
  BY <1>1 DEF Extends

LEMMA SendExchange ==
  ASSUME ExchangeInv, NEW r \in Request, Send(r)
  PROVE  ExchangeInv'
<1> DEFINE s == [headers |-> Layered(r), cookies |-> Cookies(r), at |-> now, after |-> Len(given)]
<1>1. /\ now \in Nat /\ DOMAIN phase = Request /\ DOMAIN sent = Request
      /\ Holds(jar, given, now) /\ CarriedAll
  BY DEF ExchangeInv
<1>2. /\ phase' = [phase EXCEPT ![r] = "sent"] /\ sent' = [sent EXCEPT ![r] = s]
      /\ jar' \in {Fresh(jar, now), jar} /\ UNCHANGED <<kind, now, given>>
  BY DEF Send
<1>3. s.cookies = Cookies(r) /\ s.at = now /\ s.after = Len(given)
  OBVIOUS
<1> HIDE DEF s
<1>4. Holds(jar', given', now')
  BY <1>1, <1>2, FreshHolds
<1>5. ASSUME NEW q \in Request, phase'[q] # "new", kind' # "browser"
      PROVE  sent'[q].after \in 0..Len(given') /\ Carries(q, sent'[q], given')
  <2>1. CASE q = r
    <3>1. s.after \in 0..Len(given) /\ Carries(r, s, given)
      BY <1>1, <1>2, <1>3, <1>5, SentCarries
    <3> QED
      BY <1>1, <1>2, <2>1, <3>1
  <2>2. CASE q # r
    <3>1. phase[q] # "new" /\ kind # "browser" /\ sent'[q] = sent[q]
      BY <1>1, <1>2, <1>5, <2>2
    <3> QED
      BY <1>1, <1>2, <3>1 DEF CarriedAll
  <2> QED
    BY <2>1, <2>2
<1>6. CarriedAll'
  BY <1>5 DEF CarriedAll
<1>7. now' \in Nat /\ DOMAIN phase' = Request /\ DOMAIN sent' = Request
  BY <1>1, <1>2
<1> QED
  BY <1>4, <1>6, <1>7 DEF ExchangeInv

LEMMA ReceiveExchange ==
  ASSUME ExchangeInv, NEW r \in Request, NEW a \in Answer, Receive(r, a)
  PROVE  ExchangeInv'
<1> DEFINE cs == Handed(a.cookies, HostOf[r])
<1>1. /\ now \in Nat /\ DOMAIN phase = Request /\ DOMAIN sent = Request
      /\ Holds(jar, given, now) /\ CarriedAll /\ given \in Seq(Kept)
  BY DEF ExchangeInv, Holds
<1>2. /\ phase[r] = "sent" /\ phase' = [phase EXCEPT ![r] = "answered"]
      /\ UNCHANGED <<kind, now, sent>>
      /\ \/ jar' = SetAll(jar, cs, now) /\ given' = given \o Fresh(cs, now)
         \/ jar' = jar /\ given' = given
  BY DEF Receive
<1>3. cs \in Seq(Kept)
  BY <1>1, HandedKept, ExchangeAssumption
<1> HIDE DEF cs
<1>4. Holds(jar', given', now') /\ Extends(given', given)
  <2>1. CASE jar' = SetAll(jar, cs, now) /\ given' = given \o Fresh(cs, now)
    <3>1. Holds(SetAll(jar, cs, now), given \o Fresh(cs, now), now)
      BY <1>1, <1>3, SetAllHolds
    <3>2. Fresh(cs, now) \in Seq(Kept)
      BY <1>3, SiftPlaces DEF Fresh
    <3> QED
      BY <1>1, <1>2, <2>1, <3>1, <3>2, ExtendsOn
  <2>2. CASE jar' = jar /\ given' = given
    BY <1>1, <1>2, <2>2, ExtendsSelf
  <2> QED
    BY <1>2, <2>1, <2>2
<1>5. ASSUME NEW q \in Request, phase'[q] # "new", kind' # "browser"
      PROVE  sent'[q].after \in 0..Len(given') /\ Carries(q, sent'[q], given')
  <2>1. phase[q] # "new" /\ kind # "browser" /\ sent'[q] = sent[q]
    BY <1>1, <1>2, <1>5
  <2>2. sent[q].after \in 0..Len(given) /\ Carries(q, sent[q], given)
    BY <1>1, <2>1 DEF CarriedAll
  <2>3. sent[q].after \in 0..Len(given') /\ Carries(q, sent[q], given')
    BY <1>4, <2>2, CarriesStays
  <2> QED
    BY <2>1, <2>3
<1>6. CarriedAll'
  BY <1>5 DEF CarriedAll
<1>7. now' \in Nat /\ DOMAIN phase' = Request /\ DOMAIN sent' = Request
  BY <1>1, <1>2
<1> QED
  BY <1>4, <1>6, <1>7 DEF ExchangeInv

LEMMA StepExchange == ExchangeInv /\ [Next]_vars => ExchangeInv'
<1> SUFFICES ASSUME ExchangeInv, [Next]_vars PROVE ExchangeInv'
  OBVIOUS
<1>1. ASSUME NEW r \in Request, Send(r) PROVE ExchangeInv'
  BY <1>1, SendExchange
<1>2. ASSUME NEW r \in Request, NEW a \in Answer, Receive(r, a) PROVE ExchangeInv'
  BY <1>2, ReceiveExchange
<1>3. CASE Tick
  <2>1. now' = now + 1 /\ UNCHANGED <<kind, jar, phase, sent, given>>
    BY <1>3 DEF Tick
  <2>2. now \in Nat /\ Holds(jar, given, now + 1)
    BY TickHolds DEF ExchangeInv
  <2>3. CarriedAll'
    BY <2>1 DEF ExchangeInv, CarriedAll
  <2> QED
    BY <2>1, <2>2, <2>3 DEF ExchangeInv
<1>4. CASE UNCHANGED exchangeVars
  BY <1>4 DEF exchangeVars, ExchangeInv, CarriedAll
<1> QED
  BY <1>1, <1>2, <1>3, <1>4 DEF Next, vars, ExchangeNext

(* For any requests, answers, clients, expiry times and any limit of the jar, *)
(* in whatever order the answers came in: a request carries no cookie that is *)
(* replaced, expired or does not cover it; and it carries each one that is    *)
(* neither and is due at its host under any reading of the doc, unless the    *)
(* limit pushed it out.                                                       *)
THEOREM CookiesAreRight == Spec => []CookiesApply
<1>1. ExchangeInv => CookiesApply
  <2> SUFFICES ASSUME ExchangeInv, NEW r \in Request, phase[r] # "new", kind # "browser",
                      "Cookie" \notin Extras \cup OneOff[r]
               PROVE  LET s == sent[r]
                      IN  /\ s.cookies \subseteq {given[n] : n \in Applying(given, s.after, r, s.at)}
                          /\ \A n \in Due(given, s.after, r, s.at) : given[n] \notin s.cookies =>
                               Cardinality({m \in Newest(given, s.after) : m > n}) >= MaxCookies
    BY DEF ExchangeInv, CarriedAll, Carries, CookiesApply
  <2>1. Due(given, sent[r].after, r, sent[r].at) \subseteq Applying(given, sent[r].after, r, sent[r].at)
    BY DEF Due
  <2>2. Carries(r, sent[r], given)
    BY DEF ExchangeInv, CarriedAll
  <2> QED
    BY <2>1, <2>2 DEF Carries, Later
<1> QED
  BY <1>1, InitExchange, StepExchange, PTL DEF Spec

-----------------------------------------------------------------------------
\* What becomes of the body of an answer, client by client, the flag included.
BodyRight(a, res) ==
  LET raw_ == Total(a.chunks)
      packed == kind = "node" /\ a.form # "plain"
  IN /\ res.truncated = (kind # "injected" /\ raw_ >= MaxBody)
     /\ res.size = Least(MaxBody, IF packed /\ res.plain THEN raw_ * a.ratio ELSE raw_)
     /\ packed /\ ~res.truncated /\ a.label \in LabelsOf(a.form) => res.plain

LEMMA BodyOfAnswer ==
  ASSUME NEW a \in Answer, kind \in {"node", "browser", "injected"}
  PROVE  BodyRight(a, ToFetchResult(a))
<1> DEFINE n == Total(a.chunks)
<1>1. a.chunks \in Seq(Nat)
  BY ExchangeAssumption
<1>2. n \in Nat /\ MaxBody \in Nat \ {0}
  BY <1>1, ReadTotal, ExchangeAssumption
<1>3. Read(a.chunks).size = Least(MaxBody, n) /\ Read(a.chunks).truncated = (n >= MaxBody)
  BY <1>1, ReadTotal DEF ReadOf
<1> HIDE DEF n
<1>4. Least(MaxBody, Least(MaxBody, n)) = Least(MaxBody, n)
  BY <1>2 DEF Least
<1>5. /\ ToFetchResult(a).size = Least(MaxBody, Body(a).size)
      /\ ToFetchResult(a).plain = Body(a).plain /\ ToFetchResult(a).truncated = Body(a).truncated
  BY DEF ToFetchResult
<1>6. CASE kind = "injected"
  <2>1. Body(a).size = n /\ Body(a).truncated = FALSE
    BY <1>6 DEF Body, InjectedBody, n
  <2> QED
    BY <1>5, <1>6, <2>1 DEF BodyRight, n
<1>7. CASE kind = "browser"
  <2>1. /\ Body(a).size = Least(MaxBody, n) /\ Body(a).truncated = (n >= MaxBody)
        /\ Body(a).plain = TRUE
    BY <1>3, <1>7 DEF Body, BrowserBody
  <2> QED
    BY <1>4, <1>5, <1>7, <2>1 DEF BodyRight, n
<1>8. CASE kind = "node"
  <2> DEFINE opens == ~(n >= MaxBody) /\ Unpacks(a.label, a.form)
  <2>1. /\ Body(a).size = IF opens THEN Least(MaxBody, n) * a.ratio ELSE Least(MaxBody, n)
        /\ Body(a).plain = (opens \/ a.form = "plain") /\ Body(a).truncated = (n >= MaxBody)
    BY <1>3, <1>8 DEF Body, NodeBody
  <2>2. opens => Least(MaxBody, n) = n
    BY <1>2 DEF Least
  <2>3. a.form = "plain" => ~opens
    BY DEF Unpacks
  <2>4. ~(n >= MaxBody) /\ a.label \in LabelsOf(a.form) => opens
    BY DEF Unpacks, LabelsOf
  <2> HIDE DEF opens
  <2>5. CASE opens
    <3>1. ToFetchResult(a).size = Least(MaxBody, n * a.ratio) /\ ToFetchResult(a).plain
      BY <1>5, <2>1, <2>2, <2>5
    <3>2. a.form # "plain" /\ ToFetchResult(a).truncated = (n >= MaxBody)
      BY <1>5, <2>1, <2>3, <2>5
    <3> QED
      BY <1>8, <3>1, <3>2 DEF BodyRight, n
  <2>6. CASE ~opens
    <3>1. /\ ToFetchResult(a).size = Least(MaxBody, n)
          /\ ToFetchResult(a).truncated = (n >= MaxBody)
      BY <1>4, <1>5, <2>1, <2>6
    <3>2. ToFetchResult(a).plain <=> a.form = "plain"
      BY <1>5, <2>1, <2>6
    <3>3. ~(~(n >= MaxBody) /\ a.label \in LabelsOf(a.form))
      BY <2>4, <2>6
    <3>4. ~(kind = "node" /\ a.form # "plain" /\ ToFetchResult(a).plain)
      BY <3>2
    <3>5. ToFetchResult(a).truncated = (kind # "injected" /\ n >= MaxBody)
      BY <1>8, <3>1
    <3>6. ~(~ToFetchResult(a).truncated /\ a.label \in LabelsOf(a.form))
      BY <3>1, <3>3
    <3> QED
      BY <3>1, <3>4, <3>5, <3>6 DEF BodyRight, n
  <2> QED
    BY <2>5, <2>6
<1> QED
  BY <1>6, <1>7, <1>8

AnswersRead ==
  /\ kind \in {"node", "browser", "injected"} /\ DOMAIN phase = Request /\ DOMAIN got = Request
  /\ \A r \in Request : phase[r] = "answered" =>
       got[r].answer \in Answer /\ got[r] = ToFetchResult(got[r].answer)

LEMMA StepAnswers == AnswersRead /\ [Next]_vars => AnswersRead'
<1> SUFFICES ASSUME AnswersRead, [Next]_vars PROVE AnswersRead'
  OBVIOUS
<1>1. ASSUME NEW r \in Request, Send(r) PROVE AnswersRead'
  <2>1. phase' = [phase EXCEPT ![r] = "sent"] /\ UNCHANGED <<kind, got>>
    BY <1>1 DEF Send
  <2>2. \A q \in Request : phase'[q] = "answered" => phase[q] = "answered"
    BY <2>1 DEF AnswersRead
  <2>3. \A b : ToFetchResult(b)' = ToFetchResult(b)
    BY <2>1 DEF ToFetchResult, Body, NodeBody, BrowserBody, InjectedBody
  <2> QED
    BY <2>1, <2>2, <2>3 DEF AnswersRead
<1>2. ASSUME NEW r \in Request, NEW a \in Answer, Receive(r, a) PROVE AnswersRead'
  <2>1. /\ phase' = [phase EXCEPT ![r] = "answered"] /\ kind' = kind
        /\ got' = [got EXCEPT ![r] = ToFetchResult(a)]
    BY <1>2 DEF Receive
  <2>2. ToFetchResult(a).answer = a
    BY DEF ToFetchResult
  <2>3. \A b : ToFetchResult(b)' = ToFetchResult(b)
    BY <2>1 DEF ToFetchResult, Body, NodeBody, BrowserBody, InjectedBody
  <2>4. ASSUME NEW q \in Request, phase'[q] = "answered"
        PROVE  got'[q].answer \in Answer /\ got'[q] = ToFetchResult(got'[q].answer)
    BY <2>1, <2>2, <2>4 DEF AnswersRead
  <2> QED
    BY <2>1, <2>3, <2>4 DEF AnswersRead
<1>3. CASE Tick \/ UNCHANGED exchangeVars
  <2>1. UNCHANGED <<kind, phase, got>>
    BY <1>3 DEF Tick, exchangeVars
  <2> QED
    <3>1. \A b : ToFetchResult(b)' = ToFetchResult(b)
      BY <2>1 DEF ToFetchResult, Body, NodeBody, BrowserBody, InjectedBody
    <3> QED
      BY <2>1, <3>1 DEF AnswersRead
<1> QED
  BY <1>1, <1>2, <1>3 DEF Next, vars, ExchangeNext

(* However a body is split into chunks, whatever its form, its label and the  *)
(* limit: it is cut where the limit says; flagged if one of the two built-in  *)
(* clients cut it as it came, and at the limit if it is flagged; and unpacked *)
(* by the Node client if it is not flagged and its label fits.                *)
THEOREM BodiesAreRead == Spec => []BodyRead
<1>1. Init => AnswersRead
  BY DEF Init, Idle, ExchangeInit, AnswersRead
<1>2. AnswersRead => BodyRead
  <2> SUFFICES ASSUME AnswersRead, NEW r \in Request, phase[r] = "answered"
               PROVE  LET a == got[r].answer
                          raw_ == Total(a.chunks)
                          packed == kind = "node" /\ a.form # "plain"
                          whole == IF packed /\ got[r].plain THEN raw_ * a.ratio ELSE raw_
                      IN  /\ got[r].size = Least(MaxBody, whole)
                          /\ kind # "injected" /\ raw_ > MaxBody => got[r].truncated
                          /\ got[r].truncated => got[r].size = MaxBody
                          /\ packed /\ ~got[r].truncated /\ a.label \in LabelsOf(a.form)
                             => got[r].plain
    BY DEF BodyRead
  <2> DEFINE a == got[r].answer
             n == Total(a.chunks)
             packed == kind = "node" /\ a.form # "plain"
             whole == IF packed /\ got[r].plain THEN n * a.ratio ELSE n
  <2>1. a \in Answer /\ got[r] = ToFetchResult(a)
    BY DEF AnswersRead
  <2>2. BodyRight(a, got[r])
    BY <2>1, BodyOfAnswer DEF AnswersRead
  <2>3. n \in Nat /\ MaxBody \in Nat
    <3>1. a.chunks \in Seq(Nat) /\ MaxBody \in Nat
      BY <2>1, ExchangeAssumption
    <3> QED
      BY <3>1, ReadTotal
  <2>4. /\ got[r].truncated = (kind # "injected" /\ n >= MaxBody)
        /\ got[r].size = Least(MaxBody, whole)
        /\ packed /\ ~got[r].truncated /\ a.label \in LabelsOf(a.form) => got[r].plain
    BY <2>2 DEF BodyRight
  <2>5. n > MaxBody => n >= MaxBody
    BY <2>3
  <2>6. got[r].truncated => ~(packed /\ got[r].plain)
    <3> SUFFICES ASSUME got[r].truncated, packed PROVE ~got[r].plain
      OBVIOUS
    <3>1. got[r].plain = NodeBody(a).plain /\ got[r].truncated = NodeBody(a).truncated
      <4>1. \A b : /\ ToFetchResult(b).plain = Body(b).plain
                  /\ ToFetchResult(b).truncated = Body(b).truncated
        BY DEF ToFetchResult
      <4>2. got[r].plain = Body(a).plain /\ got[r].truncated = Body(a).truncated
        <5> HIDE DEF a
        <5> QED
          BY <2>1, <4>1, Zenon
      <4> QED
        BY <4>2 DEF Body
    <3>2. NodeBody(a).truncated => ~NodeBody(a).plain
      BY DEF NodeBody
    <3> QED
      BY <3>1, <3>2
  <2> HIDE DEF n, a, packed
  <2>7. got[r].truncated => got[r].size = MaxBody
    <3> SUFFICES ASSUME got[r].truncated PROVE got[r].size = MaxBody
      OBVIOUS
    <3>1. whole = n
      BY <2>6
    <3>2. n >= MaxBody
      BY <2>4
    <3> QED
      BY <2>3, <2>4, <3>1, <3>2 DEF Least
  <2> QED
    BY <2>4, <2>5, <2>7 DEF n, a, packed
<1> QED
  BY <1>1, <1>2, StepAnswers, PTL DEF Spec
-----------------------------------------------------------------------------
(* Loops over a list, as the folds of the library.                          *)

(* A set of numbers up to n has a greatest one.                             *)
LEMMA GreatestNumber ==
  ASSUME NEW n \in Nat, NEW S \in SUBSET (1..n), S # {}
  PROVE  Max(S) \in S /\ \A y \in S : Max(S) >= y
<1> DEFINE T == {m \in 0..n : \A y \in S : m >= y}
<1>1. n \in T
  OBVIOUS
<1>2. T \in SUBSET Nat /\ T # {}
  BY <1>1
<1> HIDE DEF T
<1>3. PICK m \in T : \A l \in T : ~(l < m)
  BY <1>2, LeastNumber
<1>4. m \in S
  <2> SUFFICES ASSUME m \notin S PROVE FALSE
    OBVIOUS
  <2>1. m \in 0..n /\ \A y \in S : y \in 1..n /\ m >= y
    BY <1>3 DEF T
  <2>2. m # 0 /\ \A y \in S : y # m
    <3>1. PICK y \in S : TRUE
      OBVIOUS
    <3> QED
      BY <2>1, <3>1
  <2>3. m - 1 \in 0..n /\ \A y \in S : m - 1 >= y
    BY <2>1, <2>2
  <2>4. m - 1 \in T
    BY <2>3 DEF T
  <2> QED
    BY <1>3, <2>1, <2>4
<1>5. \E x \in S : \A y \in S : x >= y
  BY <1>3, <1>4 DEF T
<1> QED
  BY <1>5 DEF Max

\* One turn of the library's folds over the places 1 to k of a list.
Turned(f, s, a, step) == IF s = {} THEN a ELSE step[Max(s)][f[s \ {Max(s)}]]
Folds(f, n, a, step) == \A s \in SUBSET (1..n) : f[s] = Turned(f, s, a, step)

(* The function the folds are defined by exists, and its values for the     *)
(* first places of the list take the steps one by one.                      *)
LEMMA FoldsExist ==
  ASSUME NEW k \in Nat, NEW A, NEW a \in A, NEW step \in [1..k -> [A -> A]]
  PROVE  \E f \in [SUBSET (1..k) -> A] : Folds(f, k, a, step)
<1> DEFINE S == {n \in 0..k : \E f \in [SUBSET (1..n) -> A] : Folds(f, n, a, step)}
<1>1. 0 \in S
  <2> DEFINE f == [s \in SUBSET (1..0) |-> a]
  <2>1. f \in [SUBSET (1..0) -> A]
    OBVIOUS
  <2>2. \A s \in SUBSET (1..0) : s = {} /\ f[s] = a
    OBVIOUS
  <2> HIDE DEF f
  <2>3. Folds(f, 0, a, step)
    BY <2>2 DEF Folds, Turned
  <2>4. \E h \in [SUBSET (1..0) -> A] : Folds(h, 0, a, step)
    BY <2>1, <2>3
  <2> HIDE DEF S
  <2>5. 0 \in 0..k
    OBVIOUS
  <2> QED
    BY <2>4, <2>5 DEF S
<1>2. ASSUME NEW n \in 1..k, NEW f \in [SUBSET (1..(n - 1)) -> A], Folds(f, n - 1, a, step)
      PROVE  \E g \in [SUBSET (1..n) -> A] : Folds(g, n, a, step)
  <2> DEFINE g == [s \in SUBSET (1..n) |-> IF n \in s THEN step[n][f[s \ {n}]] ELSE f[s]]
  <2>1. \A s \in SUBSET (1..n) : s \ {n} \in SUBSET (1..(n - 1))
    OBVIOUS
  <2>2. \A s \in SUBSET (1..n) : n \notin s => s \in SUBSET (1..(n - 1))
    OBVIOUS
  <2>3. \A s \in SUBSET (1..n) : n \notin s => g[s] = f[s] /\ g[s] \in A
    BY <2>2
  <2>4. \A s \in SUBSET (1..n) : n \in s => g[s] = step[n][f[s \ {n}]] /\ g[s] \in A
    BY <2>1
  <2>5. g \in [SUBSET (1..n) -> A]
    BY <2>3, <2>4
  <2> HIDE DEF g
  <2>6. ASSUME NEW s \in SUBSET (1..n), n \in s PROVE g[s] = Turned(g, s, a, step)
    <3>1. Max(s) = n
      <4>1. s # {} /\ n \in Nat
        BY <2>6
      <4>2. Max(s) \in s /\ Max(s) >= n
        BY <2>6, <4>1, GreatestNumber
      <4>3. \A y \in s : y \in 1..n
        OBVIOUS
      <4>4. Max(s) \in 1..n
        BY <4>2, <4>3
      <4> HIDE DEF S
      <4> QED
        BY <4>2, <4>4
    <3>2. g[s \ {n}] = f[s \ {n}]
      <4>1. s \ {n} \in SUBSET (1..n) /\ n \notin s \ {n}
        OBVIOUS
      <4> QED
        BY <4>1, <2>3
    <3> QED
      BY <2>4, <2>6, <3>1, <3>2 DEF Turned
  <2>7. ASSUME NEW s \in SUBSET (1..n), n \notin s PROVE g[s] = Turned(g, s, a, step)
    <3>1. g[s] = f[s] /\ s \in SUBSET (1..(n - 1))
      BY <2>2, <2>3, <2>7
    <3>2. f[s] = Turned(f, s, a, step)
      BY <3>1, <1>2, Zenon DEF Folds
    <3>3. g[s \ {Max(s)}] = f[s \ {Max(s)}]
      BY <2>3, <2>7
    <3> QED
      BY <3>1, <3>2, <3>3 DEF Turned
  <2>8. Folds(g, n, a, step)
    BY <2>6, <2>7 DEF Folds
  <2> QED
    BY <2>5, <2>8
<1>3. \A n \in 1..k : n - 1 \in S => n \in S
  <2> TAKE n \in 1..k
  <2>1. ASSUME n - 1 \in S PROVE n \in S
    <3>1. PICK f \in [SUBSET (1..(n - 1)) -> A] : Folds(f, n - 1, a, step)
      BY <2>1
    <3>2. \E g \in [SUBSET (1..n) -> A] : Folds(g, n, a, step)
      BY <3>1, <1>2
    <3>3. n \in 0..k
      OBVIOUS
    <3> QED
      BY <3>2, <3>3
  <2> QED
    BY <2>1
<1>4. k \in S
  <2> HIDE DEF S
  <2>1. 0..k \subseteq S
    BY <1>1, <1>3, InductionUpTo
  <2> QED
    BY <2>1
<1> QED
  BY <1>4

\* What a fold has come to after the first n places.
LEMMA FoldPlaces ==
  ASSUME NEW n, n \in Nat \ {0}
  PROVE  Max(1..n) = n /\ (1..n) \ {Max(1..n)} = 1..(n - 1) /\ 1..n # {}
<1>1. 1..n # {} /\ 1..n \in SUBSET (1..n) /\ n \in 1..n
  OBVIOUS
<1>2. Max(1..n) \in 1..n /\ Max(1..n) >= n
  BY <1>1, GreatestNumber
<1>3. Max(1..n) = n
  BY <1>2
<1> QED
  BY <1>1, <1>3

\* A list of k elements whose turns are the steps, while what it has come to
\* is in A.
Turns(f, k, a, A, step) ==
  \A s \in SUBSET (1..k) :
    /\ s = {} => f[s] = a
    /\ s # {} /\ f[s \ {Max(s)}] \in A => f[s] = step[Max(s)][f[s \ {Max(s)}]]

\* The steps lead from base to v.
Lead(v, k, A, base, step) == \E g \in [0..k -> A] : Steps(g, k, base, step) /\ v = g[k]

(* The value of a fold is what the steps lead to.                           *)
LEMMA FoldLeads ==
  ASSUME NEW k \in Nat, NEW A, NEW base \in A, NEW step \in [1..k -> [A -> A]], NEW iter,
         Turns(iter, k, base, A, step)
  PROVE  Lead(iter[1..k], k, A, base, step)
<1> DEFINE g == [n \in 0..k |-> iter[1..n]]
<1>1. g[0] = base
  <2>1. 1..0 = {} /\ 1..0 \in SUBSET (1..k) /\ 0 \in 0..k
    OBVIOUS
  <2> QED
    BY <2>1, Zenon DEF Turns
<1>2. ASSUME NEW n \in 1..k, g[n - 1] \in A PROVE g[n] = step[n][g[n - 1]]
  <2>1. 1..n \in SUBSET (1..k) /\ n \in 0..k /\ n - 1 \in 0..k /\ n \in Nat \ {0}
    OBVIOUS
  <2>2. Max(1..n) = n /\ (1..n) \ {Max(1..n)} = 1..(n - 1) /\ 1..n # {}
    BY <2>1, FoldPlaces
  <2>3. iter[1..(n - 1)] = g[n - 1] /\ iter[1..n] = g[n]
    BY <2>1, Zenon
  <2>4. iter[(1..n) \ {Max(1..n)}] \in A => iter[1..n] = step[Max(1..n)][iter[(1..n) \ {Max(1..n)}]]
    BY <2>1, <2>2, Zenon DEF Turns
  <2> HIDE DEF g
  <2> QED
    BY <1>2, <2>2, <2>3, <2>4, Zenon
<1>3. iter[1..k] = g[k]
  <2>1. k \in 0..k
    OBVIOUS
  <2> QED
    BY <2>1, Zenon
<1> HIDE DEF g
<1>4. \A n \in 0..k : g[n] \in A
  <2>1. ASSUME NEW n \in 1..k, g[n - 1] \in A PROVE g[n] \in A
    BY <1>2, <2>1
  <2> QED
    BY <1>1, <2>1, HandedOn
<1>5. Steps(g, k, base, step)
  <2> SUFFICES ASSUME NEW n \in 1..k PROVE g[n] = step[n][g[n - 1]]
    BY <1>1 DEF Steps
  <2>1. n - 1 \in 0..k
    OBVIOUS
  <2> QED
    BY <2>1, <1>2, <1>4, Zenon
<1>6. g \in [0..k -> A]
  <2>1. g = [n \in 0..k |-> g[n]]
    BY DEF g
  <2> QED
    BY <2>1, <1>4
<1> QED
  BY <1>3, <1>5, <1>6 DEF Lead

(* The entries of a micro-frontend are taken one by one.                    *)
LEMMA FoldAccept ==
  ASSUME NEW k \in Nat, NEW es, DOMAIN es = 1..k, NEW A, NEW base \in A,
         NEW step \in [1..k -> [A -> A]],
         \A n \in 1..k : \A b \in A : step[n][b] = Accept(b, es[n])
  PROVE  Lead(FoldLeft(Accept, base, es), k, A, base, step)
<1> DEFINE Turn(f, s) == IF s = {} THEN base ELSE Accept(f[s \ {Max(s)}], es[Max(s)])
           Fills(f) == f = [s \in SUBSET (1..k) |-> Turn(f, s)]
<1>1. PICK f \in [SUBSET (1..k) -> A] : Folds(f, k, base, step)
  BY FoldsExist
<1>2. \A s \in SUBSET (1..k) : s # {} => Max(s) \in 1..k /\ s \ {Max(s)} \in SUBSET (1..k)
  BY GreatestNumber
<1>3. \A s \in SUBSET (1..k) : f[s] = Turn(f, s)
  BY <1>1, <1>2, Zenon DEF Folds, Turned
<1>4. f = [s \in SUBSET (1..k) |-> f[s]]
  OBVIOUS
<1>5. Fills(f)
  BY <1>3, <1>4, Zenon
<1> DEFINE iter == CHOOSE h : Fills(h)
<1>6. Fills(iter)
  BY <1>5, Zenon
<1>7. FoldLeft(Accept, base, es) = iter[1..k]
  BY DEF FoldLeft, MapThenFoldSet
<1> HIDE DEF iter
<1>8. \A s \in SUBSET (1..k) : iter[s] = Turn(iter, s)
  BY <1>6, Zenon
<1>9. Turns(iter, k, base, A, step)
  BY <1>2, <1>8, Zenon DEF Turns
<1> HIDE DEF Turn, Fills
<1>10. Lead(iter[1..k], k, A, base, step)
  BY <1>9, FoldLeads
<1> QED
  BY <1>7, <1>10, Zenon

(* So are the links of a page.                                              *)
LEMMA FoldAddLink ==
  ASSUME NEW k \in Nat, NEW es, DOMAIN es = 1..k, NEW A, NEW base \in A,
         NEW step \in [1..k -> [A -> A]],
         \A n \in 1..k : \A b \in A : step[n][b] = AddLink(b, es[n])
  PROVE  Lead(FoldLeft(AddLink, base, es), k, A, base, step)
<1> DEFINE Turn(f, s) == IF s = {} THEN base ELSE AddLink(f[s \ {Max(s)}], es[Max(s)])
           Fills(f) == f = [s \in SUBSET (1..k) |-> Turn(f, s)]
<1>1. PICK f \in [SUBSET (1..k) -> A] : Folds(f, k, base, step)
  BY FoldsExist
<1>2. \A s \in SUBSET (1..k) : s # {} => Max(s) \in 1..k /\ s \ {Max(s)} \in SUBSET (1..k)
  BY GreatestNumber
<1>3. \A s \in SUBSET (1..k) : f[s] = Turn(f, s)
  BY <1>1, <1>2, Zenon DEF Folds, Turned
<1>4. f = [s \in SUBSET (1..k) |-> f[s]]
  OBVIOUS
<1>5. Fills(f)
  BY <1>3, <1>4, Zenon
<1> DEFINE iter == CHOOSE h : Fills(h)
<1>6. Fills(iter)
  BY <1>5, Zenon
<1>7. FoldLeft(AddLink, base, es) = iter[1..k]
  BY DEF FoldLeft, MapThenFoldSet
<1> HIDE DEF iter
<1>8. \A s \in SUBSET (1..k) : iter[s] = Turn(iter, s)
  BY <1>6, Zenon
<1>9. Turns(iter, k, base, A, step)
  BY <1>2, <1>8, Zenon DEF Turns
<1> HIDE DEF Turn, Fills
<1>10. Lead(iter[1..k], k, A, base, step)
  BY <1>9, FoldLeads
<1> QED
  BY <1>7, <1>10, Zenon

-----------------------------------------------------------------------------
(* The pages a document names.                                             *)
Endings == {"", "/index.html", ".html"}
Pages == STRING \X Endings
PageBuilder ==
  [urls : {<<>>}, probeTargets : {<<>>}, publicPaths : {<<>>}, intermediates : Seq(Pages)]

(* A list that includes one more.                                          *)
LEMMA Included ==
  ASSUME NEW X, NEW list \in Seq(X), NEW x \in X
  PROVE  /\ Include(list, x) \in Seq(X)
         /\ Len(list) <= Len(Include(list, x)) /\ Len(Include(list, x)) <= Len(list) + 1
         /\ ToSet(Include(list, x)) = ToSet(list) \cup {x}
<1>1. CASE x \in ToSet(list)
  BY <1>1 DEF Include
<1>2. CASE x \notin ToSet(list)
  <2> DEFINE longer == Append(list, x)
  <2>1. /\ longer \in Seq(X) /\ Len(longer) = Len(list) + 1
        /\ \A n \in 1..Len(list) : longer[n] = list[n]
        /\ longer[Len(list) + 1] = x
    OBVIOUS
  <2>2. Include(list, x) = longer
    BY <1>2 DEF Include
  <2>3. ToSet(longer) = ToSet(list) \cup {x}
    <3>1. DOMAIN longer = 1..(Len(list) + 1) /\ DOMAIN list = 1..Len(list) /\ Len(list) \in Nat
      OBVIOUS
    <3> HIDE DEF longer
    <3>2. \A n \in 1..(Len(list) + 1) : n \in 1..Len(list) \/ n = Len(list) + 1
      BY <3>1
    <3>3. 1..Len(list) \subseteq 1..(Len(list) + 1) /\ Len(list) + 1 \in 1..(Len(list) + 1)
      BY <3>1
    <3> QED
      BY <2>1, <3>1, <3>2, <3>3 DEF ToSet
  <2> HIDE DEF longer
  <2> QED
    BY <2>1, <2>2, <2>3
<1> QED
  BY <1>1, <1>2

(* The pages of a result are a list, with a length.                         *)
LEMMA PagesCounted ==
  ASSUME NEW b \in PageBuilder
  PROVE  b.intermediates \in Seq(Pages) /\ Len(b.intermediates) \in Nat
<1>1. b.intermediates \in Seq(Pages)
  BY DEF PageBuilder
<1> QED
  BY <1>1

\* What a link adds: at most n pages, under its name, and only if it is usable.
Grown(b, c, link, n) ==
  /\ c \in PageBuilder
  /\ Len(b.intermediates) <= Len(c.intermediates)
  /\ Len(c.intermediates) <= Len(b.intermediates) + n
  /\ ToSet(b.intermediates) \subseteq ToSet(c.intermediates)
  /\ \A p \in ToSet(c.intermediates) :
       p \in ToSet(b.intermediates) \/ (Usable(link) /\ p[1] = link.name)

(* Adding nothing is within any bound.                                      *)
LEMMA GrownNone ==
  ASSUME NEW b \in PageBuilder, NEW link, NEW n \in Nat
  PROVE  Grown(b, b, link, n)
<1> DEFINE x == Len(b.intermediates)
<1>1. x \in Nat
  BY PagesCounted
<1> HIDE DEF x
<1>2. x <= x /\ x <= x + n
  BY <1>1
<1> QED
  BY <1>2, Zenon DEF Grown, x

(* Adding less is within a wider one.                                       *)
LEMMA GrownLess ==
  ASSUME NEW b \in PageBuilder, NEW c, NEW link, NEW m \in Nat, NEW n \in Nat, m <= n,
         Grown(b, c, link, m)
  PROVE  Grown(b, c, link, n)
<1> DEFINE x == Len(b.intermediates)
           y == Len(c.intermediates)
<1>1. c \in PageBuilder /\ y <= x + m
  BY Zenon DEF Grown
<1>2. x \in Nat /\ y \in Nat
  BY <1>1, PagesCounted
<1> HIDE DEF x, y
<1>3. y <= x + n
  BY <1>1, <1>2
<1> QED
  BY <1>3, Zenon DEF Grown, x, y

(* A page added to a result is there once, after those before it.           *)
LEMMA AddedPage ==
  ASSUME NEW b \in PageBuilder, NEW p \in Pages
  PROVE  LET c == AddIntermediate(b, p)
         IN  /\ c \in PageBuilder
             /\ Len(b.intermediates) <= Len(c.intermediates)
             /\ Len(c.intermediates) <= Len(b.intermediates) + 1
             /\ ToSet(c.intermediates) = ToSet(b.intermediates) \cup {p}
<1> DEFINE longer == Include(b.intermediates, p)
<1>1. b.intermediates \in Seq(Pages)
  BY DEF PageBuilder
<1>2. /\ longer \in Seq(Pages)
      /\ Len(b.intermediates) <= Len(longer) /\ Len(longer) <= Len(b.intermediates) + 1
      /\ ToSet(longer) = ToSet(b.intermediates) \cup {p}
  BY <1>1, Included
<1> HIDE DEF longer
<1>3. AddIntermediate(b, p) = [b EXCEPT !.intermediates = longer]
  BY DEF AddIntermediate, longer
<1>4. AddIntermediate(b, p) \in PageBuilder /\ AddIntermediate(b, p).intermediates = longer
  BY <1>2, <1>3 DEF PageBuilder
<1> QED
  BY <1>2, <1>4

(* A result starts with no page.                                            *)
LEMMA NewBuilderPages == NewBuilder \in PageBuilder /\ Len(NewBuilder.intermediates) = 0
                         /\ ToSet(NewBuilder.intermediates) = {}
BY DEF NewBuilder, PageBuilder, ToSet

(* One form of a link adds at most one page, and the plain form adds the    *)
(* link of every usable one.                                                *)
LEMMA AddOneGrows ==
  ASSUME NEW b \in PageBuilder, NEW link \in PageLink, ~link.blank, NEW ending \in Endings,
         ending = "" \/ ~link.otherType
  PROVE  /\ Grown(b, AddOne(b, link, ending), link, 1)
         /\ Usable(link) /\ ending = "" =>
              <<link.name, "">> \in ToSet(AddOne(b, link, ending).intermediates)
<1> DEFINE form == <<link.name, IF link.query THEN "" ELSE ending>>
           out == link.unusable \/ (link.otherType /\ ending = "") \/ link.leads # "same"
<1>0. b.intermediates \in Seq(Pages) /\ Len(b.intermediates) \in Nat
  BY PagesCounted
<1>1. form \in Pages /\ form[1] = link.name /\ (ending = "" => form = <<link.name, "">>)
  <2>1. link.name \in STRING
    BY DEF PageLink
  <2>2. (IF link.query THEN "" ELSE ending) \in Endings
    <3>1. "" \in Endings
      BY DEF Endings
    <3> QED
      BY <3>1, Zenon
  <2>3. ending = "" => (IF link.query THEN "" ELSE ending) = ""
    OBVIOUS
  <2> QED
    BY <2>1, <2>2, <2>3 DEF Pages
<1>2. AddOne(b, link, ending) = IF out THEN b ELSE AddIntermediate(b, form)
  BY DEF AddOne
<1>3. out <=> ~Usable(link)
  BY DEF Usable, PageLink
<1> HIDE DEF form, out
<1>4. CASE out
  <2>1. Grown(b, b, link, 1)
    BY GrownNone
  <2> QED
    BY <1>2, <1>3, <1>4, <2>1
<1>5. CASE ~out
  <2> DEFINE c == AddIntermediate(b, form)
  <2>2. /\ c \in PageBuilder
        /\ Len(b.intermediates) <= Len(c.intermediates)
        /\ Len(c.intermediates) <= Len(b.intermediates) + 1
        /\ ToSet(c.intermediates) = ToSet(b.intermediates) \cup {form}
    BY <1>1, AddedPage
  <2> HIDE DEF c
  <2>3. Grown(b, c, link, 1)
    BY <2>2, <1>1, <1>3, <1>5, Zenon DEF Grown
  <2>4. AddOne(b, link, ending) = c
    BY <1>2, <1>5 DEF c
  <2> QED
    BY <2>2, <2>3, <2>4, <1>1
<1> QED
  BY <1>4, <1>5

(* Two additions come to their sum.                                         *)
LEMMA GrownTwice ==
  ASSUME NEW b \in PageBuilder, NEW c, NEW d, NEW link, NEW m \in Nat, NEW n \in Nat,
         Grown(b, c, link, m), Grown(c, d, link, n)
  PROVE  Grown(b, d, link, m + n)
<1>1. \A x \in PageBuilder : Len(x.intermediates) \in Nat
  BY PagesCounted
<1>2. c \in PageBuilder /\ d \in PageBuilder
  BY DEF Grown
<1>3. /\ Len(b.intermediates) \in Nat /\ Len(c.intermediates) \in Nat
      /\ Len(d.intermediates) \in Nat
  BY <1>1, <1>2
<1>4. /\ Len(b.intermediates) <= Len(d.intermediates)
      /\ Len(d.intermediates) <= Len(b.intermediates) + (m + n)
  <2>1. /\ Len(b.intermediates) <= Len(c.intermediates)
        /\ Len(c.intermediates) <= Len(b.intermediates) + m
        /\ Len(c.intermediates) <= Len(d.intermediates)
        /\ Len(d.intermediates) <= Len(c.intermediates) + n
    BY Zenon DEF Grown
  <2> DEFINE x == Len(b.intermediates)
             y == Len(c.intermediates)
             z == Len(d.intermediates)
  <2> HIDE DEF x, y, z
  <2>2. x \in Nat /\ y \in Nat /\ z \in Nat /\ x <= y /\ y <= x + m /\ y <= z /\ z <= y + n
    BY <2>1, <1>3, Zenon DEF x, y, z
  <2>3. x <= z /\ z <= x + (m + n)
    BY <2>2
  <2> QED
    BY <2>3, Zenon DEF x, y, z
<1>6. ToSet(b.intermediates) \subseteq ToSet(d.intermediates)
  BY DEF Grown
<1>7. \A p \in ToSet(d.intermediates) :
       p \in ToSet(b.intermediates) \/ (Usable(link) /\ p[1] = link.name)
  BY Zenon DEF Grown
<1> QED
  BY <1>2, <1>4, <1>6, <1>7, Zenon DEF Grown

(* A link adds at most three pages, and its own if it is usable.            *)
LEMMA AddGrows ==
  ASSUME NEW b \in PageBuilder, NEW link \in PageLink, link.otherType => link.dotted
  PROVE  /\ Grown(b, Add(b, link), link, 3)
         /\ Usable(link) => <<link.name, "">> \in ToSet(Add(b, link).intermediates)
<1>0. Len(b.intermediates) \in Nat
  BY PagesCounted
<1>1. CASE link.blank
  <2>1. Grown(b, b, link, 3)
    BY GrownNone
  <2>2. Add(b, link) = b /\ ~Usable(link)
    BY <1>1 DEF Add, Usable
  <2> QED
    BY <2>1, <2>2
<1>2. CASE ~link.blank /\ ~link.dotted /\ ~link.slashed
  <2> DEFINE c == AddOne(b, link, "")
             d == AddOne(c, link, "/index.html")
             e == AddOne(d, link, ".html")
  <2>1. Grown(b, c, link, 1) /\ (Usable(link) => <<link.name, "">> \in ToSet(c.intermediates))
    <3>1. "" \in Endings
      BY DEF Endings
    <3> QED
      BY <1>2, <3>1, AddOneGrows, Zenon
  <2>2. Add(b, link) = e
    BY <1>2 DEF Add
  <2>3. Grown(c, d, link, 1)
    <3>1. c \in PageBuilder
      BY <2>1 DEF Grown
    <3>2. "/index.html" \in Endings /\ ~link.otherType
      BY <1>2 DEF Endings
    <3> HIDE DEF c
    <3> QED
      BY <1>2, <3>1, <3>2, AddOneGrows, Zenon
  <2> HIDE DEF c
  <2>4. Grown(d, e, link, 1)
    <3>1. d \in PageBuilder
      BY <2>3 DEF Grown
    <3>2. ".html" \in Endings /\ ~link.otherType
      BY <1>2 DEF Endings
    <3> HIDE DEF d
    <3> QED
      BY <1>2, <3>1, <3>2, AddOneGrows, Zenon
  <2> HIDE DEF d, e
  <2>5. Grown(b, d, link, 2)
    <3>1. Grown(b, d, link, 1 + 1)
      BY <2>1, <2>3, GrownTwice
    <3> QED
      BY <3>1
  <2>6. Grown(b, e, link, 3)
    <3>1. Grown(b, e, link, 2 + 1)
      BY <2>4, <2>5, GrownTwice
    <3> QED
      BY <3>1
  <2>7. ToSet(c.intermediates) \subseteq ToSet(e.intermediates)
    BY <2>3, <2>4 DEF Grown
  <2> QED
    BY <2>1, <2>2, <2>6, <2>7
<1>3. CASE ~link.blank /\ (link.dotted \/ link.slashed)
  <2> DEFINE c == AddOne(b, link, "")
  <2>1. Grown(b, c, link, 1) /\ (Usable(link) => <<link.name, "">> \in ToSet(c.intermediates))
    <3>1. "" \in Endings
      BY DEF Endings
    <3> QED
      BY <1>3, <3>1, AddOneGrows, Zenon
  <2>2. Add(b, link) = c
    BY <1>3 DEF Add
  <2> HIDE DEF c
  <2>3. Grown(b, c, link, 3)
    <3>1. 1 \in Nat /\ 3 \in Nat /\ 1 <= 3
      OBVIOUS
    <3> QED
      BY <2>1, <3>1, GrownLess, Zenon
  <2> QED
    BY <2>1, <2>2, <2>3
<1>4. link.blank \in BOOLEAN /\ link.dotted \in BOOLEAN /\ link.slashed \in BOOLEAN
  BY DEF PageLink
<1> QED
  BY <1>1, <1>2, <1>3, <1>4

(* What a link does while the limit is not reached.                         *)
LEMMA AddLinkGrows ==
  ASSUME NEW b \in PageBuilder, NEW link \in PageLink, link.otherType => link.dotted
  PROVE  LET c == AddLink(b, link)
         IN  /\ Grown(b, c, link, 3)
             /\ Len(b.intermediates) <= MAX_MICRO_APP_ENTRIES + 2 =>
                  Len(c.intermediates) <= MAX_MICRO_APP_ENTRIES + 2
             /\ Usable(link) => \/ <<link.name, "">> \in ToSet(c.intermediates)
                                \/ Len(c.intermediates) >= MAX_MICRO_APP_ENTRIES
<1> DEFINE x == Len(b.intermediates)
           max == MAX_MICRO_APP_ENTRIES
<1>0. x \in Nat /\ max \in Nat
  BY PagesCounted, EntriesAssumption DEF EntriesAssumption
<1>1. CASE x >= max
  <2>1. AddLink(b, link) = b
    BY <1>1 DEF AddLink
  <2>2. Grown(b, b, link, 3)
    BY GrownNone
  <2> QED
    BY <1>1, <2>1, <2>2, Zenon
<1>2. CASE ~(x >= max)
  <2> DEFINE c == Add(b, link)
             y == Len(c.intermediates)
  <2>1. AddLink(b, link) = c
    BY <1>2 DEF AddLink
  <2>2. Grown(b, c, link, 3) /\ (Usable(link) => <<link.name, "">> \in ToSet(c.intermediates))
    BY AddGrows
  <2> HIDE DEF c
  <2>3. c \in PageBuilder /\ y <= x + 3
    BY <2>2, Zenon DEF Grown
  <2>4. y \in Nat
    BY <2>3, PagesCounted
  <2> HIDE DEF x, y, max
  <2>5. y <= max + 2
    BY <1>0, <1>2, <2>3, <2>4
  <2> QED
    BY <2>1, <2>2, <2>5, Zenon DEF y, max
<1> QED
  BY <1>1, <1>2

\* After the first n links.
NamedTo(b, links, n) ==
  /\ b \in PageBuilder /\ Len(b.intermediates) <= MAX_MICRO_APP_ENTRIES + 2
  /\ \A p \in ToSet(b.intermediates) : \E j \in DOMAIN links :
       Usable(links[j]) /\ p[1] = links[j].name
  /\ \A j \in 1..n : Usable(links[j]) =>
       \/ <<links[j].name, "">> \in ToSet(b.intermediates)
       \/ Len(b.intermediates) >= MAX_MICRO_APP_ENTRIES

(* The next link keeps it.                                                  *)
LEMMA LinkNamed ==
  ASSUME NEW links \in Seq(PageLink), \A j \in DOMAIN links : links[j].otherType => links[j].dotted,
         NEW n \in 1..Len(links), NEW b, NamedTo(b, links, n - 1)
  PROVE  NamedTo(AddLink(b, links[n]), links, n)
<1> DEFINE c == AddLink(b, links[n])
           link == links[n]
<1>0. link \in PageLink /\ (link.otherType => link.dotted) /\ n \in DOMAIN links
  OBVIOUS
<1>1. b \in PageBuilder /\ Len(b.intermediates) <= MAX_MICRO_APP_ENTRIES + 2
  BY Zenon DEF NamedTo
<1> HIDE DEF link
<1>2. /\ Grown(b, c, link, 3) /\ Len(c.intermediates) <= MAX_MICRO_APP_ENTRIES + 2
      /\ Usable(link) => \/ <<link.name, "">> \in ToSet(c.intermediates)
                         \/ Len(c.intermediates) >= MAX_MICRO_APP_ENTRIES
  BY <1>0, <1>1, AddLinkGrows DEF link
<1> HIDE DEF c
<1>3. /\ c \in PageBuilder
      /\ Len(b.intermediates) <= Len(c.intermediates)
      /\ ToSet(b.intermediates) \subseteq ToSet(c.intermediates)
      /\ \A p \in ToSet(c.intermediates) :
           p \in ToSet(b.intermediates) \/ (Usable(link) /\ p[1] = link.name)
  BY <1>2, Zenon DEF Grown
<1>4. \A p \in ToSet(c.intermediates) : \E j \in DOMAIN links :
        Usable(links[j]) /\ p[1] = links[j].name
  BY <1>0, <1>3, Zenon DEF NamedTo, link
<1>5. Len(b.intermediates) >= MAX_MICRO_APP_ENTRIES => Len(c.intermediates) >= MAX_MICRO_APP_ENTRIES
  <2> DEFINE x == Len(b.intermediates)
             y == Len(c.intermediates)
  <2>1. x \in Nat /\ y \in Nat /\ x <= y
    BY <1>1, <1>3, PagesCounted
  <2> HIDE DEF x, y
  <2>2. x >= MAX_MICRO_APP_ENTRIES => y >= MAX_MICRO_APP_ENTRIES
    BY <2>1, EntriesAssumption DEF EntriesAssumption
  <2> QED
    BY <2>2 DEF x, y
<1>6. ASSUME NEW j \in 1..n, Usable(links[j])
      PROVE  \/ <<links[j].name, "">> \in ToSet(c.intermediates)
             \/ Len(c.intermediates) >= MAX_MICRO_APP_ENTRIES
  <2>1. CASE j = n
    BY <1>2, <1>6, <2>1, Zenon DEF link
  <2>2. CASE j # n
    <3>1. j \in 1..(n - 1)
      BY <2>2
    <3>2. \/ <<links[j].name, "">> \in ToSet(b.intermediates)
          \/ Len(b.intermediates) >= MAX_MICRO_APP_ENTRIES
      BY <1>6, <3>1, Zenon DEF NamedTo
    <3> QED
      BY <1>3, <1>5, <3>2
  <2> QED
    BY <2>1, <2>2
<1>7. NamedTo(c, links, n)
  BY <1>2, <1>3, <1>4, <1>6, Zenon DEF NamedTo
<1> QED
  BY <1>7 DEF c

(* The pages of a document, over all of its links.                          *)
LEMMA LinksNamed ==
  ASSUME NEW links \in Seq(PageLink), \A j \in DOMAIN links : links[j].otherType => links[j].dotted
  PROVE  NamedTo(FoldLeft(AddLink, NewBuilder, links), links, Len(links))
<1> DEFINE k == Len(links)
           step == [n \in 1..k |-> [b \in PageBuilder |-> AddLink(b, links[n])]]
           v == FoldLeft(AddLink, NewBuilder, links)
<1>0. k \in Nat /\ DOMAIN links = 1..k /\ \A n \in 1..k : links[n] \in PageLink
  OBVIOUS
<1>1. \A n \in 1..k : \A b \in PageBuilder : AddLink(b, links[n]) \in PageBuilder
  <2> TAKE n \in 1..k
  <2> TAKE b \in PageBuilder
  <2>1. Grown(b, AddLink(b, links[n]), links[n], 3)
    BY <1>0, AddLinkGrows
  <2> QED
    BY <2>1, Zenon DEF Grown
<1>2. step \in [1..k -> [PageBuilder -> PageBuilder]]
  BY <1>1
<1>3. \A n \in 1..k : \A b \in PageBuilder : step[n][b] = AddLink(b, links[n])
  OBVIOUS
<1> HIDE DEF k, step
<1>4. Lead(v, k, PageBuilder, NewBuilder, step)
  BY <1>0, <1>2, <1>3, NewBuilderPages, FoldAddLink
<1> HIDE DEF v
<1>5. PICK g \in [0..k -> PageBuilder] : Steps(g, k, NewBuilder, step) /\ v = g[k]
  BY <1>4, Zenon DEF Lead
<1> DEFINE S == {n \in 0..k : NamedTo(g[n], links, n)}
<1>6. 0 \in S
  <2>0. 0 \in 0..k
    BY <1>0
  <2>1. g[0] = NewBuilder
    BY <1>5, Zenon DEF Steps
  <2>2. Len(NewBuilder.intermediates) <= MAX_MICRO_APP_ENTRIES + 2
    BY NewBuilderPages, EntriesAssumption DEF EntriesAssumption
  <2>3. NamedTo(NewBuilder, links, 0)
    BY <2>2, NewBuilderPages DEF NamedTo
  <2> QED
    BY <2>0, <2>1, <2>3
<1>7. \A n \in 1..k : n - 1 \in S => n \in S
  <2> SUFFICES ASSUME NEW n \in 1..k, NamedTo(g[n - 1], links, n - 1)
               PROVE  NamedTo(g[n], links, n)
    BY <1>0
  <2>1. n - 1 \in 0..k
    BY <1>0
  <2>2. g[n] = AddLink(g[n - 1], links[n])
    BY <1>3, <1>5, <2>1, Zenon DEF Steps
  <2>3. NamedTo(AddLink(g[n - 1], links[n]), links, n)
    BY LinkNamed DEF k
  <2> QED
    BY <2>2, <2>3
<1>8. k \in S
  <2> HIDE DEF S
  <2>1. 0..k \subseteq S
    BY <1>0, <1>6, <1>7, InductionUpTo
  <2> QED
    BY <2>1, <1>0
<1> QED
  BY <1>5, <1>8 DEF v, k

(* What a micro-frontend plugin names, of any list of entries.              *)
LEMMA EntriesCut ==
  ASSUME NEW es \in Seq(MicroEntry)
  PROVE  Len(Cut(FoldLeft(Accept, NewBuilder, es)).intermediates) <= MAX_MICRO_APP_ENTRIES
<1> DEFINE k == Len(es)
           step == [n \in 1..k |-> [b \in PageBuilder |-> Accept(b, es[n])]]
           v == FoldLeft(Accept, NewBuilder, es)
<1>0. k \in Nat /\ DOMAIN es = 1..k /\ \A n \in 1..k : es[n] \in MicroEntry
  OBVIOUS
<1>1. \A n \in 1..k : \A b \in PageBuilder : Accept(b, es[n]) \in PageBuilder
  <2> TAKE n \in 1..k
  <2> TAKE b \in PageBuilder
  <2>1. <<es[n].value, "">> \in Pages
    <3>1. es[n].value \in STRING
      BY <1>0 DEF MicroEntry
    <3> QED
      BY <3>1 DEF Pages, Endings
  <2>2. AddIntermediate(b, <<es[n].value, "">>) \in PageBuilder
    BY <2>1, AddedPage
  <2> QED
    BY <2>2, Zenon DEF Accept
<1>2. step \in [1..k -> [PageBuilder -> PageBuilder]]
  BY <1>1
<1>3. \A n \in 1..k : \A b \in PageBuilder : step[n][b] = Accept(b, es[n])
  OBVIOUS
<1> HIDE DEF k, step
<1>4. Lead(v, k, PageBuilder, NewBuilder, step)
  BY <1>0, <1>2, <1>3, NewBuilderPages, FoldAccept
<1> HIDE DEF v
<1>5. v \in PageBuilder
  <2>1. PICK g \in [0..k -> PageBuilder] : v = g[k]
    BY <1>4, Zenon DEF Lead
  <2> QED
    BY <1>0, <2>1
<1> DEFINE list == v.intermediates
<1>6. list \in Seq(Pages) /\ Len(list) \in Nat
  BY <1>5, PagesCounted
<1>7. Cut(v).intermediates = SubSeq(list, 1, IF Len(list) > MAX_MICRO_APP_ENTRIES
                                             THEN MAX_MICRO_APP_ENTRIES ELSE Len(list))
  BY <1>5 DEF Cut, PageBuilder
<1> HIDE DEF list
<1>8. \A m \in 0..Len(list) : Len(SubSeq(list, 1, m)) = m
  BY <1>6
<1>9. MAX_MICRO_APP_ENTRIES \in Nat
  BY EntriesAssumption DEF EntriesAssumption
<1>10. Len(Cut(v).intermediates) <= MAX_MICRO_APP_ENTRIES
  <2>1. CASE Len(list) > MAX_MICRO_APP_ENTRIES
    <3>1. MAX_MICRO_APP_ENTRIES \in 0..Len(list)
      BY <1>6, <1>9, <2>1
    <3> QED
      BY <1>7, <1>8, <1>9, <2>1, <3>1
  <2>2. CASE ~(Len(list) > MAX_MICRO_APP_ENTRIES)
    <3>1. Len(list) \in 0..Len(list)
      BY <1>6
    <3> QED
      BY <1>6, <1>7, <1>8, <1>9, <2>2, <3>1
  <2> QED
    BY <2>1, <2>2
<1> QED
  BY <1>10 DEF v
-----------------------------------------------------------------------------
(* What the documents analysed so far have left.                           *)
IsList(h) == \E X : h \in Seq(X)

(* A list of whatever it holds may be appended to.                          *)
LEMMA Listed ==
  ASSUME NEW h, IsList(h), NEW e
  PROVE  /\ IsList(Append(h, e)) /\ Len(h) \in Nat /\ Len(Append(h, e)) = Len(h) + 1
         /\ DOMAIN h = 1..Len(h) /\ DOMAIN Append(h, e) = 1..(Len(h) + 1)
         /\ \A n \in 1..Len(h) : Append(h, e)[n] = h[n]
         /\ Append(h, e)[Len(h) + 1] = e
<1>1. PICK X : h \in Seq(X)
  BY DEF IsList
<1> DEFINE Y == X \cup {e}
<1>2. h \in Seq(Y) /\ e \in Y
  BY <1>1
<1> HIDE DEF Y
<1>3. Append(h, e) \in Seq(Y)
  BY <1>2
<1>4. /\ Len(h) \in Nat /\ Len(Append(h, e)) = Len(h) + 1
      /\ DOMAIN h = 1..Len(h) /\ DOMAIN Append(h, e) = 1..(Len(h) + 1)
      /\ \A n \in 1..Len(h) : Append(h, e)[n] = h[n]
      /\ Append(h, e)[Len(h) + 1] = e
  BY <1>2
<1> QED
  BY <1>3, <1>4, Zenon DEF IsList

\* The results stand at their plugins' places, and are what the plugins find.
Settled(a) ==
  /\ a.doc \in Doc
  /\ \A k \in DOMAIN a.results : k \in 1..5 /\ a.results[k].fromPlugin = Registration[k]
  /\ 2 \in DOMAIN a.results => a.results[2].found = MicroAnalyze(a.doc)
  /\ 3 \in DOMAIN a.results => a.results[3].found = IcestarkAnalyze(a.doc)
  /\ 4 \in DOMAIN a.results => a.results[4].found = PivotAnalyze(a.doc)
  /\ PivotPrecheck(a.doc) => 4 \in DOMAIN a.results

(* Running the plugins on a document gives such results.                    *)
LEMMA DispatchKept ==
  ASSUME NEW d \in Doc, NEW conduct
  PROVE  Settled([doc |-> d, results |-> DispatchPlugins(d, conduct)])
<1> DEFINE r == DispatchPlugins(d, conduct)
           places == {k \in DOMAIN Registration :
                        /\ Applies(Registration[k], d, conduct)
                        /\ Registration[k] # "Custom" \/ conduct # "fails"}
<1>1. r = [n \in places |-> [fromPlugin |-> Registration[n], found |-> Analyze(Registration[n], d)]]
  BY DEF DispatchPlugins
<1>2. /\ DOMAIN Registration = 1..5 /\ Registration[2] = "QiankunPlugin"
      /\ Registration[3] = "IcestarkPlugin" /\ Registration[4] = "HTMLPivotPlugin"
  BY DEF Registration
<1>3. Applies("HTMLPivotPlugin", d, conduct) = PivotPrecheck(d)
  BY DEF Applies
<1>4. PivotPrecheck(d) => 4 \in places
  <2>1. 4 \in DOMAIN Registration /\ Registration[4] # "Custom"
    BY <1>2
  <2>2. PivotPrecheck(d) => Applies(Registration[4], d, conduct)
    BY <1>2, <1>3, Zenon
  <2> QED
    BY <2>1, <2>2, Zenon
<1>5. /\ Analyze("QiankunPlugin", d) = MicroAnalyze(d)
      /\ Analyze("IcestarkPlugin", d) = IcestarkAnalyze(d)
      /\ Analyze("HTMLPivotPlugin", d) = PivotAnalyze(d)
  BY DEF Analyze
<1>6. places \subseteq 1..5
  BY <1>2
<1> HIDE DEF r, places
<1>7. /\ DOMAIN r = places
      /\ \A k \in places : r[k].fromPlugin = Registration[k]
                            /\ r[k].found = Analyze(Registration[k], d)
  BY <1>1
<1>8. Settled([doc |-> d, results |-> r])
  BY <1>2, <1>4, <1>5, <1>6, <1>7 DEF Settled
<1> QED
  BY <1>8 DEF r

(* What a plugin found: its result is at its place, or it has none.         *)
LEMMA FoundAt ==
  ASSUME NEW a, Settled(a), NEW k \in 1..5
  PROVE  FoundBy(Registration[k], a.results) =
           IF k \in DOMAIN a.results THEN a.results[k].found ELSE NewBuilder
<1> DEFINE own == {m \in DOMAIN a.results : a.results[m].fromPlugin = Registration[k]}
<1>1. \A m \in 1..5 : Registration[m] = Registration[k] => m = k
  BY DEF Registration
<1>2. \A m \in DOMAIN a.results : m \in 1..5 /\ a.results[m].fromPlugin = Registration[m]
  BY Zenon DEF Settled
<1>3. own = IF k \in DOMAIN a.results THEN {k} ELSE {}
  BY <1>1, <1>2
<1>4. FoundBy(Registration[k], a.results) =
        IF own = {} THEN NewBuilder ELSE a.results[CHOOSE m \in own : TRUE].found
  BY DEF FoundBy
<1> HIDE DEF own
<1>5. CASE k \in DOMAIN a.results
  <2>1. own # {} /\ own = {k}
    BY <1>3, <1>5
  <2>2. (CHOOSE m \in own : TRUE) = k
    BY <2>1
  <2> QED
    BY <1>4, <1>5, <2>1, <2>2
<1>6. CASE k \notin DOMAIN a.results
  BY <1>3, <1>4, <1>6
<1> QED
  BY <1>5, <1>6

\* EntriesBounded, of one document.
Bounded(a) ==
  /\ \A plugin \in {"QiankunPlugin", "IcestarkPlugin"} :
       Len(FoundBy(plugin, a.results).intermediates) <= MAX_MICRO_APP_ENTRIES
  /\ a.doc.type = "html" /\ a.doc.hasLinks =>
       NamedTo(FoundBy("HTMLPivotPlugin", a.results), a.doc.links, Len(a.doc.links))

(* Such results name no more pages than the limit allows.                   *)
LEMMA KeptBounded ==
  ASSUME NEW a, Settled(a)
  PROVE  Bounded(a)
<1>0. a.doc \in Doc
  BY DEF Settled
<1>1. /\ a.doc.links \in Seq(PageLink) /\ a.doc.entries \in Seq(MicroEntry)
      /\ a.doc.arrayEntries \in Seq(MicroEntry)
      /\ \A n \in DOMAIN a.doc.links : a.doc.links[n].otherType => a.doc.links[n].dotted
  BY <1>0, DispatchAssumption, Zenon DEF DispatchAssumption
<1>2. /\ 2 \in 1..5 /\ 3 \in 1..5 /\ 4 \in 1..5 /\ Registration[2] = "QiankunPlugin"
      /\ Registration[3] = "IcestarkPlugin" /\ Registration[4] = "HTMLPivotPlugin"
  BY DEF Registration
<1>3. Len(NewBuilder.intermediates) <= MAX_MICRO_APP_ENTRIES
  BY NewBuilderPages, EntriesAssumption DEF EntriesAssumption
<1>4. Len(MicroAnalyze(a.doc).intermediates) <= MAX_MICRO_APP_ENTRIES
  BY <1>1, EntriesCut DEF MicroAnalyze
<1>5. Len(IcestarkAnalyze(a.doc).intermediates) <= MAX_MICRO_APP_ENTRIES
  <2>1. a.doc.arrayEntries \o a.doc.entries \in Seq(MicroEntry)
    BY <1>1
  <2> QED
    BY <2>1, EntriesCut DEF IcestarkAnalyze
<1>6. Len(FoundBy("QiankunPlugin", a.results).intermediates) <= MAX_MICRO_APP_ENTRIES
  <2>1. FoundBy("QiankunPlugin", a.results) \in {MicroAnalyze(a.doc), NewBuilder}
    BY <1>2, FoundAt DEF Settled
  <2> QED
    BY <1>3, <1>4, <2>1
<1>7. Len(FoundBy("IcestarkPlugin", a.results).intermediates) <= MAX_MICRO_APP_ENTRIES
  <2>1. FoundBy("IcestarkPlugin", a.results) \in {IcestarkAnalyze(a.doc), NewBuilder}
    BY <1>2, FoundAt DEF Settled
  <2> QED
    BY <1>3, <1>5, <2>1
<1>8. ASSUME a.doc.type = "html", a.doc.hasLinks
      PROVE  NamedTo(FoundBy("HTMLPivotPlugin", a.results), a.doc.links, Len(a.doc.links))
  <2>1. PivotPrecheck(a.doc)
    BY <1>8 DEF PivotPrecheck
  <2>2. FoundBy("HTMLPivotPlugin", a.results) = PivotAnalyze(a.doc)
    BY <1>2, <2>1, FoundAt DEF Settled
  <2>3. PivotAnalyze(a.doc) = FoldLeft(AddLink, NewBuilder, a.doc.links)
    BY <1>8 DEF PivotAnalyze
  <2> QED
    BY <1>1, <2>2, <2>3, LinksNamed
<1> QED
  BY <1>6, <1>7, <1>8 DEF Bounded

\* Every document analysed has such results.
DispatchInv == IsList(analysed) /\ \A n \in DOMAIN analysed : Settled(analysed[n])

(* Nothing is analysed at first,                                            *)
LEMMA DispatchInitInv == Init => DispatchInv
<1>1. <<>> \in Seq({}) /\ DOMAIN <<>> = {}
  OBVIOUS
<1> QED
  BY <1>1, Zenon DEF Init, DispatchInit, DispatchInv, IsList

(* and a step keeps what was, or adds a document with its results.          *)
LEMMA DispatchStep == DispatchInv /\ [Next]_vars => DispatchInv'
<1> SUFFICES ASSUME DispatchInv, [Next]_vars PROVE DispatchInv'
  OBVIOUS
<1>1. ASSUME NEW d \in Doc, NEW conduct \in Conduct, Dispatch(d, conduct) PROVE DispatchInv'
  <2> DEFINE a == [doc |-> d, results |-> DispatchPlugins(d, conduct)]
  <2>1. Settled(a)
    BY DispatchKept
  <2>2. analysed' = Append(analysed, a)
    BY <1>1 DEF Dispatch
  <2> HIDE DEF a
  <2>3. /\ IsList(analysed') /\ DOMAIN analysed' = 1..(Len(analysed) + 1)
        /\ Len(analysed) \in Nat /\ DOMAIN analysed = 1..Len(analysed)
        /\ \A n \in 1..Len(analysed) : analysed'[n] = analysed[n]
        /\ analysed'[Len(analysed) + 1] = a
    BY <2>2, Listed DEF DispatchInv
  <2>4. ASSUME NEW n \in DOMAIN analysed' PROVE Settled(analysed'[n])
    <3>1. n \in 1..Len(analysed) \/ n = Len(analysed) + 1
      BY <2>3
    <3> QED
      BY <2>1, <2>3, <3>1, Zenon DEF DispatchInv
  <2> QED
    BY <2>3, <2>4 DEF DispatchInv
<1>2. CASE UNCHANGED analysed
  BY <1>2 DEF DispatchInv
<1> QED
  BY <1>1, <1>2 DEF Next, vars, dispatchVars, DispatchNext

(* For no HTML page does HTMLPivotPlugin name more pages than the limit and *)
(* two, and it leaves a link out only after as many as the limit; for no    *)
(* document does a micro-frontend plugin name more than the limit: for any  *)
(* documents and any limit.  The pages taken from a script have none.       *)
THEOREM EntriesStayBounded == Spec => []EntriesBounded
<1>1. DispatchInv => EntriesBounded
  <2> SUFFICES ASSUME DispatchInv PROVE EntriesBounded
    OBVIOUS
  <2> SUFFICES ASSUME NEW n \in DOMAIN analysed
      PROVE LET d == analysed[n].doc
                found == analysed[n].results
                pages == FoundBy("HTMLPivotPlugin", found).intermediates
            IN  /\ \A plugin \in {"QiankunPlugin", "IcestarkPlugin"} :
                     Len(FoundBy(plugin, found).intermediates) <= MAX_MICRO_APP_ENTRIES
                /\ d.type = "html" /\ d.hasLinks =>
                     /\ Len(pages) <= MAX_MICRO_APP_ENTRIES + 2
                     /\ \A p \in ToSet(pages) : \E k \in DOMAIN d.links :
                          Usable(d.links[k]) /\ p[1] = d.links[k].name
                     /\ \A k \in DOMAIN d.links : Usable(d.links[k]) =>
                          \/ <<d.links[k].name, "">> \in ToSet(pages)
                          \/ Len(pages) >= MAX_MICRO_APP_ENTRIES
    BY Zenon DEF EntriesBounded
  <2>1. Settled(analysed[n]) /\ Bounded(analysed[n])
    BY KeptBounded DEF DispatchInv
  <2>2. DOMAIN analysed[n].doc.links = 1..Len(analysed[n].doc.links)
    <3>1. analysed[n].doc.links \in Seq(PageLink)
      BY <2>1, DispatchAssumption, Zenon DEF DispatchAssumption, Settled
    <3> QED
      BY <3>1
  <2> QED
    BY <2>1, <2>2, Zenon DEF Bounded, NamedTo
<1> QED
  BY <1>1, DispatchInitInv, DispatchStep, PTL DEF Spec
-----------------------------------------------------------------------------
(* The fragments of a result are taken one by one.                          *)
LEMMA FoldAddProbe ==
  ASSUME NEW k \in Nat, NEW es, DOMAIN es = 1..k, NEW A, NEW base \in A,
         NEW step \in [1..k -> [A -> A]],
         \A n \in 1..k : \A b \in A : step[n][b] = AddProbe(b, es[n])
  PROVE  Lead(FoldLeft(AddProbe, base, es), k, A, base, step)
<1> DEFINE Turn(f, s) == IF s = {} THEN base ELSE AddProbe(f[s \ {Max(s)}], es[Max(s)])
           Fills(f) == f = [s \in SUBSET (1..k) |-> Turn(f, s)]
<1>1. PICK f \in [SUBSET (1..k) -> A] : Folds(f, k, base, step)
  BY FoldsExist
<1>2. \A s \in SUBSET (1..k) : s # {} => Max(s) \in 1..k /\ s \ {Max(s)} \in SUBSET (1..k)
  BY GreatestNumber
<1>3. \A s \in SUBSET (1..k) : f[s] = Turn(f, s)
  BY <1>1, <1>2, Zenon DEF Folds, Turned
<1>4. f = [s \in SUBSET (1..k) |-> f[s]]
  OBVIOUS
<1>5. Fills(f)
  BY <1>3, <1>4, Zenon
<1> DEFINE iter == CHOOSE h : Fills(h)
<1>6. Fills(iter)
  BY <1>5, Zenon
<1>7. FoldLeft(AddProbe, base, es) = iter[1..k]
  BY DEF FoldLeft, MapThenFoldSet
<1> HIDE DEF iter
<1>8. \A s \in SUBSET (1..k) : iter[s] = Turn(iter, s)
  BY <1>6, Zenon
<1>9. Turns(iter, k, base, A, step)
  BY <1>2, <1>8, Zenon DEF Turns
<1> HIDE DEF Turn, Fills
<1>10. Lead(iter[1..k], k, A, base, step)
  BY <1>9, FoldLeads
<1> QED
  BY <1>7, <1>10, Zenon

(* So are the pairs put into a map.                                         *)
LEMMA FoldKeep ==
  ASSUME NEW k \in Nat, NEW es, DOMAIN es = 1..k, NEW A, NEW base \in A,
         NEW step \in [1..k -> [A -> A]],
         \A n \in 1..k : \A b \in A : step[n][b] = Keep(b, es[n])
  PROVE  Lead(FoldLeft(Keep, base, es), k, A, base, step)
<1> DEFINE Turn(f, s) == IF s = {} THEN base ELSE Keep(f[s \ {Max(s)}], es[Max(s)])
           Fills(f) == f = [s \in SUBSET (1..k) |-> Turn(f, s)]
<1>1. PICK f \in [SUBSET (1..k) -> A] : Folds(f, k, base, step)
  BY FoldsExist
<1>2. \A s \in SUBSET (1..k) : s # {} => Max(s) \in 1..k /\ s \ {Max(s)} \in SUBSET (1..k)
  BY GreatestNumber
<1>3. \A s \in SUBSET (1..k) : f[s] = Turn(f, s)
  BY <1>1, <1>2, Zenon DEF Folds, Turned
<1>4. f = [s \in SUBSET (1..k) |-> f[s]]
  OBVIOUS
<1>5. Fills(f)
  BY <1>3, <1>4, Zenon
<1> DEFINE iter == CHOOSE h : Fills(h)
<1>6. Fills(iter)
  BY <1>5, Zenon
<1>7. FoldLeft(Keep, base, es) = iter[1..k]
  BY DEF FoldLeft, MapThenFoldSet
<1> HIDE DEF iter
<1>8. \A s \in SUBSET (1..k) : iter[s] = Turn(iter, s)
  BY <1>6, Zenon
<1>9. Turns(iter, k, base, A, step)
  BY <1>2, <1>8, Zenon DEF Turns
<1> HIDE DEF Turn, Fills
<1>10. Lead(iter[1..k], k, A, base, step)
  BY <1>9, FoldLeads
<1> QED
  BY <1>7, <1>10, Zenon

(* So are the pairs that replace earlier ones.                              *)
LEMMA FoldSetKey ==
  ASSUME NEW k \in Nat, NEW es, DOMAIN es = 1..k, NEW A, NEW base \in A,
         NEW step \in [1..k -> [A -> A]],
         \A n \in 1..k : \A b \in A : step[n][b] = SetKey(b, es[n])
  PROVE  Lead(FoldLeft(SetKey, base, es), k, A, base, step)
<1> DEFINE Turn(f, s) == IF s = {} THEN base ELSE SetKey(f[s \ {Max(s)}], es[Max(s)])
           Fills(f) == f = [s \in SUBSET (1..k) |-> Turn(f, s)]
<1>1. PICK f \in [SUBSET (1..k) -> A] : Folds(f, k, base, step)
  BY FoldsExist
<1>2. \A s \in SUBSET (1..k) : s # {} => Max(s) \in 1..k /\ s \ {Max(s)} \in SUBSET (1..k)
  BY GreatestNumber
<1>3. \A s \in SUBSET (1..k) : f[s] = Turn(f, s)
  BY <1>1, <1>2, Zenon DEF Folds, Turned
<1>4. f = [s \in SUBSET (1..k) |-> f[s]]
  OBVIOUS
<1>5. Fills(f)
  BY <1>3, <1>4, Zenon
<1> DEFINE iter == CHOOSE h : Fills(h)
<1>6. Fills(iter)
  BY <1>5, Zenon
<1>7. FoldLeft(SetKey, base, es) = iter[1..k]
  BY DEF FoldLeft, MapThenFoldSet
<1> HIDE DEF iter
<1>8. \A s \in SUBSET (1..k) : iter[s] = Turn(iter, s)
  BY <1>6, Zenon
<1>9. Turns(iter, k, base, A, step)
  BY <1>2, <1>8, Zenon DEF Turns
<1> HIDE DEF Turn, Fills
<1>10. Lead(iter[1..k], k, A, base, step)
  BY <1>9, FoldLeads
<1> QED
  BY <1>7, <1>10, Zenon
-----------------------------------------------------------------------------
(* The chunks a script names.                                              *)
Pair == STRING \X STRING
KeysOf(s) == {p[1] : p \in s}

(* The elements of a list.                                                 *)
LEMMA ElementsOf ==
  ASSUME NEW X, NEW list \in Seq(X)
  PROVE  /\ ToSet(list) = {list[n] : n \in 1..Len(list)} /\ ToSet(list) \subseteq X
         /\ Len(list) \in Nat /\ DOMAIN list = 1..Len(list)
         /\ ToSet(list) = {} <=> list = <<>>
<1>1. DOMAIN list = 1..Len(list) /\ Len(list) \in Nat /\ \A n \in 1..Len(list) : list[n] \in X
  OBVIOUS
<1>2. ToSet(list) = {list[n] : n \in 1..Len(list)}
  BY <1>1 DEF ToSet
<1>3. ToSet(list) = {} => list = <<>>
  <2>1. ASSUME ToSet(list) = {} PROVE Len(list) = 0
    <3>1. 1 \notin 1..Len(list)
      BY <1>2, <2>1
    <3> QED
      BY <1>1, <3>1
  <2> QED
    BY <2>1
<1>4. list = <<>> => ToSet(list) = {}
  BY DEF ToSet
<1> QED
  BY <1>1, <1>2, <1>3, <1>4

(* A list with one more at its end has that one too.                       *)
LEMMA AppendedElements ==
  ASSUME NEW X, NEW list \in Seq(X), NEW x \in X
  PROVE  Append(list, x) \in Seq(X) /\ ToSet(Append(list, x)) = ToSet(list) \cup {x}
<1> DEFINE longer == Append(list, x)
<1>1. /\ longer \in Seq(X) /\ Len(longer) = Len(list) + 1
      /\ \A n \in 1..Len(list) : longer[n] = list[n]
      /\ longer[Len(list) + 1] = x
  OBVIOUS
<1>2. Len(list) \in Nat
  OBVIOUS
<1> HIDE DEF longer
<1>3. /\ ToSet(list) = {list[n] : n \in 1..Len(list)}
      /\ ToSet(longer) = {longer[n] : n \in 1..(Len(list) + 1)}
  <2>1. ToSet(longer) = {longer[n] : n \in 1..Len(longer)}
    BY <1>1, ElementsOf
  <2> QED
    BY <1>1, <2>1, ElementsOf
<1>4. \A n \in 1..(Len(list) + 1) : n \in 1..Len(list) \/ n = Len(list) + 1
  BY <1>2
<1>5. 1..Len(list) \subseteq 1..(Len(list) + 1) /\ Len(list) + 1 \in 1..(Len(list) + 1)
  BY <1>2
<1>6. ToSet(longer) = ToSet(list) \cup {x}
  BY <1>1, <1>3, <1>4, <1>5
<1> QED
  BY <1>1, <1>6 DEF longer

(* The pairs that a later value replaces: no new pair is made up, and no   *)
(* key is lost.                                                            *)
LEMMA KeySet ==
  ASSUME NEW map \in Seq(Pair), NEW pair \in Pair
  PROVE  /\ SetKey(map, pair) \in Seq(Pair)
         /\ ToSet(SetKey(map, pair)) \subseteq ToSet(map) \cup {pair}
         /\ KeysOf(ToSet(SetKey(map, pair))) = KeysOf(ToSet(map)) \cup {pair[1]}
<1> DEFINE k == Len(map)
           put == [n \in 1..k |-> IF map[n][1] = pair[1] THEN pair ELSE map[n]]
<1>1. k \in Nat /\ DOMAIN map = 1..k /\ \A n \in 1..k : map[n] \in Pair
  OBVIOUS
<1>2. ToSet(map) = {map[n] : n \in 1..k}
  BY ElementsOf
<1>3. CASE HasKey(map, pair[1])
  <2>1. SetKey(map, pair) = put
    BY <1>1, <1>3 DEF SetKey
  <2>2. put \in Seq(Pair) /\ Len(put) = k
    BY <1>1
  <2>4. \A n \in 1..k : put[n] = (IF map[n][1] = pair[1] THEN pair ELSE map[n])
    BY <1>1
  <2> HIDE DEF put, k
  <2>3. ToSet(put) = {put[n] : n \in 1..k}
    <3>1. ToSet(put) = {put[n] : n \in 1..Len(put)}
      BY <2>2, ElementsOf
    <3> QED
      BY <2>2, <3>1
  <2>5. ToSet(put) \subseteq ToSet(map) \cup {pair}
    BY <1>2, <2>3, <2>4
  <2>6. PICK m \in 1..k : map[m][1] = pair[1]
    BY <1>1, <1>3 DEF HasKey
  <2>7. \A n \in 1..k : put[n][1] = map[n][1]
    BY <2>4
  <2>8. KeysOf(ToSet(put)) = KeysOf(ToSet(map)) \cup {pair[1]}
    <3>1. KeysOf(ToSet(put)) = {put[n][1] : n \in 1..k}
      BY <2>3 DEF KeysOf
    <3>2. KeysOf(ToSet(map)) = {map[n][1] : n \in 1..k}
      BY <1>2 DEF KeysOf
    <3> QED
      BY <2>6, <2>7, <3>1, <3>2
  <2> QED
    BY <2>1, <2>2, <2>5, <2>8
<1>4. CASE ~HasKey(map, pair[1])
  <2>1. SetKey(map, pair) = Append(map, pair)
    BY <1>4 DEF SetKey
  <2>2. Append(map, pair) \in Seq(Pair) /\ ToSet(Append(map, pair)) = ToSet(map) \cup {pair}
    BY AppendedElements
  <2> QED
    BY <2>1, <2>2 DEF KeysOf
<1> QED
  BY <1>3, <1>4

(* What a list of pairs leaves where later values replace earlier ones.     *)
LEMMA LastKept ==
  ASSUME NEW pairs \in Seq(Pair)
  PROVE  /\ LastWins(<<>>, pairs) \in Seq(Pair)
         /\ ToSet(LastWins(<<>>, pairs)) \subseteq ToSet(pairs)
         /\ KeysOf(ToSet(LastWins(<<>>, pairs))) = KeysOf(ToSet(pairs))
<1> DEFINE k == Len(pairs)
           A == Seq(Pair)
           step == [n \in 1..k |-> [m \in A |-> SetKey(m, pairs[n])]]
           v == FoldLeft(SetKey, <<>>, pairs)
           Upto(m, n) == /\ m \in A
                          /\ ToSet(m) \subseteq {pairs[j] : j \in 1..n}
                          /\ KeysOf(ToSet(m)) = {pairs[j][1] : j \in 1..n}
<1>0. k \in Nat /\ DOMAIN pairs = 1..k /\ \A n \in 1..k : pairs[n] \in Pair
  OBVIOUS
<1>1. \A n \in 1..k : \A m \in A : SetKey(m, pairs[n]) \in A
  BY <1>0, KeySet
<1>2. step \in [1..k -> [A -> A]] /\ <<>> \in A
  BY <1>1
<1>3. \A n \in 1..k : \A m \in A : step[n][m] = SetKey(m, pairs[n])
  OBVIOUS
<1> HIDE DEF k, step, A
<1>4. Lead(v, k, A, <<>>, step)
  BY <1>0, <1>2, <1>3, FoldSetKey
<1> HIDE DEF v
<1>5. PICK g \in [0..k -> A] : Steps(g, k, <<>>, step) /\ v = g[k]
  BY <1>4, Zenon DEF Lead
<1> DEFINE S == {n \in 0..k : Upto(g[n], n)}
<1>6. 0 \in S
  <2>1. 0 \in 0..k /\ 1..0 = {}
    BY <1>0
  <2>2. g[0] = <<>> /\ ToSet(<<>>) = {}
    <3>1. g[0] = <<>>
      BY <1>5, Zenon DEF Steps
    <3> QED
      BY <3>1 DEF ToSet
  <2>3. KeysOf({}) = {}
    BY DEF KeysOf
  <2> QED
    BY <1>2, <2>1, <2>2, <2>3
<1>7. \A n \in 1..k : n - 1 \in S => n \in S
  <2> SUFFICES ASSUME NEW n \in 1..k, Upto(g[n - 1], n - 1)
               PROVE  Upto(g[n], n)
    <3>1. \A n \in 1..k : n \in 0..k
      BY <1>0
    <3> QED
      BY <3>1
  <2> DEFINE m == g[n - 1]
  <2>1. n - 1 \in 0..k
    BY <1>0
  <2>2. g[n] = SetKey(m, pairs[n])
    BY <1>3, <1>5, <2>1, Zenon DEF Steps
  <2>3. /\ SetKey(m, pairs[n]) \in A
        /\ ToSet(SetKey(m, pairs[n])) \subseteq ToSet(m) \cup {pairs[n]}
        /\ KeysOf(ToSet(SetKey(m, pairs[n]))) = KeysOf(ToSet(m)) \cup {pairs[n][1]}
    BY <1>0, KeySet DEF A
  <2> HIDE DEF m
  <2>4. \A j \in 1..n : j \in 1..(n - 1) \/ j = n
    BY <1>0
  <2>5. 1..(n - 1) \subseteq 1..n /\ n \in 1..n
    BY <1>0
  <2>6. ToSet(m) \subseteq {pairs[j] : j \in 1..(n - 1)}
        /\ KeysOf(ToSet(m)) = {pairs[j][1] : j \in 1..(n - 1)}
    BY DEF m
  <2> QED
    BY <2>2, <2>3, <2>4, <2>5, <2>6
<1>8. k \in S
  <2> HIDE DEF S
  <2>1. 0..k \subseteq S
    BY <1>0, <1>6, <1>7, InductionUpTo
  <2> QED
    BY <2>1, <1>0
<1>9. ToSet(pairs) = {pairs[j] : j \in 1..k} /\ LastWins(<<>>, pairs) = v
  BY ElementsOf DEF LastWins, k, v
<1>10. KeysOf(ToSet(pairs)) = {pairs[j][1] : j \in 1..k}
  BY <1>9 DEF KeysOf
<1> QED
  BY <1>5, <1>8, <1>9, <1>10 DEF A

\* The pairs of a list that are the first with their key, of the first n.
NewPairs(keys, pairs, n) ==
  {pairs[j] : j \in {i \in 1..n : /\ pairs[i][1] \notin keys
                                  /\ \A l \in 1..(i - 1) : pairs[l][1] # pairs[i][1]}}

(* What they leave where the first value of a key stays.                    *)
LEMMA FirstKept ==
  ASSUME NEW map \in Seq(Pair), NEW pairs \in Seq(Pair)
  PROVE  /\ FirstWins(map, pairs) \in Seq(Pair)
         /\ ToSet(FirstWins(map, pairs)) =
              ToSet(map) \cup NewPairs(KeysOf(ToSet(map)), pairs, Len(pairs))
<1> DEFINE k == Len(pairs)
           A == Seq(Pair)
           step == [n \in 1..k |-> [m \in A |-> Keep(m, pairs[n])]]
           v == FoldLeft(Keep, map, pairs)
           old == KeysOf(ToSet(map))
           New(i) == pairs[i][1] \notin old /\ \A l \in 1..(i - 1) : pairs[l][1] # pairs[i][1]
           Upto(m, n) == /\ m \in A
                          /\ ToSet(m) = ToSet(map) \cup NewPairs(old, pairs, n)
                          /\ KeysOf(ToSet(m)) = old \cup {pairs[j][1] : j \in 1..n}
<1>0. k \in Nat /\ DOMAIN pairs = 1..k /\ \A n \in 1..k : pairs[n] \in Pair
  OBVIOUS
<1>a. \A m \in A : \A p \in Pair : Append(m, p) \in A /\ ToSet(Append(m, p)) = ToSet(m) \cup {p}
  BY AppendedElements
<1>1. \A n \in 1..k : \A m \in A : Keep(m, pairs[n]) \in A
  BY <1>0, <1>a DEF Keep
<1>2. step \in [1..k -> [A -> A]] /\ map \in A
  BY <1>1
<1>3. \A n \in 1..k : \A m \in A : step[n][m] = Keep(m, pairs[n])
  OBVIOUS
<1>b. \A n \in Nat : NewPairs(old, pairs, n) = {pairs[j] : j \in {i \in 1..n : New(i)}}
  BY DEF NewPairs
<1>c. \A m \in A : \A key : HasKey(m, key) <=> key \in KeysOf(ToSet(m))
  <2> TAKE m \in A
  <2>1. ToSet(m) = {m[n] : n \in DOMAIN m}
    BY DEF ToSet
  <2> QED
    BY <2>1 DEF HasKey, KeysOf
<1> HIDE DEF k, step, A, old
<1>4. Lead(v, k, A, map, step)
  BY <1>0, <1>2, <1>3, FoldKeep
<1> HIDE DEF v
<1>5. PICK g \in [0..k -> A] : Steps(g, k, map, step) /\ v = g[k]
  BY <1>4, Zenon DEF Lead
<1> DEFINE S == {n \in 0..k : Upto(g[n], n)}
<1>6. 0 \in S
  <2>1. 0 \in 0..k /\ 1..0 = {}
    BY <1>0
  <2>2. g[0] = map
    BY <1>5, Zenon DEF Steps
  <2>3. NewPairs(old, pairs, 0) = {}
    BY <2>1 DEF NewPairs
  <2> QED
    BY <1>2, <2>1, <2>2, <2>3 DEF old
<1>7. \A n \in 1..k : n - 1 \in S => n \in S
  <2> SUFFICES ASSUME NEW n \in 1..k, Upto(g[n - 1], n - 1)
               PROVE  Upto(g[n], n)
    <3>1. \A n \in 1..k : n \in 0..k
      BY <1>0
    <3> QED
      BY <3>1
  <2> DEFINE m == g[n - 1]
  <2>1. n - 1 \in 0..k /\ n \in Nat /\ n - 1 \in Nat
    BY <1>0
  <2>2. g[n] = Keep(m, pairs[n])
    BY <1>3, <1>5, <2>1, Zenon DEF Steps
  <2>3. pairs[n] \in Pair /\ m \in A /\ ToSet(m) = ToSet(map) \cup NewPairs(old, pairs, n - 1)
        /\ KeysOf(ToSet(m)) = old \cup {pairs[j][1] : j \in 1..(n - 1)}
    BY <1>0
  <2> HIDE DEF m, Upto, New
  <2>4. \A j \in 1..n : j \in 1..(n - 1) \/ j = n
    BY <1>0
  <2>5. 1..(n - 1) \subseteq 1..n /\ n \in 1..n
    BY <1>0
  <2>6. {pairs[j][1] : j \in 1..n} = {pairs[j][1] : j \in 1..(n - 1)} \cup {pairs[n][1]}
    BY <2>4, <2>5
  <2>7. NewPairs(old, pairs, n) =
          NewPairs(old, pairs, n - 1) \cup (IF New(n) THEN {pairs[n]} ELSE {})
    <3>1. /\ NewPairs(old, pairs, n) = {pairs[j] : j \in {i \in 1..n : New(i)}}
          /\ NewPairs(old, pairs, n - 1) = {pairs[j] : j \in {i \in 1..(n - 1) : New(i)}}
      BY <1>b, <2>1
    <3>2. CASE New(n)
      <4>1. {i \in 1..n : New(i)} = {i \in 1..(n - 1) : New(i)} \cup {n}
        BY <2>4, <2>5, <3>2
      <4> QED
        BY <3>1, <3>2, <4>1
    <3>3. CASE ~New(n)
      <4>1. {i \in 1..n : New(i)} = {i \in 1..(n - 1) : New(i)}
        BY <2>4, <2>5, <3>3
      <4> QED
        BY <3>1, <3>3, <4>1
    <3> QED
      BY <3>2, <3>3
  <2>8. New(n) <=> ~HasKey(m, pairs[n][1])
    <3>1. HasKey(m, pairs[n][1]) <=> pairs[n][1] \in KeysOf(ToSet(m))
      BY <1>c, <2>3
    <3>2. New(n) <=> pairs[n][1] \notin old \cup {pairs[j][1] : j \in 1..(n - 1)}
      BY DEF New
    <3> QED
      BY <2>3, <3>1, <3>2
  <2>9. CASE New(n)
    <3>1. Keep(m, pairs[n]) = Append(m, pairs[n])
      BY <2>8, <2>9 DEF Keep
    <3>2. Append(m, pairs[n]) \in A /\ ToSet(Append(m, pairs[n])) = ToSet(m) \cup {pairs[n]}
      BY <1>a, <2>3
    <3>3. KeysOf(ToSet(m) \cup {pairs[n]}) = KeysOf(ToSet(m)) \cup {pairs[n][1]}
      BY DEF KeysOf
    <3>4. g[n] \in A /\ ToSet(g[n]) = ToSet(m) \cup {pairs[n]}
      BY <2>2, <3>1, <3>2
    <3>5. ToSet(g[n]) = ToSet(map) \cup NewPairs(old, pairs, n)
      BY <2>3, <2>7, <2>9, <3>4
    <3>6. KeysOf(ToSet(g[n])) = old \cup {pairs[j][1] : j \in 1..n}
      BY <2>3, <2>6, <3>3, <3>4
    <3> QED
      BY <3>4, <3>5, <3>6 DEF Upto
  <2>10. CASE ~New(n)
    <3>1. g[n] = m
      BY <2>2, <2>8, <2>10 DEF Keep
    <3>2. pairs[n][1] \in KeysOf(ToSet(m))
      BY <1>c, <2>3, <2>8, <2>10
    <3>3. KeysOf(ToSet(m)) = old \cup {pairs[j][1] : j \in 1..n}
      BY <2>3, <2>6, <3>2
    <3>4. ToSet(m) = ToSet(map) \cup NewPairs(old, pairs, n)
      BY <2>3, <2>7, <2>10
    <3> QED
      BY <2>3, <3>1, <3>3, <3>4 DEF Upto
  <2> QED
    BY <2>9, <2>10
<1>8. k \in S
  <2> HIDE DEF S
  <2>1. 0..k \subseteq S
    BY <1>0, <1>6, <1>7, InductionUpTo
  <2> QED
    BY <2>1, <1>0
<1>9. FirstWins(map, pairs) = v
  BY DEF FirstWins, v
<1> QED
  BY <1>5, <1>8, <1>9 DEF A, k, old

\* The lists up to the n-th, one after another.
Flattens(f, lists, X) ==
  /\ f \in [0..Len(lists) -> Seq(X)] /\ f[0] = <<>>
  /\ \A n \in 1..Len(lists) : f[n] = f[n - 1] \o lists[n]
  /\ FlattenSeq(lists) = f[Len(lists)]

(* Lists are put one after another one by one.                              *)
LEMMA FlattenSteps ==
  ASSUME NEW X, NEW lists \in Seq(Seq(X))
  PROVE  \E f : Flattens(f, lists, X)
<1> DEFINE k == Len(lists)
           A == Seq(X)
           step == [n \in 1..k |-> [a \in A |-> a \o lists[n]]]
           Turn(f, n) == IF n = 1 THEN lists[n] ELSE f[n - 1] \o lists[n]
           Fills(f) == f = [n \in 1..k |-> Turn(f, n)]
           flatten == CHOOSE f : Fills(f)
<1>0. k \in Nat /\ DOMAIN lists = 1..k /\ (\A n \in 1..k : lists[n] \in A) /\ <<>> \in A
  OBVIOUS
<1>1. CASE k = 0
  <2>1. FlattenSeq(lists) = lists /\ lists = <<>>
    BY <1>1 DEF FlattenSeq
  <2> DEFINE f == [n \in 0..0 |-> <<>>]
  <2>2. f \in [0..0 -> A] /\ f[0] = <<>>
    OBVIOUS
  <2> HIDE DEF f
  <2>3. Flattens(f, lists, X)
    BY <1>1, <2>1, <2>2 DEF Flattens
  <2> QED
    BY <2>3
<1>2. CASE k # 0
  <2>1. \A n \in 1..k : \A a \in A : a \o lists[n] \in A
    BY <1>0
  <2>2. step \in [1..k -> [A -> A]] /\ <<>> \in A
    BY <2>1
  <2>3. \A n \in 1..k : \A a \in A : step[n][a] = a \o lists[n]
    OBVIOUS
  <2> HIDE DEF k, step, A
  <2>4. PICK g \in [0..k -> A] : Steps(g, k, <<>>, step)
    BY <1>0, <2>2, StepwiseFunction
  <2>5. \A n \in 1..k : g[n] = g[n - 1] \o lists[n]
    <3> TAKE n \in 1..k
    <3>1. n - 1 \in 0..k
      BY <1>0
    <3> QED
      BY <2>3, <2>4, <3>1, Zenon DEF Steps
  <2>6. g[1] = lists[1] /\ g[0] = <<>>
    <3>1. 1 \in 1..k /\ 1 - 1 = 0
      BY <1>0, <1>2
    <3>2. g[0] = <<>>
      BY <2>4, Zenon DEF Steps
    <3>3. g[1] = <<>> \o lists[1]
      BY <2>5, <3>1, <3>2
    <3>4. lists[1] \in Seq(X)
      BY <1>0, <3>1 DEF A
    <3> QED
      BY <3>2, <3>3, <3>4
  <2> DEFINE f == [n \in 1..k |-> g[n]]
  <2>7. \A n \in 1..k : f[n] = Turn(f, n)
    <3> TAKE n \in 1..k
    <3>1. CASE n = 1
      BY <2>6, <3>1
    <3>2. CASE n # 1
      <4>1. n - 1 \in 1..k
        BY <1>0, <3>2
      <4> QED
        BY <2>5, <3>2, <4>1
    <3> QED
      BY <3>1, <3>2
  <2>8. Fills(f)
    <3>1. f = [n \in 1..k |-> f[n]]
      OBVIOUS
    <3> HIDE DEF f
    <3> QED
      BY <2>7, <3>1, Zenon
  <2>9. Fills(flatten)
    BY <2>8, Zenon
  <2>10. FlattenSeq(lists) = flatten[k]
    BY <1>2 DEF FlattenSeq, k
  <2> HIDE DEF flatten, f
  <2>11. \A n \in 1..k : flatten[n] = Turn(flatten, n)
    BY <2>9, Zenon
  <2> HIDE DEF Fills
  <2> DEFINE S == {0} \cup {n \in 1..k : flatten[n] = g[n]}
  <2>12. \A n \in 1..k : n - 1 \in S => n \in S
    <3> SUFFICES ASSUME NEW n \in 1..k, n - 1 \in S PROVE flatten[n] = g[n]
      OBVIOUS
    <3>1. CASE n = 1
      BY <2>6, <2>11, <3>1
    <3>2. CASE n # 1
      <4>1. n - 1 # 0
        BY <1>0, <3>2
      <4> QED
        BY <2>5, <2>11, <3>2, <4>1
    <3> QED
      BY <3>1, <3>2
  <2>13. flatten[k] = g[k]
    <3>1. 0 \in S
      OBVIOUS
    <3> HIDE DEF S
    <3>2. 0..k \subseteq S
      BY <1>0, <2>12, <3>1, InductionUpTo
    <3>3. k \in S
      BY <1>0, <3>2
    <3> USE DEF S
    <3> QED
      BY <1>2, <3>3
  <2> QED
    BY <2>4, <2>5, <2>6, <2>10, <2>13 DEF Flattens, A, k
<1> QED
  BY <1>1, <1>2

\* The elements of s, then those of t.
Both(v, s, t) ==
  /\ Len(v) = Len(s) + Len(t)
  /\ \A i \in 1..Len(s) : v[i] = s[i]
  /\ \A i \in 1..Len(t) : v[Len(s) + i] = t[i]

(* Where the elements of two lists stand, put one after another.            *)
LEMMA PlacesOfBoth ==
  ASSUME NEW X, NEW s \in Seq(X), NEW t \in Seq(X)
  PROVE  s \o t \in Seq(X) /\ Both(s \o t, s, t)
<1>1. /\ s \o t \in Seq(X) /\ Len(s \o t) = Len(s) + Len(t) /\ Len(s) \in Nat /\ Len(t) \in Nat
      /\ \A i \in 1..(Len(s) + Len(t)) :
           (s \o t)[i] = IF i <= Len(s) THEN s[i] ELSE t[i - Len(s)]
  BY ConcatProperties
<1> DEFINE v == s \o t
           m == Len(s)
           l == Len(t)
<1> HIDE DEF v, m, l
<1>2. /\ m \in Nat /\ l \in Nat /\ Len(v) = m + l
      /\ \A i \in 1..(m + l) : v[i] = IF i <= m THEN s[i] ELSE t[i - m]
  BY <1>1 DEF v, m, l
<1>3. \A i \in 1..m : i \in 1..(m + l) /\ i <= m
  BY <1>2
<1>4. \A i \in 1..l : m + i \in 1..(m + l) /\ ~(m + i <= m) /\ (m + i) - m = i
  BY <1>2
<1>5. (\A i \in 1..m : v[i] = s[i]) /\ \A i \in 1..l : v[m + i] = t[i]
  BY <1>2, <1>3, <1>4
<1> QED
  BY <1>1, <1>5 DEF Both, v, m, l

(* Two lists put one after another have the elements of both,               *)
LEMMA BothElements ==
  ASSUME NEW X, NEW a \in Seq(X), NEW b \in Seq(X)
  PROVE  a \o b \in Seq(X) /\ ToSet(a \o b) = ToSet(a) \cup ToSet(b)
<1> DEFINE c == a \o b
<1>1. c \in Seq(X) /\ Both(c, a, b)
  BY PlacesOfBoth
<1> HIDE DEF c
<1>2. /\ ToSet(c) = {c[n] : n \in 1..Len(c)} /\ Len(a) \in Nat /\ Len(b) \in Nat
      /\ ToSet(a) = {a[n] : n \in 1..Len(a)} /\ ToSet(b) = {b[n] : n \in 1..Len(b)}
  BY <1>1, ElementsOf
<1>3. /\ Len(c) = Len(a) + Len(b)
      /\ \A i \in 1..Len(a) : c[i] = a[i]
      /\ \A i \in 1..Len(b) : c[Len(a) + i] = b[i]
  BY <1>1 DEF Both
<1>4. /\ \A i \in 1..Len(c) :
           i \in 1..Len(a) \/ (i - Len(a) \in 1..Len(b) /\ i = Len(a) + (i - Len(a)))
      /\ \A i \in 1..Len(a) : i \in 1..Len(c)
      /\ \A i \in 1..Len(b) : Len(a) + i \in 1..Len(c)
  BY <1>2, <1>3
<1>5. ToSet(c) \subseteq ToSet(a) \cup ToSet(b)
  <2> SUFFICES ASSUME NEW i \in 1..Len(c) PROVE c[i] \in ToSet(a) \cup ToSet(b)
    BY <1>2
  <2>1. CASE i \in 1..Len(a)
    BY <1>2, <1>3, <2>1
  <2>2. CASE i - Len(a) \in 1..Len(b) /\ i = Len(a) + (i - Len(a))
    BY <1>2, <1>3, <2>2
  <2> QED
    BY <1>4, <2>1, <2>2
<1>6. ToSet(a) \cup ToSet(b) \subseteq ToSet(c)
  BY <1>2, <1>3, <1>4
<1> QED
  BY <1>1, <1>5, <1>6 DEF c

(* and lists have the elements of all.                                      *)
LEMMA Flattened ==
  ASSUME NEW X, NEW lists \in Seq(Seq(X))
  PROVE  /\ FlattenSeq(lists) \in Seq(X)
         /\ ToSet(FlattenSeq(lists)) = UNION {ToSet(lists[n]) : n \in 1..Len(lists)}
<1> DEFINE k == Len(lists)
<1>1. k \in Nat /\ \A n \in 1..k : lists[n] \in Seq(X)
  OBVIOUS
<1>2. PICK f : Flattens(f, lists, X)
  BY FlattenSteps
<1>3. /\ f \in [0..k -> Seq(X)] /\ f[0] = <<>> /\ FlattenSeq(lists) = f[k]
      /\ \A n \in 1..k : f[n] = f[n - 1] \o lists[n]
  BY <1>2 DEF Flattens
<1> HIDE DEF k
<1> DEFINE S == {n \in 0..k : ToSet(f[n]) = UNION {ToSet(lists[j]) : j \in 1..n}}
<1>4. 0 \in S
  <2>1. ToSet(<<>>) = {} /\ 1..0 = {} /\ 0 \in 0..k
    BY <1>1 DEF ToSet
  <2> QED
    BY <1>3, <2>1
<1>5. \A n \in 1..k : n - 1 \in S => n \in S
  <2> SUFFICES ASSUME NEW n \in 1..k, n - 1 \in S PROVE n \in S
    OBVIOUS
  <2>1. n - 1 \in 0..k /\ n \in 0..k /\ 1..n = 1..(n - 1) \cup {n}
    BY <1>1
  <2>2. f[n] = f[n - 1] \o lists[n] /\ f[n - 1] \in Seq(X) /\ lists[n] \in Seq(X)
    BY <1>1, <1>3, <2>1
  <2>3. ToSet(f[n]) = ToSet(f[n - 1]) \cup ToSet(lists[n])
    <3>1. ToSet(f[n - 1] \o lists[n]) = ToSet(f[n - 1]) \cup ToSet(lists[n])
      BY <2>2, BothElements
    <3> QED
      BY <2>2, <3>1, Zenon
  <2>4. ToSet(f[n - 1]) = UNION {ToSet(lists[j]) : j \in 1..(n - 1)}
    OBVIOUS
  <2> QED
    BY <2>1, <2>3, <2>4
<1>6. k \in S
  <2> HIDE DEF S
  <2>1. 0..k \subseteq S
    BY <1>1, <1>4, <1>5, InductionUpTo
  <2>2. k \in 0..k
    BY <1>1
  <2> QED
    BY <2>1, <2>2
<1>7. f[k] \in Seq(X)
  BY <1>1, <1>3
<1> QED
  BY <1>3, <1>6, <1>7 DEF k

\* A result that names fragments only, and public paths.
Results(X, P) ==
  [urls : {<<>>}, probeTargets : Seq(X), publicPaths : Seq(P), intermediates : {<<>>}]
IsResult(b) == \E X, P : b \in Results(X, P)

(* Fragments are added to those a result has.                               *)
LEMMA ProbesAdded ==
  ASSUME NEW b, IsResult(b), NEW fs, IsList(fs)
  PROVE  /\ IsResult(AddProbes(b, fs))
         /\ ToSet(AddProbes(b, fs).probeTargets) = ToSet(b.probeTargets) \cup ToSet(fs)
<1>1. PICK X1, P : b \in Results(X1, P)
  BY DEF IsResult
<1>2. PICK X2 : fs \in Seq(X2)
  BY DEF IsList
<1> DEFINE X == X1 \cup X2
           A == Results(X, P)
           k == Len(fs)
           step == [n \in 1..k |-> [a \in A |-> AddProbe(a, fs[n])]]
           v == FoldLeft(AddProbe, b, fs)
<1>3. b \in A /\ fs \in Seq(X)
  BY <1>1, <1>2 DEF Results
<1>0. k \in Nat /\ DOMAIN fs = 1..k /\ \A n \in 1..k : fs[n] \in X
  BY <1>3
<1> HIDE DEF X
<1>4. ASSUME NEW a \in A, NEW f \in X
      PROVE  /\ AddProbe(a, f) \in A
             /\ ToSet(AddProbe(a, f).probeTargets) = ToSet(a.probeTargets) \cup {f}
  <2> DEFINE longer == Include(a.probeTargets, f)
  <2>1. a.probeTargets \in Seq(X)
    BY DEF Results
  <2>2. longer \in Seq(X) /\ ToSet(longer) = ToSet(a.probeTargets) \cup {f}
    BY <2>1, Included
  <2>3. AddProbe(a, f) = [a EXCEPT !.probeTargets = longer]
    BY DEF AddProbe
  <2> HIDE DEF longer
  <2> QED
    BY <2>2, <2>3 DEF Results
<1>5. step \in [1..k -> [A -> A]]
  BY <1>0, <1>4
<1>6. \A n \in 1..k : \A a \in A : step[n][a] = AddProbe(a, fs[n])
  OBVIOUS
<1>7. ToSet(fs) = {fs[n] : n \in 1..k}
  BY <1>3, ElementsOf
<1> HIDE DEF k, step, A
<1>8. Lead(v, k, A, b, step)
  BY <1>0, <1>3, <1>5, <1>6, FoldAddProbe
<1> HIDE DEF v
<1>9. PICK g \in [0..k -> A] : Steps(g, k, b, step) /\ v = g[k]
  BY <1>8, Zenon DEF Lead
<1> DEFINE Has(a, n) == ToSet(a.probeTargets) = ToSet(b.probeTargets) \cup {fs[j] : j \in 1..n}
           S == {n \in 0..k : Has(g[n], n)}
<1>10. 0 \in S
  <2>1. 0 \in 0..k /\ 1..0 = {}
    BY <1>0
  <2>2. g[0] = b
    BY <1>9, Zenon DEF Steps
  <2> QED
    BY <2>1, <2>2
<1>11. \A n \in 1..k : n - 1 \in S => n \in S
  <2> SUFFICES ASSUME NEW n \in 1..k, Has(g[n - 1], n - 1) PROVE Has(g[n], n)
    <3>1. \A n \in 1..k : n \in 0..k
      BY <1>0
    <3> QED
      BY <3>1
  <2>1. n - 1 \in 0..k /\ n \in Nat
    BY <1>0
  <2>2. g[n] = AddProbe(g[n - 1], fs[n])
    BY <1>6, <1>9, <2>1, Zenon DEF Steps
  <2>3. g[n - 1] \in A /\ fs[n] \in X
    BY <1>0, <2>1
  <2>4. ToSet(g[n].probeTargets) = ToSet(g[n - 1].probeTargets) \cup {fs[n]}
    BY <1>4, <2>2, <2>3
  <2>5. {fs[j] : j \in 1..n} = {fs[j] : j \in 1..(n - 1)} \cup {fs[n]}
    <3>1. 1..n = 1..(n - 1) \cup {n}
      BY <2>1
    <3> QED
      BY <3>1
  <2> QED
    BY <2>4, <2>5
<1>12. k \in S
  <2> HIDE DEF S
  <2>1. 0..k \subseteq S
    BY <1>0, <1>10, <1>11, InductionUpTo
  <2> QED
    BY <2>1, <1>0
<1>13. v \in A /\ ToSet(v.probeTargets) = ToSet(b.probeTargets) \cup ToSet(fs)
  <2>1. k \in 0..k
    BY <1>0
  <2> QED
    BY <1>7, <1>9, <1>12, <2>1
<1>14. AddProbes(b, fs) = v
  BY DEF AddProbes, v
<1>15. IsResult(v)
  BY <1>13, Zenon DEF IsResult, A
<1> QED
  BY <1>13, <1>14, <1>15

(* and are a list, of whatever either is.                                   *)
LEMMA BothLists ==
  ASSUME NEW a, IsList(a), NEW b, IsList(b)
  PROVE  IsList(a \o b) /\ ToSet(a \o b) = ToSet(a) \cup ToSet(b)
<1>1. PICK X : a \in Seq(X)
  BY Zenon DEF IsList
<1>2. PICK Y : b \in Seq(Y)
  BY Zenon DEF IsList
<1> DEFINE Z == X \cup Y
<1>3. a \in Seq(Z) /\ b \in Seq(Z)
  BY <1>1, <1>2
<1> HIDE DEF Z
<1>4. a \o b \in Seq(Z) /\ ToSet(a \o b) = ToSet(a) \cup ToSet(b)
  BY <1>3, BothElements
<1> QED
  BY <1>4, Zenon DEF IsList

(* One element for each place of a list is a list.                          *)
LEMMA ListOfPlaces ==
  ASSUME NEW k \in Nat, NEW f, f = [n \in 1..k |-> f[n]]
  PROVE  IsList(f) /\ f \in Seq({f[n] : n \in 1..k}) /\ ToSet(f) = {f[n] : n \in 1..k}
<1>1. f \in Seq({f[n] : n \in 1..k})
  <2> DEFINE S == {f[n] : n \in 1..k}
  <2>1. f \in [1..k -> S]
    OBVIOUS
  <2> HIDE DEF S
  <2> QED
    BY <2>1, SeqDef
<1> QED
  BY <1>1, Zenon DEF IsList, ToSet

(* Whether a script reaches the fallbacks does not depend on what is found. *)
LEMMA SameAttempts ==
  ASSUME NEW d, NEW b, NEW n \in 1..7
  PROVE  Attempts(d, b)[n].hit = Attempts(d, NewBuilder)[n].hit
<1> DEFINE c == NewBuilder
<1> HIDE DEF c
<1>1. TryChunkMapPattern(d, b).hit = TryChunkMapPattern(d, c).hit
  BY DEF TryChunkMapPattern, Hit, Miss
<1>2. TryStaticChunkPattern(d, b).hit = TryStaticChunkPattern(d, c).hit
  BY DEF TryStaticChunkPattern, Hit, Miss
<1>3. TryChunkReturnPattern(d, b).hit = TryChunkReturnPattern(d, c).hit
  BY DEF TryChunkReturnPattern, Hit, Miss
<1>4. TryRequireUChunkPattern(d, b).hit = TryRequireUChunkPattern(d, c).hit
  BY DEF TryRequireUChunkPattern, Hit, Miss
<1>5. TryFederationChunkPattern(d, b).hit = TryFederationChunkPattern(d, c).hit
  BY DEF TryFederationChunkPattern, Hit, Miss
<1>6. TryTernaryNameMap(d, b).hit = TryTernaryNameMap(d, c).hit
  BY DEF TryTernaryNameMap, Hit, Miss
<1>7. TryArrowFunctionPrefix(d, b).hit = TryArrowFunctionPrefix(d, c).hit
  BY DEF TryArrowFunctionPrefix, Hit, Miss
<1>8. n = 1 \/ n = 2 \/ n = 3 \/ n = 4 \/ n = 5 \/ n = 6 \/ n = 7
  OBVIOUS
<1>9. Attempts(d, b)[n].hit = Attempts(d, c)[n].hit
  BY <1>1, <1>2, <1>3, <1>4, <1>5, <1>6, <1>7, <1>8 DEF Attempts
<1> QED
  BY <1>9 DEF c

(* One element for each of a list's is a list,                              *)
LEMMA ListOfEach ==
  ASSUME NEW X, NEW list \in Seq(X), NEW f, DOMAIN f = DOMAIN list, f = [n \in DOMAIN f |-> f[n]]
  PROVE  IsList(f) /\ ToSet(f) = {f[n] : n \in DOMAIN list}
<1>1. Len(list) \in Nat /\ DOMAIN list = 1..Len(list)
  OBVIOUS
<1> DEFINE k == Len(list)
<1>2. f = [n \in 1..k |-> f[n]] /\ k \in Nat
  BY <1>1
<1> HIDE DEF k
<1>3. IsList(f) /\ ToSet(f) = {f[n] : n \in 1..k}
  BY <1>2, ListOfPlaces
<1> QED
  BY <1>1, <1>3 DEF k

(* and so are six lists put one after another.                              *)
LEMMA SixLists ==
  ASSUME NEW a, IsList(a), NEW b, IsList(b), NEW c, IsList(c), NEW d, IsList(d),
         NEW e, IsList(e), NEW f, IsList(f)
  PROVE  /\ IsList(FlattenSeq(<<a, b, c, d, e, f>>))
         /\ ToSet(FlattenSeq(<<a, b, c, d, e, f>>)) \subseteq
              ToSet(a) \cup ToSet(b) \cup ToSet(c) \cup ToSet(d) \cup ToSet(e) \cup ToSet(f)
<1>0. \A s : IsList(s) => s \in Seq(ToSet(s))
  <2> SUFFICES ASSUME NEW s, NEW X, s \in Seq(X) PROVE s \in Seq(ToSet(s))
    BY DEF IsList
  <2> QED
    BY DEF ToSet
<1> DEFINE X1 == ToSet(a)
           X2 == ToSet(b)
           X3 == ToSet(c)
           X4 == ToSet(d)
           X5 == ToSet(e)
           X6 == ToSet(f)
<1>1. a \in Seq(X1)
  BY <1>0
<1>2. b \in Seq(X2)
  BY <1>0
<1>3. c \in Seq(X3)
  BY <1>0
<1>4. d \in Seq(X4)
  BY <1>0
<1>5. e \in Seq(X5)
  BY <1>0
<1>6. f \in Seq(X6)
  BY <1>0
<1> DEFINE X == X1 \cup X2 \cup X3 \cup X4 \cup X5 \cup X6
<1> HIDE DEF X1, X2, X3, X4, X5, X6
<1>7. /\ X1 \subseteq X /\ X2 \subseteq X /\ X3 \subseteq X
      /\ X4 \subseteq X /\ X5 \subseteq X /\ X6 \subseteq X
  OBVIOUS
<1> HIDE DEF X
<1>8. a \in Seq(X) /\ b \in Seq(X) /\ c \in Seq(X)
  BY <1>1, <1>2, <1>3, <1>7, SeqMonotonic
<1>9. d \in Seq(X) /\ e \in Seq(X) /\ f \in Seq(X)
  BY <1>4, <1>5, <1>6, <1>7, SeqMonotonic
<1> DEFINE Y == Seq(X)
<1>10. a \in Y /\ b \in Y /\ c \in Y /\ d \in Y /\ e \in Y /\ f \in Y
  BY <1>8, <1>9
<1> HIDE DEF Y
<1>11. <<a, b, c, d, e, f>> \in Seq(Y)
  BY <1>10
<1> DEFINE all == FlattenSeq(<<a, b, c, d, e, f>>)
<1>12. all \in Seq(X)
  BY <1>11, Flattened DEF Y
<1> HIDE DEF all
<1>13. ToSet(all) \subseteq X
  BY <1>12 DEF ToSet
<1>14. IsList(all)
  BY <1>12, Zenon DEF IsList
<1> QED
  BY <1>13, <1>14 DEF X, X1, X2, X3, X4, X5, X6, all

(* The ids known when a script is read.                                     *)
LEMMA MergedPairs ==
  ASSUME NEW d \in Doc, NEW maps \in Seq(Seq(Pair))
  PROVE  LET known == UNION {ToSet(maps[n]) : n \in 1..Len(maps)}
             kept == ToSet(LastWins(<<>>, FlattenSeq(maps)))
         IN  /\ Merged(maps, d) \in Seq(Pair)
             /\ kept \subseteq known /\ KeysOf(kept) = KeysOf(known)
             /\ ToSet(Merged(maps, d)) = kept \cup NewPairs(KeysOf(kept), d.stringChunkHashes,
                                                            Len(d.stringChunkHashes))
<1>1. d.stringChunkHashes \in Seq(Pair)
  BY DispatchAssumption DEF DispatchAssumption, Pair
<1> DEFINE known == UNION {ToSet(maps[n]) : n \in 1..Len(maps)}
           flat == FlattenSeq(maps)
<1>2. flat \in Seq(Pair) /\ ToSet(flat) = known
  BY Flattened
<1> HIDE DEF flat, known
<1> DEFINE last == LastWins(<<>>, flat)
<1>3. last \in Seq(Pair) /\ ToSet(last) \subseteq known /\ KeysOf(ToSet(last)) = KeysOf(known)
  BY <1>2, LastKept
<1> HIDE DEF last
<1>4. /\ FirstWins(last, d.stringChunkHashes) \in Seq(Pair)
      /\ ToSet(FirstWins(last, d.stringChunkHashes)) =
           ToSet(last) \cup NewPairs(KeysOf(ToSet(last)), d.stringChunkHashes,
                                     Len(d.stringChunkHashes))
  BY <1>1, <1>3, FirstKept
<1>5. Merged(maps, d) = FirstWins(last, d.stringChunkHashes)
  BY DEF Merged, last, flat
<1> QED
  BY <1>3, <1>4, <1>5 DEF last, flat, known

\* What the last fallback names: each known chunk under its hash, and what the
\* document loads while none is known.
Collected(d, prefix, merged, before, c) ==
  LET probes == ToSet(c.probeTargets)
  IN  /\ IsResult(c)
      /\ \A f \in probes : \/ f \in ToSet(before.probeTargets) \/ f[4] \in {"", "*"}
                           \/ <<f[2], f[4]>> \in merged
      /\ \A p \in merged : <<prefix, p[1], ".", p[2], ".js">> \in probes
      /\ merged = {} => \A id \in ToSet(d.loadStringIds) :
           \E f \in probes : f[2] = id /\ f[4] \in {"", "*"}

(* What a script that reaches the fallbacks names of the ids known by then. *)
LEMMA CollectedProbes ==
  ASSUME NEW d \in Doc, NEW maps \in Seq(Seq(Pair)), NEW b, IsResult(b), NEW prefix
  PROVE  Collected(d, prefix, ToSet(Merged(maps, d)), b, CollectStringChunkHashes(d, b, prefix, maps))
<1> DEFINE merged == Merged(maps, d)
           named == Named(prefix, <<>>, merged, ".js")
           calls == [n \in DOMAIN d.loadStringIds |->
                       IF d.loadStringIds[n] \in LikelyHash
                       THEN <<prefix, d.loadStringIds[n], "", "", ".js">>
                       ELSE Wildcard(prefix, d.loadStringIds[n])]
           c == CollectStringChunkHashes(d, b, prefix, maps)
<1>1. merged \in Seq(Pair)
  BY MergedPairs
<1>2. d.loadStringIds \in Seq(STRING)
  BY DispatchAssumption DEF DispatchAssumption
<1>3. c = AddProbes(b, IF merged # <<>> THEN named ELSE calls)
  BY DEF CollectStringChunkHashes
<1>4. named = [n \in DOMAIN merged |-> <<prefix, merged[n][1], ".", merged[n][2], ".js">>]
  <2>1. \A key : Get(<<>>, key, key) = key
    BY DEF Get, HasKey
  <2> QED
    BY <2>1 DEF Named
<1>5. \A n \in DOMAIN d.loadStringIds :
        calls[n][2] = d.loadStringIds[n] /\ calls[n][4] \in {"", "*"}
  BY DEF Wildcard
<1>6. DOMAIN calls = DOMAIN d.loadStringIds /\ calls = [n \in DOMAIN calls |-> calls[n]]
  OBVIOUS
<1>7. ToSet(merged) = {merged[n] : n \in DOMAIN merged}
  BY DEF ToSet
<1>8. ToSet(d.loadStringIds) = {d.loadStringIds[n] : n \in DOMAIN d.loadStringIds}
  BY DEF ToSet
<1>9. merged # <<>> <=> ToSet(merged) # {}
  BY <1>1, ElementsOf
<1> HIDE DEF merged, named, calls, c
<1>10. CASE merged # <<>>
  <2>1. DOMAIN named = DOMAIN merged /\ named = [n \in DOMAIN named |-> named[n]]
    BY <1>4
  <2>2. IsList(named) /\ ToSet(named) = {named[n] : n \in DOMAIN merged}
    BY <1>1, <2>1, ListOfEach
  <2>3. c = AddProbes(b, named)
    BY <1>3, <1>10
  <2>4. IsResult(c) /\ ToSet(c.probeTargets) = ToSet(b.probeTargets) \cup ToSet(named)
    BY <2>2, <2>3, ProbesAdded
  <2>5. \A p \in ToSet(merged) : <<prefix, p[1], ".", p[2], ".js">> \in ToSet(c.probeTargets)
    BY <1>4, <1>7, <2>2, <2>4
  <2>6. \A f \in ToSet(named) : <<f[2], f[4]>> \in ToSet(merged)
    <3> TAKE f \in ToSet(named)
    <3>1. PICK n \in DOMAIN merged : f = named[n]
      BY <2>2
    <3>2. f = <<prefix, merged[n][1], ".", merged[n][2], ".js">> /\ merged[n] \in ToSet(merged)
      BY <1>4, <1>7, <3>1
    <3>3. merged[n] \in Pair
      BY <1>1
    <3>4. <<merged[n][1], merged[n][2]>> = merged[n]
      BY <3>3 DEF Pair
    <3> QED
      BY <3>2, <3>4
  <2> QED
    BY <1>9, <1>10, <2>4, <2>5, <2>6 DEF Collected, merged, c
<1>11. CASE merged = <<>>
  <2>1. IsList(calls) /\ ToSet(calls) = {calls[n] : n \in DOMAIN d.loadStringIds}
    BY <1>2, <1>6, ListOfEach
  <2>2. c = AddProbes(b, calls)
    BY <1>3, <1>11
  <2>3. IsResult(c) /\ ToSet(c.probeTargets) = ToSet(b.probeTargets) \cup ToSet(calls)
    BY <2>1, <2>2, ProbesAdded
  <2>4. \A id \in ToSet(d.loadStringIds) :
          \E f \in ToSet(c.probeTargets) : f[2] = id /\ f[4] \in {"", "*"}
    <3> TAKE id \in ToSet(d.loadStringIds)
    <3>1. PICK n \in DOMAIN d.loadStringIds : d.loadStringIds[n] = id
      BY <1>8
    <3>2. calls[n] \in ToSet(c.probeTargets)
      BY <2>1, <2>3
    <3> QED
      BY <1>5, <3>1, <3>2, Zenon
  <2>5. \A f \in ToSet(calls) : f[4] \in {"", "*"}
    BY <1>5, <2>1
  <2> QED
    BY <1>9, <1>11, <2>3, <2>4, <2>5 DEF Collected, merged, c
<1> QED
  BY <1>10, <1>11

(* The fallbacks start from what the first seven attempts leave: nothing    *)
(* but the public path.                                                     *)
LEMMA FallbackProbes ==
  ASSUME NEW d \in Doc, FallsThrough(d), stringChunkHashMaps \in Seq(Seq(Pair))
  PROVE  LET probes == ToSet(WebpackAnalyze(d).probeTargets)
             merged == ToSet(Merged(stringChunkHashMaps, d))
         IN  /\ \A p \in merged : <<DetectPathPrefix(d), p[1], ".", p[2], ".js">> \in probes
             /\ merged = {} => \A id \in ToSet(d.loadStringIds) :
                  \E f \in probes : f[2] = id /\ f[4] \in {"", "*"}
             /\ Fingerprint(d) # "" => \A id \in ToSet(d.loadStringIds) :
                  <<d.dir, id, ".", Fingerprint(d), ".js">> \in probes
             /\ \A f \in probes : \/ f[4] \in {"", "*"} \cup OwnHashes(d)
                                  \/ <<f[2], f[4]>> \in merged
                                  \/ Fingerprint(d) # "" /\ f[4] = Fingerprint(d)
<1> DEFINE b == IF d.publicPath = NoMatch THEN NewBuilder
                ELSE AddPublicPath(NewBuilder, d.publicPath.path)
           prefix == DetectPathPrefix(d)
           names == LastWins(<<>>, SelectSeq(d.idValues, LAMBDA p : p[2] \notin Hex))
           long == d.chunkNumericHashes
           short == IF d.selfRegistered THEN LastWins(<<>>, d.shortHashes) ELSE <<>>
           p1 == Named(prefix, <<>>, d.chunkHashes, ".js")
           p2 == [n \in DOMAIN long |-> <<d.jsPrefix, Get(names, long[n][1], long[n][1]), ".chunk.",
                                    long[n][2],
                                    IF d.querySuffix = "" THEN ".js" ELSE d.querySuffix>>]
           p3 == [n \in DOMAIN d.lType |-> <<d.lType[n], "_placeholder_", "", "", ".js">>]
           p4 == [n \in DOMAIN d.chunkPushes |-> Wildcard("", d.chunkPushes[n])]
           p5 == Named("", <<>>, short, ".js")
           p6 == IF d.selfRegistered
                 THEN [n \in DOMAIN d.loadCalls |-> Wildcard("", d.loadCalls[n])] ELSE <<>>
           first == AddProbes(b, FlattenSeq(<<p1, p2, p3, p4, p5, p6>>))
           c == TryGenericFallbacks(d, b)
           ids == d.fingerprintIds \o d.existingIds \o d.loadStringIds
           printed == [n \in DOMAIN ids |-> <<d.dir, ids[n], ".", Fingerprint(d), ".js">>]
           last == TryRuntimeFingerprint(d, c)
<1>1. /\ d.chunkHashes \in Seq(Pair) /\ d.chunkNumericHashes \in Seq(Pair)
      /\ d.shortHashes \in Seq(Pair) /\ d.lType \in Seq(STRING) /\ d.chunkPushes \in Seq(STRING)
      /\ d.loadCalls \in Seq(STRING) /\ d.loadStringIds \in Seq(STRING)
      /\ d.fingerprintIds \in Seq(STRING) /\ d.existingIds \in Seq(STRING)
  BY DispatchAssumption DEF DispatchAssumption, Pair
<1>2. IsResult(b)
  <2>1. NewBuilder \in Results({}, {})
    BY DEF NewBuilder, Results
  <2>2. ASSUME NEW path PROVE AddPublicPath(NewBuilder, path) \in Results({}, {path})
    <3>1. Include(<<>>, path) \in Seq({path})
      <4>1. <<>> \in Seq({path}) /\ path \in {path}
        OBVIOUS
      <4> QED
        BY <4>1, Included
    <3> DEFINE paths == Include(<<>>, path)
    <3>2. AddPublicPath(NewBuilder, path) =
            [urls |-> <<>>, probeTargets |-> <<>>, publicPaths |-> paths, intermediates |-> <<>>]
      BY DEF AddPublicPath, NewBuilder
    <3> HIDE DEF paths
    <3>3. paths \in Seq({path}) /\ <<>> \in Seq({})
      BY <3>1 DEF paths
    <3> QED
      BY <3>2, <3>3 DEF Results
  <2>3. CASE d.publicPath = NoMatch
    BY <2>1, <2>3, Zenon DEF IsResult
  <2>4. CASE d.publicPath # NoMatch
    BY <2>2, <2>4, Zenon DEF IsResult
  <2> QED
    BY <2>3, <2>4
<1>z. ToSet(b.probeTargets) = {}
  <2>1. NewBuilder.probeTargets = <<>>
    BY DEF NewBuilder
  <2>2. \A path : AddPublicPath(NewBuilder, path).probeTargets = <<>>
    BY DEF NewBuilder, AddPublicPath
  <2>3. b.probeTargets = <<>>
    BY <2>1, <2>2
  <2> HIDE DEF b
  <2> QED
    BY <2>3 DEF ToSet
<1>3. WebpackAnalyze(d) = last
  <2> DEFINE hits == {n \in 1..7 : Attempts(d, b)[n].hit}
  <2>1. hits = {}
    <3> HIDE DEF b
    <3>1. \A n \in 1..7 : ~Attempts(d, b)[n].hit
      BY SameAttempts, Zenon DEF FallsThrough
    <3> QED
      BY <3>1
  <2>2. WebpackAnalyze(d) = IF hits # {} THEN Attempts(d, b)[Min(hits)].builder
                            ELSE TryRuntimeFingerprint(d, TryGenericFallbacks(d, b))
    BY DEF WebpackAnalyze
  <2> HIDE DEF hits
  <2> QED
    BY <2>1, <2>2
<1>4. c = CollectStringChunkHashes(d, first, prefix, stringChunkHashMaps)
  BY DEF TryGenericFallbacks
<1>5. \A pre, suffix, list :
        /\ DOMAIN Named(pre, <<>>, list, suffix) = DOMAIN list
        /\ Named(pre, <<>>, list, suffix) =
             [n \in DOMAIN Named(pre, <<>>, list, suffix) |-> Named(pre, <<>>, list, suffix)[n]]
  BY DEF Named
<1>6. IsList(p1)
  <2> HIDE DEF prefix
  <2> QED
    BY <1>1, <1>5, ListOfEach
<1>7. IsList(p2)
  <2>1. DOMAIN p2 = DOMAIN long /\ p2 = [n \in DOMAIN p2 |-> p2[n]]
    OBVIOUS
  <2> HIDE DEF p2
  <2> QED
    BY <1>1, <2>1, ListOfEach
<1>8. IsList(p3)
  <2>1. DOMAIN p3 = DOMAIN d.lType /\ p3 = [n \in DOMAIN p3 |-> p3[n]]
    OBVIOUS
  <2> HIDE DEF p3
  <2> QED
    BY <1>1, <2>1, ListOfEach
<1>9. IsList(p4)
  <2>1. DOMAIN p4 = DOMAIN d.chunkPushes /\ p4 = [n \in DOMAIN p4 |-> p4[n]]
    OBVIOUS
  <2> HIDE DEF p4
  <2> QED
    BY <1>1, <2>1, ListOfEach
<1>10. IsList(p5)
  <2>1. short \in Seq(Pair)
    BY <1>1, LastKept
  <2> HIDE DEF short
  <2>2. DOMAIN p5 = DOMAIN short /\ p5 = [n \in DOMAIN p5 |-> p5[n]]
    BY DEF Named
  <2> HIDE DEF p5
  <2> QED
    BY <2>1, <2>2, ListOfEach
<1>11. IsList(p6)
  <2> DEFINE loads == [n \in DOMAIN d.loadCalls |-> Wildcard("", d.loadCalls[n])]
  <2>1. DOMAIN loads = DOMAIN d.loadCalls /\ loads = [n \in DOMAIN loads |-> loads[n]]
    OBVIOUS
  <2>2. p6 = IF d.selfRegistered THEN loads ELSE <<>>
    OBVIOUS
  <2> HIDE DEF loads, p6
  <2>3. IsList(loads)
    BY <1>1, <2>1, ListOfEach
  <2>4. <<>> \in Seq({})
    OBVIOUS
  <2>5. IsList(<<>>)
    BY <2>4, Zenon DEF IsList
  <2> QED
    BY <2>2, <2>3, <2>5
<1>a. \A x : x \in ToSet(d.chunkHashes) \/ x \in ToSet(d.chunkNumericHashes)
             \/ x \in ToSet(d.shortHashes) => x[2] \in OwnHashes(d)
  BY DEF OwnHashes
<1>b. \A pre, list, suffix : \A n \in DOMAIN list :
        Named(pre, <<>>, list, suffix)[n][4] = list[n][2]
  BY DEF Named
<1>c. \A f \in ToSet(p1) : f[4] \in OwnHashes(d)
  <2> HIDE DEF prefix
  <2>1. DOMAIN p1 = DOMAIN d.chunkHashes
    BY <1>5
  <2>2. \A n \in DOMAIN d.chunkHashes : p1[n][4] = d.chunkHashes[n][2]
    BY <1>b
  <2> HIDE DEF p1
  <2> QED
    BY <1>a, <2>1, <2>2 DEF ToSet
<1>d. \A f \in ToSet(p2) : f[4] \in OwnHashes(d)
  <2>1. DOMAIN p2 = DOMAIN long /\ \A n \in DOMAIN long : p2[n][4] = long[n][2]
    OBVIOUS
  <2> HIDE DEF p2
  <2> QED
    BY <1>a, <2>1 DEF ToSet
<1>e. \A f \in ToSet(p3) : f[4] \in {"", "*"}
  <2>1. \A n \in DOMAIN p3 : p3[n][4] = ""
    OBVIOUS
  <2> HIDE DEF p3
  <2> QED
    BY <2>1 DEF ToSet
<1>f. \A f \in ToSet(p4) : f[4] \in {"", "*"}
  <2>1. \A n \in DOMAIN p4 : p4[n][4] = "*"
    BY DEF Wildcard
  <2> HIDE DEF p4
  <2> QED
    BY <2>1 DEF ToSet
<1>g. \A f \in ToSet(p5) : f[4] \in OwnHashes(d)
  <2>1. ToSet(short) \subseteq ToSet(d.shortHashes)
    <3>1. ToSet(<<>>) = {}
      BY DEF ToSet
    <3>2. ToSet(LastWins(<<>>, d.shortHashes)) \subseteq ToSet(d.shortHashes)
      BY <1>1, LastKept
    <3>3. CASE d.selfRegistered
      <4>1. short = LastWins(<<>>, d.shortHashes)
        BY <3>3
      <4> HIDE DEF short
      <4> QED
        BY <3>2, <4>1
    <3>4. CASE ~d.selfRegistered
      <4>1. short = <<>>
        BY <3>4
      <4> HIDE DEF short
      <4> QED
        BY <3>1, <4>1
    <3> QED
      BY <3>3, <3>4, Zenon
  <2> HIDE DEF short
  <2>2. DOMAIN p5 = DOMAIN short /\ \A n \in DOMAIN short : p5[n][4] = short[n][2]
    <3>1. \A pre : /\ DOMAIN Named(pre, <<>>, short, ".js") = DOMAIN short
                   /\ \A n \in DOMAIN short : Named(pre, <<>>, short, ".js")[n][4] = short[n][2]
      BY <1>5, <1>b
    <3> QED
      BY <3>1, Zenon
  <2> HIDE DEF p5
  <2>3. \A n \in DOMAIN short : short[n] \in ToSet(d.shortHashes)
    BY <2>1 DEF ToSet
  <2> QED
    BY <1>a, <2>2, <2>3 DEF ToSet
<1>h. \A f \in ToSet(p6) : f[4] \in {"", "*"}
  <2> DEFINE loads == [n \in DOMAIN d.loadCalls |-> Wildcard("", d.loadCalls[n])]
  <2>0. \A n \in DOMAIN loads : loads[n][4] = "*"
    BY DEF Wildcard
  <2>a. p6 = IF d.selfRegistered THEN loads ELSE <<>>
    OBVIOUS
  <2> HIDE DEF loads, p6
  <2>b. DOMAIN <<>> = {}
    OBVIOUS
  <2>1. \A n \in DOMAIN p6 : p6[n][4] = "*"
    BY <2>0, <2>a, <2>b
  <2> HIDE DEF p6
  <2> QED
    BY <2>1 DEF ToSet
<1> HIDE DEF p1, p2, p3, p4, p5, p6, b
<1>12. /\ IsResult(first)
       /\ \A f \in ToSet(first.probeTargets) : f[4] \in {"", "*"} \cup OwnHashes(d)
  <2> DEFINE all == FlattenSeq(<<p1, p2, p3, p4, p5, p6>>)
  <2>1. IsList(all)
    BY <1>6, <1>7, <1>8, <1>9, <1>10, <1>11, SixLists
  <2>2. \A f \in ToSet(all) : \/ f \in ToSet(p1) \/ f \in ToSet(p2) \/ f \in ToSet(p3)
                              \/ f \in ToSet(p4) \/ f \in ToSet(p5) \/ f \in ToSet(p6)
    BY <1>6, <1>7, <1>8, <1>9, <1>10, <1>11, SixLists
  <2>3. ToSet(b.probeTargets) = {}
    BY <1>z
  <2> HIDE DEF all
  <2>4. IsResult(first) /\ ToSet(first.probeTargets) = ToSet(b.probeTargets) \cup ToSet(all)
    BY <1>2, <2>1, ProbesAdded DEF all
  <2> QED
    BY <1>c, <1>d, <1>e, <1>f, <1>g, <1>h, <2>2, <2>3, <2>4
<1> HIDE DEF first, prefix
<1> DEFINE probes == ToSet(c.probeTargets)
           merged == ToSet(Merged(stringChunkHashMaps, d))
<1>13. /\ IsResult(c)
       /\ \A p \in merged : <<prefix, p[1], ".", p[2], ".js">> \in probes
       /\ merged = {} => \A id \in ToSet(d.loadStringIds) :
            \E f \in probes : f[2] = id /\ f[4] \in {"", "*"}
       /\ \A f \in probes : \/ f \in ToSet(first.probeTargets) \/ f[4] \in {"", "*"}
                            \/ <<f[2], f[4]>> \in merged
  <2> DEFINE e == CollectStringChunkHashes(d, first, prefix, stringChunkHashMaps)
  <2>1. c = e
    BY <1>4
  <2> HIDE DEF c
  <2>2. Collected(d, prefix, merged, first, e)
    BY <1>12, CollectedProbes, Zenon
  <2> HIDE DEF e, merged
  <2> QED
    BY <2>1, <2>2 DEF Collected
<1>14. last = IF Fingerprint(d) = "" THEN c ELSE AddProbes(c, printed)
  BY DEF TryRuntimeFingerprint
<1>15. ids \in Seq(STRING)
  <2>1. \A x, y, z \in Seq(STRING) : x \o y \o z \in Seq(STRING)
    OBVIOUS
  <2> QED
    BY <1>1, <2>1, Zenon
<1>16. \A id \in ToSet(d.loadStringIds) : \E n \in DOMAIN ids : ids[n] = id
  <2> DEFINE early == d.fingerprintIds \o d.existingIds
             x == Len(early)
  <2>1. early \in Seq(STRING) /\ x \in Nat /\ Len(d.loadStringIds) \in Nat
    <3>1. \A u, v \in Seq(STRING) : u \o v \in Seq(STRING) /\ Len(u) \in Nat
      OBVIOUS
    <3>2. early \in Seq(STRING) /\ Len(d.loadStringIds) \in Nat
      BY <1>1, <3>1, Zenon
    <3> HIDE DEF early
    <3> QED
      BY <3>1, <3>2
  <2>2. ids = early \o d.loadStringIds
    OBVIOUS
  <2> HIDE DEF early
  <2>3. DOMAIN ids = 1..(x + Len(d.loadStringIds))
        /\ \A n \in 1..Len(d.loadStringIds) : ids[n + x] = d.loadStringIds[n]
    <3> DEFINE own == d.loadStringIds
    <3>1. own \in Seq(STRING) /\ ids = early \o own
      BY <1>1, <2>2
    <3> HIDE DEF own, ids
    <3> SUFFICES /\ DOMAIN ids = 1..(x + Len(own))
                 /\ \A n \in 1..Len(own) : ids[n + x] = own[n]
      BY DEF own
    <3> QED
      BY <2>1, <3>1
  <2>4. ToSet(d.loadStringIds) = {d.loadStringIds[n] : n \in 1..Len(d.loadStringIds)}
    BY <1>1, ElementsOf
  <2> HIDE DEF x, ids
  <2>5. \A n \in 1..Len(d.loadStringIds) : n + x \in 1..(x + Len(d.loadStringIds))
    BY <2>1
  <2> QED
    BY <2>3, <2>4, <2>5
<1>17. IsList(printed) /\ \A id \in ToSet(d.loadStringIds) :
                            <<d.dir, id, ".", Fingerprint(d), ".js">> \in ToSet(printed)
  <2>1. DOMAIN printed = DOMAIN ids /\ printed = [n \in DOMAIN printed |-> printed[n]]
        /\ \A n \in DOMAIN ids : printed[n] = <<d.dir, ids[n], ".", Fingerprint(d), ".js">>
    OBVIOUS
  <2> HIDE DEF ids, printed
  <2>2. IsList(printed) /\ ToSet(printed) = {printed[n] : n \in DOMAIN ids}
    BY <1>15, <2>1, ListOfEach
  <2> QED
    BY <1>16, <2>1, <2>2
<1>19. \A f \in ToSet(printed) : f[4] = Fingerprint(d)
  <2>1. \A n \in DOMAIN printed : printed[n][4] = Fingerprint(d)
    OBVIOUS
  <2> HIDE DEF printed
  <2> QED
    BY <2>1 DEF ToSet
<1> HIDE DEF printed, c, ids, last, merged
<1>20. \A f \in ToSet(last.probeTargets) :
         \/ f \in ToSet(c.probeTargets)
         \/ Fingerprint(d) # "" /\ f[4] = Fingerprint(d)
  <2>1. CASE Fingerprint(d) = ""
    BY <1>14, <2>1
  <2>2. CASE Fingerprint(d) # ""
    <3>1. last = AddProbes(c, printed)
      BY <1>14, <2>2
    <3>2. ToSet(last.probeTargets) = ToSet(c.probeTargets) \cup ToSet(printed)
      BY <1>13, <1>17, <3>1, ProbesAdded
    <3> QED
      BY <1>19, <2>2, <3>2
  <2> QED
    BY <2>1, <2>2
<1>21. \A f \in ToSet(last.probeTargets) :
         \/ f[4] \in {"", "*"} \cup OwnHashes(d)
         \/ <<f[2], f[4]>> \in merged
         \/ Fingerprint(d) # "" /\ f[4] = Fingerprint(d)
  BY <1>12, <1>13, <1>20
<1>18. ToSet(c.probeTargets) \subseteq ToSet(last.probeTargets)
       /\ (Fingerprint(d) # "" => ToSet(printed) \subseteq ToSet(last.probeTargets))
  <2>1. CASE Fingerprint(d) = ""
    BY <1>14, <2>1
  <2>2. CASE Fingerprint(d) # ""
    <3>1. last = AddProbes(c, printed)
      BY <1>14, <2>2
    <3>2. ToSet(last.probeTargets) = ToSet(c.probeTargets) \cup ToSet(printed)
      BY <1>13, <1>17, <3>1, ProbesAdded
    <3> QED
      BY <3>2
  <2> QED
    BY <2>1, <2>2
<1> QED
  <2> DEFINE named == ToSet(WebpackAnalyze(d).probeTargets)
  <2>0. named = ToSet(last.probeTargets)
    BY <1>3
  <2> HIDE DEF named
  <2>1. Fingerprint(d) # "" => \A id \in ToSet(d.loadStringIds) :
          <<d.dir, id, ".", Fingerprint(d), ".js">> \in named
    BY <1>17, <1>18, <2>0
  <2>2. probes \subseteq named
    BY <1>18, <2>0, Zenon
  <2>3. \A p \in merged : <<prefix, p[1], ".", p[2], ".js">> \in named
    BY <1>13, <2>2, Zenon
  <2>4. merged = {} => \A id \in ToSet(d.loadStringIds) :
          \E f \in named : f[2] = id /\ f[4] \in {"", "*"}
    BY <1>13, <2>2, Zenon
  <2>5. \A f \in named :
          \/ f[4] \in {"", "*"} \cup OwnHashes(d)
          \/ <<f[2], f[4]>> \in merged
          \/ Fingerprint(d) # "" /\ f[4] = Fingerprint(d)
    BY <1>21, <2>0, Zenon
  <2> QED
    BY <2>1, <2>3, <2>4, <2>5, Zenon DEF named, merged, prefix

(* The history of the scripts that reached the fallbacks.                   *)

(* A least number is the one Min chooses.                                   *)
LEMMA LeastIs ==
  ASSUME NEW S \in SUBSET Int, NEW m \in S, \A y \in S : m <= y
  PROVE  Min(S) = m
<1>1. \A x \in S : (\A y \in S : x <= y) => x = m
  <2> TAKE x \in S
  <2>1. x \in Int /\ m \in Int /\ m <= x
    OBVIOUS
  <2> QED
    BY <2>1
<1>2. Min(S) = CHOOSE x \in S : \A y \in S : x <= y
  BY DEF Min
<1> QED
  BY <1>1, <1>2

(* A set of numbers has a least one.                                        *)
LEMMA LeastOf ==
  ASSUME NEW S \in SUBSET Nat, S # {}
  PROVE  \E m \in S : \A y \in S : m <= y
<1>1. PICK m \in S : \A y \in S : ~(y < m)
  BY LeastNumber
<1>2. \A y \in S : m <= y
  <2> TAKE y \in S
  <2>1. y \in Nat /\ m \in Nat /\ ~(y < m)
    BY <1>1
  <2> QED
    BY <2>1
<1> QED
  BY <1>2

\* The first n documents of a history.
Docs(h, n) == n \in Nat /\ \A m \in 1..n : h[m].doc \in Doc

\* Script m, at place p of its hashes, is the first to give id a hash.
First(h, n, id, m, p) ==
  /\ m \in Learners(h, n) /\ p \in Naming(h, m, id)
  /\ \A k \in Learners(h, n) : Naming(h, k, id) # {} => m <= k
  /\ \A q \in Naming(h, m, id) : p <= q

(* What a script of the history names.                                      *)
LEMMA NamingPlaces ==
  ASSUME NEW h, NEW n, Docs(h, n), NEW m \in 1..n
  PROVE  /\ h[m].doc.stringChunkHashes \in Seq(Pair)
         /\ \A id : /\ Naming(h, m, id) \in SUBSET Nat
                    /\ Naming(h, m, id) # {} <=>
                         id \in KeysOf(ToSet(h[m].doc.stringChunkHashes))
<1> DEFINE list == h[m].doc.stringChunkHashes
<1>1. list \in Seq(Pair)
  BY DispatchAssumption DEF DispatchAssumption, Pair, Docs
<1>2. \A id : Naming(h, m, id) = {p \in DOMAIN list : list[p][1] = id}
  BY DEF Naming
<1> HIDE DEF list
<1>3. DOMAIN list = 1..Len(list) /\ ToSet(list) = {list[p] : p \in 1..Len(list)}
  BY <1>1, ElementsOf
<1>4. \A id : Naming(h, m, id) \in SUBSET Nat
  BY <1>2, <1>3
<1>5. ASSUME NEW id PROVE Naming(h, m, id) # {} <=> id \in KeysOf(ToSet(list))
  <2>1. KeysOf(ToSet(list)) = {list[p][1] : p \in 1..Len(list)}
    BY <1>3 DEF KeysOf
  <2>2. Naming(h, m, id) = {p \in 1..Len(list) : list[p][1] = id}
    BY <1>2, <1>3
  <2> QED
    BY <2>1, <2>2
<1> QED
  BY <1>1, <1>4, <1>5 DEF list

(* The ids known are those some script names.                               *)
LEMMA IdsNamed ==
  ASSUME NEW h, NEW n, Docs(h, n), NEW id
  PROVE  id \in KnownIds(h, n) <=> \E m \in Learners(h, n) : Naming(h, m, id) # {}
<1>1. Learners(h, n) \subseteq 1..n
  BY DEF Learners
<1>2. KnownIds(h, n) = UNION {KeysOf(ToSet(h[m].doc.stringChunkHashes)) : m \in Learners(h, n)}
  BY DEF KnownIds, KeysOf
<1>3. \A m \in Learners(h, n) :
        Naming(h, m, id) # {} <=> id \in KeysOf(ToSet(h[m].doc.stringChunkHashes))
  BY <1>1, NamingPlaces
<1> QED
  BY <1>2, <1>3

(* The first hash is that of the first script that names the id.            *)
LEMMA FirstHashIs ==
  ASSUME NEW h, NEW n, Docs(h, n), NEW id, NEW m, NEW p, First(h, n, id, m, p)
  PROVE  FirstHash(h, n, id) = h[m].doc.stringChunkHashes[p][2]
<1> DEFINE S == {k \in Learners(h, n) : Naming(h, k, id) # {}}
<1>1. m \in Learners(h, n) /\ p \in Naming(h, m, id)
      /\ (\A k \in Learners(h, n) : Naming(h, k, id) # {} => m <= k)
      /\ \A q \in Naming(h, m, id) : p <= q
  BY DEF First
<1>2. m \in 1..n /\ Learners(h, n) \subseteq Int
  BY <1>1 DEF Learners
<1>3. S \in SUBSET Int /\ m \in S /\ \A k \in S : m <= k
  BY <1>1, <1>2
<1>4. Naming(h, m, id) \in SUBSET Int
  <2>1. Naming(h, m, id) \in SUBSET Nat
    BY <1>2, NamingPlaces
  <2> QED
    BY <2>1
<1>5. Min(Naming(h, m, id)) = p
  BY <1>1, <1>4, LeastIs
<1>6. FirstHash(h, n, id) = h[Min(S)].doc.stringChunkHashes[Min(Naming(h, Min(S), id))][2]
  BY DEF FirstHash
<1> HIDE DEF S
<1>7. Min(S) = m
  BY <1>3, LeastIs
<1> QED
  BY <1>5, <1>6, <1>7

(* Every id known has one.                                                  *)
LEMMA FirstExists ==
  ASSUME NEW h, NEW n, Docs(h, n), NEW id \in KnownIds(h, n)
  PROVE  \E m, p : First(h, n, id, m, p)
<1> DEFINE S == {k \in Learners(h, n) : Naming(h, k, id) # {}}
<1>1. S # {} /\ S \in SUBSET Nat /\ Learners(h, n) \subseteq 1..n
  BY IdsNamed DEF Learners
<1>2. PICK m \in S : \A k \in S : m <= k
  BY <1>1, LeastOf
<1>3. Naming(h, m, id) \in SUBSET Nat
  BY <1>1, NamingPlaces
<1>4. PICK p \in Naming(h, m, id) : \A q \in Naming(h, m, id) : p <= q
  BY <1>2, <1>3, LeastOf
<1>5. First(h, n, id, m, p)
  BY <1>2, <1>4 DEF First
<1> QED
  BY <1>5

\* The ids known after n documents, with their hashes, and the fingerprint.
KnownHashes(h, n) == {<<id, FirstHash(h, n, id)>> : id \in KnownIds(h, n)}
FirstPrint(h, n) ==
  IF Printed(h, n) = {} THEN "" ELSE h[Min(Printed(h, n))].doc.fingerprint

\* The histories have the same documents.
SameDocs(g, h, n) == \A m \in 1..n : g[m].doc = h[m].doc

(* They depend on the documents alone.                                      *)
LEMMA SameHistory ==
  ASSUME NEW g, NEW h, NEW n, Docs(g, n), SameDocs(g, h, n)
  PROVE  /\ Learners(g, n) = Learners(h, n) /\ KnownIds(g, n) = KnownIds(h, n)
         /\ \A id \in KnownIds(g, n) : FirstHash(g, n, id) = FirstHash(h, n, id)
         /\ Printed(g, n) = Printed(h, n) /\ FirstPrint(g, n) = FirstPrint(h, n)
         /\ KnownHashes(g, n) = KnownHashes(h, n)
<1>1. Learners(g, n) = Learners(h, n) /\ Learners(h, n) \subseteq 1..n
  BY DEF Learners, SameDocs
<1>2. \A m \in 1..n : \A id : Naming(g, m, id) = Naming(h, m, id)
  BY DEF Naming, SameDocs
<1>3. KnownIds(g, n) = KnownIds(h, n)
  BY <1>1 DEF KnownIds, SameDocs
<1>4. Docs(h, n)
  BY DEF Docs, SameDocs
<1>5. ASSUME NEW id \in KnownIds(g, n) PROVE FirstHash(g, n, id) = FirstHash(h, n, id)
  <2>1. PICK m, p : First(g, n, id, m, p)
    BY <1>5, FirstExists
  <2>2. First(h, n, id, m, p) /\ m \in 1..n
    BY <1>1, <1>2, <2>1 DEF First
  <2>3. FirstHash(g, n, id) = g[m].doc.stringChunkHashes[p][2]
        /\ FirstHash(h, n, id) = h[m].doc.stringChunkHashes[p][2]
    BY <1>4, <2>1, <2>2, FirstHashIs
  <2> QED
    BY <2>2, <2>3 DEF SameDocs
<1>6. Printed(g, n) = Printed(h, n) /\ Printed(g, n) \subseteq 1..n
  BY <1>1 DEF Printed, SameDocs
<1>7. FirstPrint(g, n) = FirstPrint(h, n)
  <2>1. CASE Printed(g, n) = {}
    BY <1>6, <2>1 DEF FirstPrint
  <2>2. CASE Printed(g, n) # {}
    <3>1. Printed(g, n) \in SUBSET Nat
      BY <1>6
    <3>2. PICK m \in Printed(g, n) : \A k \in Printed(g, n) : m <= k
      BY <2>2, <3>1, LeastOf
    <3>3. Min(Printed(g, n)) = m
      <4>1. Printed(g, n) \in SUBSET Int
        BY <3>1
      <4> QED
        BY <3>2, <4>1, LeastIs
    <3>4. g[m].doc = h[m].doc
      BY <1>6, <3>2 DEF SameDocs
    <3> QED
      BY <1>6, <2>2, <3>3, <3>4 DEF FirstPrint
  <2> QED
    BY <2>1, <2>2
<1>8. KnownHashes(g, n) = KnownHashes(h, n)
  BY <1>3, <1>5 DEF KnownHashes
<1> QED
  BY <1>1, <1>3, <1>5, <1>6, <1>7, <1>8

(* One more document: a script that does not reach the fallbacks adds       *)
(* nothing, and another the ids that are new with their first hashes, and   *)
(* its fingerprint if there is none.                                        *)
LEMMA LaterHistory ==
  ASSUME NEW h, NEW n, Docs(h, n + 1), n \in Nat
  PROVE  LET d == h[n + 1].doc
             list == d.stringChunkHashes
         IN  /\ ~Learning(d) => /\ KnownHashes(h, n + 1) = KnownHashes(h, n)
                                /\ FirstPrint(h, n + 1) = FirstPrint(h, n)
             /\ Learning(d) =>
                  /\ KnownHashes(h, n + 1) =
                       KnownHashes(h, n) \cup NewPairs(KnownIds(h, n), list, Len(list))
                  /\ FirstPrint(h, n + 1) =
                       IF FirstPrint(h, n) # "" THEN FirstPrint(h, n) ELSE d.fingerprint
<1> DEFINE d == h[n + 1].doc
           list == d.stringChunkHashes
<1>1. Docs(h, n) /\ 1..(n + 1) = 1..n \cup {n + 1} /\ n + 1 \notin 1..n /\ n + 1 \in 1..(n + 1)
  BY DEF Docs
<1>2. Learners(h, n) \subseteq 1..n
      /\ Learners(h, n + 1) = Learners(h, n) \cup (IF Learning(d) THEN {n + 1} ELSE {})
  BY <1>1 DEF Learners
<1>3. CASE ~Learning(d)
  <2>1. Learners(h, n + 1) = Learners(h, n)
    BY <1>2, <1>3
  <2>2. KnownIds(h, n + 1) = KnownIds(h, n) /\ Printed(h, n + 1) = Printed(h, n)
        /\ \A id : FirstHash(h, n + 1, id) = FirstHash(h, n, id)
    BY <2>1 DEF KnownIds, Printed, FirstHash
  <2>3. KnownHashes(h, n + 1) = KnownHashes(h, n)
    BY <2>2 DEF KnownHashes
  <2>4. FirstPrint(h, n + 1) = FirstPrint(h, n)
    BY <2>2 DEF FirstPrint
  <2> QED
    BY <1>3, <2>3, <2>4
<1>4. CASE Learning(d)
  <2>1. Learners(h, n + 1) = Learners(h, n) \cup {n + 1} /\ n + 1 \in Learners(h, n + 1)
    BY <1>2, <1>4
  <2>2. \A id : id \in KnownIds(h, n + 1) <=> id \in KnownIds(h, n) \/ Naming(h, n + 1, id) # {}
    <3> TAKE id
    <3>1. id \in KnownIds(h, n + 1) <=> \E m \in Learners(h, n + 1) : Naming(h, m, id) # {}
      BY IdsNamed
    <3>2. id \in KnownIds(h, n) <=> \E m \in Learners(h, n) : Naming(h, m, id) # {}
      BY <1>1, IdsNamed
    <3> QED
      BY <2>1, <3>1, <3>2
  <2>3. ASSUME NEW id \in KnownIds(h, n)
        PROVE  FirstHash(h, n + 1, id) = FirstHash(h, n, id)
    <3>1. PICK m, p : First(h, n, id, m, p)
      BY <1>1, FirstExists
    <3>2. m \in 1..n /\ m \in Learners(h, n + 1)
      BY <1>2, <2>1, <3>1 DEF First
    <3>3. m <= n + 1
      BY <3>2
    <3>4. First(h, n + 1, id, m, p)
      BY <2>1, <3>1, <3>2, <3>3 DEF First
    <3> QED
      BY <1>1, <3>1, <3>4, FirstHashIs
  <2>4. list \in Seq(Pair) /\ DOMAIN list = 1..Len(list) /\ Len(list) \in Nat
    <3>1. list \in Seq(Pair)
      BY <1>1, NamingPlaces
    <3> HIDE DEF list
    <3> QED
      BY <3>1, ElementsOf
  <2>5. \A id : Naming(h, n + 1, id) = {p \in 1..Len(list) : list[p][1] = id}
    BY <2>4 DEF Naming
  <2> HIDE DEF list
  <2>6. ASSUME NEW id, id \notin KnownIds(h, n), NEW p \in Naming(h, n + 1, id),
               \A q \in Naming(h, n + 1, id) : p <= q
        PROVE  /\ <<id, FirstHash(h, n + 1, id)>> = list[p] /\ p \in 1..Len(list)
               /\ id \in KnownIds(h, n + 1)
    <3>1. \A k \in Learners(h, n + 1) : Naming(h, k, id) # {} => n + 1 <= k
      <4>1. \A k \in Learners(h, n) : Naming(h, k, id) = {}
        BY <1>1, <2>6, IdsNamed
      <4> QED
        BY <2>1, <4>1
    <3>2. First(h, n + 1, id, n + 1, p)
      BY <2>1, <2>6, <3>1 DEF First
    <3>3. FirstHash(h, n + 1, id) = list[p][2]
      BY <3>2, FirstHashIs DEF list
    <3>4. p \in 1..Len(list) /\ list[p][1] = id
      BY <2>5, <2>6
    <3>5. list[p] \in STRING \X STRING
      BY <2>4, <3>4 DEF Pair
    <3> QED
      BY <2>2, <2>6, <3>3, <3>4, <3>5
  <2>7. NewPairs(KnownIds(h, n), list, Len(list)) \subseteq KnownHashes(h, n + 1)
    <3> SUFFICES ASSUME NEW i \in 1..Len(list), list[i][1] \notin KnownIds(h, n),
                        \A l \in 1..(i - 1) : list[l][1] # list[i][1]
                 PROVE  list[i] \in KnownHashes(h, n + 1)
      BY DEF NewPairs
    <3> DEFINE id == list[i][1]
    <3>1. i \in Naming(h, n + 1, id)
      BY <2>5
    <3>2. ASSUME NEW q \in Naming(h, n + 1, id) PROVE i <= q
      <4>1. q \in 1..Len(list) /\ list[q][1] = id
        BY <2>5, <3>2
      <4>2. q \notin 1..(i - 1)
        BY <4>1
      <4> QED
        BY <2>4, <4>1, <4>2
    <3> HIDE DEF id
    <3>3. id \notin KnownIds(h, n)
      BY DEF id
    <3>4. list[i] = <<id, FirstHash(h, n + 1, id)>> /\ id \in KnownIds(h, n + 1)
      BY <2>6, <3>1, <3>2, <3>3
    <3> QED
      BY <3>4 DEF KnownHashes
  <2>8. ASSUME NEW id \in KnownIds(h, n + 1), id \notin KnownIds(h, n)
        PROVE  <<id, FirstHash(h, n + 1, id)>> \in NewPairs(KnownIds(h, n), list, Len(list))
    <3>1. Naming(h, n + 1, id) # {} /\ Naming(h, n + 1, id) \in SUBSET Nat
      BY <2>2, <2>5, <2>8
    <3>2. PICK p \in Naming(h, n + 1, id) : \A q \in Naming(h, n + 1, id) : p <= q
      BY <3>1, LeastOf
    <3>3. <<id, FirstHash(h, n + 1, id)>> = list[p] /\ p \in 1..Len(list)
      BY <2>6, <2>8, <3>2
    <3>4. list[p][1] = id
      BY <2>5, <3>2
    <3>5. \A l \in 1..(p - 1) : list[l][1] # list[p][1]
      <4> TAKE l \in 1..(p - 1)
      <4>1. l \in 1..Len(list) /\ ~(p <= l)
        BY <2>4, <3>3
      <4> QED
        BY <2>5, <3>2, <3>4, <4>1
    <3> QED
      BY <2>8, <3>3, <3>4, <3>5 DEF NewPairs
  <2>9. KnownHashes(h, n) \subseteq KnownHashes(h, n + 1)
    BY <2>2, <2>3 DEF KnownHashes
  <2>10. KnownHashes(h, n + 1) \subseteq
           KnownHashes(h, n) \cup NewPairs(KnownIds(h, n), list, Len(list))
    <3> SUFFICES ASSUME NEW id \in KnownIds(h, n + 1)
                 PROVE  \/ <<id, FirstHash(h, n + 1, id)>> \in KnownHashes(h, n)
                        \/ <<id, FirstHash(h, n + 1, id)>> \in
                             NewPairs(KnownIds(h, n), list, Len(list))
      BY DEF KnownHashes
    <3>1. CASE id \in KnownIds(h, n)
      BY <2>3, <3>1 DEF KnownHashes
    <3>2. CASE id \notin KnownIds(h, n)
      BY <2>8, <3>2
    <3> QED
      BY <3>1, <3>2
  <2>11. KnownHashes(h, n + 1) =
           KnownHashes(h, n) \cup NewPairs(KnownIds(h, n), list, Len(list))
    BY <2>7, <2>9, <2>10
  <2>12. FirstPrint(h, n + 1) = IF FirstPrint(h, n) # "" THEN FirstPrint(h, n) ELSE d.fingerprint
    <3>a. Printed(h, n + 1) = Printed(h, n) \cup (IF d.fingerprint # "" THEN {n + 1} ELSE {})
      BY <2>1 DEF Printed
    <3>b. Printed(h, n) \subseteq 1..n
      BY <1>2 DEF Printed
    <3> HIDE DEF d
    <3>1. \A k \in Printed(h, n + 1) : k \in Printed(h, n) \/ k = n + 1
      BY <3>a
    <3>2. CASE Printed(h, n) # {}
      <4>1. Printed(h, n) \in SUBSET Nat
        <5>1. 1..n \subseteq Nat
          OBVIOUS
        <5> QED
          BY <3>b, <5>1
      <4>2. PICK m \in Printed(h, n) : \A k \in Printed(h, n) : m <= k
        BY <3>2, <4>1, LeastOf
      <4>3. /\ Printed(h, n) \in SUBSET Int /\ Printed(h, n + 1) \in SUBSET Int
            /\ m \in Printed(h, n + 1)
        <5>1. Printed(h, n) \in SUBSET Int
          BY <4>1
        <5>2. m \in Printed(h, n + 1)
          BY <3>a, <4>2
        <5>3. n + 1 \in Int
          OBVIOUS
        <5> QED
          BY <3>1, <5>1, <5>2, <5>3
      <4>4. \A k \in Printed(h, n + 1) : m <= k
        <5>1. m <= n + 1
          <6>1. m \in 1..n
            BY <3>b, <4>2
          <6> QED
            BY <6>1
        <5> QED
          BY <3>1, <4>2, <5>1
      <4>5. Min(Printed(h, n)) = m /\ Min(Printed(h, n + 1)) = m
        BY <4>2, <4>3, <4>4, LeastIs
      <4>6. h[m].doc.fingerprint # ""
        BY <4>2 DEF Printed
      <4>7. FirstPrint(h, n) = h[m].doc.fingerprint
        BY <3>2, <4>5 DEF FirstPrint
      <4>8. FirstPrint(h, n + 1) = h[m].doc.fingerprint
        BY <4>3, <4>5 DEF FirstPrint
      <4> QED
        BY <4>6, <4>7, <4>8
    <3>3. CASE Printed(h, n) = {} /\ d.fingerprint # ""
      <4>1. Printed(h, n + 1) = {n + 1}
        BY <3>a, <3>3
      <4>2. Min({n + 1}) = n + 1
        <5>1. {n + 1} \in SUBSET Int /\ n + 1 \in {n + 1} /\ \A y \in {n + 1} : n + 1 <= y
          OBVIOUS
        <5> QED
          BY <5>1, LeastIs
      <4>3. FirstPrint(h, n) = ""
        BY <3>3 DEF FirstPrint
      <4>4. FirstPrint(h, n + 1) = d.fingerprint
        BY <4>1, <4>2 DEF FirstPrint, d
      <4> QED
        BY <4>3, <4>4
    <3>4. CASE Printed(h, n) = {} /\ d.fingerprint = ""
      BY <3>a, <3>4 DEF FirstPrint
    <3> QED
      BY <3>2, <3>3, <3>4
  <2> QED
    BY <1>4, <2>11, <2>12 DEF list
<1> QED
  BY <1>3, <1>4

\* ChunksFollowFirstHash, of the n-th document of a history.
Follows(h, n) ==
  LET d == h[n].doc
      probes == ToSet(FoundBy("WebpackPlugin", h[n].results).probeTargets)
  IN  /\ \A id \in KnownIds(h, n) :
           <<DetectPathPrefix(d), id, ".", FirstHash(h, n, id), ".js">> \in probes
      /\ KnownIds(h, n) = {} => \A id \in ToSet(d.loadStringIds) :
           \E f \in probes : f[2] = id /\ f[4] \in {"", "*"}
      /\ Printed(h, n) # {} => \A id \in ToSet(d.loadStringIds) :
           <<d.dir, id, ".", h[Min(Printed(h, n))].doc.fingerprint, ".js">> \in probes
      /\ \A f \in probes :
           \/ f[4] \in {"", "*"} \cup OwnHashes(d)
           \/ f[2] \in KnownIds(h, n) /\ f[4] = FirstHash(h, n, f[2])
           \/ Printed(h, n) # {} /\ f[4] = h[Min(Printed(h, n))].doc.fingerprint

\* What the plugin keeps is what the scripts so far have told.
Learned(h, n, maps, print) ==
  /\ maps \in Seq(Seq(Pair))
  /\ UNION {ToSet(maps[i]) : i \in 1..Len(maps)} = KnownHashes(h, n)
  /\ print = FirstPrint(h, n)

\* Of every history.
ChunkInv ==
  /\ DispatchInv
  /\ Learned(analysed, Len(analysed), stringChunkHashMaps, runtimeFingerprint)
  /\ \A n \in DOMAIN analysed : Learning(analysed[n].doc) => Follows(analysed, n)

(* The maps merged with a script's own ids give each id its first hash.     *)
LEMMA MergedIsKnown ==
  ASSUME NEW h, NEW n \in Nat, Docs(h, n + 1), Learning(h[n + 1].doc),
         NEW maps, NEW print, Learned(h, n, maps, print)
  PROVE  ToSet(Merged(maps, h[n + 1].doc)) = KnownHashes(h, n + 1)
<1> DEFINE d == h[n + 1].doc
           list == d.stringChunkHashes
           known == UNION {ToSet(maps[i]) : i \in 1..Len(maps)}
           kept == ToSet(LastWins(<<>>, FlattenSeq(maps)))
<1>1. d \in Doc /\ maps \in Seq(Seq(Pair)) /\ known = KnownHashes(h, n)
  BY DEF Docs, Learned
<1>2. kept \subseteq known /\ KeysOf(kept) = KeysOf(known)
      /\ ToSet(Merged(maps, d)) = kept \cup NewPairs(KeysOf(kept), list, Len(list))
  BY <1>1, MergedPairs
<1>3. KnownHashes(h, n + 1) = KnownHashes(h, n) \cup NewPairs(KnownIds(h, n), list, Len(list))
  BY LaterHistory
<1> HIDE DEF d, list, known, kept
<1>4. KeysOf(known) = KnownIds(h, n)
  <2>1. known = {<<id, FirstHash(h, n, id)>> : id \in KnownIds(h, n)}
    BY <1>1 DEF KnownHashes
  <2>2. \A p \in known : p[1] \in KnownIds(h, n)
    BY <2>1
  <2>3. \A id \in KnownIds(h, n) : \E p \in known : p[1] = id
    <3> TAKE id \in KnownIds(h, n)
    <3>1. <<id, FirstHash(h, n, id)>> \in known /\ <<id, FirstHash(h, n, id)>>[1] = id
      BY <2>1
    <3> QED
      BY <3>1, Zenon
  <2> QED
    BY <2>2, <2>3 DEF KeysOf
<1>5. kept = known
  <2> SUFFICES ASSUME NEW p \in known PROVE p \in kept
    BY <1>2
  <2>1. PICK id \in KnownIds(h, n) : p = <<id, FirstHash(h, n, id)>>
    BY <1>1 DEF KnownHashes
  <2>2. id \in KeysOf(kept)
    BY <1>2, <1>4
  <2>3. PICK q \in kept : q[1] = id
    BY <2>2 DEF KeysOf
  <2>4. q \in KnownHashes(h, n)
    BY <1>1, <1>2
  <2>5. q = p
    BY <2>1, <2>3, <2>4 DEF KnownHashes
  <2> QED
    BY <2>3, <2>5
<1> QED
  BY <1>1, <1>2, <1>3, <1>4, <1>5 DEF d

(* One more document.                                                       *)
LEMMA LearnedLater ==
  ASSUME NEW h, NEW n \in Nat, Docs(h, n + 1),
         Learned(h, n, stringChunkHashMaps, runtimeFingerprint),
         IF WebpackPrecheck(h[n + 1].doc) THEN WebpackLearns(h[n + 1].doc)
         ELSE UNCHANGED webpackVars
  PROVE  Learned(h, n + 1, stringChunkHashMaps', runtimeFingerprint')
<1> DEFINE d == h[n + 1].doc
           maps == stringChunkHashMaps
<1>1. maps \in Seq(Seq(Pair)) /\ runtimeFingerprint = FirstPrint(h, n)
      /\ UNION {ToSet(maps[i]) : i \in 1..Len(maps)} = KnownHashes(h, n)
  BY DEF Learned
<1>2. CASE ~Learning(d)
  <2>1. stringChunkHashMaps' = maps /\ runtimeFingerprint' = runtimeFingerprint
    BY <1>2 DEF Learning, WebpackLearns, webpackVars
  <2>2. KnownHashes(h, n + 1) = KnownHashes(h, n) /\ FirstPrint(h, n + 1) = FirstPrint(h, n)
    BY <1>2, LaterHistory
  <2> QED
    BY <1>1, <2>1, <2>2 DEF Learned
<1>3. CASE Learning(d)
  <2> DEFINE merged == Merged(maps, d)
  <2>1. /\ stringChunkHashMaps' = IF merged = <<>> THEN maps ELSE Append(maps, merged)
        /\ runtimeFingerprint' = Fingerprint(d)
    BY <1>3 DEF Learning, WebpackLearns
  <2>2. ToSet(merged) = KnownHashes(h, n + 1)
    BY <1>3, MergedIsKnown
  <2>3. merged \in Seq(Pair)
    <3>1. d \in Doc
      <4>1. n + 1 \in 1..(n + 1)
        OBVIOUS
      <4> QED
        BY <4>1 DEF Docs
    <3> QED
      BY <1>1, <3>1, MergedPairs
  <2>4. Fingerprint(d) = FirstPrint(h, n + 1)
    <3>1. FirstPrint(h, n + 1) = IF FirstPrint(h, n) # "" THEN FirstPrint(h, n) ELSE d.fingerprint
      BY <1>3, LaterHistory
    <3> HIDE DEF d
    <3> QED
      BY <1>1, <3>1 DEF Fingerprint
  <2>5. KnownHashes(h, n) \subseteq KnownHashes(h, n + 1)
    BY <1>3, LaterHistory
  <2> HIDE DEF merged, d
  <2>6. CASE merged = <<>>
    <3>1. KnownHashes(h, n + 1) = {} /\ KnownHashes(h, n) = {}
      <4>1. ToSet(merged) = {}
        BY <2>3, <2>6, ElementsOf
      <4> QED
        BY <2>2, <2>5, <4>1
    <3> QED
      BY <1>1, <2>1, <2>4, <2>6, <3>1 DEF Learned
  <2>7. CASE merged # <<>>
    <3> DEFINE more == Append(maps, merged)
               Y == Seq(Pair)
    <3>1. maps \in Seq(Y) /\ merged \in Y
      BY <1>1, <2>3
    <3> HIDE DEF Y
    <3>2. more \in Seq(Y) /\ Len(more) = Len(maps) + 1 /\ Len(maps) \in Nat
          /\ (\A i \in 1..Len(maps) : more[i] = maps[i]) /\ more[Len(maps) + 1] = merged
      BY <3>1
    <3> HIDE DEF more
    <3>3. 1..Len(more) = 1..Len(maps) \cup {Len(maps) + 1}
      BY <3>2
    <3> DEFINE k == Len(maps)
               old == {ToSet(maps[i]) : i \in 1..k}
               all == {ToSet(more[i]) : i \in 1..Len(more)}
    <3>4. all = old \cup {ToSet(merged)}
      <4>1. 1..Len(more) = 1..k \cup {k + 1} /\ (\A i \in 1..k : more[i] = maps[i])
            /\ more[k + 1] = merged
        BY <3>2, <3>3
      <4> HIDE DEF k
      <4> QED
        BY <4>1
    <3>5. UNION all = KnownHashes(h, n + 1)
      <4>1. UNION old = KnownHashes(h, n)
        BY <1>1
      <4> HIDE DEF all, old
      <4>2. \A x : x \in UNION all <=> x \in UNION old \/ x \in ToSet(merged)
        BY <3>4
      <4>3. \A x : x \in UNION all <=> x \in KnownHashes(h, n + 1)
        BY <2>2, <2>5, <4>1, <4>2
      <4> QED
        BY <4>3
    <3>6. stringChunkHashMaps' = more
      BY <2>1, <2>7 DEF more
    <3>7. stringChunkHashMaps' \in Seq(Seq(Pair))
      BY <3>2, <3>6 DEF Y
    <3>8. runtimeFingerprint' = FirstPrint(h, n + 1)
      BY <2>1, <2>4
    <3> QED
      BY <3>5, <3>6, <3>7, <3>8, Zenon DEF Learned
  <2> QED
    BY <2>6, <2>7
<1> QED
  BY <1>2, <1>3

(* What it names.                                                           *)
LEMMA FollowsNow ==
  ASSUME NEW h, NEW n \in Nat, Docs(h, n + 1), Learning(h[n + 1].doc),
         Learned(h, n, stringChunkHashMaps, runtimeFingerprint),
         FoundBy("WebpackPlugin", h[n + 1].results) = WebpackAnalyze(h[n + 1].doc)
  PROVE  Follows(h, n + 1)
<1> DEFINE d == h[n + 1].doc
           probes == ToSet(WebpackAnalyze(d).probeTargets)
           merged == ToSet(Merged(stringChunkHashMaps, d))
<1>1. d \in Doc
  <2>1. n + 1 \in 1..(n + 1)
    OBVIOUS
  <2> QED
    BY <2>1 DEF Docs
<1>2. /\ \A p \in merged : <<DetectPathPrefix(d), p[1], ".", p[2], ".js">> \in probes
      /\ merged = {} => \A id \in ToSet(d.loadStringIds) :
           \E f \in probes : f[2] = id /\ f[4] \in {"", "*"}
      /\ Fingerprint(d) # "" => \A id \in ToSet(d.loadStringIds) :
           <<d.dir, id, ".", Fingerprint(d), ".js">> \in probes
      /\ \A f \in probes : \/ f[4] \in {"", "*"} \cup OwnHashes(d)
                           \/ <<f[2], f[4]>> \in merged
                           \/ Fingerprint(d) # "" /\ f[4] = Fingerprint(d)
  BY <1>1, FallbackProbes DEF Learning, Learned
<1>3. merged = KnownHashes(h, n + 1)
  BY MergedIsKnown
<1>4. Fingerprint(d) = FirstPrint(h, n + 1)
  <2>1. FirstPrint(h, n + 1) = IF FirstPrint(h, n) # "" THEN FirstPrint(h, n) ELSE d.fingerprint
    BY LaterHistory
  <2> HIDE DEF d
  <2> QED
    BY <2>1 DEF Fingerprint, Learned
<1>5. FoundBy("WebpackPlugin", h[n + 1].results) = WebpackAnalyze(d)
  OBVIOUS
<1> HIDE DEF merged, probes
<1>6. ASSUME NEW id \in KnownIds(h, n + 1)
      PROVE  <<DetectPathPrefix(d), id, ".", FirstHash(h, n + 1, id), ".js">> \in probes
  <2>1. <<id, FirstHash(h, n + 1, id)>> \in merged
    BY <1>3 DEF KnownHashes
  <2> QED
    BY <1>2, <2>1
<1>7. KnownIds(h, n + 1) = {} => merged = {}
  BY <1>3 DEF KnownHashes
<1>8. ASSUME Printed(h, n + 1) # {}
      PROVE  /\ Fingerprint(d) = h[Min(Printed(h, n + 1))].doc.fingerprint
             /\ Fingerprint(d) # ""
  <2>1. FirstPrint(h, n + 1) = h[Min(Printed(h, n + 1))].doc.fingerprint
    BY <1>8 DEF FirstPrint
  <2>2. Printed(h, n + 1) \subseteq 1..(n + 1)
    BY DEF Printed, Learners
  <2>3. Printed(h, n + 1) \in SUBSET Nat /\ Printed(h, n + 1) \in SUBSET Int
    BY <2>2
  <2>4. PICK m \in Printed(h, n + 1) : \A k \in Printed(h, n + 1) : m <= k
    BY <1>8, <2>3, LeastOf
  <2>5. Min(Printed(h, n + 1)) = m
    BY <2>3, <2>4, LeastIs
  <2>6. h[m].doc.fingerprint # ""
    BY <2>4 DEF Printed
  <2> QED
    BY <1>4, <2>1, <2>5, <2>6
<1>9. Printed(h, n + 1) # {} => \A id \in ToSet(d.loadStringIds) :
        <<d.dir, id, ".", h[Min(Printed(h, n + 1))].doc.fingerprint, ".js">> \in probes
  BY <1>2, <1>8
<1>10. KnownIds(h, n + 1) = {} => \A id \in ToSet(d.loadStringIds) :
         \E f \in probes : f[2] = id /\ f[4] \in {"", "*"}
  BY <1>2, <1>7
<1>11. \A f \in probes :
         \/ f[4] \in {"", "*"} \cup OwnHashes(d)
         \/ f[2] \in KnownIds(h, n + 1) /\ f[4] = FirstHash(h, n + 1, f[2])
         \/ Printed(h, n + 1) # {} /\ f[4] = h[Min(Printed(h, n + 1))].doc.fingerprint
  <2> TAKE f \in probes
  <2>1. CASE f[4] \in {"", "*"} \cup OwnHashes(d)
    BY <2>1
  <2>2. CASE <<f[2], f[4]>> \in merged
    <3>1. PICK id \in KnownIds(h, n + 1) : <<f[2], f[4]>> = <<id, FirstHash(h, n + 1, id)>>
      BY <1>3, <2>2 DEF KnownHashes
    <3> QED
      BY <3>1
  <2>3. CASE Fingerprint(d) # "" /\ f[4] = Fingerprint(d)
    <3>1. Printed(h, n + 1) # {}
      BY <1>4, <2>3 DEF FirstPrint
    <3> QED
      BY <1>8, <2>3, <3>1
  <2> QED
    BY <1>2, <2>1, <2>2, <2>3
<1> QED
  BY <1>5, <1>6, <1>9, <1>10, <1>11, Zenon DEF Follows, probes

(* What was said of a document stays true.                                  *)
LEMMA FollowsStill ==
  ASSUME NEW g, NEW h, NEW n, Docs(h, n), n \in 1..n, \A m \in 1..n : g[m] = h[m], Follows(h, n)
  PROVE  Follows(g, n)
<1>1. SameDocs(h, g, n)
  BY DEF SameDocs
<1>2. /\ Learners(h, n) = Learners(g, n) /\ KnownIds(h, n) = KnownIds(g, n)
      /\ \A id \in KnownIds(h, n) : FirstHash(h, n, id) = FirstHash(g, n, id)
      /\ Printed(h, n) = Printed(g, n) /\ FirstPrint(h, n) = FirstPrint(g, n)
  BY <1>1, SameHistory
<1>3. Printed(g, n) # {} =>
        h[Min(Printed(g, n))].doc.fingerprint = g[Min(Printed(g, n))].doc.fingerprint
  BY <1>2 DEF FirstPrint
<1>4. g[n] = h[n]
  OBVIOUS
<1> DEFINE d == h[n].doc
           probes == ToSet(FoundBy("WebpackPlugin", h[n].results).probeTargets)
<1>5. /\ \A id \in KnownIds(h, n) :
           <<DetectPathPrefix(d), id, ".", FirstHash(h, n, id), ".js">> \in probes
      /\ KnownIds(h, n) = {} => \A id \in ToSet(d.loadStringIds) :
           \E f \in probes : f[2] = id /\ f[4] \in {"", "*"}
      /\ Printed(h, n) # {} => \A id \in ToSet(d.loadStringIds) :
           <<d.dir, id, ".", h[Min(Printed(h, n))].doc.fingerprint, ".js">> \in probes
      /\ \A f \in probes :
           \/ f[4] \in {"", "*"} \cup OwnHashes(d)
           \/ f[2] \in KnownIds(h, n) /\ f[4] = FirstHash(h, n, f[2])
           \/ Printed(h, n) # {} /\ f[4] = h[Min(Printed(h, n))].doc.fingerprint
  BY Zenon DEF Follows
<1> HIDE DEF probes, d
<1>6. \A id \in KnownIds(g, n) :
        <<DetectPathPrefix(d), id, ".", FirstHash(g, n, id), ".js">> \in probes
  BY <1>2, <1>5
<1>7. Printed(g, n) # {} => \A id \in ToSet(d.loadStringIds) :
           <<d.dir, id, ".", g[Min(Printed(g, n))].doc.fingerprint, ".js">> \in probes
  BY <1>2, <1>3, <1>5
<1>8. KnownIds(g, n) = {} => \A id \in ToSet(d.loadStringIds) :
           \E f \in probes : f[2] = id /\ f[4] \in {"", "*"}
  BY <1>2, <1>5
<1>9. \A f \in probes :
        \/ f[4] \in {"", "*"} \cup OwnHashes(d)
        \/ f[2] \in KnownIds(g, n) /\ f[4] = FirstHash(g, n, f[2])
        \/ Printed(g, n) # {} /\ f[4] = g[Min(Printed(g, n))].doc.fingerprint
  BY <1>2, <1>3, <1>5
<1> QED
  BY <1>4, <1>6, <1>7, <1>8, <1>9, Zenon DEF Follows, probes, d

(* Nothing is known at first, and nothing is kept.                          *)
LEMMA ChunkInit == Init => ChunkInv
<1> SUFFICES ASSUME Init PROVE ChunkInv
  OBVIOUS
<1>1. analysed = <<>> /\ stringChunkHashMaps = <<>> /\ runtimeFingerprint = ""
  BY DEF Init, DispatchInit, WebpackInit
<1>2. DispatchInv
  BY DispatchInitInv
<1>3. Learners(<<>>, 0) = {}
  BY DEF Learners
<1>4. KnownHashes(<<>>, 0) = {} /\ FirstPrint(<<>>, 0) = ""
  <2>1. KnownIds(<<>>, 0) = {} /\ Printed(<<>>, 0) = {}
    BY <1>3 DEF KnownIds, Printed
  <2> QED
    BY <2>1 DEF KnownHashes, FirstPrint
<1>5. <<>> \in Seq(Seq(Pair)) /\ Len(<<>>) = 0 /\ DOMAIN <<>> = {} /\ 1..0 = {}
  OBVIOUS
<1>6. Learned(<<>>, 0, <<>>, "")
  BY <1>4, <1>5 DEF Learned
<1> QED
  BY <1>1, <1>2, <1>5, <1>6 DEF ChunkInv

(* A document keeps what was said of those before it, and gets its own.     *)
LEMMA ChunkStep == ChunkInv /\ [Next]_vars => ChunkInv'
<1> SUFFICES ASSUME ChunkInv, [Next]_vars PROVE ChunkInv'
  OBVIOUS
<1>1. DispatchInv /\ DispatchInv'
  BY DispatchStep DEF ChunkInv
<1>2. ASSUME NEW d \in Doc, NEW conduct \in Conduct, Dispatch(d, conduct) PROVE ChunkInv'
  <2> DEFINE a == [doc |-> d, results |-> DispatchPlugins(d, conduct)]
             n == Len(analysed)
             h == analysed'
  <2>1. Settled(a) /\ a.doc = d /\ a.results = DispatchPlugins(d, conduct)
    BY DispatchKept
  <2>2. analysed' = Append(analysed, a)
        /\ IF WebpackPrecheck(d) THEN WebpackLearns(d) ELSE UNCHANGED webpackVars
    BY <1>2 DEF Dispatch
  <2> HIDE DEF a
  <2>3. /\ DOMAIN h = 1..(n + 1) /\ n \in Nat /\ DOMAIN analysed = 1..n
        /\ \A m \in 1..n : h[m] = analysed[m]
        /\ h[n + 1] = a /\ Len(h) = n + 1
    BY <1>1, <2>2, Listed DEF DispatchInv
  <2>4. Docs(h, n + 1) /\ Docs(analysed, n) /\ Docs(h, n)
    <3>1. \A m \in 1..(n + 1) : h[m].doc \in Doc
      BY <1>1, <2>3, Zenon DEF DispatchInv, Settled
    <3>2. \A m \in 1..n : analysed[m].doc \in Doc
      BY <1>1, <2>3, Zenon DEF DispatchInv, Settled
    <3> HIDE DEF n, h
    <3>3. 1..n \subseteq 1..(n + 1) /\ n + 1 \in Nat
      BY <2>3
    <3> QED
      BY <2>3, <3>1, <3>2, <3>3 DEF Docs
  <2> HIDE DEF n, h
  <2>5. Learned(h, n, stringChunkHashMaps, runtimeFingerprint)
    <3>1. SameDocs(h, analysed, n)
      BY <2>3 DEF SameDocs
    <3>2. KnownHashes(h, n) = KnownHashes(analysed, n) /\ FirstPrint(h, n) = FirstPrint(analysed, n)
      BY <2>4, <3>1, SameHistory
    <3>3. Learned(analysed, n, stringChunkHashMaps, runtimeFingerprint)
      BY DEF ChunkInv, n
    <3> QED
      BY <3>2, <3>3 DEF Learned
  <2>6. h[n + 1].doc = d
    BY <2>1, <2>3
  <2>7. Learned(h, n + 1, stringChunkHashMaps', runtimeFingerprint')
    BY <2>2, <2>3, <2>4, <2>5, <2>6, LearnedLater
  <2>8. ASSUME Learning(d) PROVE Follows(h, n + 1)
    <3>1. 1 \in DOMAIN a.results /\ a.results[1].found = WebpackAnalyze(d)
      <4>1. Registration[1] = "WebpackPlugin" /\ 1 \in DOMAIN Registration
        BY DEF Registration
      <4>2. Applies("WebpackPlugin", d, conduct) /\ Analyze("WebpackPlugin", d) = WebpackAnalyze(d)
        BY <2>8 DEF Applies, Analyze, Learning
      <4> DEFINE places == {k \in DOMAIN Registration :
                              /\ Applies(Registration[k], d, conduct)
                              /\ Registration[k] # "Custom" \/ conduct # "fails"}
      <4>3. a.results = [k \in places |-> [fromPlugin |-> Registration[k],
                                           found |-> Analyze(Registration[k], d)]]
        BY <2>1 DEF DispatchPlugins
      <4>4. 1 \in places
        BY <4>1, <4>2
      <4> HIDE DEF places
      <4> QED
        BY <4>1, <4>2, <4>3, <4>4
    <3>2. FoundBy("WebpackPlugin", a.results) = WebpackAnalyze(d)
      <4>1. Registration[1] = "WebpackPlugin" /\ 1 \in 1..5
        BY DEF Registration
      <4> QED
        BY <2>1, <3>1, <4>1, FoundAt
    <3> QED
      BY <2>3, <2>4, <2>5, <2>6, <2>8, <3>2, FollowsNow
  <2>9. ASSUME NEW m \in 1..(n + 1), Learning(h[m].doc) PROVE Follows(h, m)
    <3>1. CASE m = n + 1
      BY <2>6, <2>8, <2>9, <3>1
    <3>2. CASE m # n + 1
      <4>1. m \in 1..n /\ m \in 1..m /\ 1..m \subseteq 1..n /\ m \in Nat
        BY <2>3, <3>2
      <4>2. Follows(analysed, m)
        BY <2>3, <2>9, <4>1 DEF ChunkInv
      <4>3. Docs(analysed, m)
        BY <2>4, <4>1 DEF Docs
      <4>4. \A k \in 1..m : h[k] = analysed[k]
        BY <2>3, <4>1
      <4> QED
        BY <4>1, <4>2, <4>3, <4>4, FollowsStill
    <3> QED
      BY <3>1, <3>2
  <2> QED
    BY <1>1, <2>3, <2>7, <2>9 DEF ChunkInv, h
<1>3. CASE UNCHANGED dispatchVars
  <2>1. analysed' = analysed /\ stringChunkHashMaps' = stringChunkHashMaps
        /\ runtimeFingerprint' = runtimeFingerprint
    BY <1>3 DEF dispatchVars, webpackVars
  <2> QED
    BY <1>1, <2>1 DEF ChunkInv
<1> QED
  BY <1>2, <1>3 DEF Next, vars, DispatchNext

(* In whatever order scripts arrive, one that reaches the fallbacks names   *)
(* every id known by then with the first hash any of them gave it, what it  *)
(* loads with the first fingerprint, and nothing with a hash of another     *)
(* script that is neither: for any documents.                               *)
THEOREM FirstHashFollowed == Spec => []ChunksFollowFirstHash
<1>1. ChunkInv => ChunksFollowFirstHash
  BY Zenon DEF ChunkInv, ChunksFollowFirstHash, Follows
<1> QED
  BY <1>1, ChunkInit, ChunkStep, PTL DEF Spec
-----------------------------------------------------------------------------
(* Texts put together of parts.                                            *)

(* One list more.                                                           *)
LEMMA FlattenAppend ==
  ASSUME NEW X, NEW lists \in Seq(Seq(X)), NEW x \in Seq(X)
  PROVE  /\ FlattenSeq(lists) \in Seq(X)
         /\ FlattenSeq(Append(lists, x)) = FlattenSeq(lists) \o x
<1> DEFINE longer == Append(lists, x)
           k == Len(lists)
<1>1. /\ longer \in Seq(Seq(X)) /\ Len(longer) = k + 1 /\ k \in Nat
      /\ \A n \in 1..k : longer[n] = lists[n]
      /\ longer[k + 1] = x
  OBVIOUS
<1> HIDE DEF longer
<1>2. PICK f : Flattens(f, lists, X)
  BY FlattenSteps
<1>3. PICK g : Flattens(g, longer, X)
  BY <1>1, FlattenSteps
<1> HIDE DEF k
<1> DEFINE S == {n \in 0..k : f[n] = g[n]}
<1>4. /\ f[0] = <<>> /\ FlattenSeq(lists) = f[k] /\ f[k] \in Seq(X)
      /\ \A n \in 1..k : f[n] = f[n - 1] \o lists[n]
  BY <1>1, <1>2 DEF Flattens, k
<1>5. /\ g[0] = <<>> /\ FlattenSeq(longer) = g[k + 1]
      /\ \A n \in 1..(k + 1) : g[n] = g[n - 1] \o longer[n]
  BY <1>1, <1>3 DEF Flattens
<1>6. 0 \in S
  BY <1>1, <1>4, <1>5
<1>7. \A n \in 1..k : n - 1 \in S => n \in S
  <2> SUFFICES ASSUME NEW n \in 1..k, n - 1 \in S PROVE n \in S
    OBVIOUS
  <2>1. n \in 1..(k + 1) /\ n \in 0..k /\ longer[n] = lists[n]
    BY <1>1
  <2>2. f[n - 1] = g[n - 1]
    OBVIOUS
  <2>3. f[n] = g[n]
    BY <1>4, <1>5, <2>1, <2>2, Zenon
  <2> QED
    BY <2>1, <2>3
<1>8. f[k] = g[k]
  <2> HIDE DEF S
  <2>1. 0..k \subseteq S
    BY <1>1, <1>6, <1>7, InductionUpTo
  <2>2. k \in S
    BY <1>1, <2>1
  <2> QED
    BY <2>2 DEF S
<1>9. g[k + 1] = g[k] \o x
  <2>1. k + 1 \in 1..(k + 1) /\ (k + 1) - 1 = k
    BY <1>1
  <2> QED
    BY <1>1, <1>5, <2>1
<1> QED
  BY <1>4, <1>5, <1>8, <1>9 DEF longer

\* The characters of texts: those of parts, the slash, and those that the
\* handling of paths puts in.
Letters == STRING \ {"/"}
Signs == STRING \cup {"/", "_", "map", "unnamed_", ".js"} \cup {ToString(n) : n \in Int}

(* A list of elements of X is one of elements of Y, if they are in Y.       *)
LEMMA ListWithin ==
  ASSUME NEW X, NEW Y, \A x \in X : x \in Y
  PROVE  \A s \in Seq(X) : s \in Seq(Y)
OBVIOUS

(* The list of one element.                                                 *)
LEMMA ListOfOne ==
  ASSUME NEW X, NEW x \in X
  PROVE  <<x>> \in Seq(X) /\ Len(<<x>>) = 1 /\ <<x>>[1] = x
OBVIOUS

(* Texts of letters, of strings and after a slash are texts.                *)
LEMMA TextsAre ==
  /\ "/" \in Signs /\ "_" \in Signs /\ "map" \in Signs
  /\ \A s \in Seq(Signs) : <<"/">> \o s \in Seq(Signs) /\ s \in Seq(Signs)
  /\ \A s \in Seq(Letters) : s \in Seq(Signs)
  /\ \A s \in Seq(Seq(Letters)) : s \in Seq(Seq(Signs))
  /\ \A s \in Seq(STRING) : s \in Seq(Signs)
<1>1. "/" \in Signs /\ "_" \in Signs /\ "map" \in Signs
  BY DEF Signs
<1>2. (\A x \in Letters : x \in Signs) /\ \A x \in STRING : x \in Signs
  BY DEF Letters, Signs
<1>3. (\A s \in Seq(Letters) : s \in Seq(Signs)) /\ \A s \in Seq(STRING) : s \in Seq(Signs)
  BY <1>2, ListWithin
<1>4. \A s \in Seq(Seq(Letters)) : s \in Seq(Seq(Signs))
  BY <1>3, ListWithin
<1>5. <<"/">> \in Seq(Signs)
  BY <1>1, ListOfOne
<1>6. \A s \in Seq(Signs) : <<"/">> \o s \in Seq(Signs)
  BY <1>5, ConcatProperties
<1> QED
  BY <1>1, <1>3, <1>4, <1>6

(* A text of one part more.                                                 *)
LEMMA JoinedAppend ==
  ASSUME NEW parts \in Seq(Seq(Signs)), NEW x \in Seq(Signs)
  PROVE  /\ Joined(<<>>) = <<>> /\ Joined(parts) \in Seq(Signs)
         /\ Joined(Append(parts, x)) = Joined(parts) \o (<<"/">> \o x)
<1> DEFINE each(p) == [n \in DOMAIN p |-> <<"/">> \o p[n]]
           longer == Append(parts, x)
<1>1. Joined(<<>>) = <<>>
  BY DEF Joined, FlattenSeq
<1>2. \A s \in Seq(Signs) : <<"/">> \o s \in Seq(Signs)
  BY TextsAre
<1>3. each(parts) \in Seq(Seq(Signs))
  <2>1. /\ DOMAIN parts = 1..Len(parts) /\ Len(parts) \in Nat
        /\ \A n \in 1..Len(parts) : parts[n] \in Seq(Signs)
    OBVIOUS
  <2>2. each(parts) \in [1..Len(parts) -> Seq(Signs)]
    BY <1>2, <2>1
  <2> QED
    BY <2>1, <2>2, SeqDef
<1>4. each(longer) = Append(each(parts), <<"/">> \o x)
  <2>1. DOMAIN longer = 1..(Len(parts) + 1) /\ Len(each(parts)) = Len(parts) /\ Len(parts) \in Nat
    OBVIOUS
  <2>2. \A n \in 1..Len(parts) : longer[n] = parts[n] /\ n \in DOMAIN parts
    OBVIOUS
  <2>3. longer[Len(parts) + 1] = x
    OBVIOUS
  <2> QED
    BY <2>1, <2>2, <2>3
<1> HIDE DEF each
<1>5. FlattenSeq(each(longer)) = FlattenSeq(each(parts)) \o (<<"/">> \o x)
  BY <1>2, <1>3, <1>4, FlattenAppend
<1>6. FlattenSeq(each(parts)) \in Seq(Signs)
  BY <1>2, <1>3, FlattenAppend
<1> QED
  BY <1>1, <1>5, <1>6 DEF Joined, each

(* The first n of a list and one more.                                      *)
LEMMA FirstOfList ==
  ASSUME NEW X, NEW list \in Seq(X)
  PROVE  /\ SubSeq(list, 1, 0) = <<>> /\ SubSeq(list, 1, Len(list)) = list
         /\ \A n \in 1..Len(list) :
              /\ SubSeq(list, 1, n - 1) \in Seq(X) /\ list[n] \in X
              /\ SubSeq(list, 1, n) = Append(SubSeq(list, 1, n - 1), list[n])
<1>1. Len(list) \in Nat /\ DOMAIN list = 1..Len(list) /\ \A n \in 1..Len(list) : list[n] \in X
  OBVIOUS
<1>2. SubSeq(list, 1, 0) = <<>>
  BY <1>1
<1>3. SubSeq(list, 1, Len(list)) = list
  BY <1>1
<1>4. ASSUME NEW n \in 1..Len(list)
      PROVE  /\ SubSeq(list, 1, n - 1) \in Seq(X)
             /\ SubSeq(list, 1, n) = Append(SubSeq(list, 1, n - 1), list[n])
  <2>1. SubSeq(list, 1, n - 1) \in Seq(X) /\ Len(SubSeq(list, 1, n - 1)) = n - 1
    BY <1>1
  <2>2. SubSeq(list, 1, n) \in Seq(X) /\ Len(SubSeq(list, 1, n)) = n
    BY <1>1
  <2>3. \A i \in 1..n : SubSeq(list, 1, n)[i] = list[i]
    BY <1>1
  <2>4. \A i \in 1..(n - 1) : SubSeq(list, 1, n - 1)[i] = list[i]
    BY <1>1
  <2> DEFINE p == SubSeq(list, 1, n - 1)
             q == SubSeq(list, 1, n)
             r == Append(p, list[n])
  <2> HIDE DEF p, q
  <2>5. /\ r \in Seq(X) /\ Len(r) = n /\ \A i \in 1..(n - 1) : r[i] = p[i]
        /\ r[n] = list[n]
    BY <1>1, <2>1 DEF p
  <2> HIDE DEF r
  <2>6. \A i \in 1..n : q[i] = r[i]
    <3> TAKE i \in 1..n
    <3>1. i \in 1..(n - 1) \/ i = n
      OBVIOUS
    <3> QED
      BY <2>3, <2>4, <2>5, <3>1 DEF p, q
  <2>7. q = r
    BY <2>2, <2>5, <2>6, SeqEqual DEF q
  <2> QED
    BY <2>1, <2>7 DEF p, q, r
<1> QED
  BY <1>1, <1>2, <1>3, <1>4

(* The text of two paths one after another is their texts one after another.*)
LEMMA JoinedConcat ==
  ASSUME NEW a \in Seq(Seq(Signs)), NEW c \in Seq(Seq(Signs))
  PROVE  Joined(a \o c) = Joined(a) \o Joined(c)
<1> DEFINE first(n) == SubSeq(c, 1, n)
           S == {n \in 0..Len(c) : Joined(a \o first(n)) = Joined(a) \o Joined(first(n))}
<1>1. /\ first(0) = <<>> /\ first(Len(c)) = c /\ Len(c) \in Nat
      /\ \A n \in 1..Len(c) : /\ first(n - 1) \in Seq(Seq(Signs)) /\ c[n] \in Seq(Signs)
                              /\ first(n) = Append(first(n - 1), c[n])
  <2>1. Len(c) \in Nat
    OBVIOUS
  <2> QED
    BY <2>1, FirstOfList
<1> HIDE DEF first
<1>2. Joined(a) \in Seq(Signs) /\ Joined(<<>>) = <<>>
  <2>1. <<>> \in Seq(Signs)
    OBVIOUS
  <2> QED
    BY <2>1, JoinedAppend
<1>3. 0 \in S
  <2>1. a \o <<>> = a /\ Joined(a) \o <<>> = Joined(a)
    BY <1>2
  <2>2. Joined(a \o first(0)) = Joined(a) \o Joined(first(0))
    BY <1>1, <1>2, <2>1, Zenon
  <2>3. 0 \in 0..Len(c)
    BY <1>1
  <2> QED
    BY <2>2, <2>3
<1>4. \A n \in 1..Len(c) : n - 1 \in S => n \in S
  <2> SUFFICES ASSUME NEW n \in 1..Len(c), n - 1 \in S PROVE n \in S
    OBVIOUS
  <2> DEFINE p == first(n - 1)
             x == <<"/">> \o c[n]
  <2>1. p \in Seq(Seq(Signs)) /\ c[n] \in Seq(Signs) /\ first(n) = Append(p, c[n])
    BY <1>1
  <2>2. Joined(a \o p) = Joined(a) \o Joined(p)
    OBVIOUS
  <2> HIDE DEF p, S
  <2>3. a \o first(n) = Append(a \o p, c[n]) /\ a \o p \in Seq(Seq(Signs))
    <3>1. a \o p \in Seq(Seq(Signs))
      BY <2>1
    <3>2. a \o Append(p, c[n]) = Append(a \o p, c[n])
      BY <2>1, ConcatAppend
    <3>3. first(n) = Append(p, c[n])
      BY <2>1
    <3> QED
      BY <3>1, <3>2, <3>3, Zenon
  <2>4. Joined(a \o first(n)) = Joined(a \o p) \o x
    BY <2>1, <2>3, JoinedAppend
  <2>5. Joined(first(n)) = Joined(p) \o x /\ Joined(p) \in Seq(Signs)
    BY <2>1, JoinedAppend
  <2>6. x \in Seq(Signs)
    BY <2>1, TextsAre
  <2> HIDE DEF x
  <2>7. \A u, v, w \in Seq(Signs) : (u \o v) \o w = u \o (v \o w)
    OBVIOUS
  <2>8. (Joined(a) \o Joined(p)) \o x = Joined(a) \o (Joined(p) \o x)
    BY <1>2, <2>5, <2>6, <2>7
  <2>9. Joined(a \o first(n)) = Joined(a) \o Joined(first(n))
    BY <2>2, <2>4, <2>5, <2>8, Zenon
  <2>10. n \in 0..Len(c)
    BY <1>1
  <2> QED
    BY <2>9, <2>10 DEF S
<1>5. Len(c) \in S
  <2> HIDE DEF S
  <2>1. 0..Len(c) \subseteq S
    BY <1>1, <1>3, <1>4, InductionUpTo
  <2>2. Len(c) \in 0..Len(c)
    BY <1>1
  <2> QED
    BY <2>1, <2>2, Zenon
<1> QED
  BY <1>1, <1>5

\* Where the parts of a text stand: part k ends at b[k], and its slash follows
\* the end of the one before it.
Laid(t, parts, b) ==
  /\ b \in [0..Len(parts) -> Nat] /\ b[0] = 0 /\ b[Len(parts)] = Len(t)
  /\ \A k \in 1..Len(parts) :
       /\ b[k] = b[k - 1] + 1 + Len(parts[k]) /\ b[k] <= Len(t)
       /\ t[b[k - 1] + 1] = "/"
       /\ \A j \in 1..Len(parts[k]) : t[b[k - 1] + 1 + j] = parts[k][j]
  /\ \A i \in 1..Len(t) : \E k \in 1..Len(parts) : b[k - 1] < i /\ i <= b[k]

(* One part more.                                                           *)
LEMMA LaidAppend ==
  ASSUME NEW t \in Seq(Signs), NEW parts \in Seq(Seq(Signs)), NEW x \in Seq(Signs),
         NEW b, Laid(t, parts, b)
  PROVE  \E c : Laid(t \o (<<"/">> \o x), Append(parts, x), c)
<1> DEFINE m == Len(t)
           l == Len(x)
           n == Len(parts)
           u == t \o (<<"/">> \o x)
           longer == Append(parts, x)
           c == [k \in 0..(n + 1) |-> IF k = n + 1 THEN m + 1 + l ELSE b[k]]
<1>1. m \in Nat /\ l \in Nat /\ n \in Nat
  OBVIOUS
<1>2. /\ Len(u) = m + 1 + l /\ (\A i \in 1..m : u[i] = t[i])
      /\ u[m + 1] = "/" /\ \A j \in 1..l : u[m + 1 + j] = x[j]
  <2> DEFINE v == <<"/">> \o x
  <2>1. /\ v \in Seq(Signs) /\ Len(v) = 1 + l /\ v[1] = "/"
        /\ \A j \in 1..l : v[1 + j] = x[j]
    <3> DEFINE h == <<"/">>
    <3>1. h \in Seq(Signs) /\ Len(h) = 1 /\ h[1] = "/"
      BY TextsAre, ListOfOne
    <3> HIDE DEF h
    <3>2. h \o x \in Seq(Signs) /\ Both(h \o x, h, x)
      BY <3>1, PlacesOfBoth
    <3>3. Len(h \o x) = 1 + l /\ (h \o x)[1] = "/" /\ \A j \in 1..l : (h \o x)[1 + j] = x[j]
      BY <3>1, <3>2 DEF Both
    <3> QED
      BY <3>2, <3>3 DEF h
  <2> HIDE DEF v
  <2>2. /\ Len(t \o v) = m + 1 + l /\ (\A i \in 1..m : (t \o v)[i] = t[i])
        /\ \A i \in 1..(1 + l) : (t \o v)[m + i] = v[i]
    <3>1. /\ Len(t \o v) = Len(t) + Len(v) /\ (\A i \in 1..Len(t) : (t \o v)[i] = t[i])
          /\ \A i \in 1..Len(v) : (t \o v)[Len(t) + i] = v[i]
      <4>1. v \in Seq(Signs)
        BY <2>1
      <4>2. Both(t \o v, t, v)
        BY <4>1, PlacesOfBoth
      <4> QED
        BY <4>2, Zenon DEF Both
    <3>2. Len(t) + Len(v) = m + 1 + l
      BY <1>1, <2>1
    <3>3. Len(v) = 1 + l /\ Len(t) = m
      BY <2>1
    <3> HIDE DEF m, l
    <3> QED
      BY <3>1, <3>2, <3>3, Zenon
  <2>3. u = t \o v
    BY DEF v
  <2>4. \A j \in 1..l : 1 + j \in 1..(1 + l) /\ m + 1 + j = m + (1 + j)
    BY <1>1
  <2>5. 1 \in 1..(1 + l)
    BY <1>1
  <2> HIDE DEF u, m, l
  <2>6. \A j \in 1..l : u[m + 1 + j] = x[j]
    <3> TAKE j \in 1..l
    <3>1. u[m + (1 + j)] = v[1 + j]
      BY <2>2, <2>3, <2>4
    <3> QED
      BY <2>1, <2>4, <3>1
  <2> QED
    BY <2>1, <2>2, <2>3, <2>5, <2>6
<1>3. /\ Len(longer) = n + 1 /\ longer[n + 1] = x
      /\ \A k \in 1..n : longer[k] = parts[k]
  OBVIOUS
<1>4. /\ b \in [0..n -> Nat] /\ b[0] = 0 /\ b[n] = m
      /\ \A k \in 1..n :
           /\ b[k] = b[k - 1] + 1 + Len(parts[k]) /\ b[k] <= m
           /\ t[b[k - 1] + 1] = "/"
           /\ \A j \in 1..Len(parts[k]) : t[b[k - 1] + 1 + j] = parts[k][j]
      /\ \A i \in 1..m : \E k \in 1..n : b[k - 1] < i /\ i <= b[k]
  BY DEF Laid
<1>5. \A k \in 1..n : Len(parts[k]) \in Nat
  OBVIOUS
<1> HIDE DEF u, longer, m, l, n
<1>6. /\ c[0] = 0 /\ c[n] = m /\ c[n + 1] = m + 1 + l
      /\ \A k \in 1..n : c[k] = b[k] /\ c[k - 1] = b[k - 1]
  BY <1>1, <1>4
<1>7. c \in [0..(n + 1) -> Nat]
  <2>1. ASSUME NEW k \in 0..(n + 1) PROVE (IF k = n + 1 THEN m + 1 + l ELSE b[k]) \in Nat
    <3>1. k = n + 1 \/ k \in 0..n
      BY <1>1
    <3> QED
      BY <1>1, <1>4, <3>1
  <2> QED
    BY <2>1
<1> HIDE DEF c
<1>8. ASSUME NEW k \in 1..(n + 1)
      PROVE  /\ c[k] = c[k - 1] + 1 + Len(longer[k]) /\ c[k] <= Len(u)
             /\ u[c[k - 1] + 1] = "/"
             /\ \A j \in 1..Len(longer[k]) : u[c[k - 1] + 1 + j] = longer[k][j]
  <2>1. CASE k = n + 1
    <3>1. c[k - 1] = m /\ longer[k] = x
      BY <1>1, <1>3, <1>6, <2>1
    <3>2. c[k] = m + 1 + l /\ Len(longer[k]) = l /\ Len(u) = m + 1 + l
      BY <1>2, <1>6, <2>1, <3>1 DEF l
    <3>3. m + 1 + l <= m + 1 + l
      BY <1>1
    <3>4. u[c[k - 1] + 1] = "/" /\ \A j \in 1..Len(longer[k]) : u[c[k - 1] + 1 + j] = longer[k][j]
      BY <1>2, <3>1, <3>2, Zenon
    <3> QED
      BY <3>1, <3>2, <3>3, <3>4, Zenon
  <2>2. CASE k # n + 1
    <3>1. k \in 1..n /\ k - 1 \in 0..n
      BY <1>1, <2>2
    <3>2. /\ b[k] = b[k - 1] + 1 + Len(parts[k]) /\ b[k] <= m /\ b[k - 1] \in Nat
          /\ t[b[k - 1] + 1] = "/" /\ Len(parts[k]) \in Nat
          /\ \A j \in 1..Len(parts[k]) : t[b[k - 1] + 1 + j] = parts[k][j]
      BY <1>4, <1>5, <3>1
    <3>3. b[k - 1] + 1 \in 1..m /\ \A j \in 1..Len(parts[k]) : b[k - 1] + 1 + j \in 1..m
      <4>1. \A p, q, r \in Nat : p = q + 1 + r /\ p <= m =>
              q + 1 \in 1..m /\ \A j \in 1..r : q + 1 + j \in 1..m
        BY <1>1
      <4>2. b[k] \in Nat
        <5>1. k \in 0..n
          BY <3>1
        <5> QED
          BY <1>4, <5>1, Zenon
      <4> QED
        BY <3>2, <4>1, <4>2
    <3>4. c[k] = b[k] /\ c[k - 1] = b[k - 1] /\ longer[k] = parts[k]
      BY <1>3, <1>6, <3>1
    <3>5. c[k] <= Len(u)
      BY <1>1, <1>2, <3>2, <3>4
    <3> QED
      BY <1>2, <3>2, <3>3, <3>4, <3>5
  <2> QED
    BY <2>1, <2>2
<1>9. ASSUME NEW i \in 1..Len(u) PROVE \E k \in 1..(n + 1) : c[k - 1] < i /\ i <= c[k]
  <2>1. CASE i <= m
    <3>1. i \in 1..m
      BY <1>1, <1>2, <2>1
    <3>2. PICK k \in 1..n : b[k - 1] < i /\ i <= b[k]
      BY <1>4, <3>1
    <3>3. k \in 1..(n + 1)
      BY <1>1
    <3> QED
      BY <1>6, <3>2, <3>3
  <2>2. CASE ~(i <= m)
    <3>1. c[(n + 1) - 1] < i /\ i <= c[n + 1] /\ n + 1 \in 1..(n + 1)
      BY <1>1, <1>2, <1>6, <2>2
    <3> QED
      BY <3>1
  <2> QED
    BY <2>1, <2>2
<1>10. Laid(u, longer, c)
  BY <1>2, <1>3, <1>6, <1>7, <1>8, <1>9 DEF Laid
<1> QED
  BY <1>10 DEF u, longer

(* Every text has its parts laid one after another.                         *)
LEMMA JoinedPlaces ==
  ASSUME NEW parts \in Seq(Seq(Signs))
  PROVE  \E b : Laid(Joined(parts), parts, b)
<1> DEFINE first(n) == SubSeq(parts, 1, n)
           LaidOut(p) == \E b : Laid(Joined(p), p, b)
           S == {n \in 0..Len(parts) : LaidOut(first(n))}
<1>1. /\ first(0) = <<>> /\ first(Len(parts)) = parts /\ Len(parts) \in Nat
      /\ \A n \in 1..Len(parts) : /\ first(n - 1) \in Seq(Seq(Signs)) /\ parts[n] \in Seq(Signs)
                                  /\ first(n) = Append(first(n - 1), parts[n])
  <2>1. Len(parts) \in Nat
    OBVIOUS
  <2> QED
    BY <2>1, FirstOfList
<1> HIDE DEF first
<1>2. LaidOut(<<>>)
  <2> DEFINE b == [k \in 0..0 |-> 0]
  <2>1. Joined(<<>>) = <<>>
    BY DEF Joined, FlattenSeq
  <2>2. b \in [0..0 -> Nat] /\ b[0] = 0 /\ Len(<<>>) = 0
    OBVIOUS
  <2> HIDE DEF b
  <2>3. Laid(<<>>, <<>>, b)
    BY <2>2 DEF Laid
  <2> QED
    BY <2>1, <2>3, Zenon
<1>3. 0 \in S
  <2>1. LaidOut(first(0))
    BY <1>1, <1>2, Zenon
  <2>2. 0 \in 0..Len(parts)
    BY <1>1
  <2> QED
    BY <2>1, <2>2
<1>4. \A n \in 1..Len(parts) : n - 1 \in S => n \in S
  <2> SUFFICES ASSUME NEW n \in 1..Len(parts), n - 1 \in S PROVE n \in S
    OBVIOUS
  <2> DEFINE p == first(n - 1)
             x == parts[n]
  <2>1. p \in Seq(Seq(Signs)) /\ x \in Seq(Signs) /\ first(n) = Append(p, x)
    BY <1>1
  <2>2. PICK b : Laid(Joined(p), p, b)
    OBVIOUS
  <2> HIDE DEF p, x, S
  <2>3. Joined(p) \in Seq(Signs) /\ Joined(first(n)) = Joined(p) \o (<<"/">> \o x)
    BY <2>1, JoinedAppend
  <2>4. PICK c : Laid(Joined(p) \o (<<"/">> \o x), Append(p, x), c)
    BY <2>1, <2>2, <2>3, LaidAppend
  <2>5. Laid(Joined(first(n)), first(n), c)
    BY <2>1, <2>3, <2>4, Zenon
  <2>6. LaidOut(first(n))
    BY <2>5, Zenon
  <2>7. n \in 0..Len(parts)
    BY <1>1
  <2> QED
    BY <2>6, <2>7, Zenon DEF S
<1>5. Len(parts) \in S
  <2> HIDE DEF S
  <2>1. 0..Len(parts) \subseteq S
    BY <1>1, <1>3, <1>4, InductionUpTo
  <2>2. Len(parts) \in 0..Len(parts)
    BY <1>1
  <2> QED
    BY <2>1, <2>2
<1>6. LaidOut(first(Len(parts)))
  BY <1>5
<1> QED
  BY <1>1, <1>6, Zenon

\* The l elements of t after the first m.
Onward(u, t, m, l) == Len(u) = l /\ \A i \in 1..l : u[i] = t[m + i]

(* The rest of a list, from a place on.                                     *)
LEMMA RestOf ==
  ASSUME NEW X, NEW t \in Seq(X), NEW m \in Nat, NEW l \in Nat, Len(t) = m + l
  PROVE  SubSeq(t, m + 1, m + l) \in Seq(X) /\ Onward(SubSeq(t, m + 1, m + l), t, m, l)
<1> DEFINE u == SubSeq(t, m + 1, m + l)
<1>1. \A i \in (m + 1)..(m + l) : t[i] \in X
  OBVIOUS
<1>2. /\ m + 1 \in Int /\ m + l \in Int /\ m + l - (m + 1) + 1 = l
      /\ \A i \in 1..l : m + 1 + i - 1 = m + i
      /\ (IF m + 1 <= m + l THEN m + l - (m + 1) + 1 ELSE 0) = l
  OBVIOUS
<1>3. /\ u \in Seq(X)
      /\ Len(u) = IF m + 1 <= m + l THEN m + l - (m + 1) + 1 ELSE 0
      /\ \A i \in 1..(m + l - (m + 1) + 1) : u[i] = t[m + 1 + i - 1]
  BY <1>1, <1>2, SubSeqProperties
<1> HIDE DEF u
<1>4. u \in Seq(X) /\ Len(u) = l /\ \A i \in 1..l : u[i] = t[m + i]
  BY <1>2, <1>3
<1> QED
  BY <1>4 DEF u, Onward

(* A route is found where the directory before it ends: at every slash of  *)
(* the directory a part begins that does not begin like the route.         *)
LEMMA FirstPlace ==
  ASSUME NEW base \in Seq(Seq(Letters)), NEW own \in Seq(Seq(Letters)), own # <<>>,
         \A i \in 1..Len(base) : ~IsPrefix(own[1], base[i])
  PROVE  LET path == Joined(base) \o Joined(own)
         IN  /\ Places(Joined(own), path) # {}
             /\ UpTo(Joined(own), path) = Joined(base)
<1> DEFINE s == Joined(base)
           r == Joined(own)
           t == s \o r
           m == Len(s)
           l == Len(r)
           head == own[1]
<1>1. base \in Seq(Seq(Signs)) /\ own \in Seq(Seq(Signs)) /\ head \in Seq(Letters)
  <2>1. head \in Seq(Letters)
    OBVIOUS
  <2> QED
    BY <2>1, TextsAre
<1>2. s \in Seq(Signs) /\ r \in Seq(Signs)
  <2>1. <<>> \in Seq(Signs)
    OBVIOUS
  <2> QED
    BY <1>1, <2>1, JoinedAppend
<1>3. PICK b : Laid(s, base, b)
  BY <1>1, JoinedPlaces
<1>4. PICK c : Laid(r, own, c)
  BY <1>1, JoinedPlaces
<1>5. /\ Len(own) \in Nat /\ 1 \in 1..Len(own) /\ Len(head) \in Nat /\ Len(base) \in Nat
      /\ \A k \in 1..Len(base) : base[k] \in Seq(Letters) /\ Len(base[k]) \in Nat
  <2>1. /\ Len(own) \in Nat /\ Len(own) # 0 /\ Len(base) \in Nat
        /\ \A k \in 1..Len(base) : base[k] \in Seq(Letters) /\ Len(base[k]) \in Nat
    OBVIOUS
  <2> QED
    BY <1>1, <2>1
<1> HIDE DEF s, r
<1>6. m \in Nat /\ l \in Nat /\ t \in Seq(Signs) /\ Both(t, s, r)
  BY <1>2, PlacesOfBoth
<1> HIDE DEF t, m, l, head
<1>7. /\ Len(t) = m + l
      /\ \A i \in 1..m : t[i] = s[i]
      /\ \A i \in 1..l : t[m + i] = r[i]
  BY <1>6 DEF Both, m, l
<1>8. r[1] = "/" /\ 1 + Len(head) <= l /\ \A j \in 1..Len(head) : r[1 + j] = head[j]
  <2>1. /\ c[0] = 0 /\ c[1] = c[1 - 1] + 1 + Len(own[1]) /\ c[1] <= Len(r)
        /\ r[c[1 - 1] + 1] = "/"
        /\ \A j \in 1..Len(own[1]) : r[c[1 - 1] + 1 + j] = own[1][j]
    BY <1>4, <1>5, Zenon DEF Laid
  <2>2. 1 - 1 = 0 /\ 0 + 1 = 1
    OBVIOUS
  <2> QED
    BY <1>5, <2>1, <2>2 DEF head, l
<1>9. /\ b[0] = 0 /\ b[Len(base)] = m /\ b \in [0..Len(base) -> Nat]
      /\ \A k \in 1..Len(base) :
           /\ b[k] = b[k - 1] + 1 + Len(base[k]) /\ b[k] <= m
           /\ s[b[k - 1] + 1] = "/"
           /\ \A j \in 1..Len(base[k]) : s[b[k - 1] + 1 + j] = base[k][j]
      /\ \A i \in 1..m : \E k \in 1..Len(base) : b[k - 1] < i /\ i <= b[k]
  BY <1>3, Zenon DEF Laid, m
\* A slash follows each part of the directory.
<1>10. ASSUME NEW k \in 1..Len(base) PROVE t[b[k] + 1] = "/"
  <2>1. CASE k = Len(base)
    <3>1. 1 \in 1..l /\ b[k] = m
      BY <1>5, <1>6, <1>8, <1>9, <2>1
    <3> QED
      BY <1>7, <1>8, <3>1
  <2>2. CASE k # Len(base)
    <3>1. k + 1 \in 1..Len(base) /\ (k + 1) - 1 = k /\ k \in 0..Len(base) /\ k + 1 \in 0..Len(base)
      BY <1>5, <2>2
    <3>2. s[b[k] + 1] = "/" /\ b[k + 1] = b[k] + 1 + Len(base[k + 1]) /\ b[k + 1] <= m
      BY <1>9, <3>1
    <3>3. b[k] \in Nat /\ Len(base[k + 1]) \in Nat
      BY <1>5, <1>9, <3>1
    <3>4. b[k] + 1 \in 1..m
      <4>1. \A x, y, z \in Nat : y = x + 1 + z /\ y <= m => x + 1 \in 1..m
        BY <1>6
      <4>2. b[k + 1] \in Nat
        BY <1>9, <3>1
      <4> QED
        BY <3>2, <3>3, <4>1, <4>2
    <3> QED
      BY <1>7, <3>2, <3>4
  <2> QED
    BY <2>1, <2>2
<1>11. m + 1 \in Places(r, t)
  <2>1. m + 1 \in 1..Len(t) /\ (m + 1) + l - 1 = m + l /\ l \in Nat
    BY <1>5, <1>6, <1>7, <1>8
  <2>2. SubSeq(t, m + 1, m + l) = r
    <3> DEFINE u == SubSeq(t, m + 1, m + l)
    <3>1. u \in Seq(Signs) /\ Len(u) = l /\ \A i \in 1..l : u[i] = t[m + i]
      <4>1. u \in Seq(Signs) /\ Onward(u, t, m, l)
        BY <1>6, <1>7, RestOf
      <4> HIDE DEF u
      <4> QED
        BY <4>1 DEF Onward
    <3> HIDE DEF u
    <3>2. \A i \in 1..l : u[i] = r[i]
      BY <1>7, <3>1
    <3>3. u = r
      BY <1>2, <3>1, <3>2, SeqEqual DEF l
    <3> QED
      BY <3>3 DEF u
  <2> QED
    BY <1>6, <1>7, <2>1, <2>2 DEF Places, l
<1>12. ASSUME NEW i \in Places(r, t), i <= m PROVE FALSE
  <2>1. /\ i \in 1..Len(t) /\ i + l - 1 <= Len(t) /\ SubSeq(t, i, i + l - 1) = r
    BY DEF Places, l
  <2>2. \A j \in 1..l : t[i + j - 1] = r[j]
    BY <1>6, <1>7, <2>1
  <2>3. i \in 1..m
    BY <1>6, <1>7, <1>12, <2>1
  <2>4. PICK k \in 1..Len(base) : b[k - 1] < i /\ i <= b[k]
    BY <1>9, <2>3
  <2> DEFINE p == b[k - 1]
             w == Len(base[k])
             q == i - (p + 1)
  <2>5. /\ k - 1 \in 0..Len(base) /\ k \in 0..Len(base)
        /\ p \in Nat /\ w \in Nat /\ base[k] \in Seq(Letters)
    <3>1. k - 1 \in 0..Len(base) /\ k \in 0..Len(base)
      BY <1>5
    <3> QED
      BY <1>5, <1>9, <3>1
  <2>6. /\ b[k] = p + 1 + w /\ b[k] <= m
        /\ \A j \in 1..w : s[p + 1 + j] = base[k][j]
    BY <1>9
  <2> HIDE DEF p, w
  <2>7. t[i] = "/"
    <3>1. 1 \in 1..l /\ i + 1 - 1 = i
      BY <1>5, <1>6, <1>8, <2>3
    <3> QED
      BY <1>8, <2>2, <3>1
  <2>8. q = 0
    <3>1. q \in Nat /\ q <= w /\ i = p + 1 + q
      <4>1. p < i /\ i <= p + 1 + w
        BY <2>4, <2>6 DEF p
      <4> QED
        BY <2>3, <2>5, <4>1
    <3> HIDE DEF q
    <3>2. ASSUME q # 0 PROVE FALSE
      <4>1. q \in 1..w
        BY <2>5, <3>1, <3>2
      <4>2. t[i] = base[k][q]
        BY <1>7, <2>3, <2>6, <3>1, <4>1
      <4>3. base[k][q] \in Letters
        BY <2>5, <4>1 DEF w
      <4> QED
        BY <2>7, <4>2, <4>3 DEF Letters
    <3> QED
      BY <3>2
  <2>9. i = p + 1
    BY <2>3, <2>5, <2>8
  <2>10. \A j \in 1..Len(head) : t[p + 1 + j] = head[j]
    <3> TAKE j \in 1..Len(head)
    <3>1. 1 + j \in 1..l /\ i + (1 + j) - 1 = p + 1 + j
      BY <1>5, <1>6, <1>8, <2>5, <2>9
    <3> QED
      BY <1>8, <2>2, <3>1
  <2>11. CASE Len(head) <= w
    <3>1. \A j \in 1..Len(head) : base[k][j] = head[j]
      <4> TAKE j \in 1..Len(head)
      <4>1. j \in 1..w /\ p + 1 + j \in 1..m
        BY <1>5, <1>6, <2>5, <2>6, <2>11
      <4> QED
        BY <1>7, <2>6, <2>10, <4>1
    <3>2. SubSeq(base[k], 1, Len(head)) = SubSeq(head, 1, Len(head))
      <4> DEFINE u == SubSeq(base[k], 1, Len(head))
                 v == SubSeq(head, 1, Len(head))
      <4>1. /\ u \in Seq(Letters) /\ Len(u) = Len(head)
            /\ \A j \in 1..Len(head) : u[j] = base[k][j]
        BY <1>5, <2>5, <2>11 DEF w
      <4>2. /\ v \in Seq(Letters) /\ Len(v) = Len(head)
            /\ \A j \in 1..Len(head) : v[j] = head[j]
        BY <1>1, <1>5
      <4> HIDE DEF u, v
      <4>3. u = v
        BY <3>1, <4>1, <4>2, SeqEqual
      <4> QED
        BY <4>3 DEF u, v
    <3>3. IsPrefix(head, base[k])
      BY <2>11, <3>2 DEF IsPrefix, w
    <3> QED
      BY <3>3 DEF head
  <2>12. CASE ~(Len(head) <= w)
    <3>1. 1 + w \in 1..Len(head) /\ p + 1 + (1 + w) = b[k] + 1
      <4>1. p \in Nat /\ w \in Nat /\ Len(head) \in Nat
        BY <1>5, <2>5, <2>6
      <4>2. b[k] = p + 1 + w
        BY <2>6 DEF p
      <4> HIDE DEF p, w, head
      <4> QED
        BY <2>12, <4>1, <4>2
    <3>2. t[b[k] + 1] = head[1 + w]
      BY <2>10, <3>1
    <3>3. head[1 + w] \in Letters
      BY <1>1, <3>1
    <3> QED
      BY <1>10, <3>2, <3>3 DEF Letters
  <2> QED
    BY <2>11, <2>12
<1>13. Min(Places(r, t)) = m + 1
  <2>1. Places(r, t) \in SUBSET Int /\ Places(r, t) \subseteq 1..Len(t)
    BY <1>6, <1>7 DEF Places
  <2>2. \A i \in Places(r, t) : m + 1 <= i
    <3> TAKE i \in Places(r, t)
    <3>1. i \in Int /\ m \in Int /\ ~(i <= m)
      BY <1>6, <1>12, <2>1
    <3> QED
      BY <3>1
  <2> QED
    BY <1>11, <2>1, <2>2, LeastIs
<1>14. SubSeq(t, 1, m) = s
  <2> DEFINE u == SubSeq(t, 1, m)
  <2>1. u \in Seq(Signs) /\ Len(u) = m /\ \A i \in 1..m : u[i] = t[i]
    BY <1>6, <1>7
  <2> HIDE DEF u
  <2>2. u = s
    BY <1>2, <1>7, <2>1, SeqEqual DEF m
  <2> QED
    BY <2>2 DEF u
<1>15. UpTo(r, t) = s
  <2>1. (m + 1) - 1 = m
    BY <1>6
  <2> QED
    BY <1>13, <1>14, <2>1, Zenon DEF UpTo
<1> QED
  BY <1>11, <1>15 DEF t, s, r
(* What is asked for is taken one by one,                                   *)
LEMMA FoldInclude ==
  ASSUME NEW k \in Nat, NEW es, DOMAIN es = 1..k, NEW A, NEW base \in A,
         NEW step \in [1..k -> [A -> A]],
         \A n \in 1..k : \A b \in A : step[n][b] = Include(b, es[n])
  PROVE  Lead(FoldLeft(Include, base, es), k, A, base, step)
<1> DEFINE Turn(f, s) == IF s = {} THEN base ELSE Include(f[s \ {Max(s)}], es[Max(s)])
           Fills(f) == f = [s \in SUBSET (1..k) |-> Turn(f, s)]
<1>1. PICK f \in [SUBSET (1..k) -> A] : Folds(f, k, base, step)
  BY FoldsExist
<1>2. \A s \in SUBSET (1..k) : s # {} => Max(s) \in 1..k /\ s \ {Max(s)} \in SUBSET (1..k)
  BY GreatestNumber
<1>3. \A s \in SUBSET (1..k) : f[s] = Turn(f, s)
  BY <1>1, <1>2, Zenon DEF Folds, Turned
<1>4. f = [s \in SUBSET (1..k) |-> f[s]]
  OBVIOUS
<1>5. Fills(f)
  BY <1>3, <1>4, Zenon
<1> DEFINE iter == CHOOSE h : Fills(h)
<1>6. Fills(iter)
  BY <1>5, Zenon
<1>7. FoldLeft(Include, base, es) = iter[1..k]
  BY DEF FoldLeft, MapThenFoldSet
<1> HIDE DEF iter
<1>8. \A s \in SUBSET (1..k) : iter[s] = Turn(iter, s)
  BY <1>6, Zenon
<1>9. Turns(iter, k, base, A, step)
  BY <1>2, <1>8, Zenon DEF Turns
<1> HIDE DEF Turn, Fills
<1>10. Lead(iter[1..k], k, A, base, step)
  BY <1>9, FoldLeads
<1> QED
  BY <1>7, <1>10, Zenon

(* so are the parts of a route,                                             *)
LEMMA FoldKeepPart ==
  ASSUME NEW k \in Nat, NEW es, DOMAIN es = 1..k, NEW A, NEW base \in A,
         NEW step \in [1..k -> [A -> A]],
         \A n \in 1..k : \A b \in A : step[n][b] = KeepPart(b, es[n])
  PROVE  Lead(FoldLeft(KeepPart, base, es), k, A, base, step)
<1> DEFINE Turn(f, s) == IF s = {} THEN base ELSE KeepPart(f[s \ {Max(s)}], es[Max(s)])
           Fills(f) == f = [s \in SUBSET (1..k) |-> Turn(f, s)]
<1>1. PICK f \in [SUBSET (1..k) -> A] : Folds(f, k, base, step)
  BY FoldsExist
<1>2. \A s \in SUBSET (1..k) : s # {} => Max(s) \in 1..k /\ s \ {Max(s)} \in SUBSET (1..k)
  BY GreatestNumber
<1>3. \A s \in SUBSET (1..k) : f[s] = Turn(f, s)
  BY <1>1, <1>2, Zenon DEF Folds, Turned
<1>4. f = [s \in SUBSET (1..k) |-> f[s]]
  OBVIOUS
<1>5. Fills(f)
  BY <1>3, <1>4, Zenon
<1> DEFINE iter == CHOOSE h : Fills(h)
<1>6. Fills(iter)
  BY <1>5, Zenon
<1>7. FoldLeft(KeepPart, base, es) = iter[1..k]
  BY DEF FoldLeft, MapThenFoldSet
<1> HIDE DEF iter
<1>8. \A s \in SUBSET (1..k) : iter[s] = Turn(iter, s)
  BY <1>6, Zenon
<1>9. Turns(iter, k, base, A, step)
  BY <1>2, <1>8, Zenon DEF Turns
<1> HIDE DEF Turn, Fills
<1>10. Lead(iter[1..k], k, A, base, step)
  BY <1>9, FoldLeads
<1> QED
  BY <1>7, <1>10, Zenon

(* the routes of a tree,                                                    *)
LEMMA FoldKeepRoute ==
  ASSUME NEW k \in Nat, NEW es, DOMAIN es = 1..k, NEW A, NEW base \in A,
         NEW step \in [1..k -> [A -> A]],
         \A n \in 1..k : \A b \in A : step[n][b] = KeepRoute(b, es[n])
  PROVE  Lead(FoldLeft(KeepRoute, base, es), k, A, base, step)
<1> DEFINE Turn(f, s) == IF s = {} THEN base ELSE KeepRoute(f[s \ {Max(s)}], es[Max(s)])
           Fills(f) == f = [s \in SUBSET (1..k) |-> Turn(f, s)]
<1>1. PICK f \in [SUBSET (1..k) -> A] : Folds(f, k, base, step)
  BY FoldsExist
<1>2. \A s \in SUBSET (1..k) : s # {} => Max(s) \in 1..k /\ s \ {Max(s)} \in SUBSET (1..k)
  BY GreatestNumber
<1>3. \A s \in SUBSET (1..k) : f[s] = Turn(f, s)
  BY <1>1, <1>2, Zenon DEF Folds, Turned
<1>4. f = [s \in SUBSET (1..k) |-> f[s]]
  OBVIOUS
<1>5. Fills(f)
  BY <1>3, <1>4, Zenon
<1> DEFINE iter == CHOOSE h : Fills(h)
<1>6. Fills(iter)
  BY <1>5, Zenon
<1>7. FoldLeft(KeepRoute, base, es) = iter[1..k]
  BY DEF FoldLeft, MapThenFoldSet
<1> HIDE DEF iter
<1>8. \A s \in SUBSET (1..k) : iter[s] = Turn(iter, s)
  BY <1>6, Zenon
<1>9. Turns(iter, k, base, A, step)
  BY <1>2, <1>8, Zenon DEF Turns
<1> HIDE DEF Turn, Fills
<1>10. Lead(iter[1..k], k, A, base, step)
  BY <1>9, FoldLeads
<1> QED
  BY <1>7, <1>10, Zenon

(* and the links of a page.                                                 *)
LEMMA FoldAddHref ==
  ASSUME NEW d, NEW k \in Nat, DOMAIN d.links = 1..k, NEW A, <<>> \in A,
         NEW step \in [1..k -> [A -> A]],
         \A n \in 1..k : \A b \in A : step[n][b] = AddHref(d, b, d.links[n])
  PROVE  Lead(LinkAddresses(d), k, A, <<>>, step)
<1> DEFINE Turn(f, s) == IF s = {} THEN <<>> ELSE AddHref(d, f[s \ {Max(s)}], d.links[Max(s)])
           Fills(f) == f = [s \in SUBSET (1..k) |-> Turn(f, s)]
<1>1. PICK f \in [SUBSET (1..k) -> A] : Folds(f, k, <<>>, step)
  BY FoldsExist
<1>2. \A s \in SUBSET (1..k) : s # {} => Max(s) \in 1..k /\ s \ {Max(s)} \in SUBSET (1..k)
  BY GreatestNumber
<1>3. \A s \in SUBSET (1..k) : f[s] = Turn(f, s)
  BY <1>1, <1>2, Zenon DEF Folds, Turned
<1>4. f = [s \in SUBSET (1..k) |-> f[s]]
  OBVIOUS
<1>5. Fills(f)
  BY <1>3, <1>4, Zenon
<1> DEFINE iter == CHOOSE h : Fills(h)
<1>6. Fills(iter)
  BY <1>5, Zenon
<1>7. LinkAddresses(d) = iter[1..k]
  BY DEF LinkAddresses, FoldLeft, MapThenFoldSet
<1> HIDE DEF iter
<1>8. \A s \in SUBSET (1..k) : iter[s] = Turn(iter, s)
  BY <1>6, Zenon
<1>9. Turns(iter, k, <<>>, A, step)
  BY <1>2, <1>8, Zenon DEF Turns
<1> HIDE DEF Turn, Fills
<1>10. Lead(iter[1..k], k, A, <<>>, step)
  BY <1>9, FoldLeads
<1> QED
  BY <1>7, <1>10, Zenon

-----------------------------------------------------------------------------
(* What a page of a Next.js site leads to.                                 *)

\* The parts of a route.
RouteParts == {Mark} \cup Seq(STRING)

(* The parts of a route that name something are a list.                     *)
LEMMA PartsListed ==
  ASSUME NEW route \in Seq(RouteParts)
  PROVE  PartsOf(route) \in Seq(RouteParts)
<1> DEFINE k == Len(route)
           A == Seq(RouteParts)
           step == [n \in 1..k |-> [b \in A |-> KeepPart(b, route[n])]]
<1>1. k \in Nat /\ DOMAIN route = 1..k /\ <<>> \in A
  OBVIOUS
<1>2. ASSUME NEW n \in 1..k, NEW b \in A PROVE KeepPart(b, route[n]) \in A
  <2>1. Append(b, route[n]) \in A
    OBVIOUS
  <2> QED
    BY <2>1 DEF KeepPart
<1>3. step \in [1..k -> [A -> A]] /\ \A n \in 1..k : \A b \in A : step[n][b] = KeepPart(b, route[n])
  BY <1>2
<1> HIDE DEF k, A, step
<1>4. Lead(FoldLeft(KeepPart, <<>>, route), k, A, <<>>, step)
  BY <1>1, <1>3, FoldKeepPart
<1>5. FoldLeft(KeepPart, <<>>, route) \in A
  BY <1>1, <1>4 DEF Lead
<1> QED
  BY <1>5 DEF PartsOf, A

(* Each route of the tree that is kept names something.                     *)
LEMMA RoutesListed ==
  ASSUME NEW X, NEW routes \in Seq(X)
  PROVE  Informative(routes) \in Seq({r \in X : PartsOf(r) # <<>>})
<1> DEFINE k == Len(routes)
           Y == {r \in X : PartsOf(r) # <<>>}
           A == Seq(Y)
           step == [n \in 1..k |-> [b \in A |-> KeepRoute(b, routes[n])]]
<1>1. k \in Nat /\ DOMAIN routes = 1..k /\ <<>> \in A /\ \A n \in 1..k : routes[n] \in X
  OBVIOUS
<1>2. ASSUME NEW n \in 1..k, NEW b \in A PROVE KeepRoute(b, routes[n]) \in A
  <2>1. CASE PartsOf(routes[n]) = <<>>
    BY <2>1 DEF KeepRoute
  <2>2. CASE PartsOf(routes[n]) # <<>>
    <3>1. routes[n] \in Y
      BY <1>1, <2>2
    <3> HIDE DEF Y
    <3>2. Append(b, routes[n]) \in A
      BY <3>1
    <3> QED
      BY <2>2, <3>2 DEF KeepRoute
  <2> QED
    BY <2>1, <2>2
<1>3. /\ step \in [1..k -> [A -> A]]
      /\ \A n \in 1..k : \A b \in A : step[n][b] = KeepRoute(b, routes[n])
  BY <1>2
<1> HIDE DEF k, A, step
<1>4. Lead(FoldLeft(KeepRoute, <<>>, routes), k, A, <<>>, step)
  BY <1>1, <1>3, FoldKeepRoute
<1>5. FoldLeft(KeepRoute, <<>>, routes) \in A
  BY <1>1, <1>4 DEF Lead
<1> QED
  BY <1>5 DEF Informative, A

\* An address of a page a link of the document leads to, on its host.
SameHost(d) == {<<l.origin, PathName(l.path), "">> : l \in {h \in Href : h.origin[2] = d.origin[2]}}

(* The links that are followed lead to the document's host.                 *)
LEMMA LinksListed ==
  ASSUME NEW d, d.links \in Seq(Href)
  PROVE  LinkAddresses(d) \in Seq(SameHost(d))
<1> DEFINE links == d.links
           k == Len(links)
           A == Seq(SameHost(d))
           step == [n \in 1..k |-> [b \in A |-> AddHref(d, b, links[n])]]
<1>1. k \in Nat /\ DOMAIN links = 1..k /\ <<>> \in A /\ \A n \in 1..k : links[n] \in Href
  OBVIOUS
<1>2. ASSUME NEW n \in 1..k, NEW b \in A PROVE AddHref(d, b, links[n]) \in A
  <2> DEFINE l == links[n]
             address == <<l.origin, PathName(l.path), "">>
  <2>1. CASE l.unusable \/ ~l.parses \/ l.origin[2] # d.origin[2] \/ l.isAsset
    BY <2>1 DEF AddHref
  <2>2. CASE ~(l.unusable \/ ~l.parses \/ l.origin[2] # d.origin[2] \/ l.isAsset)
    <3>1. AddHref(d, b, l) = Append(b, address)
      BY <2>2, Zenon DEF AddHref
    <3>2. l \in {h \in Href : h.origin[2] = d.origin[2]}
      BY <1>1, <2>2
    <3>3. address \in SameHost(d)
      BY <3>2, Zenon DEF SameHost
    <3> HIDE DEF address
    <3>4. Append(b, address) \in A
      BY <3>3
    <3> QED
      BY <3>1, <3>4
  <2> QED
    BY <2>1, <2>2
<1>3. /\ step \in [1..k -> [A -> A]]
      /\ \A n \in 1..k : \A b \in A : step[n][b] = AddHref(d, b, links[n])
  BY <1>2
<1> HIDE DEF k, A, step
<1>4. Lead(LinkAddresses(d), k, A, <<>>, step)
  BY <1>1, <1>3, FoldAddHref
<1>5. LinkAddresses(d) \in A
  BY <1>1, <1>4 DEF Lead
<1> QED
  BY <1>5 DEF A

(* A list of what is asked for, each once.                                  *)
LEMMA ProbesDeduped ==
  ASSUME NEW list, IsList(list)
  PROVE  /\ ToSet(DedupeProbes(list)) = ToSet(list)
         /\ Len(DedupeProbes(list)) = Cardinality(ToSet(list))
<1>0. PICK X : list \in Seq(X)
  BY Zenon DEF IsList
<1> DEFINE k == Len(list)
           A == {q \in Seq(X) : IsFiniteSet(ToSet(q)) /\ Cardinality(ToSet(q)) = Len(q)}
           step == [n \in 1..k |-> [q \in A |-> Include(q, list[n])]]
<1>1. k \in Nat /\ DOMAIN list = 1..k /\ \A n \in 1..k : list[n] \in X
  BY <1>0
<1>2. <<>> \in A
  <2>1. <<>> \in Seq(X) /\ Len(<<>>) = 0 /\ ToSet(<<>>) = {}
    BY DEF ToSet
  <2> QED
    BY <2>1, FS_EmptySet
<1>3. ASSUME NEW n \in 1..k, NEW q \in A PROVE Include(q, list[n]) \in A
  <2> DEFINE x == list[n]
  <2>1. x \in X /\ q \in Seq(X) /\ IsFiniteSet(ToSet(q)) /\ Cardinality(ToSet(q)) = Len(q)
    BY <1>1
  <2> HIDE DEF x
  <2>2. CASE x \in ToSet(q)
    <3>1. Include(q, x) = q
      BY <2>2 DEF Include
    <3> QED
      BY <3>1, Zenon DEF x
  <2>3. CASE x \notin ToSet(q)
    <3>1. Include(q, x) = Append(q, x)
      BY <2>3 DEF Include
    <3>2. /\ Append(q, x) \in Seq(X) /\ Len(Append(q, x)) = Len(q) + 1
          /\ ToSet(Append(q, x)) = ToSet(q) \cup {x}
      BY <2>1, AppendedElements
    <3>3. /\ IsFiniteSet(ToSet(q) \cup {x})
          /\ Cardinality(ToSet(q) \cup {x}) = Cardinality(ToSet(q)) + 1
      BY <2>1, <2>3, FS_AddElement
    <3> DEFINE longer == Append(q, x)
    <3> HIDE DEF longer
    <3>4. /\ longer \in Seq(X)
          /\ IsFiniteSet(ToSet(longer)) /\ Cardinality(ToSet(longer)) = Len(longer)
      <4>1. /\ longer \in Seq(X) /\ Len(longer) = Len(q) + 1
            /\ ToSet(longer) = ToSet(q) \cup {x}
        BY <3>2 DEF longer
      <4> QED
        BY <2>1, <3>3, <4>1
    <3>5. longer \in A
      BY <3>4
    <3> HIDE DEF A
    <3> QED
      BY <3>1, <3>5 DEF longer, x
  <2> QED
    BY <2>2, <2>3 DEF x
<1>4. step \in [1..k -> [A -> A]] /\ \A n \in 1..k : \A q \in A : step[n][q] = Include(q, list[n])
  BY <1>3
<1>a. \A q \in A : q \in Seq(X) /\ Cardinality(ToSet(q)) = Len(q)
  OBVIOUS
<1> HIDE DEF k, A, step
<1>5. Lead(FoldLeft(Include, <<>>, list), k, A, <<>>, step)
  BY <1>1, <1>2, <1>4, FoldInclude
<1>6. PICK g \in [0..k -> A] : Steps(g, k, <<>>, step) /\ FoldLeft(Include, <<>>, list) = g[k]
  BY <1>5 DEF Lead
<1> DEFINE S == {n \in 0..k : ToSet(g[n]) = {list[j] : j \in 1..n}}
<1>7. 0 \in S
  <2>1. g[0] = <<>> /\ 1..0 = {} /\ ToSet(<<>>) = {}
    BY <1>6 DEF Steps, ToSet
  <2> QED
    BY <1>1, <2>1
<1>8. \A n \in 1..k : n - 1 \in S => n \in S
  <2> SUFFICES ASSUME NEW n \in 1..k, n - 1 \in S PROVE n \in S
    OBVIOUS
  <2>1. n - 1 \in 0..k /\ n \in 0..k /\ 1..n = 1..(n - 1) \cup {n}
    BY <1>1
  <2>2. g[n - 1] \in A /\ g[n - 1] \in Seq(X)
    BY <1>a, <2>1
  <2>3. g[n] = Include(g[n - 1], list[n])
    BY <1>4, <1>6, <2>2, Zenon DEF Steps
  <2>4. ToSet(g[n]) = ToSet(g[n - 1]) \cup {list[n]}
    BY <1>1, <2>2, <2>3, Included
  <2>5. ToSet(g[n - 1]) = {list[j] : j \in 1..(n - 1)}
    OBVIOUS
  <2> QED
    BY <2>1, <2>4, <2>5
<1>9. k \in S
  <2> HIDE DEF S
  <2>1. 0..k \subseteq S
    BY <1>1, <1>7, <1>8, InductionUpTo
  <2>2. k \in 0..k
    BY <1>1
  <2> QED
    BY <2>1, <2>2
<1>10. ToSet(g[k]) = {list[j] : j \in 1..k} /\ g[k] \in A
  BY <1>1, <1>9
<1>11. ToSet(list) = {list[j] : j \in 1..k}
  BY <1>1 DEF ToSet
<1>12. Len(g[k]) = Cardinality(ToSet(g[k]))
  BY <1>a, <1>10
<1> QED
  BY <1>6, <1>10, <1>11, <1>12, Zenon DEF DedupeProbes

(* The directory a page is deployed under is the one found.                 *)
LEMMA BaseFound ==
  ASSUME NEW d \in Served, NEW n \in 0..Len(d.path), Deployed(d, n)
  PROVE  InferBasePath(PathName(d.path), d.routes) = Joined(SubSeq(d.path, 1, n))
<1> DEFINE path == d.path
           base == SubSeq(path, 1, n)
           own == PartsOf(Informative(d.routes)[1])
<1>1. path \in Seq(Seq(Letters)) /\ d.routes \in Seq(Seq(RouteParts))
  BY NextAssumption DEF NextAssumption, Letters, RouteParts
<1>2. /\ Informative(d.routes) # <<>> /\ path = base \o own
      /\ \A i \in 1..n : ~IsPrefix(own[1], path[i])
  BY DEF Deployed
<1>3. own \in Seq(RouteParts) /\ own # <<>>
  <2> DEFINE Y == {r \in Seq(RouteParts) : PartsOf(r) # <<>>}
             first == Informative(d.routes)[1]
  <2>1. Informative(d.routes) \in Seq(Y)
    BY <1>1, RoutesListed
  <2>2. \A list \in Seq(Y) : list # <<>> => list[1] \in Y
    OBVIOUS
  <2>3. first \in Y
    BY <1>2, <2>1, <2>2
  <2> HIDE DEF first
  <2>4. first \in Seq(RouteParts) /\ PartsOf(first) # <<>>
    BY <2>3
  <2> QED
    BY <2>4, PartsListed DEF first
<1> HIDE DEF own
<1>4. base \in Seq(Seq(Letters)) /\ Len(base) = n /\ \A i \in 1..n : base[i] = path[i]
  BY <1>1
<1> HIDE DEF base
<1>5. own \in Seq(Seq(Letters))
  <2> DEFINE X == Seq(Letters) \cup RouteParts
  <2>1. base \in Seq(X) /\ own \in Seq(X)
    BY <1>3, <1>4
  <2> HIDE DEF X
  <2>2. Both(path, base, own)
    BY <1>2, <2>1, PlacesOfBoth
  <2>3. /\ Len(path) = n + Len(own) /\ Len(own) \in Nat /\ Len(path) \in Nat
        /\ \A i \in 1..Len(own) : path[n + i] = own[i]
    BY <1>1, <1>3, <1>4, <2>2 DEF Both
  <2>4. \A i \in 1..Len(own) : n + i \in 1..Len(path)
    BY <2>3
  <2>5. \A i \in 1..Len(own) : own[i] \in Seq(Letters)
    BY <1>1, <2>3, <2>4
  <2>6. own \in [1..Len(own) -> Seq(Letters)]
    BY <1>3, <2>5
  <2> QED
    BY <2>3, <2>6, SeqDef
<1>6. PathName(path) = Joined(base) \o Joined(own)
  <2>1. base \in Seq(Seq(Signs)) /\ own \in Seq(Seq(Signs))
    BY <1>4, <1>5, TextsAre
  <2>2. path # <<>>
    <3>1. Both(path, base, own)
      BY <1>2, <2>1, PlacesOfBoth
    <3>2. Len(path) = n + Len(own) /\ Len(own) \in Nat /\ Len(own) # 0
      BY <1>3, <1>4, <1>5, <3>1 DEF Both
    <3> QED
      BY <3>2
  <2> QED
    BY <1>2, <2>1, <2>2, JoinedConcat DEF PathName
<1>7. Places(Joined(own), PathName(path)) # {} /\ UpTo(Joined(own), PathName(path)) = Joined(base)
  <2>1. \A i \in 1..Len(base) : ~IsPrefix(own[1], base[i])
    BY <1>2, <1>4
  <2> QED
    BY <1>3, <1>4, <1>5, <1>6, <2>1, FirstPlace
<1>8. InferBasePath(PathName(path), d.routes) = UpTo(Joined(own), PathName(path))
  BY <1>2, <1>7 DEF InferBasePath, own
<1> QED
  BY <1>7, <1>8 DEF base

\* The address of a route under the directory found.
RouteAt(d, r) ==
  <<d.origin, InferBasePath(PathName(d.path), d.routes) \o Joined(PartsOf(r)), "">>

(* Every route that names something has an address.                         *)
LEMMA RoutesAddressed ==
  ASSUME NEW d \in Served
  PROVE  /\ IsList(RouteAddresses(d))
         /\ ToSet(RouteAddresses(d)) = {RouteAt(d, r) : r \in ToSet(Informative(d.routes))}
<1> DEFINE routes == Informative(d.routes)
           f == RouteAddresses(d)
           Y == {r \in Seq(RouteParts) : PartsOf(r) # <<>>}
<1>1. routes \in Seq(Y)
  <2>1. d.routes \in Seq(Seq(RouteParts))
    BY NextAssumption DEF NextAssumption, RouteParts
  <2> QED
    BY <2>1, RoutesListed
<1>2. f = [n \in DOMAIN routes |-> RouteAt(d, routes[n])]
  BY DEF RouteAddresses, RouteAt
<1> HIDE DEF routes, f, Y
<1>3. /\ DOMAIN f = DOMAIN routes /\ f = [n \in DOMAIN f |-> f[n]]
      /\ \A n \in DOMAIN routes : f[n] = RouteAt(d, routes[n])
  BY <1>2
<1>4. IsList(f) /\ ToSet(f) = {f[n] : n \in DOMAIN routes}
  BY <1>1, <1>3, ListOfEach
<1>5. ToSet(routes) = {routes[n] : n \in DOMAIN routes}
  BY DEF ToSet
<1>6. ToSet(f) = {RouteAt(d, r) : r \in ToSet(routes)}
  BY <1>3, <1>4, <1>5
<1> QED
  BY <1>4, <1>6 DEF f, routes

\* What a page itself is asked for, and its links.
PagesOf(d) ==
  IF d.type = "html"
  THEN {<<d.origin, PathName(d.path), d.query>>} \cup ToSet(LinkAddresses(d)) ELSE {}

(* What is asked for: the page and its links, and the routes, each once.    *)
LEMMA ProbesOf ==
  ASSUME NEW d \in Served, d.type \in {"html", "flight"}
  PROVE  LET probes == NextAnalyze(d).probes
         IN  /\ Len(probes) = Cardinality(ToSet(probes))
             /\ ToSet(probes) =
                  PagesOf(d) \cup {RouteAt(d, r) : r \in ToSet(Informative(d.routes))}
<1> DEFINE routes == RouteAddresses(d)
           links == LinkAddresses(d)
           own == <<d.origin, PathName(d.path), d.query>>
           places == {RouteAt(d, r) : r \in ToSet(Informative(d.routes))}
<1>1. IsList(routes) /\ ToSet(routes) = places
  BY RoutesAddressed
<1> HIDE DEF places
<1>2. CASE d.type = "flight"
  <2>1. NextAnalyze(d).probes = DedupeProbes(routes)
    BY <1>2 DEF NextAnalyze, AnalyzeFlight, ResultOf
  <2>2. PagesOf(d) = {}
    BY <1>2 DEF PagesOf
  <2> HIDE DEF routes
  <2>3. /\ ToSet(DedupeProbes(routes)) = ToSet(routes)
        /\ Len(DedupeProbes(routes)) = Cardinality(ToSet(routes))
    BY <1>1, ProbesDeduped
  <2> QED
    BY <1>1, <2>1, <2>2, <2>3 DEF places
<1>3. CASE d.type = "html"
  <2> DEFINE list == <<own>> \o routes \o links
  <2>1. NextAnalyze(d).probes = DedupeProbes(list)
    <3>1. NextAnalyze(d) = AnalyzeHtml(d)
      BY <1>3 DEF NextAnalyze
    <3>2. \A b : \A p : [ResultOf(b, list) EXCEPT !.prepends = p].probes = DedupeProbes(list)
      BY DEF ResultOf
    <3> QED
      BY <3>1, <3>2 DEF AnalyzeHtml
  <2>2. PagesOf(d) = {own} \cup ToSet(links)
    BY <1>3 DEF PagesOf
  <2>3. IsList(links)
    <3>1. d.links \in Seq(Href)
      BY NextAssumption DEF NextAssumption
    <3>2. links \in Seq(SameHost(d))
      BY <3>1, LinksListed
    <3> QED
      BY <3>2, Zenon DEF IsList
  <2> HIDE DEF routes, links, own
  <2>4. IsList(<<own>>) /\ ToSet(<<own>>) = {own}
    <3>1. <<own>> \in Seq({own})
      OBVIOUS
    <3> DEFINE one == <<own>>
    <3>2. DOMAIN one = {1} /\ one[1] = own
      OBVIOUS
    <3> HIDE DEF one
    <3>3. ToSet(one) = {own}
      BY <3>2 DEF ToSet
    <3> QED
      BY <3>1, <3>3, Zenon DEF one, IsList
  <2>5. IsList(<<own>> \o routes) /\ ToSet(<<own>> \o routes) = {own} \cup places
    BY <1>1, <2>4, BothLists
  <2>6. IsList(list) /\ ToSet(list) = ({own} \cup places) \cup ToSet(links)
    BY <2>3, <2>5, BothLists
  <2> HIDE DEF list
  <2>7. /\ ToSet(DedupeProbes(list)) = ToSet(list)
        /\ Len(DedupeProbes(list)) = Cardinality(ToSet(list))
    BY <2>6, ProbesDeduped
  <2>8. ToSet(list) = PagesOf(d) \cup places
    BY <2>2, <2>6
  <2> QED
    BY <2>1, <2>7, <2>8 DEF places
<1> QED
  BY <1>2, <1>3

\* The document in hand is one the site serves, and the result is its own.
NextInv ==
  /\ part = "routes" => served \in Served
  /\ told # Unread => served \in Served /\ told = NextAnalyze(served)

(* The first document is one the site serves. *)
LEMMA NextStarts == Init => NextInv
  BY DEF Init, Idle, NextInit, NextInv

(* A result is what the plugin makes of the document. *)
LEMMA NextStep == NextInv /\ [Next]_vars => NextInv'
<1> SUFFICES ASSUME NextInv, [Next]_vars PROVE NextInv'
  OBVIOUS
<1>1. CASE part = "routes" /\ ReadServed /\ UNCHANGED part
  BY <1>1 DEF NextInv, ReadServed
<1>2. CASE UNCHANGED <<part, nextVars>>
  <2>1. part' = part /\ served' = served /\ told' = told
    BY <1>2 DEF nextVars
  <2>2. NextAnalyze(served)' = NextAnalyze(served')
    OBVIOUS
  <2> QED
    BY <2>1, <2>2, Zenon DEF NextInv
<1> QED
  BY <1>1, <1>2 DEF Next, vars

(* A page's routes are asked for under the directory it is deployed under,  *)
(* with the page and its links, on its host and each once: for any paths,   *)
(* routes and links.                                                        *)
THEOREM RoutesStayUnderBase == Spec => []RoutesUnderBase
<1>1. NextInv => RoutesUnderBase
  <2> SUFFICES ASSUME NextInv, told # Unread, served.type \in {"html", "flight"}
               PROVE  RoutesUnderBase
    BY DEF RoutesUnderBase
  <2> DEFINE d == served
             asked == ToSet(told.probes)
             informative == ToSet(Informative(d.routes))
  <2>1. d \in Served /\ told = NextAnalyze(d)
    BY DEF NextInv
  <2>2. /\ Len(told.probes) = Cardinality(asked)
        /\ asked = PagesOf(d) \cup {RouteAt(d, r) : r \in informative}
    BY <2>1, ProbesOf
  <2> HIDE DEF asked, informative
  <2>3. \A p \in asked : p[1][2] = d.origin[2]
    <3>1. \A r : RouteAt(d, r)[1] = d.origin
      BY DEF RouteAt
    <3>2. \A p \in ToSet(LinkAddresses(d)) : p[1][2] = d.origin[2]
      <4>1. LinkAddresses(d) \in Seq(SameHost(d))
        BY <2>1, LinksListed, NextAssumption DEF NextAssumption
      <4>2. ToSet(LinkAddresses(d)) \subseteq SameHost(d)
        BY <4>1, ElementsOf
      <4> QED
        <5> SUFFICES ASSUME NEW p \in SameHost(d) PROVE p[1][2] = d.origin[2]
          BY <4>2
        <5>1. PICK l \in {h \in Href : h.origin[2] = d.origin[2]} :
                p = <<l.origin, PathName(l.path), "">>
          BY Zenon DEF SameHost
        <5>2. p[1] = l.origin
          BY <5>1
        <5> QED
          BY <5>1, <5>2
    <3>3. \A p \in PagesOf(d) : p[1][2] = d.origin[2]
      BY <3>2 DEF PagesOf
    <3> QED
      BY <2>2, <3>1, <3>3
  <2>4. ASSUME NEW n \in 0..Len(d.path), Deployed(d, n)
        PROVE  {RouteAt(d, r) : r \in informative} =
                 {<<d.origin, Joined(SubSeq(d.path, 1, n)) \o Joined(PartsOf(r)), "">> :
                    r \in informative}
    <3>1. InferBasePath(PathName(d.path), d.routes) = Joined(SubSeq(d.path, 1, n))
      BY <2>1, <2>4, BaseFound
    <3> QED
      BY <3>1 DEF RouteAt
  <2>5. /\ Len(told.probes) = Cardinality(asked)
        /\ \A p \in asked : p[1][2] = d.origin[2]
        /\ \A n \in 0..Len(d.path) : Deployed(d, n) =>
             asked = PagesOf(d) \cup
               {<<d.origin, Joined(SubSeq(d.path, 1, n)) \o Joined(PartsOf(r)), "">> :
                  r \in informative}
    BY <2>2, <2>3, <2>4
  <2> QED
    BY <2>5 DEF RoutesUnderBase, PagesOf, asked, informative
<1> QED
  BY <1>1, NextStarts, NextStep, PTL DEF Spec
=============================================================================

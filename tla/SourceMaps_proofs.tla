-------------------------- MODULE SourceMaps_proofs --------------------------
(***************************************************************************)
(* Proofs about restoring the files of a source map (SourceMaps.tla).      *)
(*                                                                         *)
(* A file is written at a path whose parts each name something: a text is  *)
(* cut into its pieces (SplitPieces), cleaning a path keeps only names     *)
(* (CleanedIs), cutting it to size keeps its file name (TruncatedIs), and  *)
(* the guard of every write passes such a path (SafeIs).  The pieces of a  *)
(* script come in its order, since every mapping puts out what is between  *)
(* the last one and itself (EmitOrdered).  The files are placed one by one,*)
(* each under its own path or the map's name (PlacedOn).                   *)
(*                                                                         *)
(* And proofs about cutting out what a page embeds (Embedded.tla): a scan  *)
(* of a script is outside of strings and comments again after each of its  *)
(* pieces (PastPieces), so that a script is closed where it was written to *)
(* be (CloseAt), the scan for tags finds the scripts of a page             *)
(* (ScriptsExtracted), and the braces of a manifest add up (BracesTaken).  *)
(*                                                                         *)
(* And proofs about reading the mappings of a map back: the word a group   *)
(* of digits is read into holds the bits of the value written (WordIs,     *)
(* SignedWord), so that the values of a segment are those written          *)
(* (ValuesReadBack); a text put together with a mark its parts do not hold *)
(* is split into its parts (SplitJoined); the numbers carried from segment *)
(* to segment and from line to line are the sums of what was written       *)
(* (SegmentAdded, LineAdded), which is what a mapping means                *)
(* (MappingsMeant).                                                        *)
(***************************************************************************)
EXTENDS Analysis_proofs

(* Cutting a text at its marks.                                            *)

(* What stands between two places of a list.                                *)
LEMMA CutOut ==
  ASSUME NEW X, NEW t \in Seq(X), NEW a \in Nat, NEW b \in Nat, a <= b, b <= Len(t)
  PROVE  SubSeq(t, a + 1, b) \in Seq(X) /\ Onward(SubSeq(t, a + 1, b), t, a, b - a)
<1> DEFINE u == SubSeq(t, a + 1, b)
           l == b - a
<1>1. \A i \in (a + 1)..b : t[i] \in X
  OBVIOUS
<1>2. /\ a + 1 \in Int /\ b \in Int /\ b - (a + 1) + 1 = l
      /\ \A i \in 1..l : a + 1 + i - 1 = a + i
      /\ (IF a + 1 <= b THEN b - (a + 1) + 1 ELSE 0) = l
  OBVIOUS
<1>3. /\ u \in Seq(X)
      /\ Len(u) = IF a + 1 <= b THEN b - (a + 1) + 1 ELSE 0
      /\ \A i \in 1..(b - (a + 1) + 1) : u[i] = t[a + 1 + i - 1]
  BY <1>1, <1>2, SubSeqProperties
<1> HIDE DEF u
<1>4. u \in Seq(X) /\ Len(u) = l /\ \A i \in 1..l : u[i] = t[a + i]
  BY <1>2, <1>3
<1> QED
  BY <1>4 DEF u, Onward

(* A list that is not empty is its front and its last element.              *)
LEMMA FrontAndLast ==
  ASSUME NEW X, NEW p \in Seq(X), p # <<>>
  PROVE  /\ Len(p) \in Nat \ {0} /\ Last(p) \in X /\ Last(p) = p[Len(p)]
         /\ Front(p) \in Seq(X) /\ Len(Front(p)) = Len(p) - 1
         /\ \A k \in 1..Len(Front(p)) : Front(p)[k] = p[k]
<1>1. Len(p) \in Nat \ {0}
  OBVIOUS
<1>2. Last(p) = p[Len(p)] /\ p[Len(p)] \in X
  BY <1>1 DEF Last
<1>3. Front(p) = SubSeq(p, 1, Len(p) - 1)
  BY DEF Front
<1> DEFINE q == SubSeq(p, 1, Len(p) - 1)
<1>4. q \in Seq(X) /\ Len(q) = Len(p) - 1 /\ \A k \in 1..Len(q) : q[k] = p[k]
  <2>1. 0 \in Nat /\ Len(p) - 1 \in Nat /\ 0 <= Len(p) - 1 /\ Len(p) - 1 <= Len(p)
    BY <1>1
  <2> DEFINE b == Len(p) - 1
  <2> HIDE DEF b
  <2>2. SubSeq(p, 0 + 1, b) \in Seq(X) /\ Onward(SubSeq(p, 0 + 1, b), p, 0, b - 0)
    BY <2>1, CutOut DEF b
  <2>3. SubSeq(p, 0 + 1, b) = q
    BY DEF b
  <2>4. b - 0 = b /\ \A k \in 1..b : 0 + k = k
    BY <2>1 DEF b
  <2> HIDE DEF q
  <2> QED
    BY <2>2, <2>3, <2>4 DEF Onward, b
<1> QED
  BY <1>1, <1>2, <1>3, <1>4

\* One symbol more: either a new part, empty so far, or the last one longer.
LongerBy(q, p, c, mark) ==
  /\ c = mark => /\ Len(q) = Len(p) + 1 /\ q[Len(q)] = <<>>
                 /\ \A k \in 1..Len(p) : q[k] = p[k]
  /\ c # mark => /\ Len(q) = Len(p) /\ q[Len(q)] = Append(p[Len(p)], c)
                 /\ \A k \in 1..(Len(p) - 1) : q[k] = p[k]

(* What a symbol adds to the parts so far.                                  *)
LEMMA AddedSymbol ==
  ASSUME NEW X, NEW p \in Seq(Seq(X)), p # <<>>, NEW c \in X, NEW mark
  PROVE  LET q == AddSymbol(p, c, mark)
         IN  q \in Seq(Seq(X)) /\ q # <<>> /\ LongerBy(q, p, c, mark)
<1> DEFINE q == AddSymbol(p, c, mark)
           f == Front(p)
           z == Append(Last(p), c)
<1>1. /\ Len(p) \in Nat \ {0} /\ Last(p) \in Seq(X) /\ Last(p) = p[Len(p)]
      /\ f \in Seq(Seq(X)) /\ Len(f) = Len(p) - 1 /\ \A k \in 1..Len(f) : f[k] = p[k]
  BY FrontAndLast
<1>2. CASE c = mark
  <2>1. q = Append(p, <<>>)
    BY <1>2 DEF AddSymbol
  <2>2. <<>> \in Seq(X)
    OBVIOUS
  <2> HIDE DEF q
  <2>3. /\ q \in Seq(Seq(X)) /\ Len(q) = Len(p) + 1 /\ q[Len(q)] = <<>>
        /\ \A k \in 1..Len(p) : q[k] = p[k]
    BY <1>1, <2>1, <2>2
  <2> QED
    BY <1>1, <1>2, <2>3 DEF q, LongerBy
<1>3. CASE c # mark
  <2>1. q = Append(f, z)
    BY <1>3 DEF AddSymbol
  <2>2. z \in Seq(X)
    BY <1>1
  <2> HIDE DEF q, f, z
  <2>3. /\ q \in Seq(Seq(X)) /\ Len(q) = Len(f) + 1 /\ q[Len(f) + 1] = z
        /\ \A k \in 1..Len(f) : q[k] = f[k]
    BY <1>1, <2>1, <2>2
  <2>4. /\ q \in Seq(Seq(X)) /\ Len(q) = Len(p) /\ q[Len(p)] = z
        /\ \A k \in 1..(Len(p) - 1) : q[k] = p[k]
    BY <1>1, <2>3
  <2> QED
    BY <1>1, <1>3, <2>4 DEF q, z, LongerBy
<1> QED
  BY <1>2, <1>3

\* The parts of the first n symbols.
SplitsTo(f, s, mark, X) ==
  /\ f \in [0..Len(s) -> Seq(Seq(X)) \ {<<>>}] /\ f[0] = <<<<>>>>
  /\ \A n \in 1..Len(s) : f[n] = AddSymbol(f[n - 1], s[n], mark)
  /\ Split(s, mark) = f[Len(s)]

(* A text is cut symbol by symbol.                                          *)
LEMMA SplitSteps ==
  ASSUME NEW X, NEW s \in Seq(X), NEW mark
  PROVE  \E f : SplitsTo(f, s, mark, X)
<1> DEFINE A == Seq(Seq(X)) \ {<<>>}
           first == <<<<>>>>
           step == [n \in 1..Len(s) |-> [a \in A |-> AddSymbol(a, s[n], mark)]]
           Fills(f) == f = [n \in 0..Len(s) |-> IF n = 0 THEN first ELSE AddSymbol(f[n - 1], s[n], mark)]
<1>0. Len(s) \in Nat /\ \A n \in 1..Len(s) : s[n] \in X
  OBVIOUS
<1>1. first \in A
  <2>1. <<>> \in Seq(X)
    OBVIOUS
  <2>2. first \in Seq(Seq(X)) /\ Len(first) = 1
    BY <2>1, ListOfOne
  <2> QED
    BY <2>2
<1>2. ASSUME NEW n \in 1..Len(s), NEW a \in A PROVE AddSymbol(a, s[n], mark) \in A
  BY <1>0, AddedSymbol
<1>3. PICK f \in [0..Len(s) -> A] : Steps(f, Len(s), first, step)
  <2>1. step \in [1..Len(s) -> [A -> A]]
    BY <1>2
  <2> HIDE DEF step, first, A
  <2> QED
    BY <1>0, <1>1, <2>1, StepwiseFunction
<1> HIDE DEF first, A
<1>4. \A n \in 1..Len(s) : f[n] = AddSymbol(f[n - 1], s[n], mark)
  <2> TAKE n \in 1..Len(s)
  <2>1. f[n - 1] \in A
    BY <1>0
  <2> QED
    BY <1>3, <2>1 DEF Steps
<1>5. f[0] = first
  BY <1>3 DEF Steps
<1>6. Fills(f)
  <2>1. \A n \in 0..Len(s) : n # 0 => n \in 1..Len(s)
    BY <1>0
  <2>2. f = [n \in 0..Len(s) |-> f[n]]
    OBVIOUS
  <2> QED
    BY <1>4, <1>5, <2>1, <2>2
<1> DEFINE upTo == CHOOSE g : Fills(g)
<1>7. Fills(upTo)
  BY <1>6
<1>8. Split(s, mark) = upTo[Len(s)]
  BY DEF Split, first
<1> HIDE DEF upTo
<1>9. upTo[0] = first /\ \A n \in 1..Len(s) : upTo[n] = AddSymbol(upTo[n - 1], s[n], mark)
  <2>1. 0 \in 0..Len(s) /\ \A n \in 1..Len(s) : n \in 0..Len(s) /\ n # 0
    BY <1>0
  <2>2. \A n \in 0..Len(s) : upTo[n] = IF n = 0 THEN first ELSE AddSymbol(upTo[n - 1], s[n], mark)
    BY <1>7
  <2> QED
    BY <2>1, <2>2
<1>10. \A n \in 0..Len(s) : upTo[n] \in A
  <2>1. upTo[0] \in A /\ \A n \in 1..Len(s) : upTo[n - 1] \in A => upTo[n] \in A
    BY <1>1, <1>2, <1>9
  <2> QED
    BY <1>0, <2>1, HandedOn
<1>11. upTo = [n \in 0..Len(s) |-> upTo[n]]
  BY <1>7
<1>12. upTo \in [0..Len(s) -> A]
  BY <1>10, <1>11
<1>13. SplitsTo(upTo, s, mark, X)
  BY <1>8, <1>9, <1>12 DEF SplitsTo, A, first
<1> QED
  BY <1>13

\* A part of a text between two marks, or the ends of the text.
Piece(s, mark, a, b) ==
  /\ a \in 0..Len(s) /\ b \in (a + 1)..(Len(s) + 1)
  /\ a > 0 => s[a] = mark
  /\ b <= Len(s) => s[b] = mark
  /\ \A i \in (a + 1)..(b - 1) : s[i] # mark

PieceIs(x, s, mark, a, b) == Piece(s, mark, a, b) /\ Onward(x, s, a, b - a - 1)
IsPiece(x, s, mark) == \E a, b \in Nat : PieceIs(x, s, mark, a, b)

\* The last part of the first n symbols, open at its end.
OpenAt(x, s, mark, a, n) ==
  /\ a \in 0..n
  /\ a > 0 => s[a] = mark
  /\ \A i \in (a + 1)..n : s[i] # mark
  /\ Onward(x, s, a, n - a)

CutUpTo(p, s, mark, n) ==
  /\ \A k \in 1..(Len(p) - 1) : IsPiece(p[k], s, mark)
  /\ \E a \in Nat : OpenAt(p[Len(p)], s, mark, a, n)

(* One symbol more.                                                         *)
LEMMA CutOn ==
  ASSUME NEW X, NEW s \in Seq(X), NEW mark, NEW n \in 1..Len(s),
         NEW p \in Seq(Seq(X)), p # <<>>, CutUpTo(p, s, mark, n - 1)
  PROVE  CutUpTo(AddSymbol(p, s[n], mark), s, mark, n)
<1> DEFINE c == s[n]
           q == AddSymbol(p, c, mark)
           l == Len(p)
<1>1. /\ l \in Nat \ {0} /\ c \in X /\ n \in Nat \ {0} /\ Len(s) \in Nat /\ n <= Len(s)
      /\ \A k \in 1..l : p[k] \in Seq(X)
  OBVIOUS
<1>2. /\ q \in Seq(Seq(X)) /\ q # <<>>
      /\ c = mark => /\ Len(q) = l + 1 /\ q[Len(q)] = <<>>
                     /\ \A k \in 1..l : q[k] = p[k]
      /\ c # mark => /\ Len(q) = l /\ q[Len(q)] = Append(p[l], c)
                     /\ \A k \in 1..(l - 1) : q[k] = p[k]
  <2>1. q \in Seq(Seq(X)) /\ q # <<>> /\ LongerBy(q, p, c, mark)
    BY <1>1, AddedSymbol
  <2> HIDE DEF q
  <2> QED
    BY <2>1 DEF LongerBy
<1> HIDE DEF q
<1>3. PICK a \in Nat : OpenAt(p[l], s, mark, a, n - 1)
  BY DEF CutUpTo
<1>4. /\ a \in 0..(n - 1)
      /\ a > 0 => s[a] = mark
      /\ \A i \in (a + 1)..(n - 1) : s[i] # mark
      /\ Len(p[l]) = n - 1 - a /\ \A i \in 1..(n - 1 - a) : p[l][i] = s[a + i]
  BY <1>3 DEF OpenAt, Onward
<1>5. \A k \in 1..(l - 1) : IsPiece(p[k], s, mark)
  BY DEF CutUpTo
<1>6. CASE c = mark
  <2>1. PieceIs(p[l], s, mark, a, n)
    <3>1. Piece(s, mark, a, n)
      BY <1>1, <1>4, <1>6 DEF Piece
    <3>2. Onward(p[l], s, a, n - a - 1)
      BY <1>1, <1>4 DEF Onward
    <3> QED
      BY <3>1, <3>2 DEF PieceIs
  <2>2. IsPiece(p[l], s, mark)
    BY <1>1, <2>1 DEF IsPiece
  <2>3. \A k \in 1..l : k \in 1..(l - 1) \/ k = l
    BY <1>1
  <2>4. \A k \in 1..l : IsPiece(q[k], s, mark)
    BY <1>2, <1>5, <1>6, <2>2, <2>3
  <2>5. OpenAt(<<>>, s, mark, n, n)
    BY <1>1, <1>6 DEF OpenAt, Onward
  <2>6. Len(q) - 1 = l
    BY <1>1, <1>2, <1>6
  <2>7. OpenAt(q[Len(q)], s, mark, n, n)
    BY <1>2, <1>6, <2>5
  <2>8. CutUpTo(q, s, mark, n)
    BY <1>1, <2>4, <2>6, <2>7 DEF CutUpTo
  <2> QED
    BY <2>8 DEF q
<1>7. CASE c # mark
  <2>1. Onward(Append(p[l], c), s, a, n - a)
    <3> DEFINE x == p[l]
               y == Append(x, c)
    <3>1. x \in Seq(X)
      BY <1>1
    <3>2. Len(x) = n - 1 - a /\ \A i \in 1..(n - 1 - a) : x[i] = s[a + i]
      BY <1>4
    <3> HIDE DEF x
    <3>3. Len(y) = Len(x) + 1 /\ y[Len(x) + 1] = c /\ \A i \in 1..Len(x) : y[i] = x[i]
      BY <1>1, <3>1
    <3>4. Len(x) + 1 = n - a /\ a + (n - a) = n /\ \A i \in 1..(n - a) : i \in 1..(n - 1 - a) \/ i = n - a
      BY <1>1, <1>4, <3>2
    <3> HIDE DEF y
    <3>5. Len(y) = n - a /\ \A i \in 1..(n - a) : y[i] = s[a + i]
      BY <3>2, <3>3, <3>4
    <3> QED
      BY <3>5 DEF Onward, y, x
  <2>2. \A i \in (a + 1)..n : s[i] # mark
    <3>1. \A i \in (a + 1)..n : i \in (a + 1)..(n - 1) \/ i = n
      BY <1>1
    <3> QED
      BY <1>4, <1>7, <3>1
  <2>3. a \in 0..n
    BY <1>1, <1>4
  <2>4. OpenAt(Append(p[l], c), s, mark, a, n)
    BY <1>4, <2>1, <2>2, <2>3 DEF OpenAt
  <2>5. \A k \in 1..(Len(q) - 1) : IsPiece(q[k], s, mark)
    BY <1>1, <1>2, <1>5, <1>7
  <2>6. OpenAt(q[Len(q)], s, mark, a, n)
    BY <1>2, <1>7, <2>4
  <2>7. CutUpTo(q, s, mark, n)
    BY <1>3, <2>5, <2>6 DEF CutUpTo
  <2> QED
    BY <2>7 DEF q
<1> QED
  BY <1>6, <1>7

(* The parts a text is cut into are its pieces, the last one at its end.    *)
LEMMA SplitPieces ==
  ASSUME NEW X, NEW s \in Seq(X), NEW mark
  PROVE  LET p == Split(s, mark)
         IN  /\ p \in Seq(Seq(X)) /\ Len(p) \in Nat \ {0}
             /\ \A k \in 1..Len(p) : IsPiece(p[k], s, mark)
             /\ \E a \in Nat : PieceIs(p[Len(p)], s, mark, a, Len(s) + 1)
<1> DEFINE p == Split(s, mark)
           m == Len(s)
<1>1. PICK f : SplitsTo(f, s, mark, X)
  BY SplitSteps
<1>2. m \in Nat
  OBVIOUS
<1>3. /\ f \in [0..m -> Seq(Seq(X)) \ {<<>>}] /\ f[0] = <<<<>>>>
      /\ \A n \in 1..m : f[n] = AddSymbol(f[n - 1], s[n], mark)
      /\ p = f[m]
  BY <1>1 DEF SplitsTo
<1> HIDE DEF p, m
<1>4. CutUpTo(f[0], s, mark, 0)
  <2>1. Len(f[0]) = 1 /\ f[0][1] = <<>>
    BY <1>3
  <2>2. OpenAt(<<>>, s, mark, 0, 0)
    BY DEF OpenAt, Onward
  <2>3. \A k \in 1..(1 - 1) : FALSE
    OBVIOUS
  <2> QED
    BY <2>1, <2>2, <2>3 DEF CutUpTo
<1> DEFINE S == {n \in 0..m : CutUpTo(f[n], s, mark, n)}
<1>5. 0 \in S
  BY <1>2, <1>4
<1>6. \A n \in 1..m : n - 1 \in S => n \in S
  <2> SUFFICES ASSUME NEW n \in 1..m, CutUpTo(f[n - 1], s, mark, n - 1)
               PROVE  CutUpTo(f[n], s, mark, n) /\ n \in 0..m
    BY <1>2
  <2>1. n - 1 \in 0..m /\ n \in 0..m /\ n \in 1..Len(s)
    BY <1>2 DEF m
  <2>2. f[n - 1] \in Seq(Seq(X)) /\ f[n - 1] # <<>>
    BY <1>3, <2>1
  <2>3. CutUpTo(AddSymbol(f[n - 1], s[n], mark), s, mark, n)
    BY <2>1, <2>2, CutOn
  <2> QED
    BY <1>3, <2>1, <2>3
<1> HIDE DEF S
<1>7. m \in S
  <2>1. 0..m \subseteq S
    BY <1>2, <1>5, <1>6, InductionUpTo
  <2>2. m \in 0..m
    BY <1>2
  <2> QED
    BY <2>1, <2>2
<1>8. CutUpTo(p, s, mark, m)
  BY <1>3, <1>7 DEF S
<1>9. p \in Seq(Seq(X)) /\ p # <<>>
  BY <1>2, <1>3
<1>10. Len(p) \in Nat \ {0}
  BY <1>9
<1>11. PICK a \in Nat : OpenAt(p[Len(p)], s, mark, a, m)
  BY <1>8 DEF CutUpTo
<1>12. PieceIs(p[Len(p)], s, mark, a, m + 1)
  <2>1. /\ a \in 0..m
        /\ a > 0 => s[a] = mark
        /\ \A i \in (a + 1)..m : s[i] # mark
        /\ Onward(p[Len(p)], s, a, m - a)
    BY <1>11 DEF OpenAt
  <2>2. m + 1 \in (a + 1)..(m + 1) /\ ~(m + 1 <= m) /\ (m + 1) - 1 = m /\ (m + 1) - a - 1 = m - a
    <3>1. a \in 0..m
      BY <2>1
    <3> QED
      BY <1>2, <3>1
  <2>3. Piece(s, mark, a, m + 1)
    BY <2>1, <2>2 DEF Piece, m
  <2> QED
    BY <2>1, <2>2, <2>3 DEF PieceIs
<1>13. IsPiece(p[Len(p)], s, mark)
  BY <1>2, <1>12 DEF IsPiece
<1>14. \A k \in 1..Len(p) : IsPiece(p[k], s, mark)
  <2>1. \A k \in 1..Len(p) : k \in 1..(Len(p) - 1) \/ k = Len(p)
    BY <1>10
  <2> QED
    BY <1>8, <1>13, <2>1 DEF CutUpTo
<1> QED
  BY <1>9, <1>10, <1>12, <1>14 DEF p, m

-----------------------------------------------------------------------------
(* Paths: texts of parts between slashes.                                  *)

\* Parts that name nothing.
Poor == {<<>>, <<".">>, Up}

\* Nothing but two dots at most between a and b.
Dots(s, a, b) == b - a <= 3 /\ \A i \in (a + 1)..(b - 1) : s[i] = "."

\* A path of which every part names something.
Clean(s) == \A a, b \in Nat : Piece(s, "/", a, b) => ~Dots(s, a, b)

(* Parts that name nothing are those of at most two characters, all dots.   *)
LEMMA PoorAre ==
  ASSUME NEW X, NEW x \in Seq(X)
  PROVE  x \in Poor <=> Len(x) <= 2 /\ \A i \in 1..Len(x) : x[i] = "."
<1>1. Len(x) \in Nat
  OBVIOUS
<1>2. ASSUME x \in Poor PROVE Len(x) <= 2 /\ \A i \in 1..Len(x) : x[i] = "."
  <2>1. CASE x = <<>>
    BY <2>1
  <2>2. CASE x = <<".">>
    BY <2>2
  <2>3. CASE x = <<".", ".">>
    BY <2>3
  <2> QED
    BY <1>2, <2>1, <2>2, <2>3 DEF Poor, Up
<1>3. ASSUME Len(x) <= 2, \A i \in 1..Len(x) : x[i] = "." PROVE x \in Poor
  <2>1. CASE Len(x) = 0
    <3>1. x = <<>>
      BY <2>1
    <3> QED
      BY <3>1 DEF Poor
  <2>2. CASE Len(x) = 1
    <3>1. x = <<".">>
      BY <1>3, <2>2
    <3> QED
      BY <3>1 DEF Poor
  <2>3. CASE Len(x) = 2
    <3>1. x = <<".", ".">>
      BY <1>3, <2>3
    <3> QED
      BY <3>1 DEF Poor, Up
  <2>4. Len(x) <= 2
    BY <1>3, Zenon
  <2>5. Len(x) = 0 \/ Len(x) = 1 \/ Len(x) = 2
    <3>1. \A l \in Nat : l <= 2 => l = 0 \/ l = 1 \/ l = 2
      OBVIOUS
    <3> QED
      BY <1>1, <2>4, <3>1, Zenon
  <2> QED
    BY <2>1, <2>2, <2>3, <2>5
<1> QED
  BY <1>2, <1>3

(* A part of a text has none of its marks.                                  *)
LEMMA PieceHasNone ==
  ASSUME NEW x, NEW s, NEW mark, Len(s) \in Nat, IsPiece(x, s, mark)
  PROVE  \A i \in 1..Len(x) : x[i] # mark
<1>1. PICK a \in Nat, b \in Nat : PieceIs(x, s, mark, a, b)
  BY DEF IsPiece
<1>2. /\ b \in (a + 1)..(Len(s) + 1)
      /\ \A i \in (a + 1)..(b - 1) : s[i] # mark
      /\ Len(x) = b - a - 1 /\ \A i \in 1..(b - a - 1) : x[i] = s[a + i]
  BY <1>1 DEF PieceIs, Piece, Onward
<1>3. \A i \in 1..(b - a - 1) : a + i \in (a + 1)..(b - 1)
  BY <1>2
<1> QED
  BY <1>2, <1>3

(* A clean path is cut into names,                                          *)
LEMMA CleanParts ==
  ASSUME NEW X, NEW s \in Seq(X), Clean(s)
  PROVE  LET p == Split(s, "/")
         IN  /\ p \in Seq(Seq(X)) /\ Len(p) \in Nat \ {0}
             /\ \A k \in 1..Len(p) : p[k] \notin Poor
<1> DEFINE p == Split(s, "/")
<1>1. /\ p \in Seq(Seq(X)) /\ Len(p) \in Nat \ {0}
      /\ \A k \in 1..Len(p) : IsPiece(p[k], s, "/")
  BY SplitPieces
<1> HIDE DEF p
<1>2. ASSUME NEW k \in 1..Len(p), p[k] \in Poor PROVE FALSE
  <2>1. PICK a \in Nat, b \in Nat : PieceIs(p[k], s, "/", a, b)
    BY <1>1 DEF IsPiece
  <2>2. Piece(s, "/", a, b) /\ Len(p[k]) = b - a - 1 /\ \A i \in 1..(b - a - 1) : p[k][i] = s[a + i]
    BY <2>1 DEF PieceIs, Onward
  <2>3. p[k] \in Seq(X)
    BY <1>1
  <2>4. Len(p[k]) <= 2 /\ \A i \in 1..Len(p[k]) : p[k][i] = "."
    BY <1>2, <2>3, PoorAre
  <2>5. \A i \in (a + 1)..(b - 1) : i - a \in 1..(b - a - 1) /\ a + (i - a) = i
    OBVIOUS
  <2>6. \A i \in (a + 1)..(b - 1) : s[i] = "."
    BY <2>2, <2>4, <2>5
  <2>7. b - a <= 3
    BY <2>2, <2>4
  <2> QED
    BY <2>2, <2>6, <2>7 DEF Clean, Dots
<1> QED
  BY <1>1, <1>2 DEF p

(* and a path put together of names is clean.                               *)
LEMMA JoinClean ==
  ASSUME NEW parts \in Seq(Seq(Signs)), parts # <<>>,
         \A k \in 1..Len(parts) : parts[k] \notin Poor
                                  /\ \A i \in 1..Len(parts[k]) : parts[k][i] # "/"
  PROVE  Join(parts) \in Seq(Signs) /\ Clean(Join(parts))
<1> DEFINE t == Joined(parts)
           s == Join(parts)
           m == Len(parts)
<1>1. t \in Seq(Signs)
  <2>1. <<>> \in Seq(Signs)
    OBVIOUS
  <2> QED
    BY <2>1, JoinedAppend
<1>2. s = SubSeq(t, 2, Len(t))
  BY DEF Join, Joined, Drop
<1>3. PICK c : Laid(t, parts, c)
  BY JoinedPlaces
<1> HIDE DEF t, s
<1>4. m \in Nat \ {0} /\ Len(t) \in Nat /\ \A k \in 1..m : parts[k] \in Seq(Signs) /\ Len(parts[k]) \in Nat
  BY <1>1
<1>5. /\ c \in [0..m -> Nat] /\ c[0] = 0 /\ c[m] = Len(t)
      /\ \A k \in 1..m : /\ c[k] = c[k - 1] + 1 + Len(parts[k]) /\ c[k] <= Len(t)
                         /\ t[c[k - 1] + 1] = "/"
                         /\ \A j \in 1..Len(parts[k]) : t[c[k - 1] + 1 + j] = parts[k][j]
      /\ \A i \in 1..Len(t) : \E k \in 1..m : c[k - 1] < i /\ i <= c[k]
  BY <1>3 DEF Laid
<1> HIDE DEF m
<1>6. t[1] = "/" /\ Len(t) >= 1
  <2>1. 1 \in 1..m /\ 1 - 1 = 0 /\ 0 + 1 = 1
    BY <1>4
  <2>2. t[1] = "/" /\ c[1] = 0 + 1 + Len(parts[1]) /\ c[1] <= Len(t)
    BY <1>5, <2>1
  <2>3. Len(parts[1]) \in Nat
    BY <1>4, <2>1
  <2> QED
    BY <1>4, <2>2, <2>3
<1>7. /\ s \in Seq(Signs) /\ Len(s) = Len(t) - 1
      /\ \A i \in 1..(Len(t) - 1) : s[i] = t[1 + i]
  <2> DEFINE n == Len(t)
  <2>1. n \in Nat /\ 1 \in Nat /\ 1 <= n /\ n <= Len(t)
    BY <1>4, <1>6
  <2> HIDE DEF n
  <2>2. SubSeq(t, 1 + 1, n) \in Seq(Signs) /\ Onward(SubSeq(t, 1 + 1, n), t, 1, n - 1)
    BY <1>1, <2>1, CutOut
  <2>3. SubSeq(t, 1 + 1, n) = s
    BY <1>2 DEF n
  <2> QED
    BY <2>2, <2>3 DEF Onward, n
<1>8. ASSUME NEW a \in Nat, NEW b \in Nat, Piece(s, "/", a, b), Dots(s, a, b) PROVE FALSE
  <2>1. /\ a \in 0..Len(s) /\ b \in (a + 1)..(Len(s) + 1)
        /\ a > 0 => s[a] = "/"
        /\ b <= Len(s) => s[b] = "/"
        /\ \A i \in (a + 1)..(b - 1) : s[i] # "/"
    BY <1>8 DEF Piece
  <2>2. b - a <= 3 /\ \A i \in (a + 1)..(b - 1) : s[i] = "."
    BY <1>8 DEF Dots
  <2>3. a + 1 \in 1..Len(t) /\ t[a + 1] = "/"
    <3>1. CASE a = 0
      BY <1>4, <1>6, <3>1
    <3>2. CASE a > 0
      <4>1. a \in 1..(Len(t) - 1) /\ 1 + a = a + 1
        BY <1>4, <1>7, <2>1, <3>2
      <4> QED
        BY <1>4, <1>7, <2>1, <3>2, <4>1
    <3> QED
      BY <3>1, <3>2
  <2>4. PICK k \in 1..m : c[k - 1] < a + 1 /\ a + 1 <= c[k]
    BY <1>5, <2>3
  <2> DEFINE x == parts[k]
             p == c[k - 1]
             l == Len(x)
  <2>5. /\ p \in Nat /\ l \in Nat /\ x \in Seq(Signs) /\ c[k] = p + 1 + l /\ c[k] <= Len(t)
        /\ \A j \in 1..l : t[p + 1 + j] = x[j] /\ x[j] # "/"
    <3>1. k - 1 \in 0..m
      BY <1>4
    <3> QED
      BY <1>4, <1>5, <3>1 DEF m
  <2>6. x \notin Poor
    BY DEF m
  <2>7. k \in 1..m /\ (k < m => t[c[k] + 1] = "/") /\ (k = m => c[k] = Len(t))
    <3>1. k < m => k + 1 \in 1..m /\ (k + 1) - 1 = k
      BY <1>4
    <3> QED
      BY <1>5, <3>1
  <2> DEFINE e == c[k]
  <2> HIDE DEF p, x, l, e
  <2>8. p < a + 1 /\ a + 1 <= e /\ e = p + 1 + l /\ e <= Len(t)
    BY <2>4, <2>5 DEF p, e
  <2>9. a = p
    <3>1. ASSUME a # p PROVE FALSE
      <4>1. a - p \in 1..l /\ p + 1 + (a - p) = a + 1
        BY <2>5, <2>8, <3>1
      <4> QED
        BY <2>3, <2>5, <4>1
    <3> QED
      BY <3>1
  <2>10. ~(b < e)
    <3> SUFFICES ASSUME b < e PROVE FALSE
      OBVIOUS
    <3>1. b - a \in 1..l /\ p + 1 + (b - a) = 1 + b /\ b \in 1..(Len(t) - 1) /\ b <= Len(s)
      BY <1>4, <1>7, <2>1, <2>5, <2>8, <2>9
    <3>2. s[b] = "/" /\ s[b] = t[1 + b]
      BY <1>7, <2>1, <3>1
    <3> QED
      BY <2>5, <3>1, <3>2
  <2>11. ~(b > e)
    <3> SUFFICES ASSUME b > e PROVE FALSE
      OBVIOUS
    <3>1. e \in (a + 1)..(b - 1) /\ e \in 1..(Len(t) - 1) /\ 1 + e = e + 1 /\ e # Len(t)
      BY <1>4, <1>7, <2>1, <2>5, <2>8, <2>9
    <3>2. k < m
      BY <1>4, <2>7, <3>1 DEF e
    <3>3. t[e + 1] = "/"
      BY <2>7, <3>2 DEF e
    <3> QED
      BY <1>7, <2>1, <3>1, <3>3
  <2>12. b = e
    BY <2>5, <2>8, <2>10, <2>11
  <2>13. \A j \in 1..l : x[j] = "."
    <3> TAKE j \in 1..l
    <3>1. a + j \in (a + 1)..(b - 1) /\ a + j \in 1..(Len(t) - 1) /\ 1 + (a + j) = p + 1 + j
      BY <1>4, <2>5, <2>8, <2>9, <2>12
    <3> QED
      BY <1>7, <2>2, <2>5, <3>1
  <2>14. l <= 2
    BY <2>2, <2>5, <2>8, <2>9, <2>12
  <2> QED
    BY <2>5, <2>6, <2>13, <2>14, PoorAre DEF l
<1>9. Clean(s)
  BY <1>8 DEF Clean
<1> QED
  BY <1>7, <1>9 DEF s

(* What steps lead to is in the set they stay in.                          *)
LEMMA LeadStays ==
  ASSUME NEW v, NEW k \in Nat, NEW A, NEW base, NEW step, Lead(v, k, A, base, step)
  PROVE  v \in A
BY DEF Lead

-----------------------------------------------------------------------------
(* The loops of restoring sources, step by step.                           *)

\* The segments of a path are put together again from what the steps lead to.
ClimbsTo(p, k, A, step) ==
  \E v : Lead(v, k, A, <<>>, step) /\ SanitizePathSegments(p) = Join(v)

(* Segments of a path are climbed one by one,                            *)
LEMMA FoldClimb ==
  ASSUME NEW p, NEW k \in Nat, NEW es, es = Split(Slashed(Trim(p)), "/"), DOMAIN es = 1..k,
         NEW A, <<>> \in A,
         NEW step \in [1..k -> [A -> A]],
         \A n \in 1..k : \A b \in A : step[n][b] = Climb(b, Trim(es[n]))
  PROVE  ClimbsTo(p, k, A, step)
<1> DEFINE base == <<>>
           v == FoldLeft(LAMBDA stack, x : Climb(stack, Trim(x)), <<>>, es)
           Turn(f, s) == IF s = {} THEN base ELSE Climb(f[s \ {Max(s)}], Trim(es[Max(s)]))
           Fills(f) == f = [s \in SUBSET (1..k) |-> Turn(f, s)]
<1>1. PICK f \in [SUBSET (1..k) -> A] : Folds(f, k, base, step)
  BY FoldsExist
<1>2. \A s \in SUBSET (1..k) : s # {} => Max(s) \in 1..k /\ s \ {Max(s)} \in SUBSET (1..k)
  BY GreatestNumber
<1>3. \A s \in SUBSET (1..k) : f[s] = Turn(f, s)
  BY <1>1, <1>2, Zenon DEF Folds, Turned
<1>4. f = [s \in SUBSET (1..k) |-> f[s]]
  OBVIOUS
<1>5. Fills(f)
  BY <1>3, <1>4, Zenon
<1> DEFINE iter == CHOOSE h : Fills(h)
<1>6. Fills(iter)
  BY <1>5, Zenon
<1>7. v = iter[1..k]
  BY DEF FoldLeft, MapThenFoldSet
<1>11. SanitizePathSegments(p) = Join(v)
  BY DEF SanitizePathSegments
<1> HIDE DEF iter, v
<1>8. \A s \in SUBSET (1..k) : iter[s] = Turn(iter, s)
  BY <1>6, Zenon
<1>9. Turns(iter, k, base, A, step)
  BY <1>2, <1>8, Zenon DEF Turns
<1> HIDE DEF Turn, Fills
<1>10. Lead(iter[1..k], k, A, base, step)
  BY <1>9, FoldLeads
<1> QED
  BY <1>7, <1>10, <1>11, Zenon DEF ClimbsTo

(* and kept one by one.                                                  *)
LEMMA FoldKeepSegment ==
  ASSUME NEW k \in Nat, NEW es, DOMAIN es = 1..k, NEW A, NEW base \in A,
         NEW step \in [1..k -> [A -> A]],
         \A n \in 1..k : \A b \in A : step[n][b] = KeepSegment(b, es[n])
  PROVE  Lead(FoldLeft(KeepSegment, base, es), k, A, base, step)
<1> DEFINE Turn(f, s) == IF s = {} THEN base ELSE KeepSegment(f[s \ {Max(s)}], es[Max(s)])
           Fills(f) == f = [s \in SUBSET (1..k) |-> Turn(f, s)]
<1>1. PICK f \in [SUBSET (1..k) -> A] : Folds(f, k, base, step)
  BY FoldsExist
<1>2. \A s \in SUBSET (1..k) : s # {} => Max(s) \in 1..k /\ s \ {Max(s)} \in SUBSET (1..k)
  BY GreatestNumber
<1>3. \A s \in SUBSET (1..k) : f[s] = Turn(f, s)
  BY <1>1, <1>2, Zenon DEF Folds, Turned
<1>4. f = [s \in SUBSET (1..k) |-> f[s]]
  OBVIOUS
<1>5. Fills(f)
  BY <1>3, <1>4, Zenon
<1> DEFINE iter == CHOOSE h : Fills(h)
<1>6. Fills(iter)
  BY <1>5, Zenon
<1>7. FoldLeft(KeepSegment, base, es) = iter[1..k]
  BY DEF FoldLeft, MapThenFoldSet
<1> HIDE DEF iter
<1>8. \A s \in SUBSET (1..k) : iter[s] = Turn(iter, s)
  BY <1>6, Zenon
<1>9. Turns(iter, k, base, A, step)
  BY <1>2, <1>8, Zenon DEF Turns
<1> HIDE DEF Turn, Fills
<1>10. Lead(iter[1..k], k, A, base, step)
  BY <1>9, FoldLeads
<1> QED
  BY <1>7, <1>10, Zenon

\* Before the first value.
NoValues == [next |-> 1, values |-> <<>>, done |-> FALSE, bad |-> FALSE]

(* The values of a segment are read one by one,                          *)
LEMMA FoldReadValue ==
  ASSUME NEW seg, NEW A, NoValues \in A, NEW step \in [1..5 -> [A -> A]],
         \A n \in 1..5 : \A b \in A : step[n][b] = ReadValue(seg, b, n)
  PROVE  Lead(Values(seg), 5, A, NoValues, step)
<1> DEFINE base == NoValues
           k == 5
           es == [n \in 1..5 |-> n]
           Turn(f, s) == IF s = {} THEN base ELSE ReadValue(seg, f[s \ {Max(s)}], es[Max(s)])
           Fills(f) == f = [s \in SUBSET (1..k) |-> Turn(f, s)]
<1>0. k \in Nat /\ \A n \in 1..k : n \in 1..5 /\ es[n] = n
  OBVIOUS
<1>12. \A n \in 1..k : \A b \in A : step[n][b] = ReadValue(seg, b, es[n])
  BY <1>0, Zenon
<1>13. step \in [1..k -> [A -> A]] /\ base \in A
  OBVIOUS
<1>1. PICK f \in [SUBSET (1..k) -> A] : Folds(f, k, base, step)
  BY <1>0, FoldsExist
<1>2. \A s \in SUBSET (1..k) : s # {} => Max(s) \in 1..k /\ s \ {Max(s)} \in SUBSET (1..k)
  BY <1>0, GreatestNumber
<1>3. \A s \in SUBSET (1..k) : f[s] = Turn(f, s)
  BY <1>1, <1>2, <1>12, Zenon DEF Folds, Turned
<1>4. f = [s \in SUBSET (1..k) |-> f[s]]
  OBVIOUS
<1>5. Fills(f)
  BY <1>3, <1>4, Zenon
<1> DEFINE iter == CHOOSE h : Fills(h)
<1>6. Fills(iter)
  BY <1>5, Zenon
<1>7. Values(seg) = iter[1..k]
  BY DEF Values, FoldLeft, MapThenFoldSet, NoValues
<1> HIDE DEF iter, k, base
<1>8. \A s \in SUBSET (1..k) : iter[s] = Turn(iter, s)
  BY <1>6, Zenon
<1>9. Turns(iter, k, base, A, step)
  BY <1>2, <1>8, <1>12, Zenon DEF Turns
<1> HIDE DEF Turn, Fills
<1>10. Lead(iter[1..k], k, A, base, step)
  BY <1>0, <1>9, <1>13, FoldLeads
<1> QED
  BY <1>7, <1>10, Zenon DEF k, base

(* the segments of a line,                                               *)
LEMMA FoldReadSegment ==
  ASSUME NEW k \in Nat, NEW es, DOMAIN es = 1..k, NEW A, NEW base \in A,
         NEW step \in [1..k -> [A -> A]],
         \A n \in 1..k : \A b \in A : step[n][b] = ReadSegment(b, es[n])
  PROVE  Lead(FoldLeft(ReadSegment, base, es), k, A, base, step)
<1> DEFINE Turn(f, s) == IF s = {} THEN base ELSE ReadSegment(f[s \ {Max(s)}], es[Max(s)])
           Fills(f) == f = [s \in SUBSET (1..k) |-> Turn(f, s)]
<1>1. PICK f \in [SUBSET (1..k) -> A] : Folds(f, k, base, step)
  BY FoldsExist
<1>2. \A s \in SUBSET (1..k) : s # {} => Max(s) \in 1..k /\ s \ {Max(s)} \in SUBSET (1..k)
  BY GreatestNumber
<1>3. \A s \in SUBSET (1..k) : f[s] = Turn(f, s)
  BY <1>1, <1>2, Zenon DEF Folds, Turned
<1>4. f = [s \in SUBSET (1..k) |-> f[s]]
  OBVIOUS
<1>5. Fills(f)
  BY <1>3, <1>4, Zenon
<1> DEFINE iter == CHOOSE h : Fills(h)
<1>6. Fills(iter)
  BY <1>5, Zenon
<1>7. FoldLeft(ReadSegment, base, es) = iter[1..k]
  BY DEF FoldLeft, MapThenFoldSet
<1> HIDE DEF iter
<1>8. \A s \in SUBSET (1..k) : iter[s] = Turn(iter, s)
  BY <1>6, Zenon
<1>9. Turns(iter, k, base, A, step)
  BY <1>2, <1>8, Zenon DEF Turns
<1> HIDE DEF Turn, Fills
<1>10. Lead(iter[1..k], k, A, base, step)
  BY <1>9, FoldLeads
<1> QED
  BY <1>7, <1>10, Zenon

(* and the lines of mappings.                                            *)
LEMMA FoldReadLine ==
  ASSUME NEW k \in Nat, NEW es, DOMAIN es = 1..k, NEW A, NEW base \in A,
         NEW step \in [1..k -> [A -> A]],
         \A n \in 1..k : \A b \in A : step[n][b] = ReadLine(b, es[n])
  PROVE  Lead(FoldLeft(ReadLine, base, es), k, A, base, step)
<1> DEFINE Turn(f, s) == IF s = {} THEN base ELSE ReadLine(f[s \ {Max(s)}], es[Max(s)])
           Fills(f) == f = [s \in SUBSET (1..k) |-> Turn(f, s)]
<1>1. PICK f \in [SUBSET (1..k) -> A] : Folds(f, k, base, step)
  BY FoldsExist
<1>2. \A s \in SUBSET (1..k) : s # {} => Max(s) \in 1..k /\ s \ {Max(s)} \in SUBSET (1..k)
  BY GreatestNumber
<1>3. \A s \in SUBSET (1..k) : f[s] = Turn(f, s)
  BY <1>1, <1>2, Zenon DEF Folds, Turned
<1>4. f = [s \in SUBSET (1..k) |-> f[s]]
  OBVIOUS
<1>5. Fills(f)
  BY <1>3, <1>4, Zenon
<1> DEFINE iter == CHOOSE h : Fills(h)
<1>6. Fills(iter)
  BY <1>5, Zenon
<1>7. FoldLeft(ReadLine, base, es) = iter[1..k]
  BY DEF FoldLeft, MapThenFoldSet
<1> HIDE DEF iter
<1>8. \A s \in SUBSET (1..k) : iter[s] = Turn(iter, s)
  BY <1>6, Zenon
<1>9. Turns(iter, k, base, A, step)
  BY <1>2, <1>8, Zenon DEF Turns
<1> HIDE DEF Turn, Fills
<1>10. Lead(iter[1..k], k, A, base, step)
  BY <1>9, FoldLeads
<1> QED
  BY <1>7, <1>10, Zenon

\* Before the first mapping.
Unput == [out |-> <<>>, line |-> -1, col |-> 0]

\* The source is what the steps put out, and the end.
Rebuilds(index, text, es, k, A, step) ==
  \E v : Lead(v, k, A, Unput, step) /\ ReconstructFromMappings(es, text, index) = Ended(text, v)

(* Mappings put out their text one by one,                               *)
LEMMA FoldEmitOf ==
  ASSUME NEW index, NEW text, NEW k \in Nat, NEW es, DOMAIN es = 1..k, NEW A, Unput \in A,
         NEW step \in [1..k -> [A -> A]],
         \A n \in 1..k : \A b \in A : step[n][b] = EmitOf(index, text, b, es[n])
  PROVE  Rebuilds(index, text, es, k, A, step)
<1> DEFINE base == Unput
           v == FoldLeft(LAMBDA acc, m : EmitOf(index, text, acc, m), Unput, es)
           Turn(f, s) == IF s = {} THEN base ELSE EmitOf(index, text, f[s \ {Max(s)}], es[Max(s)])
           Fills(f) == f = [s \in SUBSET (1..k) |-> Turn(f, s)]
<1>1. PICK f \in [SUBSET (1..k) -> A] : Folds(f, k, base, step)
  BY FoldsExist
<1>2. \A s \in SUBSET (1..k) : s # {} => Max(s) \in 1..k /\ s \ {Max(s)} \in SUBSET (1..k)
  BY GreatestNumber
<1>3. \A s \in SUBSET (1..k) : f[s] = Turn(f, s)
  BY <1>1, <1>2, Zenon DEF Folds, Turned
<1>4. f = [s \in SUBSET (1..k) |-> f[s]]
  OBVIOUS
<1>5. Fills(f)
  BY <1>3, <1>4, Zenon
<1> DEFINE iter == CHOOSE h : Fills(h)
<1>6. Fills(iter)
  BY <1>5, Zenon
<1>7. v = iter[1..k]
  BY DEF FoldLeft, MapThenFoldSet
<1>11. ReconstructFromMappings(es, text, index) = Ended(text, v)
  BY DEF ReconstructFromMappings, Unput
<1> HIDE DEF iter, v
<1>8. \A s \in SUBSET (1..k) : iter[s] = Turn(iter, s)
  BY <1>6, Zenon
<1>9. Turns(iter, k, base, A, step)
  BY <1>2, <1>8, Zenon DEF Turns
<1> HIDE DEF Turn, Fills
<1>10. Lead(iter[1..k], k, A, base, step)
  BY <1>9, FoldLeads
<1> QED
  BY <1>7, <1>10, <1>11, Zenon DEF Rebuilds

(* and files are placed one by one.                                      *)
LEMMA FoldPlace ==
  ASSUME NEW k \in Nat, NEW es, DOMAIN es = 1..k, NEW A, NEW base \in A,
         NEW step \in [1..k -> [A -> A]],
         \A n \in 1..k : \A b \in A : step[n][b] = Place(b, es[n])
  PROVE  Lead(FoldLeft(Place, base, es), k, A, base, step)
<1> DEFINE Turn(f, s) == IF s = {} THEN base ELSE Place(f[s \ {Max(s)}], es[Max(s)])
           Fills(f) == f = [s \in SUBSET (1..k) |-> Turn(f, s)]
<1>1. PICK f \in [SUBSET (1..k) -> A] : Folds(f, k, base, step)
  BY FoldsExist
<1>2. \A s \in SUBSET (1..k) : s # {} => Max(s) \in 1..k /\ s \ {Max(s)} \in SUBSET (1..k)
  BY GreatestNumber
<1>3. \A s \in SUBSET (1..k) : f[s] = Turn(f, s)
  BY <1>1, <1>2, Zenon DEF Folds, Turned
<1>4. f = [s \in SUBSET (1..k) |-> f[s]]
  OBVIOUS
<1>5. Fills(f)
  BY <1>3, <1>4, Zenon
<1> DEFINE iter == CHOOSE h : Fills(h)
<1>6. Fills(iter)
  BY <1>5, Zenon
<1>7. FoldLeft(Place, base, es) = iter[1..k]
  BY DEF FoldLeft, MapThenFoldSet
<1> HIDE DEF iter
<1>8. \A s \in SUBSET (1..k) : iter[s] = Turn(iter, s)
  BY <1>6, Zenon
<1>9. Turns(iter, k, base, A, step)
  BY <1>2, <1>8, Zenon DEF Turns
<1> HIDE DEF Turn, Fills
<1>10. Lead(iter[1..k], k, A, base, step)
  BY <1>9, FoldLeads
<1> QED
  BY <1>7, <1>10, Zenon

-----------------------------------------------------------------------------
(* Pieces of a script, in its order.                                       *)

Spot == Int \X Int

(* One element of X for each place is a list.                               *)
LEMMA ListFrom ==
  ASSUME NEW X, NEW k \in Nat, NEW f, f = [n \in 1..k |-> f[n]], \A n \in 1..k : f[n] \in X
  PROVE  f \in Seq(X) /\ Len(f) = k
<1>1. f \in [1..k -> X]
  OBVIOUS
<1>2. f \in Seq(X)
  BY <1>1, SeqDef
<1>3. DOMAIN f = 1..k /\ DOMAIN f = 1..Len(f) /\ Len(f) \in Nat
  BY <1>1, <1>2
<1> DEFINE l == Len(f)
<1> HIDE DEF l
<1>4. l = k
  <2>1. 1..l = 1..k /\ l \in Nat
    BY <1>3 DEF l
  <2>2. l \in 1..l \/ l = 0
    BY <2>1
  <2>3. k \in 1..k \/ k = 0
    OBVIOUS
  <2> QED
    BY <2>1, <2>2, <2>3
<1> QED
  BY <1>2, <1>4 DEF l

(* The smaller and the larger of two numbers.                               *)
LEMMA PairBounds ==
  ASSUME NEW a \in Int, NEW b \in Int
  PROVE  /\ Min({a, b}) = IF a <= b THEN a ELSE b
         /\ Max({a, b}) = IF a >= b THEN a ELSE b
<1> DEFINE lo == IF a <= b THEN a ELSE b
           hi == IF a >= b THEN a ELSE b
<1>1. lo \in {a, b} /\ \A y \in {a, b} : lo <= y
  OBVIOUS
<1>2. hi \in {a, b} /\ \A y \in {a, b} : hi >= y
  OBVIOUS
<1>3. \A x \in {a, b} : (\A y \in {a, b} : x <= y) => x = lo
  OBVIOUS
<1>4. \A x \in {a, b} : (\A y \in {a, b} : x >= y) => x = hi
  OBVIOUS
<1> HIDE DEF lo, hi
<1>5. Min({a, b}) = lo
  BY <1>1, <1>3 DEF Min
<1>6. Max({a, b}) = hi
  BY <1>2, <1>4 DEF Max
<1> QED
  BY <1>5, <1>6 DEF lo, hi

\* A list of positions in order, from p on and before q.
Ordered(s, p, q) ==
  /\ s \in Seq(Spot)
  /\ \A i, j \in 1..Len(s) : i < j => Before(s[i], s[j])
  /\ \A i \in 1..Len(s) : ~Before(s[i], p) /\ Before(s[i], q)

Upto(p, q) == ~Before(q, p)

(* Positions are ordered.                                                   *)
LEMMA SpotsOrdered ==
  ASSUME NEW p \in Spot, NEW q \in Spot, NEW r \in Spot
  PROVE  /\ Before(p, q) /\ Upto(q, r) => Before(p, r)
         /\ Upto(p, q) /\ Before(q, r) => Before(p, r)
         /\ Upto(p, q) /\ Upto(q, r) => Upto(p, r)
<1>1. p[1] \in Int /\ p[2] \in Int /\ q[1] \in Int /\ q[2] \in Int /\ r[1] \in Int /\ r[2] \in Int
  BY DEF Spot
<1> QED
  BY <1>1 DEF Before, Upto

(* The bounds of a list may be widened,                                     *)
LEMMA Widened ==
  ASSUME NEW s, NEW o \in Spot, NEW p \in Spot, NEW q \in Spot, NEW r \in Spot,
         Ordered(s, p, q), Upto(o, p), Upto(q, r)
  PROVE  Ordered(s, o, r)
<1>1. /\ s \in Seq(Spot)
      /\ \A i, j \in 1..Len(s) : i < j => Before(s[i], s[j])
      /\ \A i \in 1..Len(s) : ~Before(s[i], p) /\ Before(s[i], q)
  BY DEF Ordered
<1>2. ASSUME NEW i \in 1..Len(s) PROVE ~Before(s[i], o) /\ Before(s[i], r)
  <2>1. s[i] \in Spot
    BY <1>1
  <2>2. Upto(o, p) /\ Upto(p, s[i])
    BY <1>1 DEF Upto
  <2>3. Upto(o, s[i]) /\ Before(s[i], r)
    BY <1>1, <2>1, <2>2, SpotsOrdered
  <2> QED
    BY <2>3 DEF Upto
<1> QED
  BY <1>1, <1>2 DEF Ordered

(* and one list follows another.                                            *)
LEMMA OrderedBoth ==
  ASSUME NEW s, NEW t, NEW p \in Spot, NEW q \in Spot, NEW r \in Spot,
         Ordered(s, p, q), Ordered(t, q, r), Upto(p, q), Upto(q, r)
  PROVE  Ordered(s \o t, p, r)
<1> DEFINE v == s \o t
           m == Len(s)
           l == Len(t)
<1>1. Ordered(s, p, r) /\ Ordered(t, p, r)
  <2>1. Upto(p, p) /\ Upto(r, r)
    <3>1. p[1] \in Int /\ p[2] \in Int /\ r[1] \in Int /\ r[2] \in Int
      BY DEF Spot
    <3> QED
      BY <3>1 DEF Upto, Before
  <2> QED
    BY <2>1, Widened
<1>2. s \in Seq(Spot) /\ t \in Seq(Spot) /\ m \in Nat /\ l \in Nat
  BY DEF Ordered
<1>3. v \in Seq(Spot) /\ Both(v, s, t)
  BY <1>2, PlacesOfBoth
<1> HIDE DEF v, m, l
<1>4. /\ Len(v) = m + l
      /\ \A i \in 1..m : v[i] = s[i]
      /\ \A i \in 1..l : v[m + i] = t[i]
  BY <1>3 DEF Both, m, l
<1>5. \A i \in 1..Len(v) : i \in 1..m \/ (i - m \in 1..l /\ i = m + (i - m))
  BY <1>2, <1>4
<1>6. ASSUME NEW i \in 1..Len(v) PROVE ~Before(v[i], p) /\ Before(v[i], r)
  <2>1. CASE i \in 1..m
    BY <1>1, <1>4, <2>1 DEF Ordered, m
  <2>2. CASE i - m \in 1..l /\ i = m + (i - m)
    BY <1>1, <1>4, <2>2 DEF Ordered, l
  <2> QED
    BY <1>5, <2>1, <2>2
<1>7. ASSUME NEW i \in 1..Len(v), NEW j \in 1..Len(v), i < j PROVE Before(v[i], v[j])
  <2>1. CASE i \in 1..m /\ j \in 1..m
    BY <1>4, <1>7, <2>1 DEF Ordered, m
  <2>2. CASE i \in 1..m /\ j - m \in 1..l /\ j = m + (j - m)
    <3>1. v[i] = s[i] /\ v[j] = t[j - m] /\ s[i] \in Spot /\ t[j - m] \in Spot
      BY <1>2, <1>4, <2>2 DEF m, l
    <3>2. Before(s[i], q) /\ Upto(q, t[j - m])
      BY <2>2 DEF Ordered, Upto, m, l
    <3> QED
      BY <3>1, <3>2, SpotsOrdered
  <2>3. CASE i - m \in 1..l /\ i = m + (i - m) /\ j - m \in 1..l /\ j = m + (j - m)
    <3>1. i - m < j - m
      BY <1>2, <1>7, <2>3
    <3>2. v[i] = t[i - m] /\ v[j] = t[j - m]
      BY <1>4, <2>3
    <3> QED
      BY <2>3, <3>1, <3>2 DEF Ordered, l
  <2>4. ~(i - m \in 1..l /\ j \in 1..m)
    BY <1>2, <1>7
  <2> QED
    BY <1>5, <2>1, <2>2, <2>3, <2>4
<1> QED
  BY <1>3, <1>6, <1>7 DEF Ordered, v

(* Nothing is in order.                                                     *)
LEMMA NothingOrdered == \A p, q : Ordered(<<>>, p, q)
BY DEF Ordered

(* Columns of a line are in order.                                          *)
LEMMA SpanOrdered ==
  ASSUME NEW line \in Int, NEW from \in Int, NEW to \in Int,
         NEW a \in Int, NEW c \in Int, a <= from, c >= to
  PROVE  Ordered(Span(line, from, to), <<line, a>>, <<line, c>>)
<1> DEFINE n == Max({to - from, 0})
           s == Span(line, from, to)
<1>1. n \in Nat /\ n >= to - from /\ (n > 0 => n = to - from)
  <2>1. to - from \in Int /\ 0 \in Int
    OBVIOUS
  <2>2. n = IF to - from >= 0 THEN to - from ELSE 0
    BY <2>1, PairBounds
  <2> HIDE DEF n
  <2> QED
    BY <2>2
<1>2. s = [i \in 1..n |-> <<line, from + i - 1>>]
  BY DEF Span
<1> HIDE DEF n, s
<1>3. \A i \in 1..n : from + i - 1 \in Int /\ <<line, from + i - 1>> \in Spot
  BY <1>1 DEF Spot
<1>4. s \in Seq(Spot) /\ Len(s) = n /\ \A i \in 1..n : s[i] = <<line, from + i - 1>>
  <2>1. \A i \in 1..n : s[i] = <<line, from + i - 1>>
    BY <1>2
  <2>2. s = [i \in 1..n |-> s[i]]
    BY <1>2
  <2> QED
    <3>1. \A i \in 1..n : s[i] \in Spot
      BY <1>3, <2>1, Zenon
    <3>2. s \in Seq(Spot) /\ Len(s) = n
      BY <1>1, <2>2, <3>1, ListFrom
    <3> QED
      BY <2>1, <3>2
<1>5. ASSUME NEW i \in 1..n, NEW j \in 1..n, i < j PROVE Before(s[i], s[j])
  <2>1. s[i] = <<line, from + i - 1>> /\ s[j] = <<line, from + j - 1>> /\ from + i - 1 < from + j - 1
    BY <1>1, <1>4, <1>5
  <2> QED
    BY <2>1 DEF Before
<1>6. ASSUME NEW i \in 1..n PROVE ~Before(s[i], <<line, a>>) /\ Before(s[i], <<line, c>>)
  <2>1. ~(from + i - 1 < a) /\ from + i - 1 < c
    BY <1>1
  <2> QED
    BY <1>4, <2>1 DEF Before
<1> QED
  BY <1>4, <1>5, <1>6 DEF Ordered, s

(* Where a line is up to a column, and from its start to the next.          *)
LEMMA WholeOrdered ==
  ASSUME NEW text \in Seq(Nat), NEW line \in 0..(Len(text) - 1)
  PROVE  Ordered(Whole(text, line), <<line, 0>>, <<line + 1, 0>>)
<1>1. line \in Int /\ line + 1 \in Int /\ line + 1 \in 1..Len(text)
  OBVIOUS
<1> DEFINE l == text[line + 1]
<1>2. l \in Nat
  BY <1>1
<1> HIDE DEF l
<1>3. Whole(text, line) = Span(line, 0, l + 1)
  BY DEF Whole, l
<1>4. Ordered(Span(line, 0, l + 1), <<line, 0>>, <<line, l + 1>>)
  BY <1>1, <1>2, SpanOrdered
<1>5. /\ <<line, 0>> \in Spot /\ <<line, l + 1>> \in Spot /\ <<line + 1, 0>> \in Spot
      /\ Upto(<<line, 0>>, <<line, 0>>) /\ Upto(<<line, l + 1>>, <<line + 1, 0>>)
  BY <1>1, <1>2 DEF Spot, Upto, Before
<1> QED
  BY <1>3, <1>4, <1>5, Widened

\* The lines between l and m, whole.
Between(text, l, n) == FlattenSeq([k \in 1..n |-> Whole(text, l + k)])

(* Whole lines one after another.                                           *)
LEMMA BetweenOrdered ==
  ASSUME NEW text \in Seq(Nat), NEW l \in Int, NEW n \in Int, -1 <= l, l + n < Len(text)
  PROVE  Ordered(Between(text, l, n), <<l + 1, 0>>, <<IF n > 0 THEN l + 1 + n ELSE l + 1, 0>>)
<1> DEFINE lines == [k \in 1..n |-> Whole(text, l + k)]
<1>0. \A k \in 1..n : l + k \in 0..(Len(text) - 1)
  OBVIOUS
<1>1. \A k \in 1..n : Ordered(lines[k], <<l + k, 0>>, <<l + k + 1, 0>>)
  <2> TAKE k \in 1..n
  <2>1. Ordered(Whole(text, l + k), <<l + k, 0>>, <<(l + k) + 1, 0>>)
    BY <1>0, WholeOrdered
  <2> QED
    BY <2>1
<1>2. \A k \in 1..n : lines[k] \in Seq(Spot)
  BY <1>1 DEF Ordered
<1>3. CASE n <= 0
  <2>1. lines \in Seq(Seq(Spot)) /\ Len(lines) = 0
    <3>1. 1..n = 1..0 /\ \A k \in 1..0 : FALSE
      BY <1>3
    <3>2. lines = [k \in 1..0 |-> lines[k]]
      BY <3>1
    <3> HIDE DEF lines
    <3> QED
      BY <3>1, <3>2, ListFrom
  <2> HIDE DEF lines
  <2>2. PICK f : Flattens(f, lines, Spot)
    BY <2>1, FlattenSteps
  <2>3. FlattenSeq(lines) = <<>>
    BY <2>1, <2>2 DEF Flattens
  <2> QED
    BY <2>3, NothingOrdered DEF Between, lines
<1>4. CASE n > 0
  <2>1. lines \in Seq(Seq(Spot)) /\ Len(lines) = n /\ n \in Nat
    <3>1. n \in Nat
      BY <1>4
    <3> QED
      BY <1>2, <3>1
  <2> HIDE DEF lines
  <2>2. PICK f : Flattens(f, lines, Spot)
    BY <2>1, FlattenSteps
  <2>3. /\ f \in [0..n -> Seq(Spot)] /\ f[0] = <<>>
        /\ \A k \in 1..n : f[k] = f[k - 1] \o lines[k]
        /\ FlattenSeq(lines) = f[n]
    BY <2>1, <2>2 DEF Flattens
  <2> DEFINE S == {k \in 0..n : Ordered(f[k], <<l + 1, 0>>, <<l + k + 1, 0>>)}
  <2>4. 0 \in S
    BY <2>1, <2>3, NothingOrdered
  <2>5. \A k \in 1..n : k - 1 \in S => k \in S
    <3> SUFFICES ASSUME NEW k \in 1..n, Ordered(f[k - 1], <<l + 1, 0>>, <<l + (k - 1) + 1, 0>>)
                 PROVE  Ordered(f[k], <<l + 1, 0>>, <<l + k + 1, 0>>) /\ k \in 0..n
      BY <2>1
    <3>1. l + (k - 1) + 1 = l + k /\ k \in 0..n
      BY <2>1
    <3>2. Ordered(f[k - 1], <<l + 1, 0>>, <<l + k, 0>>)
      BY <3>1
    <3>3. /\ <<l + 1, 0>> \in Spot /\ <<l + k, 0>> \in Spot /\ <<l + k + 1, 0>> \in Spot
          /\ Upto(<<l + 1, 0>>, <<l + k, 0>>) /\ Upto(<<l + k, 0>>, <<l + k + 1, 0>>)
      BY <2>1 DEF Spot, Upto, Before
    <3>4. Ordered(f[k - 1] \o lines[k], <<l + 1, 0>>, <<l + k + 1, 0>>)
      BY <1>1, <3>2, <3>3, OrderedBoth
    <3> QED
      BY <2>3, <3>1, <3>4
  <2> HIDE DEF S
  <2>6. n \in S
    <3>1. 0..n \subseteq S
      BY <2>1, <2>4, <2>5, InductionUpTo
    <3>2. n \in 0..n
      BY <2>1
    <3> QED
      BY <3>1, <3>2
  <2>7. l + n + 1 = l + 1 + n
    OBVIOUS
  <2> QED
    BY <1>4, <2>3, <2>6, <2>7 DEF S, Between, lines
<1> QED
  BY <1>3, <1>4

Entry == [line : Nat, col : Int, source : Int, sourceLine : Int, sourceCol : Int, name : Int]

\* The text put out so far, and the last mapping that counted.
Output(text) == [out : Seq(Spot), line : -1..(Len(text) - 1), col : Int]

\* How far the text is put out.
Reached(text, l, c) ==
  IF l < 0 THEN <<0, 0>>
  ELSE <<l, IF c < 0 THEN 0 ELSE IF c <= text[l + 1] THEN c ELSE text[l + 1]>>

(* What is reached is a position on the line.                               *)
LEMMA ReachedSpots ==
  ASSUME NEW text \in Seq(Nat), NEW l \in -1..(Len(text) - 1), NEW c \in Int
  PROVE  /\ Reached(text, l, c) \in Spot /\ <<l + 1, 0>> \in Spot
         /\ Upto(<<0, 0>>, Reached(text, l, c)) /\ Upto(Reached(text, l, c), <<l + 1, 0>>)
         /\ l >= 0 => /\ text[l + 1] \in Nat /\ <<l, 0>> \in Spot /\ <<l, text[l + 1]>> \in Spot
                      /\ Upto(<<l, 0>>, Reached(text, l, c))
                      /\ Upto(Reached(text, l, c), <<l, text[l + 1]>>)
                      /\ Upto(<<l, text[l + 1]>>, <<l + 1, 0>>)
<1>1. CASE l < 0
  <2>1. l + 1 = 0 /\ Reached(text, l, c) = <<0, 0>>
    BY <1>1 DEF Reached
  <2> QED
    BY <1>1, <2>1 DEF Spot, Upto, Before
<1>2. CASE l >= 0
  <2> DEFINE n == text[l + 1]
             e == IF c < 0 THEN 0 ELSE IF c <= n THEN c ELSE n
  <2>1. n \in Nat /\ l \in Nat
    <3>1. l + 1 \in 1..Len(text)
      BY <1>2
    <3> QED
      BY <1>2, <3>1
  <2>2. Reached(text, l, c) = <<l, e>>
    BY <1>2 DEF Reached
  <2> HIDE DEF n
  <2>3. e \in Nat /\ e <= n
    BY <2>1
  <2> HIDE DEF e
  <2>4. /\ <<l, e>> \in Spot /\ <<l + 1, 0>> \in Spot /\ <<l, 0>> \in Spot /\ <<l, n>> \in Spot
    BY <2>1, <2>3 DEF Spot
  <2>5. /\ Upto(<<0, 0>>, <<l, e>>) /\ Upto(<<l, e>>, <<l + 1, 0>>) /\ Upto(<<l, 0>>, <<l, e>>)
        /\ Upto(<<l, e>>, <<l, n>>) /\ Upto(<<l, n>>, <<l + 1, 0>>)
    BY <2>1, <2>3 DEF Upto, Before
  <2> QED
    BY <2>1, <2>2, <2>4, <2>5 DEF n
<1> QED
  BY <1>1, <1>2

(* What later mappings reach is no earlier.                                 *)
LEMMA ReachedOn ==
  ASSUME NEW text \in Seq(Nat), NEW l \in -1..(Len(text) - 1), NEW c \in Int,
         NEW m \in 0..(Len(text) - 1), NEW d \in Int, l < 0 \/ Upto(<<l, c>>, <<m, d>>)
  PROVE  /\ l <= m /\ (l = m => c <= d)
         /\ Upto(Reached(text, l, c), Reached(text, m, d))
<1>1. CASE l < 0
  <2>1. Reached(text, l, c) = <<0, 0>> /\ l <= m /\ l # m
    BY <1>1 DEF Reached
  <2>2. m \in -1..(Len(text) - 1)
    OBVIOUS
  <2>3. Upto(<<0, 0>>, Reached(text, m, d))
    BY <2>2, ReachedSpots
  <2> QED
    BY <2>1, <2>3
<1>2. CASE l >= 0
  <2>1. l <= m /\ (l = m => c <= d)
    BY <1>2 DEF Upto, Before
  <2>2. CASE l = m
    <3> DEFINE n == text[l + 1]
    <3>1. n \in Nat
      <4>1. l + 1 \in 1..Len(text)
        BY <1>2
      <4> QED
        BY <4>1
    <3>2. /\ Reached(text, l, c) = <<l, IF c < 0 THEN 0 ELSE IF c <= n THEN c ELSE n>>
          /\ Reached(text, m, d) = <<l, IF d < 0 THEN 0 ELSE IF d <= n THEN d ELSE n>>
      BY <1>2, <2>2 DEF Reached
    <3> HIDE DEF n
    <3>3. Upto(Reached(text, l, c), Reached(text, m, d))
      BY <2>1, <2>2, <3>1, <3>2 DEF Upto, Before
    <3> QED
      BY <2>1, <3>3
  <2>3. CASE l < m
    <3>1. Reached(text, l, c)[1] = l /\ Reached(text, m, d)[1] = m
      BY <1>2, <2>3 DEF Reached
    <3>2. Upto(Reached(text, l, c), Reached(text, m, d))
      BY <2>3, <3>1 DEF Upto, Before
    <3> QED
      BY <2>1, <3>2
  <2> QED
    BY <2>1, <2>2, <2>3
<1> QED
  BY <1>1, <1>2

(* The rest of a line is in order,                                          *)
LEMMA RestOrdered ==
  ASSUME NEW text \in Seq(Nat), NEW l \in 0..(Len(text) - 1), NEW c \in Int
  PROVE  Ordered(Rest(text, l, c), Reached(text, l, c), <<l, text[l + 1]>>)
<1> DEFINE n == text[l + 1]
           from == IF c < 0 THEN Max({n + c, 0}) ELSE c
           e == IF c < 0 THEN 0 ELSE IF c <= n THEN c ELSE n
<1>1. n \in Nat /\ l \in Int
  <2>1. l + 1 \in 1..Len(text)
    OBVIOUS
  <2> QED
    BY <2>1
<1>2. Rest(text, l, c) = Span(l, from, n)
  BY DEF Rest
<1>3. Reached(text, l, c) = <<l, e>>
  BY DEF Reached
<1> HIDE DEF n
<1>4. from \in Int /\ e \in Int /\ e <= from
  <2>1. n + c \in Int /\ 0 \in Int
    BY <1>1
  <2>2. Max({n + c, 0}) = IF n + c >= 0 THEN n + c ELSE 0
    BY <2>1, PairBounds
  <2> QED
    BY <1>1, <2>2
<1> HIDE DEF from, e
<1>5. n >= n /\ n \in Int
  BY <1>1
<1>6. Ordered(Span(l, from, n), <<l, e>>, <<l, n>>)
  BY <1>1, <1>4, <1>5, SpanOrdered
<1> QED
  BY <1>2, <1>3, <1>6 DEF n

\* What is left of the last mapping's line, and the end of it.
Opening(text, acc) ==
  IF acc.line < 0 THEN <<>>
  ELSE Rest(text, acc.line, acc.col) \o <<<<acc.line, text[acc.line + 1]>>>>

(* also with the end of the line,                                           *)
LEMMA OpeningOrdered ==
  ASSUME NEW text \in Seq(Nat), NEW acc \in Output(text)
  PROVE  Ordered(Opening(text, acc), Reached(text, acc.line, acc.col), <<acc.line + 1, 0>>)
<1> DEFINE l == acc.line
           c == acc.col
<1>1. l \in -1..(Len(text) - 1) /\ c \in Int
  BY DEF Output
<1>2. CASE l < 0
  BY <1>2, NothingOrdered DEF Opening
<1>3. CASE ~(l < 0)
  <2> DEFINE n == text[l + 1]
             x == <<<<l, n>>>>
  <2>1. Opening(text, acc) = Rest(text, l, c) \o x
    BY <1>3 DEF Opening
  <2> HIDE DEF l, c
  <2>2. l \in 0..(Len(text) - 1) /\ l >= 0
    BY <1>1, <1>3
  <2>3. Ordered(Rest(text, l, c), Reached(text, l, c), <<l, n>>)
    BY <1>1, <2>2, RestOrdered
  <2>4. /\ Reached(text, l, c) \in Spot /\ <<l + 1, 0>> \in Spot /\ <<l, n>> \in Spot /\ n \in Nat
        /\ Upto(Reached(text, l, c), <<l, n>>) /\ Upto(<<l, n>>, <<l + 1, 0>>)
    BY <1>1, <2>2, ReachedSpots
  <2> HIDE DEF n
  <2>5. x \in Seq(Spot) /\ Len(x) = 1 /\ x[1] = <<l, n>>
    BY <2>4, ListOfOne
  <2>6. ~Before(<<l, n>>, <<l, n>>) /\ Before(<<l, n>>, <<l + 1, 0>>)
    BY <2>2, <2>4 DEF Before
  <2> HIDE DEF x
  <2>7. Ordered(x, <<l, n>>, <<l + 1, 0>>)
    <3>1. \A i \in 1..Len(x) : i = 1
      BY <2>5
    <3>2. \A i \in 1..Len(x) : ~Before(x[i], <<l, n>>) /\ Before(x[i], <<l + 1, 0>>)
      BY <2>5, <2>6, <3>1
    <3>3. \A i, j \in 1..Len(x) : ~(i < j)
      BY <2>5
    <3> QED
      BY <2>5, <3>2, <3>3 DEF Ordered
  <2>8. Ordered(Rest(text, l, c) \o x, Reached(text, l, c), <<l + 1, 0>>)
    BY <2>3, <2>4, <2>7, OrderedBoth
  <2> QED
    BY <2>1, <2>8 DEF l, c
<1> QED
  BY <1>2, <1>3

\* The text of one mapping.
Here(text, acc, m) ==
  LET end == Min({m.col, text[m.line + 1]})
  IN  IF m.line = acc.line THEN Span(m.line, Max({acc.col, 0}), end)
      ELSE Opening(text, acc) \o Between(text, acc.line, m.line - acc.line - 1)
           \o Span(m.line, 0, end)

(* and so is the text of one mapping more.                                  *)
LEMMA HereOrdered ==
  ASSUME NEW text \in Seq(Nat), NEW acc \in Output(text), NEW m \in Entry, m.line < Len(text)
  PROVE  /\ Here(text, acc, m) \in Seq(Spot)
         /\ acc.line < 0 \/ Upto(<<acc.line, acc.col>>, <<m.line, m.col>>) =>
              Ordered(Here(text, acc, m), Reached(text, acc.line, acc.col),
                      Reached(text, m.line, m.col))
<1> DEFINE l == acc.line
           c == acc.col
           ml == m.line
           d == m.col
           n == text[ml + 1]
           end == Min({d, n})
           e == IF d < 0 THEN 0 ELSE IF d <= n THEN d ELSE n
           a == Opening(text, acc)
           b == Between(text, l, ml - l - 1)
           s == Span(ml, 0, end)
           h == Here(text, acc, m)
           r == Reached(text, l, c)
           t == Reached(text, ml, d)
<1>1. l \in -1..(Len(text) - 1) /\ c \in Int /\ ml \in 0..(Len(text) - 1) /\ d \in Int
  BY DEF Output, Entry
<1>2. h = IF ml = l THEN Span(ml, Max({c, 0}), end) ELSE a \o b \o s
  BY DEF Here
<1>3. n \in Nat
  <2>1. ml + 1 \in 1..Len(text)
    BY <1>1
  <2> QED
    BY <2>1
<1>4. Ordered(a, r, <<l + 1, 0>>)
  BY OpeningOrdered
<1> HIDE DEF l, c, ml, d, h, a
<1>5. Ordered(b, <<l + 1, 0>>, <<IF ml - l - 1 > 0 THEN l + 1 + (ml - l - 1) ELSE l + 1, 0>>)
  <2> DEFINE w == ml - l - 1
  <2>1. w \in Int /\ l \in Int /\ -1 <= l /\ l + w < Len(text)
    BY <1>1
  <2> HIDE DEF w
  <2>2. Ordered(Between(text, l, w), <<l + 1, 0>>, <<IF w > 0 THEN l + 1 + w ELSE l + 1, 0>>)
    BY <2>1, BetweenOrdered
  <2> QED
    BY <2>2 DEF w
<1>6. t = <<ml, e>>
  BY <1>1 DEF Reached
<1> HIDE DEF n, b
<1>7. end \in Int /\ end <= e /\ e \in Int /\ ml \in Int
  <2>1. end = IF d <= n THEN d ELSE n
    BY <1>1, <1>3, PairBounds
  <2> QED
    BY <1>1, <1>3, <2>1
<1> HIDE DEF end, e
<1>8. Ordered(s, <<ml, 0>>, t)
  <2>1. 0 \in Int /\ 0 <= 0 /\ e >= end
    BY <1>7
  <2>2. Ordered(Span(ml, 0, end), <<ml, 0>>, <<ml, e>>)
    BY <1>7, <2>1, SpanOrdered
  <2> QED
    BY <1>6, <2>2
<1>9. /\ r \in Spot /\ t \in Spot /\ <<l + 1, 0>> \in Spot /\ <<ml, 0>> \in Spot
      /\ Upto(r, <<l + 1, 0>>) /\ Upto(<<ml, 0>>, t)
  <2>1. ml \in -1..(Len(text) - 1) /\ ml >= 0
    BY <1>1
  <2> QED
    BY <1>1, <2>1, ReachedSpots
<1>10. CASE ml = l
  <2> DEFINE from == Max({c, 0})
             f == IF c < 0 THEN 0 ELSE IF c <= n THEN c ELSE n
  <2>1. from = IF c >= 0 THEN c ELSE 0
    <3>1. 0 \in Int
      OBVIOUS
    <3> QED
      BY <1>1, <3>1, PairBounds
  <2>2. from \in Int /\ f \in Int /\ f <= from
    BY <1>1, <1>3, <2>1
  <2>3. r = <<l, f>>
    BY <1>1, <1>10 DEF Reached, n
  <2> HIDE DEF from, f
  <2>4. Ordered(Span(ml, from, end), <<ml, f>>, <<ml, e>>)
    <3>1. e >= end
      BY <1>7
    <3> QED
      BY <1>7, <2>2, <3>1, SpanOrdered
  <2>5. h = Span(ml, from, end)
    BY <1>2, <1>10 DEF from
  <2>6. Ordered(h, r, t)
    BY <1>6, <1>10, <2>3, <2>4, <2>5
  <2> QED
    BY <2>6 DEF Ordered, h, r, t, l, c, ml, d
<1>11. CASE ml # l
  <2>1. h = a \o b \o s
    BY <1>2, <1>11
  <2> HIDE DEF s, r, t
  <2>2. a \in Seq(Spot) /\ b \in Seq(Spot) /\ s \in Seq(Spot)
    BY <1>4, <1>5, <1>8 DEF Ordered
  <2>3. h \in Seq(Spot)
    <3>1. a \o b \in Seq(Spot)
      BY <2>2, PlacesOfBoth
    <3> QED
      BY <2>1, <2>2, <3>1, PlacesOfBoth
  <2>4. ASSUME l < 0 \/ Upto(<<l, c>>, <<ml, d>>) PROVE Ordered(h, r, t)
    <3>1. l <= ml
      BY <1>1, <2>4, ReachedOn
    <3>2. (IF ml - l - 1 > 0 THEN l + 1 + (ml - l - 1) ELSE l + 1) = ml
      BY <1>1, <1>11, <3>1
    <3>3. Ordered(b, <<l + 1, 0>>, <<ml, 0>>)
      BY <1>5, <3>2
    <3>4. Upto(<<l + 1, 0>>, <<ml, 0>>)
      BY <1>1, <1>11, <3>1 DEF Upto, Before
    <3>5. Upto(r, <<ml, 0>>)
      BY <1>9, <3>4, SpotsOrdered
    <3>6. Ordered(a \o b, r, <<ml, 0>>)
      BY <1>4, <1>9, <3>3, <3>4, OrderedBoth
    <3>7. Ordered((a \o b) \o s, r, t)
      BY <1>8, <1>9, <3>5, <3>6, OrderedBoth
    <3> QED
      BY <2>1, <3>7
  <2> QED
    BY <2>3, <2>4 DEF h, r, t, l, c, ml, d
<1> QED
  BY <1>10, <1>11

\* All that was put out is in order, up to what is reached.
PutOut(acc, text) == Ordered(acc.out, <<0, 0>>, Reached(text, acc.line, acc.col))

(* One mapping: the text up to it, and the mapping is the last one.         *)
LEMMA EmitOrdered ==
  ASSUME NEW text \in Seq(Nat), NEW acc \in Output(text), NEW m \in Entry, NEW index
  PROVE  LET e == EmitOf(index, text, acc, m)
         IN  /\ e \in Output(text)
             /\ e = acc \/ (e.line = m.line /\ e.col = m.col)
             /\ PutOut(acc, text) /\ (acc.line < 0 \/ Upto(<<acc.line, acc.col>>, <<m.line, m.col>>))
                  => PutOut(e, text)
<1> DEFINE e == EmitOf(index, text, acc, m)
           h == Here(text, acc, m)
<1>1. CASE m.source # index \/ m.line >= Len(text)
  <2>1. e = acc
    BY <1>1 DEF EmitOf, Emit
  <2> QED
    BY <2>1
<1>2. CASE m.source = index /\ ~(m.line >= Len(text))
  <2>1. e = [out |-> acc.out \o h, line |-> m.line, col |-> m.col]
    BY <1>2 DEF EmitOf, Emit, Here, Opening, Between
  <2>2. m.line \in Nat /\ m.col \in Int /\ m.line \in 0..(Len(text) - 1) /\ m.line < Len(text)
    BY <1>2 DEF Entry
  <2>3. /\ h \in Seq(Spot)
        /\ acc.line < 0 \/ Upto(<<acc.line, acc.col>>, <<m.line, m.col>>) =>
             Ordered(h, Reached(text, acc.line, acc.col), Reached(text, m.line, m.col))
    BY <2>2, HereOrdered
  <2>4. acc.out \in Seq(Spot) /\ acc.line \in -1..(Len(text) - 1) /\ acc.col \in Int
    BY DEF Output
  <2> HIDE DEF h, e
  <2>5. acc.out \o h \in Seq(Spot)
    BY <2>3, <2>4, PlacesOfBoth
  <2>6. e.out = acc.out \o h /\ e.line = m.line /\ e.col = m.col
    BY <2>1
  <2>7. m.line \in -1..(Len(text) - 1)
    BY <2>2
  <2>8. e \in Output(text)
    BY <2>1, <2>2, <2>5, <2>7 DEF Output
  <2>9. ASSUME PutOut(acc, text), acc.line < 0 \/ Upto(<<acc.line, acc.col>>, <<m.line, m.col>>)
        PROVE  PutOut(e, text)
    <3> DEFINE r == Reached(text, acc.line, acc.col)
               t == Reached(text, m.line, m.col)
               o == <<0, 0>>
    <3>1. Ordered(acc.out, o, r) /\ Ordered(h, r, t)
      BY <2>3, <2>9 DEF PutOut
    <3>2. o \in Spot
      BY DEF Spot
    <3>3. r \in Spot /\ t \in Spot /\ Upto(o, r)
      BY <2>2, <2>4, <2>7, ReachedSpots
    <3>4. Upto(r, t)
      BY <2>2, <2>4, <2>9, ReachedOn
    <3> HIDE DEF o, r, t
    <3>5. Ordered(acc.out \o h, o, t)
      BY <3>1, <3>2, <3>3, <3>4, OrderedBoth
    <3> QED
      BY <2>6, <3>5 DEF PutOut, o, t
  <2> QED
    BY <2>6, <2>8, <2>9 DEF e
<1> QED
  BY <1>1, <1>2

(* The pieces a source is rebuilt from are in the script's order.           *)
LEMMA PiecesOrdered ==
  ASSUME NEW text \in Seq(Nat), NEW entries \in Seq(Entry), NEW index, InOrder(entries)
  PROVE  LET out == ReconstructFromMappings(entries, text, index)
         IN  out \in Seq(Spot) /\ \A i, j \in DOMAIN out : i < j => Before(out[i], out[j])
<1> DEFINE k == Len(entries)
           A == Output(text)
           base == Unput
           step == [n \in 1..k |-> [a \in A |-> EmitOf(index, text, a, entries[n])]]
           Last1(a, n) == a.line < 0 \/ \E j \in 1..n : a.line = entries[j].line /\ a.col = entries[j].col
<1>1. k \in Nat /\ DOMAIN entries = 1..k /\ \A n \in 1..k : entries[n] \in Entry
  OBVIOUS
<1>2. base \in A
  <2>1. -1 \in -1..(Len(text) - 1) /\ <<>> \in Seq(Spot)
    OBVIOUS
  <2> QED
    BY <2>1 DEF Output, Unput
<1>3. ASSUME NEW n \in 1..k, NEW a \in A PROVE EmitOf(index, text, a, entries[n]) \in A
  BY <1>1, EmitOrdered
<1>4. /\ step \in [1..k -> [A -> A]]
      /\ \A n \in 1..k : \A a \in A : step[n][a] = EmitOf(index, text, a, entries[n])
  BY <1>3
<1> HIDE DEF k, A, base, step
<1>5. PICK last : /\ Lead(last, k, A, base, step)
                  /\ ReconstructFromMappings(entries, text, index) = Ended(text, last)
  <2>1. Rebuilds(index, text, entries, k, A, step)
    BY <1>1, <1>2, <1>4, FoldEmitOf DEF base
  <2> QED
    BY <2>1 DEF Rebuilds, base
<1>6. PICK g \in [0..k -> A] : Steps(g, k, base, step) /\ last = g[k]
  BY <1>5 DEF Lead
<1>7. g[0] = base /\ \A n \in 1..k : g[n] = step[n][g[n - 1]]
  BY <1>6 DEF Steps
<1> DEFINE S == {n \in 0..k : PutOut(g[n], text) /\ Last1(g[n], n)}
<1>8. 0 \in S
  <2>1. base.line < 0 /\ base.out = <<>>
    BY DEF base, Unput
  <2>2. PutOut(base, text) /\ Last1(base, 0)
    BY <2>1, NothingOrdered DEF PutOut
  <2> QED
    BY <1>1, <1>7, <2>2
<1>9. \A n \in 1..k : n - 1 \in S => n \in S
  <2> SUFFICES ASSUME NEW n \in 1..k, PutOut(g[n - 1], text), Last1(g[n - 1], n - 1)
               PROVE  PutOut(g[n], text) /\ Last1(g[n], n) /\ n \in 0..k
    BY <1>1
  <2> DEFINE a == g[n - 1]
             m == entries[n]
  <2>1. n - 1 \in 0..k /\ n \in 0..k
    BY <1>1
  <2>2. a \in A /\ m \in Entry /\ g[n] = EmitOf(index, text, a, m)
    BY <1>1, <1>4, <1>7, <2>1
  <2>3. a.line < 0 \/ Upto(<<a.line, a.col>>, <<m.line, m.col>>)
    <3>1. CASE a.line < 0
      BY <3>1
    <3>2. ASSUME NEW j \in 1..(n - 1), a.line = entries[j].line, a.col = entries[j].col
          PROVE  Upto(<<a.line, a.col>>, <<m.line, m.col>>)
      <4>1. j \in DOMAIN entries /\ n \in DOMAIN entries /\ j < n
        BY <1>1
      <4>2. ~Before(<<m.line, m.col>>, <<entries[j].line, entries[j].col>>)
        BY <4>1 DEF InOrder
      <4> QED
        BY <3>2, <4>2 DEF Upto
    <3> QED
      BY <3>1, <3>2
  <2> HIDE DEF a, m
  <2>4. /\ g[n] = a \/ (g[n].line = m.line /\ g[n].col = m.col)
        /\ PutOut(g[n], text)
    <3>1. a \in Output(text) /\ PutOut(a, text)
      BY <2>2 DEF A, a
    <3> QED
      BY <2>2, <2>3, <3>1, EmitOrdered
  <2>5. Last1(g[n], n)
    <3>1. CASE g[n] = a
      <4>1. \A j \in 1..(n - 1) : j \in 1..n
        BY <1>1
      <4> QED
        BY <3>1, <4>1 DEF a
    <3>2. CASE g[n].line = m.line /\ g[n].col = m.col
      <4>1. n \in 1..n
        BY <1>1
      <4> QED
        BY <3>2, <4>1 DEF m
    <3> QED
      BY <2>4, <3>1, <3>2
  <2> QED
    BY <2>1, <2>4, <2>5
<1> HIDE DEF S
<1>10. k \in S
  <2>1. 0..k \subseteq S
    BY <1>1, <1>8, <1>9, InductionUpTo
  <2>2. k \in 0..k
    BY <1>1
  <2> QED
    BY <2>1, <2>2
<1>11. last \in Output(text) /\ PutOut(last, text)
  <2>1. k \in 0..k
    BY <1>1
  <2> QED
    BY <1>6, <1>10, <2>1 DEF S, A
<1> DEFINE l == last.line
           c == last.col
           out == ReconstructFromMappings(entries, text, index)
<1>12. out = last.out \o (IF l < 0 THEN <<>> ELSE Rest(text, l, c))
  BY <1>5 DEF Ended
<1>13. l \in -1..(Len(text) - 1) /\ c \in Int /\ Ordered(last.out, <<0, 0>>, Reached(text, l, c))
  BY <1>11 DEF Output, PutOut
<1> HIDE DEF out, l, c
<1>14. \E q : Ordered(out, <<0, 0>>, q)
  <2>1. CASE l < 0
    <3>1. last.out \in Seq(Spot)
      BY <1>13 DEF Ordered
    <3>2. out = last.out
      BY <1>12, <2>1, <3>1
    <3> QED
      BY <1>13, <3>2
  <2>2. CASE ~(l < 0)
    <3>1. l \in 0..(Len(text) - 1) /\ l >= 0
      BY <1>13, <2>2
    <3> DEFINE o == <<0, 0>>
               r == Reached(text, l, c)
               q == <<l, text[l + 1]>>
    <3>2. o \in Spot
      BY DEF Spot
    <3>3. r \in Spot /\ q \in Spot /\ Upto(o, r) /\ Upto(r, q)
      BY <1>13, <3>1, ReachedSpots
    <3>4. Ordered(Rest(text, l, c), r, q) /\ Ordered(last.out, o, r)
      BY <1>13, <3>1, RestOrdered
    <3> HIDE DEF o, r, q
    <3>5. Ordered(last.out \o Rest(text, l, c), o, q)
      BY <3>2, <3>3, <3>4, OrderedBoth
    <3> QED
      BY <1>12, <2>2, <3>5 DEF o
  <2> QED
    BY <2>1, <2>2
<1>15. out \in Seq(Spot) /\ \A i, j \in 1..Len(out) : i < j => Before(out[i], out[j])
  BY <1>14 DEF Ordered
<1>16. DOMAIN out = 1..Len(out)
  BY <1>15
<1> QED
  BY <1>15, <1>16 DEF out

-----------------------------------------------------------------------------
(* Reading mappings.                                                       *)

\* The number in a word is read bit by bit from the highest.
SignedBy(f, word) ==
  /\ \A n \in 0..30 : f[n] \in Int
  /\ f[0] = (IF 31 \in word THEN -1 ELSE 0)
  /\ \A n \in 1..30 : f[n] = 2 * f[n - 1] + (IF 31 - n \in word THEN 1 ELSE 0)
  /\ Signed(word) = IF 0 \in word THEN -f[30] ELSE f[30]

(* The loop that reads the number in a word, and what its steps give.       *)
LEMMA SignedSteps ==
  ASSUME NEW word
  PROVE  \E f : SignedBy(f, word)
<1> DEFINE first == IF 31 \in word THEN -1 ELSE 0
           step == [n \in 1..30 |-> [a \in Int |-> 2 * a + (IF 31 - n \in word THEN 1 ELSE 0)]]
           Fills(f) == f = [n \in 0..30 |-> IF n = 0 THEN first
                              ELSE 2 * f[n - 1] + (IF 31 - n \in word THEN 1 ELSE 0)]
<1>1. first \in Int
  OBVIOUS
<1>2. step \in [1..30 -> [Int -> Int]]
  OBVIOUS
<1>3. \A n \in 1..30 : \A a \in Int : step[n][a] = 2 * a + (IF 31 - n \in word THEN 1 ELSE 0)
  OBVIOUS
<1> HIDE DEF first, step
<1>4. PICK f \in [0..30 -> Int] : Steps(f, 30, first, step)
  <2>1. 30 \in Nat
    OBVIOUS
  <2> QED
    BY <1>1, <1>2, <2>1, StepwiseFunction
<1>5. f[0] = first /\ \A n \in 1..30 : f[n] = 2 * f[n - 1] + (IF 31 - n \in word THEN 1 ELSE 0)
  <2>1. \A n \in 1..30 : n - 1 \in 0..30
    OBVIOUS
  <2>2. \A n \in 1..30 : f[n - 1] \in Int
    BY <2>1
  <2> QED
    BY <1>3, <1>4, <2>2, Zenon DEF Steps
<1>6. Fills(f)
  <2>1. \A n \in 0..30 : n # 0 => n \in 1..30
    OBVIOUS
  <2>2. f = [n \in 0..30 |-> f[n]]
    OBVIOUS
  <2>3. \A n \in 0..30 : f[n] = IF n = 0 THEN first
                                ELSE 2 * f[n - 1] + (IF 31 - n \in word THEN 1 ELSE 0)
    BY <1>5, <2>1, Zenon
  <2> QED
    BY <2>2, <2>3, Zenon
<1> DEFINE upTo == CHOOSE g : Fills(g)
<1>7. Fills(upTo)
  BY <1>6, Zenon
<1>8. Signed(word) = IF 0 \in word THEN -upTo[30] ELSE upTo[30]
  BY DEF Signed, first
<1> HIDE DEF upTo
<1>9. \A n \in 0..30 : upTo[n] = IF n = 0 THEN first
                                 ELSE 2 * upTo[n - 1] + (IF 31 - n \in word THEN 1 ELSE 0)
  BY <1>7, Zenon
<1> HIDE DEF Fills
<1>10. \A n \in 0..30 : upTo[n] \in Int
  <2>1. upTo[0] \in Int
    BY <1>1, <1>9
  <2>2. \A n \in 1..30 : upTo[n - 1] \in Int => upTo[n] \in Int
    <3> SUFFICES ASSUME NEW n \in 1..30, upTo[n - 1] \in Int PROVE upTo[n] \in Int
      OBVIOUS
    <3>1. n \in 0..30 /\ n # 0
      OBVIOUS
    <3>2. upTo[n] = 2 * upTo[n - 1] + (IF 31 - n \in word THEN 1 ELSE 0)
      BY <1>9, <3>1, Zenon
    <3> QED
      BY <3>2
  <2>3. 30 \in Nat
    OBVIOUS
  <2> QED
    BY <2>1, <2>2, <2>3, HandedOn
<1>11. \A n \in 1..30 : n \in 0..30 /\ n # 0
  OBVIOUS
<1>12. /\ upTo[0] = first
       /\ \A n \in 1..30 : upTo[n] = 2 * upTo[n - 1] + (IF 31 - n \in word THEN 1 ELSE 0)
  <2>1. 0 \in 0..30
    OBVIOUS
  <2> QED
    BY <1>9, <1>11, <2>1, Zenon
<1>13. SignedBy(upTo, word)
  BY <1>8, <1>10, <1>12, Zenon DEF SignedBy, first
<1> QED
  BY <1>13

(* The number in a word is an integer.                                      *)
LEMMA SignedIs ==
  ASSUME NEW word
  PROVE  Signed(word) \in Int
<1>1. PICK f : SignedBy(f, word)
  BY SignedSteps
<1>2. 30 \in 0..30
  OBVIOUS
<1>3. f[30] \in Int
  BY <1>1, <1>2, Zenon DEF SignedBy
<1>4. Signed(word) = IF 0 \in word THEN -f[30] ELSE f[30]
  BY <1>1, Zenon DEF SignedBy
<1> QED
  BY <1>3, <1>4

(* A value is read as an integer, and the next one starts at a place.       *)
LEMMA DecodedIs ==
  ASSUME NEW X, NEW s \in Seq(X), NEW start \in Nat
  PROVE  DecodeVLQSegment(s, start) \in [ok : BOOLEAN, value : Int, next : Nat]
<1> DEFINE ends == {i \in start..Len(s) : s[i] < 32 \/ s[i] = Invalid}
           end == Min(ends)
           d == DecodeVLQSegment(s, start)
<1>1. d = IF ends = {} \/ s[end] = Invalid
          THEN [ok |-> FALSE, value |-> 0, next |-> start]
          ELSE [ok |-> TRUE, value |-> Signed(Word(s, start, end)), next |-> end + 1]
  BY DEF DecodeVLQSegment
<1> HIDE DEF d
<1>2. CASE ends = {} \/ s[end] = Invalid
  <2> HIDE DEF ends, end
  <2>1. d = [ok |-> FALSE, value |-> 0, next |-> start]
    BY <1>1, <1>2
  <2>2. FALSE \in BOOLEAN /\ 0 \in Int
    OBVIOUS
  <2> QED
    BY <2>1, <2>2 DEF d
<1>3. CASE ~(ends = {} \/ s[end] = Invalid)
  <2>1. ends \in SUBSET Nat /\ ends # {}
    BY <1>3
  <2> HIDE DEF ends
  <2>2. end \in Nat
    <3>1. PICK n \in ends : \A y \in ends : n <= y
      BY <2>1, LeastOf
    <3>2. end \in ends
      BY <3>1 DEF Min
    <3> QED
      BY <2>1, <3>2
  <2>3. Signed(Word(s, start, end)) \in Int
    BY SignedIs
  <2> HIDE DEF end
  <2>4. d = [ok |-> TRUE, value |-> Signed(Word(s, start, end)), next |-> end + 1]
    BY <1>1, <1>3 DEF ends
  <2>5. end + 1 \in Nat /\ TRUE \in BOOLEAN
    BY <2>2
  <2> QED
    BY <2>3, <2>4, <2>5 DEF d
<1> QED
  BY <1>2, <1>3 DEF d

ValuesRead == [next : Nat, values : Seq(Int), done : BOOLEAN, bad : BOOLEAN]

(* Reading one more value of a segment keeps them integers.                 *)
LEMMA ValueKept ==
  ASSUME NEW X, NEW seg \in Seq(X), NEW n \in 1..5, NEW a \in ValuesRead
  PROVE  ReadValue(seg, a, n) \in ValuesRead
<1> DEFINE d == DecodeVLQSegment(seg, a.next)
           v == Append(a.values, d.value)
           r == ReadValue(seg, a, n)
<1>1. /\ a \in [next : Nat, values : Seq(Int), done : BOOLEAN, bad : BOOLEAN]
      /\ a.next \in Nat /\ a.values \in Seq(Int)
  BY DEF ValuesRead
<1>2. d \in [ok : BOOLEAN, value : Int, next : Nat]
  BY <1>1, DecodedIs
<1>3. r \in {a, [a EXCEPT !.done = TRUE], [a EXCEPT !.done = TRUE, !.bad = TRUE],
             [a EXCEPT !.next = d.next, !.values = v]}
  BY DEF ReadValue
<1> HIDE DEF d, r
<1>4. v \in Seq(Int) /\ d.next \in Nat
  BY <1>1, <1>2
<1> HIDE DEF v
<1>5. r \in [next : Nat, values : Seq(Int), done : BOOLEAN, bad : BOOLEAN]
  BY <1>1, <1>3, <1>4
<1> QED
  BY <1>5 DEF r, ValuesRead

(* The values of a segment are integers.                                    *)
LEMMA ValuesAre ==
  ASSUME NEW X, NEW seg \in Seq(X)
  PROVE  Values(seg) \in ValuesRead
<1> DEFINE A == ValuesRead
           step == [n \in 1..5 |-> [a \in A |-> ReadValue(seg, a, n)]]
<1>1. NoValues \in A
  <2>1. <<>> \in Seq(Int)
    OBVIOUS
  <2> QED
    BY <2>1 DEF NoValues, ValuesRead
<1>2. ASSUME NEW n \in 1..5, NEW a \in A PROVE ReadValue(seg, a, n) \in A
  BY <1>2, ValueKept
<1>3. step \in [1..5 -> [A -> A]] /\ \A n \in 1..5 : \A a \in A : step[n][a] = ReadValue(seg, a, n)
  BY <1>2
<1> HIDE DEF A, step
<1>4. Lead(Values(seg), 5, A, NoValues, step)
  BY <1>1, <1>3, FoldReadValue
<1> QED
  BY <1>4, LeadStays DEF A

\* The mappings read so far.
Reading == [line : Nat, at : [1..5 -> Int], broken : BOOLEAN, entries : Seq(Entry)]

(* What a segment adds.                                                     *)
LEMMA SegmentRead ==
  ASSUME NEW X, NEW seg \in Seq(X), NEW acc \in Reading
  PROVE  ReadSegment(acc, seg) \in Reading
<1> DEFINE v == Values(seg)
           r == ReadSegment(acc, seg)
<1>1. CASE acc.broken \/ seg = <<>>
  BY <1>1 DEF ReadSegment
<1>2. CASE ~(acc.broken \/ seg = <<>>)
  <2>1. r = AddValues(acc, v)
    BY <1>2 DEF ReadSegment
  <2>2. v.values \in Seq(Int) /\ v.bad \in BOOLEAN
    BY ValuesAre DEF ValuesRead
  <2> HIDE DEF v, r
  <2>3. /\ acc \in [line : Nat, at : [1..5 -> Int], broken : BOOLEAN, entries : Seq(Entry)]
        /\ acc.line \in Nat /\ acc.at \in [1..5 -> Int] /\ acc.entries \in Seq(Entry)
    BY DEF Reading
  <2> DEFINE w == v.values
             at == [k \in 1..5 |-> acc.at[k] + (IF k <= Len(w) THEN w[k] ELSE 0)]
             entry == [line |-> acc.line, col |-> at[1],
                       source |-> IF Len(w) >= 4 THEN at[2] ELSE -1,
                       sourceLine |-> IF Len(w) >= 4 THEN at[3] ELSE -1,
                       sourceCol |-> IF Len(w) >= 4 THEN at[4] ELSE -1,
                       name |-> IF Len(w) = 5 THEN at[5] ELSE -1]
             more == IF v.bad THEN acc.entries ELSE Append(acc.entries, entry)
  <2>4. r = [acc EXCEPT !.at = at, !.broken = v.bad, !.entries = more]
    BY <2>1 DEF AddValues
  <2>5. at \in [1..5 -> Int]
    <3> SUFFICES ASSUME NEW k \in 1..5
                 PROVE  acc.at[k] + (IF k <= Len(w) THEN w[k] ELSE 0) \in Int
      OBVIOUS
    <3>1. acc.at[k] \in Int
      BY <2>3
    <3>2. k <= Len(w) => w[k] \in Int
      BY <2>2
    <3> QED
      BY <3>1, <3>2
  <2> HIDE DEF at, w
  <2>6. entry \in Entry
    <3>1. at[1] \in Int /\ at[2] \in Int /\ at[3] \in Int /\ at[4] \in Int /\ at[5] \in Int
      BY <2>5
    <3> QED
      BY <2>3, <3>1 DEF Entry
  <2> HIDE DEF entry
  <2>7. more \in Seq(Entry)
    BY <2>3, <2>6
  <2> HIDE DEF more
  <2>8. r \in [line : Nat, at : [1..5 -> Int], broken : BOOLEAN, entries : Seq(Entry)]
    BY <2>2, <2>3, <2>4, <2>5, <2>7
  <2> QED
    BY <2>8 DEF Reading, r
<1> QED
  BY <1>1, <1>2

(* What a line adds.                                                        *)
LEMMA LineRead ==
  ASSUME NEW X, NEW line \in Seq(X), NEW acc \in Reading
  PROVE  ReadLine(acc, line) \in Reading
<1> DEFINE es == Split(line, Comma)
           k == Len(es)
           A == Reading
           base == [acc EXCEPT !.at[1] = 0, !.broken = FALSE]
           step == [n \in 1..k |-> [a \in A |-> ReadSegment(a, es[n])]]
           read == FoldLeft(ReadSegment, base, es)
<1>1. k \in Nat /\ DOMAIN es = 1..k /\ \A n \in 1..k : es[n] \in Seq(X)
  <2>1. es \in Seq(Seq(X)) /\ k \in Nat
    BY SplitPieces
  <2> HIDE DEF es
  <2> QED
    BY <2>1
<1>2. base \in A
  <2> DEFINE at == [acc.at EXCEPT ![1] = 0]
  <2>1. acc \in [line : Nat, at : [1..5 -> Int], broken : BOOLEAN, entries : Seq(Entry)]
    BY DEF Reading
  <2>2. acc.at \in [1..5 -> Int]
    BY <2>1
  <2>3. at \in [1..5 -> Int]
    BY <2>2
  <2>4. base = [acc EXCEPT !.at = at, !.broken = FALSE]
    OBVIOUS
  <2> HIDE DEF at, base
  <2>5. base \in [line : Nat, at : [1..5 -> Int], broken : BOOLEAN, entries : Seq(Entry)]
    BY <2>1, <2>3, <2>4
  <2> QED
    BY <2>5 DEF Reading
<1>3. step \in [1..k -> [A -> A]] /\ \A n \in 1..k : \A a \in A : step[n][a] = ReadSegment(a, es[n])
  <2>1. \A n \in 1..k : \A a \in A : ReadSegment(a, es[n]) \in A
    BY <1>1, SegmentRead
  <2> HIDE DEF A, k, es
  <2> QED
    BY <2>1
<1> HIDE DEF A, k, es, base, step
<1>4. Lead(read, k, A, base, step)
  BY <1>1, <1>2, <1>3, FoldReadSegment
<1>5. read \in Reading
  BY <1>1, <1>4, LeadStays DEF A
<1>6. ReadLine(acc, line) = [read EXCEPT !.line = @ + 1]
  BY DEF ReadLine, es, base
<1> HIDE DEF read
<1>7. read \in [line : Nat, at : [1..5 -> Int], broken : BOOLEAN, entries : Seq(Entry)]
  BY <1>5 DEF Reading
<1>8. read.line + 1 \in Nat
  BY <1>7
<1>9. ReadLine(acc, line) = [read EXCEPT !.line = read.line + 1]
  BY <1>6
<1>10. ReadLine(acc, line) \in [line : Nat, at : [1..5 -> Int], broken : BOOLEAN, entries : Seq(Entry)]
  BY <1>7, <1>8, <1>9
<1> QED
  BY <1>10 DEF Reading

(* The mappings read are entries.                                           *)
LEMMA MappingsRead ==
  ASSUME NEW X, NEW mappings \in Seq(X)
  PROVE  ParseMappings(mappings) \in Seq(Entry)
<1> DEFINE es == Split(mappings, Semicolon)
           k == Len(es)
           A == Reading
           base == [line |-> 0, at |-> [n \in 1..5 |-> 0], broken |-> FALSE, entries |-> <<>>]
           step == [n \in 1..k |-> [a \in A |-> ReadLine(a, es[n])]]
           read == FoldLeft(ReadLine, base, es)
<1>1. k \in Nat /\ DOMAIN es = 1..k /\ \A n \in 1..k : es[n] \in Seq(X)
  <2>1. es \in Seq(Seq(X)) /\ k \in Nat
    BY SplitPieces
  <2> HIDE DEF es
  <2> QED
    BY <2>1
<1>2. base \in A
  <2>1. <<>> \in Seq(Entry) /\ [n \in 1..5 |-> 0] \in [1..5 -> Int]
    OBVIOUS
  <2> QED
    BY <2>1 DEF Reading
<1>3. step \in [1..k -> [A -> A]] /\ \A n \in 1..k : \A a \in A : step[n][a] = ReadLine(a, es[n])
  <2>1. \A n \in 1..k : \A a \in A : ReadLine(a, es[n]) \in A
    BY <1>1, LineRead
  <2> HIDE DEF A, k, es
  <2> QED
    BY <2>1
<1> HIDE DEF A, k, es, step
<1>6. ParseMappings(mappings) = read.entries
  BY DEF ParseMappings, es
<1> HIDE DEF base
<1>4. Lead(read, k, A, base, step)
  BY <1>1, <1>2, <1>3, FoldReadLine
<1>5. read \in Reading
  BY <1>1, <1>4, LeadStays DEF A
<1> QED
  BY <1>5, <1>6 DEF Reading

-----------------------------------------------------------------------------
(* Cleaning paths.                                                         *)

\* Characters of a path that stand for themselves, and those of its names.
Plain == Signs \ {"\\"}
Bare == Plain \ {"/"}

(* A part of a text is one of its characters.                               *)
LEMMA PartOfText ==
  ASSUME NEW X, NEW s \in Seq(X), NEW a \in Int, NEW b \in Int, a >= 1, b <= Len(s)
  PROVE  SubSeq(s, a, b) \in Seq(X)
<1>1. \A i \in a..b : s[i] \in X
  <2>1. \A i \in a..b : i \in 1..Len(s)
    OBVIOUS
  <2> QED
    BY <2>1
<1> QED
  BY <1>1, SubSeqProperties

(* Cutting characters off either end leaves a text of the same characters.  *)
LEMMA CutOffs ==
  ASSUME NEW X, NEW s \in Seq(X)
  PROVE  /\ \A n \in Nat : Drop(s, n) \in Seq(X)
         /\ \A q : Len(q) \in Nat => DropPrefix(s, q) \in Seq(X)
         /\ Trim(s) \in Seq(X)
<1>1. ASSUME NEW n \in Nat PROVE Drop(s, n) \in Seq(X)
  <2>1. n + 1 \in Int /\ n + 1 >= 1 /\ Len(s) \in Int /\ Len(s) <= Len(s)
    OBVIOUS
  <2> QED
    BY <2>1, PartOfText DEF Drop
<1>2. ASSUME NEW q, Len(q) \in Nat PROVE DropPrefix(s, q) \in Seq(X)
  BY <1>1, <1>2 DEF DropPrefix
<1>3. Trim(s) \in Seq(X)
  <2> DEFINE solid == {i \in DOMAIN s : s[i] # " "}
  <2>1. Trim(s) = IF solid = {} THEN <<>> ELSE SubSeq(s, Min(solid), Max(solid))
    BY DEF Trim
  <2>2. solid \in SUBSET (1..Len(s)) /\ Len(s) \in Nat /\ <<>> \in Seq(X)
    <3>1. DOMAIN s = 1..Len(s) /\ Len(s) \in Nat /\ <<>> \in Seq(X)
      OBVIOUS
    <3> QED
      BY <3>1, Zenon
  <2> HIDE DEF solid
  <2>3. CASE solid = {}
    BY <2>1, <2>2, <2>3
  <2>4. CASE solid # {}
    <3>1. Max(solid) \in solid
      BY <2>2, <2>4, GreatestNumber
    <3>2. Min(solid) \in solid
      <4>1. solid \in SUBSET Nat
        BY <2>2
      <4>2. \E m \in solid : \A y \in solid : m <= y
        BY <2>4, <4>1, LeastOf
      <4> QED
        BY <4>2 DEF Min
    <3>3. /\ Max(solid) \in Int /\ Max(solid) <= Len(s)
          /\ Min(solid) \in Int /\ Min(solid) >= 1
      <4>1. Max(solid) \in 1..Len(s) /\ Min(solid) \in 1..Len(s)
        BY <2>2, <3>1, <3>2, Zenon
      <4> QED
        BY <2>2, <4>1
    <3>4. SubSeq(s, Min(solid), Max(solid)) \in Seq(X)
      BY <3>3, PartOfText
    <3> QED
      BY <2>1, <2>4, <3>4
  <2> QED
    BY <2>3, <2>4
<1> QED
  BY <1>1, <1>2, <1>3

(* So does dropping the scheme,                                             *)
LEMMA SchemeDropped ==
  ASSUME NEW X, NEW s \in Seq(X)
  PROVE  DropScheme(s) \in Seq(X)
<1> DEFINE marks == {i \in 1..Len(s) - 2 : SubSeq(s, i, i + 2) = SchemeMark}
           rest == DropPrefix(Drop(s, Min(marks) + 2), <<"/", "/">>)
           slashes == {i \in DOMAIN rest : rest[i] = "/"}
           d == DropScheme(s)
<1>1. CASE marks = {} \/ Min(marks) = 1
  <2>1. d = s
    BY <1>1, Zenon DEF DropScheme
  <2> QED
    BY <2>1
<1>2. CASE ~(marks = {} \/ Min(marks) = 1)
  <2>2. marks \in SUBSET Nat /\ marks # {}
    BY <1>2
  <2>3. d \in {rest, <<>>} \/ (d = Drop(rest, Min(slashes)) /\ slashes # {})
    BY <1>2 DEF DropScheme
  <2> HIDE DEF marks, d
  <2>4. Min(marks) \in Nat
    <3>1. \E m \in marks : \A y \in marks : m <= y
      BY <2>2, LeastOf
    <3>2. Min(marks) \in marks
      BY <3>1 DEF Min
    <3> QED
      BY <2>2, <3>2
  <2>5. rest \in Seq(X)
    <3>1. Min(marks) + 2 \in Nat /\ Len(<<"/", "/">>) \in Nat
      BY <2>4
    <3>2. Drop(s, Min(marks) + 2) \in Seq(X)
      BY <3>1, CutOffs
    <3> QED
      BY <3>1, <3>2, CutOffs
  <2> HIDE DEF rest
  <2>6. CASE d \in {rest, <<>>}
    <3>1. <<>> \in Seq(X)
      OBVIOUS
    <3> QED
      BY <2>5, <2>6, <3>1, Zenon DEF d
  <2>7. CASE d = Drop(rest, Min(slashes)) /\ slashes # {}
    <3>1. slashes \in SUBSET Nat
      BY <2>5
    <3> HIDE DEF slashes
    <3>2. \E m \in slashes : \A y \in slashes : m <= y
      BY <2>7, <3>1, LeastOf
    <3>3. Min(slashes) \in slashes
      BY <3>2 DEF Min
    <3>4. Min(slashes) \in Nat
      BY <3>1, <3>3
    <3> QED
      BY <2>5, <2>7, <3>4, CutOffs DEF d
  <2> QED
    BY <2>3, <2>6, <2>7
<1> QED
  BY <1>1, <1>2

(* all of the prefix,                                                       *)
LEMMA PrefixStripped ==
  ASSUME NEW X, NEW s \in Seq(X)
  PROVE  StripSourcePrefix(s) \in Seq(X)
<1>1. Len(<<"~", "/">>) \in Nat /\ Len(<<"/">>) \in Nat /\ Len(<<".", "/">>) \in Nat
  OBVIOUS
<1>2. Trim(s) \in Seq(X)
  BY CutOffs
<1>3. DropPrefix(Trim(s), <<"~", "/">>) \in Seq(X)
  BY <1>1, <1>2, CutOffs
<1>4. DropScheme(DropPrefix(Trim(s), <<"~", "/">>)) \in Seq(X)
  BY <1>3, SchemeDropped
<1>5. DropPrefix(DropScheme(DropPrefix(Trim(s), <<"~", "/">>)), <<"/">>) \in Seq(X)
  BY <1>1, <1>4, CutOffs
<1> QED
  BY <1>1, <1>5, CutOffs DEF StripSourcePrefix

(* and joining a source to its root.                                        *)
LEMMA RootJoined ==
  ASSUME NEW source \in Seq(Signs), NEW root \in Seq(Signs)
  PROVE  \E p \in Seq(Signs) : CleanedPath(source, root) = SanitizePathSegments(p)
<1> DEFINE r == StripSourcePrefix(root)
           own == StripSourcePrefix(source)
           joined == IF r = <<>> THEN own ELSE r \o <<"/">> \o own
           p == DropPrefix(DropPrefix(joined, <<"/">>), <<".", "/">>)
<1>1. r \in Seq(Signs) /\ own \in Seq(Signs) /\ <<"/">> \in Seq(Signs)
  BY PrefixStripped, TextsAre, ListOfOne
<1>2. CleanedPath(source, root) = SanitizePathSegments(p)
  BY DEF CleanedPath
<1> HIDE DEF r, own
<1>3. joined \in Seq(Signs)
  <2>1. r \o <<"/">> \in Seq(Signs)
    BY <1>1, PlacesOfBoth
  <2>2. (r \o <<"/">>) \o own \in Seq(Signs)
    BY <1>1, <2>1, PlacesOfBoth
  <2> QED
    BY <1>1, <2>2
<1> HIDE DEF joined
<1>4. p \in Seq(Signs)
  <2>1. Len(<<"/">>) \in Nat /\ Len(<<".", "/">>) \in Nat
    OBVIOUS
  <2>2. DropPrefix(joined, <<"/">>) \in Seq(Signs)
    BY <1>3, <2>1, CutOffs
  <2> QED
    BY <2>1, <2>2, CutOffs
<1> QED
  BY <1>2, <1>4

(* Without backslashes a text is of plain characters.                       *)
LEMMA SlashedPlain ==
  ASSUME NEW s \in Seq(Signs)
  PROVE  /\ Slashed(s) \in Seq(Plain) /\ Len(Slashed(s)) = Len(s)
         /\ \A i \in 1..Len(s) : Slashed(s)[i] = IF s[i] = "\\" THEN "/" ELSE s[i]
         /\ s \in Seq(Plain) => Slashed(s) = s
<1> DEFINE t == Slashed(s)
           l == Len(s)
<1>1. l \in Nat /\ t = [i \in 1..l |-> IF s[i] = "\\" THEN "/" ELSE s[i]]
  BY DEF Slashed
<1>2. \A i \in 1..l : s[i] \in Signs
  OBVIOUS
<1> HIDE DEF t
<1>3. \A i \in 1..l : t[i] = IF s[i] = "\\" THEN "/" ELSE s[i]
  BY <1>1
<1>4. \A i \in 1..l : t[i] \in Plain
  BY <1>2, <1>3 DEF Plain, Signs
<1>5. t = [i \in 1..l |-> t[i]]
  BY <1>1
<1>6. t \in Seq(Plain) /\ Len(t) = l
  BY <1>1, <1>4, <1>5, ListFrom
<1>7. ASSUME s \in Seq(Plain) PROVE t = s
  <2>1. \A i \in 1..l : s[i] # "\\"
    BY <1>7 DEF Plain
  <2>2. \A i \in 1..l : t[i] = s[i]
    BY <1>3, <2>1
  <2>3. s = [i \in 1..l |-> s[i]]
    OBVIOUS
  <2> QED
    BY <1>5, <2>2, <2>3
<1> QED
  BY <1>3, <1>6, <1>7 DEF t

(* The parts between marks are texts without the mark.                      *)
LEMMA SplitWithout ==
  ASSUME NEW X, NEW s \in Seq(X), NEW mark
  PROVE  /\ Split(s, mark) \in Seq(Seq(X \ {mark})) /\ Len(Split(s, mark)) \in Nat \ {0}
         /\ DOMAIN Split(s, mark) = 1..Len(Split(s, mark))
<1> DEFINE p == Split(s, mark)
           Y == X \ {mark}
<1>1. /\ p \in Seq(Seq(X)) /\ Len(p) \in Nat \ {0}
      /\ \A k \in 1..Len(p) : IsPiece(p[k], s, mark)
  BY SplitPieces
<1> HIDE DEF p
<1>2. ASSUME NEW k \in 1..Len(p) PROVE p[k] \in Seq(Y)
  <2> DEFINE x == p[k]
  <2>1. x \in Seq(X) /\ IsPiece(x, s, mark)
    BY <1>1
  <2> HIDE DEF x
  <2>2. Len(s) \in Nat
    OBVIOUS
  <2>3. \A i \in 1..Len(x) : x[i] # mark
    BY <2>1, <2>2, PieceHasNone
  <2>4. /\ Len(x) \in Nat /\ x = [i \in 1..Len(x) |-> x[i]]
        /\ \A i \in 1..Len(x) : x[i] \in X
    BY <2>1
  <2>5. \A i \in 1..Len(x) : x[i] \in Y
    BY <2>3, <2>4
  <2> HIDE DEF Y
  <2>6. x \in Seq(Y)
    BY <2>4, <2>5, ListFrom
  <2> QED
    BY <2>6 DEF x
<1>3. p = [k \in 1..Len(p) |-> p[k]] /\ Len(p) \in Nat
  BY <1>1
<1> HIDE DEF Y
<1>4. p \in Seq(Seq(Y))
  BY <1>2, <1>3, ListFrom
<1>5. DOMAIN p = 1..Len(p)
  BY <1>4
<1> QED
  BY <1>1, <1>4, <1>5 DEF p, Y

\* The names a path is made of.
GoodName == Seq(Bare) \ Poor

(* Names put together are a clean path of plain characters.                 *)
LEMMA NamesJoined ==
  ASSUME NEW parts \in Seq(GoodName), parts # <<>>
  PROVE  Join(parts) \in Seq(Plain) /\ Clean(Join(parts))
<1>1. /\ \A x \in GoodName : x \in Seq(Signs)
      /\ \A x \in GoodName : x \notin Poor
      /\ \A x \in GoodName : x \in Seq(Bare)
  <2>1. \A c \in Bare : c \in Signs
    BY DEF Bare, Plain
  <2>2. \A x \in Seq(Bare) : x \in Seq(Signs)
    BY <2>1, ListWithin
  <2> QED
    BY <2>2 DEF GoodName
<1>2. parts \in Seq(Seq(Signs)) /\ parts \in Seq(Seq(Bare))
  <2>1. \A s \in Seq(GoodName) : s \in Seq(Seq(Signs))
    BY <1>1, ListWithin
  <2>2. \A s \in Seq(GoodName) : s \in Seq(Seq(Bare))
    BY <1>1, ListWithin
  <2> QED
    BY <2>1, <2>2
<1>3. \A k \in 1..Len(parts) : parts[k] \in GoodName
  OBVIOUS
<1>4. \A k \in 1..Len(parts) : \A i \in 1..Len(parts[k]) : parts[k][i] \in Bare
  <2> TAKE k \in 1..Len(parts)
  <2>1. parts[k] \in Seq(Bare)
    BY <1>2
  <2> QED
    BY <2>1
<1>5. \A k \in 1..Len(parts) : parts[k] \notin Poor
                               /\ \A i \in 1..Len(parts[k]) : parts[k][i] # "/"
  BY <1>1, <1>3, <1>4 DEF Bare
<1> DEFINE s == Join(parts)
<1>6. s \in Seq(Signs) /\ Clean(s)
  BY <1>2, <1>5, JoinClean
<1>7. \A i \in 1..Len(s) : s[i] \in Plain
  <2> DEFINE t == Joined(parts)
             m == Len(parts)
  <2>1. t \in Seq(Signs)
    <3>1. <<>> \in Seq(Signs)
      OBVIOUS
    <3> QED
      BY <1>2, <3>1, JoinedAppend
  <2>2. PICK c : Laid(t, parts, c)
    BY <1>2, JoinedPlaces
  <2>3. s = SubSeq(t, 2, Len(t))
    BY DEF Join, Joined, Drop
  <2> HIDE DEF t, s
  <2>4. /\ c \in [0..m -> Nat]
        /\ \A k \in 1..m : /\ c[k] = c[k - 1] + 1 + Len(parts[k])
                           /\ t[c[k - 1] + 1] = "/"
                           /\ \A j \in 1..Len(parts[k]) : t[c[k - 1] + 1 + j] = parts[k][j]
        /\ \A i \in 1..Len(t) : \E k \in 1..m : c[k - 1] < i /\ i <= c[k]
    BY <2>2 DEF Laid
  <2>5. m \in Nat /\ \A k \in 1..m : Len(parts[k]) \in Nat
    BY <1>2
  <2> HIDE DEF m
  <2>6. "/" \in Plain /\ \A x \in Bare : x \in Plain
    BY TextsAre DEF Plain, Bare
  <2>7. ASSUME NEW i \in 1..Len(t) PROVE t[i] \in Plain
    <3>1. PICK k \in 1..m : c[k - 1] < i /\ i <= c[k]
      BY <2>4
    <3> DEFINE p == c[k - 1]
               l == Len(parts[k])
    <3>2. p \in Nat /\ l \in Nat
      <4>1. k - 1 \in 0..m
        BY <2>5
      <4> QED
        BY <2>4, <2>5, <4>1
    <3>3. i \in Nat /\ p < i /\ i <= p + 1 + l
      BY <2>1, <2>4, <3>1
    <3>4. t[p + 1] = "/" /\ \A j \in 1..l : t[p + 1 + j] = parts[k][j]
      BY <2>4
    <3>5. \A j \in 1..l : parts[k][j] \in Bare
      BY <1>4 DEF m
    <3> HIDE DEF p, l
    <3>6. CASE i = p + 1
      BY <2>6, <3>4, <3>6
    <3>7. CASE i # p + 1
      <4>1. i - p - 1 \in 1..l /\ p + 1 + (i - p - 1) = i
        BY <3>2, <3>3, <3>7
      <4> QED
        BY <2>6, <3>4, <3>5, <4>1
    <3> QED
      BY <3>6, <3>7
  <2>8. t \in Seq(Plain)
    <3>1. Len(t) \in Nat /\ t = [i \in 1..Len(t) |-> t[i]]
      BY <2>1
    <3> QED
      BY <2>7, <3>1, ListFrom
  <2>9. s \in Seq(Plain)
    <3>1. 2 \in Int /\ 2 >= 1 /\ Len(t) \in Int /\ Len(t) <= Len(t)
      BY <2>1
    <3> QED
      BY <2>3, <2>8, <3>1, PartOfText
  <2> QED
    BY <2>9
<1>8. s \in Seq(Plain)
  <2>1. Len(s) \in Nat /\ s = [i \in 1..Len(s) |-> s[i]]
    BY <1>6
  <2> HIDE DEF s
  <2> QED
    BY <1>7, <2>1, ListFrom
<1> QED
  BY <1>6, <1>8

(* A name stays one when its characters are made safe,                      *)
LEMMA NameSanitized ==
  ASSUME NEW x \in Seq(Bare), x \notin Poor
  PROVE  SanitizeFilenamePart(x) \in GoodName
<1> DEFINE y == SanitizeFilenamePart(x)
           l == Len(x)
<1>1. l \in Nat /\ y = [i \in 1..l |-> IF x[i] = ":" THEN "_" ELSE x[i]]
  BY DEF SanitizeFilenamePart
<1>2. \A i \in 1..l : x[i] \in Bare
  OBVIOUS
<1> HIDE DEF y
<1>3. \A i \in 1..l : y[i] = IF x[i] = ":" THEN "_" ELSE x[i]
  BY <1>1
<1>4. "_" \in Bare
  BY TextsAre DEF Bare, Plain
<1>5. y \in Seq(Bare) /\ Len(y) = l
  <2>1. y = [i \in 1..l |-> y[i]]
    BY <1>1
  <2>2. \A i \in 1..l : y[i] \in Bare
    BY <1>2, <1>3, <1>4
  <2> HIDE DEF l
  <2>3. l \in Nat
    BY <1>1
  <2> QED
    BY <2>1, <2>2, <2>3, ListFrom
<1>6. ASSUME y \in Poor PROVE FALSE
  <2>1. l <= 2 /\ \A i \in 1..l : y[i] = "."
    BY <1>5, <1>6, PoorAre
  <2>2. \A i \in 1..l : x[i] = "."
    BY <1>3, <2>1
  <2> QED
    BY <2>1, <2>2, PoorAre
<1> QED
  BY <1>5, <1>6 DEF GoodName, y

(* and a segment leaves names only.                                         *)
LEMMA Climbed ==
  ASSUME NEW stack \in Seq(GoodName), NEW x \in Seq(Bare)
  PROVE  Climb(stack, Trim(x)) \in Seq(GoodName)
<1> DEFINE part1 == Trim(x)
           y == SanitizeFilenamePart(part1)
<1>1. part1 \in Seq(Bare)
  BY CutOffs
<1>2. \/ Climb(stack, part1) \in {stack, Front(stack)} /\ stack # <<>>
      \/ Climb(stack, part1) = stack
      \/ Climb(stack, part1) = Append(stack, y) /\ part1 \notin Poor
  BY DEF Climb, Poor
<1> HIDE DEF part1
<1>3. stack # <<>> => Front(stack) \in Seq(GoodName)
  BY FrontAndLast
<1>4. part1 \notin Poor => y \in GoodName
  BY <1>1, NameSanitized
<1> HIDE DEF y
<1>5. part1 \notin Poor => Append(stack, y) \in Seq(GoodName)
  BY <1>4
<1> QED
  BY <1>2, <1>3, <1>5 DEF part1

(* So a path that was cleaned is empty or clean.                            *)
LEMMA CleanedIs ==
  ASSUME NEW source \in Seq(Signs), NEW root \in Seq(Signs)
  PROVE  LET p == CleanedPath(source, root)
         IN  p \in Seq(Plain) /\ (p = <<>> \/ Clean(p))
<1> DEFINE c == CleanedPath(source, root)
<1>1. PICK p \in Seq(Signs) : c = SanitizePathSegments(p)
  BY RootJoined
<1> DEFINE es == Split(Slashed(Trim(p)), "/")
           k == Len(es)
           A == Seq(GoodName)
           step == [n \in 1..k |-> [a \in A |-> Climb(a, Trim(es[n]))]]
<1>2. es \in Seq(Seq(Bare)) /\ k \in Nat /\ DOMAIN es = 1..k
  <2>1. Trim(p) \in Seq(Signs)
    BY CutOffs
  <2>2. Slashed(Trim(p)) \in Seq(Plain)
    BY <2>1, SlashedPlain
  <2> QED
    BY <2>2, SplitWithout DEF Bare
<1>3. es = Split(Slashed(Trim(p)), "/")
  OBVIOUS
<1> HIDE DEF c, es
<1>4. \A n \in 1..k : \A a \in A : Climb(a, Trim(es[n])) \in A
  <2>1. \A n \in 1..k : es[n] \in Seq(Bare)
    BY <1>2
  <2> QED
    BY <2>1, Climbed
<1>5. /\ step \in [1..k -> [A -> A]] /\ <<>> \in A
      /\ \A n \in 1..k : \A a \in A : step[n][a] = Climb(a, Trim(es[n]))
  BY <1>4
<1> HIDE DEF k, A, step
<1>6. ClimbsTo(p, k, A, step)
  BY <1>2, <1>3, <1>5, FoldClimb
<1>7. PICK v : Lead(v, k, A, <<>>, step) /\ SanitizePathSegments(p) = Join(v)
  BY <1>6 DEF ClimbsTo
<1>8. v \in A
  BY <1>2, <1>7, LeadStays
<1>9. c = Join(v) /\ v \in Seq(GoodName)
  BY <1>1, <1>7, <1>8 DEF A
<1>10. CASE v = <<>>
  <2>1. c = <<>>
    <3>1. [n \in DOMAIN v |-> <<"/">> \o v[n]] = <<>>
      BY <1>10
    <3> DEFINE lists == [n \in DOMAIN v |-> <<"/">> \o v[n]]
    <3>2. lists \in Seq(Seq(Plain)) /\ Len(lists) = 0
      BY <3>1
    <3>3. Join(v) = Drop(FlattenSeq(lists), 1)
      BY DEF Join
    <3> HIDE DEF lists
    <3>4. PICK f : Flattens(f, lists, Plain)
      BY <3>2, FlattenSteps
    <3>5. FlattenSeq(lists) = <<>>
      BY <3>2, <3>4 DEF Flattens
    <3> QED
      BY <1>9, <3>3, <3>5 DEF Drop
  <2>2. <<>> \in Seq(Plain)
    OBVIOUS
  <2> QED
    BY <2>1, <2>2 DEF c
<1>11. CASE v # <<>>
  BY <1>9, <1>11, NamesJoined DEF c
<1> QED
  BY <1>10, <1>11

(* What is left when the middle of a path is cut out, up to its file name.  *)
LEMMA CutMiddle ==
  ASSUME NEW p \in Seq(Plain), NEW f \in Seq(Bare), NEW keep \in Nat, keep <= Len(p)
  PROVE  LET r == SubSeq(p, 1, keep) \o <<"_">> \o f
         IN  /\ r \in Seq(Plain) /\ Len(r) = keep + 1 + Len(f)
             /\ Clean(p) => Clean(r)
<1> DEFINE u == SubSeq(p, 0 + 1, keep)
           w == <<"_">>
           h == u \o w
           r == h \o f
           l == Len(f)
           n == Len(p)
<1>1. "_" \in Plain /\ "_" # "/" /\ "_" # "." /\ \A x \in Bare : x \in Plain /\ x # "/"
  BY TextsAre DEF Plain, Bare
<1>2. n \in Nat /\ l \in Nat /\ f \in Seq(Plain) /\ \A j \in 1..l : f[j] \in Bare
  <2>1. \A s \in Seq(Bare) : s \in Seq(Plain)
    BY <1>1, ListWithin
  <2> QED
    BY <2>1
<1>3. u \in Seq(Plain) /\ Len(u) = keep /\ \A i \in 1..keep : u[i] = p[i]
  <2>1. u \in Seq(Plain) /\ Onward(u, p, 0, keep - 0)
    <3>1. 0 \in Nat /\ 0 <= keep
      OBVIOUS
    <3> QED
      BY <3>1, CutOut
  <2> HIDE DEF u
  <2>2. keep - 0 = keep /\ \A i \in 1..keep : 0 + i = i
    OBVIOUS
  <2> QED
    BY <2>1, <2>2 DEF Onward
<1>4. w \in Seq(Plain) /\ Len(w) = 1 /\ w[1] = "_"
  BY <1>1, ListOfOne
<1>5. SubSeq(p, 1, keep) \o <<"_">> \o f = r
  OBVIOUS
<1> HIDE DEF u, w
<1>6. /\ h \in Seq(Plain) /\ Len(h) = keep + 1
      /\ \A i \in 1..keep : h[i] = p[i]
      /\ h[keep + 1] = "_"
  <2>1. h \in Seq(Plain) /\ Both(h, u, w)
    BY <1>3, <1>4, PlacesOfBoth
  <2> HIDE DEF h
  <2>2. /\ Len(h) = keep + 1
        /\ \A i \in 1..keep : h[i] = u[i]
        /\ \A i \in 1..1 : h[keep + i] = w[i]
    BY <1>3, <1>4, <2>1 DEF Both
  <2>3. 1 \in 1..1
    OBVIOUS
  <2>4. h[keep + 1] = "_"
    BY <1>4, <2>2, <2>3
  <2>5. \A i \in 1..keep : h[i] = p[i]
    BY <1>3, <2>2
  <2> QED
    BY <2>1, <2>2, <2>4, <2>5
<1> HIDE DEF h
<1>7. r \in Seq(Plain) /\ Both(r, h, f)
  BY <1>2, <1>6, PlacesOfBoth
<1> HIDE DEF r, l
<1>8. /\ Len(r) = keep + 1 + l
      /\ \A i \in 1..(keep + 1) : r[i] = h[i]
      /\ \A j \in 1..l : r[keep + 1 + j] = f[j]
  BY <1>6, <1>7 DEF Both, l
<1>9. /\ \A i \in 1..keep : r[i] = p[i]
      /\ r[keep + 1] = "_"
      /\ \A j \in 1..l : r[keep + 1 + j] # "/"
  <2>1. \A i \in 1..keep : i \in 1..(keep + 1)
    OBVIOUS
  <2>2. keep + 1 \in 1..(keep + 1)
    OBVIOUS
  <2>3. \A j \in 1..l : f[j] # "/"
    BY <1>1, <1>2
  <2> QED
    BY <1>6, <1>8, <2>1, <2>2, <2>3
<1>10. ASSUME Clean(p), NEW a \in Nat, NEW b \in Nat, Piece(r, "/", a, b), Dots(r, a, b)
       PROVE  FALSE
  <2>1. /\ a \in 0..Len(r) /\ b \in (a + 1)..(Len(r) + 1)
        /\ a > 0 => r[a] = "/"
        /\ b <= Len(r) => r[b] = "/"
        /\ \A i \in (a + 1)..(b - 1) : r[i] # "/"
        /\ b - a <= 3 /\ \A i \in (a + 1)..(b - 1) : r[i] = "."
    BY <1>10 DEF Piece, Dots
  <2>2. a <= keep
    <3> SUFFICES ASSUME a > keep PROVE FALSE
      OBVIOUS
    <3>1. r[a] = "/"
      BY <2>1
    <3>2. a = keep + 1 \/ (a - keep - 1 \in 1..l /\ keep + 1 + (a - keep - 1) = a)
      BY <1>2, <1>8, <2>1
    <3> QED
      BY <1>1, <1>9, <3>1, <3>2
  <2>3. b <= keep
    <3> SUFFICES ASSUME b > keep PROVE FALSE
      OBVIOUS
    <3>1. CASE b = keep + 1
      <4>1. r[b] = "/"
        BY <1>2, <1>8, <2>1, <3>1
      <4> QED
        BY <1>1, <1>9, <3>1, <4>1
    <3>2. CASE b # keep + 1
      <4>1. keep + 1 \in (a + 1)..(b - 1)
        BY <2>1, <2>2, <3>2
      <4>2. r[keep + 1] = "."
        BY <2>1, <4>1
      <4> QED
        BY <1>1, <1>9, <4>2
    <3> QED
      BY <3>1, <3>2
  <2>4. /\ a \in 0..Len(p) /\ b \in (a + 1)..(Len(p) + 1) /\ b <= Len(r)
        /\ \A i \in (a + 1)..(b - 1) : i \in 1..keep
        /\ a > 0 => a \in 1..keep
        /\ b \in 1..keep
    BY <1>2, <1>8, <2>1, <2>2, <2>3
  <2>5. Piece(p, "/", a, b)
    <3>1. a > 0 => p[a] = "/"
      BY <1>9, <2>1, <2>4
    <3>2. p[b] = "/"
      BY <1>9, <2>1, <2>4
    <3>3. \A i \in (a + 1)..(b - 1) : p[i] # "/"
      BY <1>9, <2>1, <2>4
    <3> QED
      BY <2>4, <3>1, <3>2, <3>3 DEF Piece
  <2>6. Dots(p, a, b)
    <3>1. \A i \in (a + 1)..(b - 1) : p[i] = "."
      BY <1>9, <2>1, <2>4
    <3> QED
      BY <2>1, <3>1 DEF Dots
  <2> QED
    BY <1>10, <2>5, <2>6 DEF Clean
<1>11. Clean(p) => Clean(r)
  BY <1>10 DEF Clean
<1> QED
  BY <1>5, <1>7, <1>8, <1>11 DEF l

(* A path cut to size fits, and stays clean if its file name fits.          *)
LEMMA TruncatedIs ==
  ASSUME NEW p \in Seq(Plain)
  PROVE  LET r == TruncatePath(p)
         IN  /\ r \in Seq(Plain) /\ Len(r) <= MAX_LEN /\ (p = <<>> => r = <<>>)
             /\ Clean(p) /\ Len(Last(Split(p, "/"))) <= MAX_LEN - 1 => Clean(r)
<1> DEFINE f == Last(Split(p, "/"))
           keep == MAX_LEN - Len(f) - 1
           r == TruncatePath(p)
<1>0. MAX_LEN \in Nat /\ MAX_LEN >= 3
  BY SourceMapsAssumption
<1>1. f \in Seq(Bare) /\ Len(f) \in Nat
  <2> DEFINE s == Split(p, "/")
  <2>1. s \in Seq(Seq(Bare)) /\ Len(s) \in Nat \ {0}
    BY SplitWithout DEF Bare
  <2> HIDE DEF s
  <2>2. s # <<>>
    BY <2>1
  <2>3. Last(s) \in Seq(Bare)
    BY <2>1, <2>2, FrontAndLast
  <2> QED
    BY <2>3 DEF s
<1>2. CASE Len(p) <= MAX_LEN
  <2>0. ~(Len(p) > MAX_LEN)
    BY <1>0, <1>2
  <2>1. r = p
    BY <1>2, <2>0, Zenon DEF TruncatePath
  <2> QED
    BY <1>2, <2>1
<1>3. CASE Len(p) > MAX_LEN /\ keep < 0
  <2>1. r = SubSeq(p, 1, MAX_LEN)
    BY <1>0, <1>3 DEF TruncatePath
  <2>2. ~(Len(f) <= MAX_LEN - 1) /\ p # <<>>
    BY <1>0, <1>1, <1>3
  <2> HIDE DEF f, r
  <2>3. SubSeq(p, 0 + 1, MAX_LEN) \in Seq(Plain) /\ Onward(SubSeq(p, 0 + 1, MAX_LEN), p, 0, MAX_LEN - 0)
    <3>1. 0 \in Nat /\ 0 <= MAX_LEN /\ MAX_LEN <= Len(p)
      BY <1>0, <1>3
    <3> QED
      BY <1>0, <3>1, CutOut
  <2>4. r \in Seq(Plain) /\ Len(r) = MAX_LEN
    BY <1>0, <2>1, <2>3 DEF Onward
  <2> QED
    BY <1>0, <2>2, <2>4 DEF r, f
<1>4. CASE Len(p) > MAX_LEN /\ ~(keep < 0)
  <2>0. ~(Len(p) <= MAX_LEN) /\ ~(keep < 0)
    BY <1>0, <1>1, <1>4
  <2>1. r = SubSeq(p, 1, keep) \o <<"_">> \o f
    BY <1>4, <2>0, Zenon DEF TruncatePath
  <2>2. keep \in Nat /\ keep <= Len(p) /\ p # <<>> /\ keep + 1 + Len(f) = MAX_LEN
    BY <1>0, <1>1, <1>4
  <2> HIDE DEF f, r, keep
  <2>3. r \in Seq(Plain) /\ Len(r) = keep + 1 + Len(f) /\ (Clean(p) => Clean(r))
    BY <1>1, <2>1, <2>2, CutMiddle
  <2> QED
    BY <1>0, <2>2, <2>3 DEF r
<1>5. Len(p) <= MAX_LEN \/ Len(p) > MAX_LEN
  <2>1. \A l, n \in Nat : l <= n \/ l > n
    OBVIOUS
  <2>2. Len(p) \in Nat
    OBVIOUS
  <2> QED
    BY <1>0, <2>1, <2>2, Zenon
<1> QED
  BY <1>2, <1>3, <1>4, <1>5, Zenon

(* Separators made underscores leave a path clean.                          *)
LEMMA FlattenedIs ==
  ASSUME NEW p \in Seq(Plain)
  PROVE  LET r == FlattenExcessDepth(p)
         IN  /\ r \in Seq(Plain) /\ Len(r) = Len(p) /\ (p = <<>> => r = <<>>)
             /\ Clean(p) => Clean(r)
<1> DEFINE r == FlattenExcessDepth(p)
           deep(i) == Cardinality({j \in 1..i : p[j] = "/"}) > MAX_DEPTH
           l == Len(p)
<1>1. l \in Nat /\ r = [i \in 1..l |-> IF p[i] = "/" /\ deep(i) THEN "_" ELSE p[i]]
  BY DEF FlattenExcessDepth
<1>2. \A i \in 1..l : p[i] \in Plain
  OBVIOUS
<1> HIDE DEF r, deep
<1>3. \A i \in 1..l : r[i] = p[i] \/ (r[i] = "_" /\ p[i] = "/")
  BY <1>1
<1>4. "_" \in Plain /\ "_" # "/" /\ "_" # "."
  BY TextsAre DEF Plain
<1>5. r \in Seq(Plain) /\ Len(r) = l
  <2>1. r = [i \in 1..l |-> r[i]]
    BY <1>1
  <2>2. \A i \in 1..l : r[i] \in Plain
    BY <1>2, <1>3, <1>4
  <2> HIDE DEF l
  <2>3. l \in Nat
    BY <1>1
  <2> QED
    BY <2>1, <2>2, <2>3, ListFrom
<1>6. ASSUME Clean(p), NEW a \in Nat, NEW b \in Nat, Piece(r, "/", a, b), Dots(r, a, b)
      PROVE  FALSE
  <2>1. /\ a \in 0..l /\ b \in (a + 1)..(l + 1)
        /\ a > 0 => r[a] = "/"
        /\ b <= l => r[b] = "/"
        /\ b - a <= 3 /\ \A i \in (a + 1)..(b - 1) : r[i] = "."
    BY <1>5, <1>6 DEF Piece, Dots
  <2>2. /\ a > 0 => a \in 1..l
        /\ b <= l => b \in 1..l
        /\ \A i \in (a + 1)..(b - 1) : i \in 1..l
    <3>1. l \in Nat /\ a \in 0..l /\ b \in (a + 1)..(l + 1)
      BY <1>1, <2>1
    <3> HIDE DEF l
    <3> QED
      BY <3>1
  <2>3. /\ a > 0 => p[a] = "/"
        /\ b <= l => p[b] = "/"
        /\ \A i \in (a + 1)..(b - 1) : p[i] = "."
    BY <1>3, <1>4, <2>1, <2>2
  <2>4. \A i \in (a + 1)..(b - 1) : p[i] # "/"
    BY <2>3
  <2>5. Piece(p, "/", a, b) /\ Dots(p, a, b)
    BY <2>1, <2>3, <2>4 DEF Piece, Dots
  <2> QED
    BY <1>6, <2>5 DEF Clean
<1>7. Clean(p) => Clean(r)
  BY <1>6 DEF Clean
<1>8. p = <<>> => r = <<>>
  <2>1. p = <<>> => Len(r) = 0
    BY <1>5
  <2> QED
    BY <1>5, <2>1
<1> QED
  BY <1>5, <1>7, <1>8 DEF r

(* What the path of a source is.                                            *)
LEMMA NormalizedIs ==
  ASSUME NEW source \in Seq(Signs), NEW root \in Seq(Signs)
  PROVE  LET q == NormalizeSourcePath(source, root)
         IN  /\ q \in Seq(Plain) /\ Len(q) <= MAX_LEN
             /\ q = <<>> \/ Clean(q)
                \/ ~(Len(Last(Split(CleanedPath(source, root), "/"))) <= MAX_LEN - 1)
<1> DEFINE c == CleanedPath(source, root)
           t == TruncatePath(c)
           q == NormalizeSourcePath(source, root)
           Fits == Len(Last(Split(c, "/"))) <= MAX_LEN - 1
<1>1. c \in Seq(Plain) /\ (c = <<>> \/ Clean(c))
  BY CleanedIs
<1>2. q = FlattenExcessDepth(t)
  BY DEF NormalizeSourcePath
<1> HIDE DEF c, q
<1>3. /\ t \in Seq(Plain) /\ Len(t) <= MAX_LEN /\ (c = <<>> => t = <<>>)
      /\ Clean(c) /\ Fits => Clean(t)
  BY <1>1, TruncatedIs
<1> HIDE DEF t, Fits
<1>4. /\ q \in Seq(Plain) /\ Len(q) = Len(t) /\ (t = <<>> => q = <<>>)
      /\ Clean(t) => Clean(q)
  BY <1>2, <1>3, FlattenedIs
<1>5. q \in Seq(Plain) /\ Len(q) <= MAX_LEN /\ (q = <<>> \/ Clean(q) \/ ~Fits)
  BY <1>1, <1>3, <1>4
<1> QED
  BY <1>5 DEF q, Fits, c

-----------------------------------------------------------------------------
(* Where a file may be written.                                            *)

(* Nothing put together is nothing, which is not clean.                     *)
LEMMA NothingJoined == Join(<<>>) = <<>> /\ ~Clean(<<>>)
<1>1. Join(<<>>) = <<>>
  <2>1. <<>> \in Seq(Seq(Signs)) /\ <<>> \in Seq(Signs)
    OBVIOUS
  <2>2. Joined(<<>>) = <<>>
    BY <2>1, JoinedAppend
  <2>3. Join(<<>>) = Drop(Joined(<<>>), 1)
    BY DEF Join, Joined
  <2>4. SubSeq(<<>>, 2, 0) = <<>>
    OBVIOUS
  <2> QED
    BY <2>2, <2>3, <2>4 DEF Drop
<1>2. Piece(<<>>, "/", 0, 1) /\ Dots(<<>>, 0, 1)
  BY DEF Piece, Dots
<1> QED
  BY <1>1, <1>2 DEF Clean

(* The guard of every write gives nothing or a clean path, and it gives one *)
(* for a path that is clean once its backslashes are slashes.               *)
LEMMA SafeIs ==
  ASSUME NEW p \in Seq(Signs)
  PROVE  LET r == SafeSourcePath(p)
         IN  /\ r \in Seq(Signs) /\ (r # <<>> => Clean(r))
             /\ Clean(Slashed(p)) => r # <<>>
<1> DEFINE t == Slashed(p)
           es == Split(t, "/")
           k == Len(es)
           r == SafeSourcePath(p)
           A == Seq(GoodName)
           step == [n \in 1..k |-> [a \in A |-> KeepSegment(a, es[n])]]
           kept == FoldLeft(KeepSegment, <<>>, es)
<1>1. t \in Seq(Plain)
  BY SlashedPlain
<1>2. r = IF Up \in ToSet(es) THEN <<>> ELSE Join(kept)
  BY DEF SafeSourcePath
<1> HIDE DEF t, r
<1>3. es \in Seq(Seq(Bare)) /\ k \in Nat \ {0} /\ DOMAIN es = 1..k
  BY <1>1, SplitWithout DEF Bare
<1>4. ASSUME Clean(t) PROVE \A n \in 1..k : es[n] \notin Poor
  BY <1>1, <1>4, CleanParts
<1> HIDE DEF es
<1>5. \A n \in 1..k : es[n] \in Seq(Bare)
  BY <1>3
<1>6. ToSet(es) = {es[n] : n \in 1..k}
  BY <1>3 DEF ToSet
<1> HIDE DEF k
<1>7. CASE Up \in ToSet(es)
  <2>1. r = <<>> /\ <<>> \in Seq(Signs)
    BY <1>2, <1>7
  <2>2. ~Clean(t)
    <3>1. PICK n \in 1..k : es[n] = Up
      BY <1>6, <1>7
    <3> QED
      BY <1>4, <3>1 DEF Poor
  <2> QED
    BY <2>1, <2>2 DEF r, t
<1>8. CASE Up \notin ToSet(es)
  <2>1. \A n \in 1..k : es[n] # Up
    BY <1>6, <1>8
  <2>2. ASSUME NEW n \in 1..k, NEW a \in A
        PROVE  /\ KeepSegment(a, es[n]) \in A
               /\ es[n] \notin Poor => KeepSegment(a, es[n]) # <<>>
    <3> DEFINE x == es[n]
    <3>1. x \in Seq(Bare) /\ x # Up
      BY <1>5, <2>1
    <3> HIDE DEF x
    <3>2. CASE x \in {<<>>, <<".">>}
      <4>1. KeepSegment(a, x) = a
        BY <3>2 DEF KeepSegment
      <4> QED
        BY <3>2, <4>1 DEF x, Poor
    <3>3. CASE x \notin {<<>>, <<".">>}
      <4>1. KeepSegment(a, x) = Append(a, x)
        BY <3>3 DEF KeepSegment
      <4>2. x \in GoodName
        BY <3>1, <3>3 DEF GoodName, Poor
      <4>3. Append(a, x) \in Seq(GoodName) /\ Append(a, x) # <<>>
        BY <4>2
      <4> QED
        BY <4>1, <4>3 DEF x
    <3> QED
      BY <3>2, <3>3
  <2>3. /\ step \in [1..k -> [A -> A]] /\ <<>> \in A
        /\ \A n \in 1..k : \A a \in A : step[n][a] = KeepSegment(a, es[n])
    BY <2>2
  <2>4. k \in Nat
    BY <1>3
  <2> HIDE DEF A, step, kept
  <2>5. Lead(FoldLeft(KeepSegment, <<>>, es), k, A, <<>>, step)
    BY <1>3, <2>3, <2>4, FoldKeepSegment
  <2>6. PICK g \in [0..k -> A] : Steps(g, k, <<>>, step) /\ kept = g[k]
    BY <2>5 DEF Lead, kept
  <2>7. k \in 0..k /\ k - 1 \in 0..k /\ k \in 1..k
    BY <1>3
  <2>8. kept \in A
    BY <2>6, <2>7
  <2>9. kept = KeepSegment(g[k - 1], es[k]) /\ g[k - 1] \in A
    BY <2>3, <2>6, <2>7 DEF Steps
  <2>10. Clean(t) => kept # <<>>
    BY <1>4, <2>2, <2>7, <2>9
  <2>11. r = Join(kept)
    BY <1>2, <1>8
  <2>12. CASE kept = <<>>
    <3>1. r = <<>> /\ <<>> \in Seq(Signs)
      BY <2>11, <2>12, NothingJoined
    <3> QED
      BY <2>10, <2>12, <3>1 DEF r, t
  <2>13. CASE kept # <<>>
    <3>1. r \in Seq(Plain) /\ Clean(r)
      BY <2>8, <2>11, <2>13, NamesJoined DEF A
    <3>2. r # <<>>
      BY <3>1, NothingJoined
    <3>3. \A s \in Seq(Plain) : s \in Seq(Signs)
      <4>1. \A c \in Plain : c \in Signs
        BY DEF Plain
      <4> QED
        BY <4>1, ListWithin
    <3> QED
      BY <3>1, <3>2, <3>3 DEF r
  <2> QED
    BY <2>12, <2>13
<1> QED
  BY <1>7, <1>8

(* The name of a source without one can be written,                         *)
LEMMA UnnamedIs ==
  ASSUME NEW i \in Nat
  PROVE  LET u == Unnamed(i)
         IN  u \in Seq(Signs) /\ Len(u) = 3 /\ Clean(Slashed(u))
<1> DEFINE u == Unnamed(i)
           d == ToString(i - 1)
           t == Slashed(u)
<1>1. "unnamed_" \in Signs /\ d \in Signs /\ ".js" \in Signs
  <2>1. i - 1 \in Int
    OBVIOUS
  <2> HIDE DEF d
  <2>2. d \in {ToString(n) : n \in Int}
    BY <2>1, Zenon DEF d
  <2> QED
    BY <2>2 DEF Signs
<1>2. u = <<"unnamed_", d, ".js">>
  BY DEF Unnamed
<1> HIDE DEF d, u
<1>3. u \in Seq(Signs) /\ Len(u) = 3 /\ u[1] = "unnamed_" /\ u[3] = ".js"
  BY <1>1, <1>2
<1>4. Len(t) = 3 /\ \A j \in 1..3 : t[j] = IF u[j] = "\\" THEN "/" ELSE u[j]
  BY <1>3, SlashedPlain
<1> HIDE DEF t
<1>5. t[1] = "unnamed_" /\ t[3] = ".js"
  <2>1. 1 \in 1..3 /\ 3 \in 1..3
    OBVIOUS
  <2>2. "unnamed_" # "\\" /\ ".js" # "\\"
    OBVIOUS
  <2> QED
    BY <1>3, <1>4, <2>1, <2>2
<1>6. ASSUME NEW a \in Nat, NEW b \in Nat, Piece(t, "/", a, b), Dots(t, a, b) PROVE FALSE
  <2>1. /\ a \in 0..3 /\ b \in (a + 1)..4
        /\ a > 0 => t[a] = "/"
        /\ b <= 3 => t[b] = "/"
        /\ \A j \in (a + 1)..(b - 1) : t[j] = "."
    BY <1>4, <1>6 DEF Piece, Dots
  <2>2. t[1] # "/" /\ t[1] # "." /\ t[3] # "/" /\ t[3] # "."
    BY <1>5
  <2>3. a # 1 /\ a # 3
    BY <2>1, <2>2
  <2>4. b # 1 /\ b # 3
    BY <2>1, <2>2
  <2>5. a = 0 \/ a = 2
    BY <2>1, <2>3
  <2>6. CASE a = 0
    <3>1. 1 \in (a + 1)..(b - 1)
      BY <2>1, <2>4, <2>6
    <3> QED
      BY <2>1, <2>2, <3>1
  <2>7. CASE a = 2
    <3>1. 3 \in (a + 1)..(b - 1)
      BY <2>1, <2>4, <2>7
    <3> QED
      BY <2>1, <2>2, <3>1
  <2> QED
    BY <2>5, <2>6, <2>7
<1> QED
  BY <1>3, <1>6 DEF u, t, Clean

(* and so can a path with the map's name in front, if it could without.     *)
LEMMA PrefixedIs ==
  ASSUME NEW p \in Seq(Signs)
  PROVE  LET q == MapPrefix \o p
         IN  /\ q \in Seq(Signs) /\ q # p /\ IsPrefix(MapPrefix, q)
             /\ Clean(Slashed(p)) => Clean(Slashed(q))
<1> DEFINE q == MapPrefix \o p
           s == Slashed(p)
           t == Slashed(q)
           l == Len(p)
<1>1. MapPrefix \in Seq(Signs) /\ Len(MapPrefix) = 2 /\ MapPrefix[1] = "map" /\ MapPrefix[2] = "/"
  <2>1. "map" \in Signs /\ "/" \in Signs
    BY TextsAre
  <2>2. <<"map", "/">> \in Seq(Signs)
    BY <2>1
  <2> QED
    BY <2>2 DEF MapPrefix
<1>2. q \in Seq(Signs) /\ Both(q, MapPrefix, p)
  BY <1>1, PlacesOfBoth
<1>3. l \in Nat
  OBVIOUS
<1> HIDE DEF q
<1>4. /\ Len(q) = 2 + l
      /\ \A j \in 1..2 : q[j] = MapPrefix[j]
      /\ \A j \in 1..l : q[2 + j] = p[j]
  BY <1>1, <1>2 DEF Both
<1>5. q # p
  BY <1>3, <1>4
<1>6. IsPrefix(MapPrefix, q)
  <2> DEFINE u == SubSeq(q, 1, 2)
             v == SubSeq(MapPrefix, 1, 2)
  <2>1. /\ u \in Seq(Signs) /\ Onward(u, q, 0, 2)
        /\ v \in Seq(Signs) /\ Onward(v, MapPrefix, 0, 2)
    <3>1. 0 \in Nat /\ 2 \in Nat /\ 0 <= 2 /\ 2 <= Len(q) /\ 2 <= Len(MapPrefix) /\ 2 - 0 = 2 /\ 0 + 1 = 1
      BY <1>1, <1>3, <1>4
    <3> QED
      BY <1>1, <1>2, <3>1, CutOut
  <2> HIDE DEF u, v
  <2>2. /\ Len(u) = 2 /\ Len(v) = 2
        /\ \A j \in 1..2 : u[j] = q[0 + j] /\ v[j] = MapPrefix[0 + j]
    BY <2>1 DEF Onward
  <2>3. \A j \in 1..2 : u[j] = v[j]
    <3>1. \A j \in 1..2 : 0 + j = j
      OBVIOUS
    <3> QED
      BY <1>4, <2>2, <3>1
  <2>4. u = v
    <3>1. u = [j \in 1..2 |-> u[j]] /\ v = [j \in 1..2 |-> v[j]]
      BY <2>1, <2>2
    <3> QED
      BY <2>3, <3>1
  <2>5. Len(MapPrefix) <= Len(q)
    BY <1>1, <1>3, <1>4
  <2> QED
    BY <1>1, <2>4, <2>5 DEF IsPrefix, u, v
<1>7. /\ Len(s) = l /\ \A j \in 1..l : s[j] = IF p[j] = "\\" THEN "/" ELSE p[j]
      /\ Len(t) = 2 + l /\ \A j \in 1..(2 + l) : t[j] = IF q[j] = "\\" THEN "/" ELSE q[j]
  BY <1>2, <1>4, SlashedPlain
<1> HIDE DEF s, t, l
<1>8. /\ t[1] = "map" /\ t[2] = "/"
      /\ \A j \in 1..l : t[2 + j] = s[j]
  <2>1. \A j \in 1..2 : j \in 1..(2 + l)
    BY <1>3
  <2>2. \A j \in 1..l : 2 + j \in 1..(2 + l)
    BY <1>3
  <2>3. 1 \in 1..2 /\ 2 \in 1..2
    OBVIOUS
  <2>4. "map" # "\\" /\ "/" # "\\"
    OBVIOUS
  <2> QED
    BY <1>1, <1>4, <1>7, <2>1, <2>2, <2>3, <2>4
<1>9. ASSUME Clean(s), NEW a \in Nat, NEW b \in Nat, Piece(t, "/", a, b), Dots(t, a, b)
      PROVE  FALSE
  <2>1. /\ a \in 0..(2 + l) /\ b \in (a + 1)..(3 + l)
        /\ a > 0 => t[a] = "/"
        /\ b <= 2 + l => t[b] = "/"
        /\ \A j \in (a + 1)..(b - 1) : t[j] # "/"
        /\ b - a <= 3 /\ \A j \in (a + 1)..(b - 1) : t[j] = "."
    BY <1>3, <1>7, <1>9 DEF Piece, Dots
  <2>2. t[1] # "/" /\ t[1] # "."
    BY <1>8
  <2>3. a # 0
    <3> SUFFICES ASSUME a = 0 PROVE FALSE
      OBVIOUS
    <3>1. b # 1
      BY <1>3, <2>1, <2>2
    <3>2. 1 \in (a + 1)..(b - 1)
      BY <2>1, <3>1
    <3> QED
      BY <2>1, <2>2, <3>2
  <2>4. a # 1
    BY <2>1, <2>2
  <2>5. a >= 2
    BY <2>3, <2>4
  <2> DEFINE c == a - 2
             d == b - 2
  <2>6. /\ c \in Nat /\ d \in Nat /\ c \in 0..l /\ d \in (c + 1)..(l + 1)
        /\ 2 + c = a /\ 2 + d = b /\ d - c <= 3
        /\ c > 0 => c \in 1..l
        /\ d <= l => d \in 1..l /\ b <= 2 + l
        /\ a > 0
        /\ \A j \in (c + 1)..(d - 1) : j \in 1..l /\ 2 + j \in (a + 1)..(b - 1)
    BY <1>3, <2>1, <2>5
  <2> HIDE DEF c, d
  <2>7. Piece(s, "/", c, d)
    <3>1. c > 0 => s[c] = "/"
      BY <1>8, <2>1, <2>6
    <3>2. d <= l => s[d] = "/"
      BY <1>8, <2>1, <2>6
    <3>3. \A j \in (c + 1)..(d - 1) : s[j] # "/"
      BY <1>8, <2>1, <2>6
    <3> QED
      BY <1>7, <2>6, <3>1, <3>2, <3>3 DEF Piece
  <2>8. Dots(s, c, d)
    <3>1. \A j \in (c + 1)..(d - 1) : s[j] = "."
      BY <1>8, <2>1, <2>6
    <3> QED
      BY <2>6, <3>1 DEF Dots
  <2> QED
    BY <1>9, <2>6, <2>7, <2>8 DEF Clean
<1>10. Clean(s) => Clean(t)
  BY <1>9 DEF Clean
<1> QED
  BY <1>2, <1>5, <1>6, <1>10 DEF q, s, t

-----------------------------------------------------------------------------
(* The files a map describes.                                              *)

\* A map that was read.
ReadMap(map) ==
  /\ map.sources \in Seq(Seq(Signs)) /\ map.sourceRoot \in Seq(Signs)
  /\ map.mappings \in Seq(0..Invalid)

\* The name of a source alone fits a path.
Fits(map, i) ==
  Len(Last(Split(CleanedPath(map.sources[i], map.sourceRoot), "/"))) <= MAX_LEN - 1

\* The file of a source: its path has room and can be written, its text is
\* the map's, or put out from the script.
Restored(f, map, text, i) ==
  /\ f.path \in Seq(Signs) /\ Len(f.path) <= MAX_LEN
  /\ Clean(Slashed(f.path)) \/ ~Fits(map, i)
  /\ f.mode = "mappings" =>
       f.content = ReconstructFromMappings(ParseMappings(map.mappings), text, i - 1)
  /\ HasText(map, i) => f.mode = "sourcesContent" /\ f.content = map.sourcesContent[i]

FileGiven(map, text, i) ==
  \/ FileOf(map, text, i) = <<>> /\ ~HasText(map, i)
  \/ \E f : FileOf(map, text, i) = <<f>> /\ Restored(f, map, text, i)

(* What one source gives.                                                   *)
LEMMA FileIs ==
  ASSUME NEW map, ReadMap(map), NEW text, NEW i \in DOMAIN map.sources
  PROVE  FileGiven(map, text, i)
<1> DEFINE named == NormalizeSourcePath(map.sources[i], map.sourceRoot)
           pieces == ReconstructFromMappings(ParseMappings(map.mappings), text, i - 1)
           path == IF named = <<>> THEN Unnamed(i) ELSE named
           whole == [path |-> path, content |-> map.sourcesContent[i], mode |-> "sourcesContent"]
           rebuilt == [path |-> path, content |-> pieces, mode |-> "mappings"]
           file == FileOf(map, text, i)
<1>1. i \in Nat /\ map.sources[i] \in Seq(Signs) /\ map.sourceRoot \in Seq(Signs)
  <2>1. DOMAIN map.sources = 1..Len(map.sources) /\ map.sources \in Seq(Seq(Signs))
    BY DEF ReadMap
  <2> QED
    BY <2>1 DEF ReadMap
<1>2. /\ named \in Seq(Plain) /\ Len(named) <= MAX_LEN
      /\ named = <<>> \/ Clean(named) \/ ~Fits(map, i)
  BY <1>1, NormalizedIs DEF Fits
<1>3. path \in Seq(Signs) /\ Len(path) <= MAX_LEN /\ (Clean(Slashed(path)) \/ ~Fits(map, i))
  <2> HIDE DEF named
  <2>1. CASE named = <<>>
    <3>1. path = Unnamed(i)
      BY <2>1
    <3>2. MAX_LEN \in Nat /\ MAX_LEN >= 3
      BY SourceMapsAssumption
    <3> HIDE DEF path
    <3>3. path \in Seq(Signs) /\ Len(path) = 3 /\ Clean(Slashed(path))
      BY <1>1, <3>1, UnnamedIs
    <3> QED
      BY <3>2, <3>3
  <2>2. CASE named # <<>>
    <3>1. path = named
      BY <2>2
    <3>2. \A s \in Seq(Plain) : s \in Seq(Signs)
      <4>1. \A c \in Plain : c \in Signs
        BY DEF Plain
      <4> QED
        BY <4>1, ListWithin
    <3>3. named \in Seq(Signs) /\ Slashed(named) = named
      BY <1>2, <3>2, SlashedPlain
    <3> QED
      BY <1>2, <2>2, <3>1, <3>3
  <2> QED
    BY <2>1, <2>2
<1>4. file = FileWith(map, text, i, named, pieces)
  BY DEF FileOf
<1> HIDE DEF path, named, pieces, file
<1>5. file = IF HasText(map, i) THEN <<whole>>
             ELSE IF text # <<0>> /\ pieces # <<>> THEN <<rebuilt>> ELSE <<>>
  BY <1>4 DEF FileWith, path
<1>6. CASE HasText(map, i)
  <2>1. file = <<whole>>
    BY <1>5, <1>6
  <2>2. whole.path = path /\ whole.content = map.sourcesContent[i] /\ whole.mode = "sourcesContent"
    OBVIOUS
  <2> HIDE DEF whole
  <2>3. Restored(whole, map, text, i)
    BY <1>3, <2>2 DEF Restored
  <2> QED
    BY <2>1, <2>3 DEF FileGiven, file
<1>7. CASE ~HasText(map, i) /\ text # <<0>> /\ pieces # <<>>
  <2>1. file = <<rebuilt>>
    BY <1>5, <1>7
  <2>2. rebuilt.path = path /\ rebuilt.content = pieces
    OBVIOUS
  <2> HIDE DEF rebuilt
  <2>3. Restored(rebuilt, map, text, i)
    BY <1>3, <1>7, <2>2 DEF Restored, pieces
  <2> QED
    BY <2>1, <2>3 DEF FileGiven, file
<1>8. CASE ~HasText(map, i) /\ ~(text # <<0>> /\ pieces # <<>>)
  BY <1>5, <1>8 DEF FileGiven, file
<1> QED
  BY <1>6, <1>7, <1>8

\* The files of a map's sources.
FilesOf(map, text) ==
  {FileOf(map, text, i)[1] : i \in {j \in DOMAIN map.sources : FileOf(map, text, j) # <<>>}}

FilesRestored(map, text) ==
  /\ RestoreFiles(map, text) \in Seq(FilesOf(map, text))
  /\ ToSet(RestoreFiles(map, text)) = FilesOf(map, text)
  /\ \A f \in FilesOf(map, text) : \E i \in DOMAIN map.sources : Restored(f, map, text, i)
  /\ \A i \in DOMAIN map.sources :
       HasText(map, i) => \E f \in FilesOf(map, text) : Restored(f, map, text, i)

(* What all of them give.                                                   *)
LEMMA FilesAre ==
  ASSUME NEW map, ReadMap(map), NEW text
  PROVE  FilesRestored(map, text)
<1> DEFINE F == FilesOf(map, text)
           k == Len(map.sources)
           lists == [i \in DOMAIN map.sources |-> FileOf(map, text, i)]
<1>1. k \in Nat /\ DOMAIN map.sources = 1..k
  BY DEF ReadMap
<1>2. ASSUME NEW i \in 1..k
      PROVE  \/ lists[i] = <<>> /\ ~HasText(map, i)
             \/ \E f \in F : lists[i] = <<f>> /\ Restored(f, map, text, i)
  <2>1. FileGiven(map, text, i) /\ lists[i] = FileOf(map, text, i) /\ i \in DOMAIN map.sources
    BY <1>1, FileIs
  <2>2. CASE FileOf(map, text, i) = <<>> /\ ~HasText(map, i)
    BY <2>1, <2>2
  <2>3. ASSUME NEW f, FileOf(map, text, i) = <<f>>, Restored(f, map, text, i)
        PROVE  \E h \in F : lists[i] = <<h>> /\ Restored(h, map, text, i)
    <3>1. FileOf(map, text, i) # <<>> /\ FileOf(map, text, i)[1] = f
      BY <2>3
    <3>2. f \in F
      BY <2>1, <3>1 DEF FilesOf
    <3> QED
      BY <2>1, <2>3, <3>2
  <2> QED
    BY <2>1, <2>2, <2>3 DEF FileGiven
<1>3. \A f \in F : \E i \in 1..k : lists[i] = <<f>>
  <2> TAKE f \in F
  <2>1. PICK i \in DOMAIN map.sources : FileOf(map, text, i) # <<>> /\ f = FileOf(map, text, i)[1]
    BY DEF FilesOf
  <2>2. i \in 1..k /\ lists[i] = FileOf(map, text, i)
    BY <1>1, <2>1
  <2>3. PICK h \in F : lists[i] = <<h>>
    BY <1>2, <2>1, <2>2
  <2>4. f = h
    BY <2>1, <2>2, <2>3
  <2> QED
    BY <2>2, <2>3, <2>4
<1>4. RestoreFiles(map, text) = FlattenSeq(lists)
  BY DEF RestoreFiles
<1>5. lists = [i \in 1..k |-> lists[i]]
  BY <1>1
<1> HIDE DEF k, F, lists
<1>6. lists \in Seq(Seq(F)) /\ Len(lists) = k
  <2>1. \A f \in F : <<f>> \in Seq(F)
    BY ListOfOne
  <2>2. <<>> \in Seq(F)
    OBVIOUS
  <2>3. \A i \in 1..k : lists[i] \in Seq(F)
    BY <1>2, <2>1, <2>2
  <2> QED
    BY <1>1, <1>5, <2>3, ListFrom
<1>7. /\ FlattenSeq(lists) \in Seq(F)
      /\ ToSet(FlattenSeq(lists)) = UNION {ToSet(lists[n]) : n \in 1..k}
  BY <1>6, Flattened
<1>8. \A f \in F : ToSet(<<f>>) = {f}
  <2> TAKE f \in F
  <2>1. DOMAIN <<f>> = {1} /\ <<f>>[1] = f
    OBVIOUS
  <2> QED
    BY <2>1 DEF ToSet
<1>9. ToSet(<<>>) = {}
  BY DEF ToSet
<1>10. UNION {ToSet(lists[n]) : n \in 1..k} = F
  <2>1. ASSUME NEW n \in 1..k PROVE ToSet(lists[n]) \in SUBSET F
    BY <1>2, <1>8, <1>9
  <2>2. ASSUME NEW f \in F PROVE \E n \in 1..k : f \in ToSet(lists[n])
    <3>1. PICK n \in 1..k : lists[n] = <<f>>
      BY <1>3
    <3> QED
      BY <1>8, <3>1
  <2> QED
    BY <2>1, <2>2
<1>11. \A f \in F : \E i \in DOMAIN map.sources : Restored(f, map, text, i)
  <2> TAKE f \in F
  <2>1. PICK n \in 1..k : lists[n] = <<f>>
    BY <1>3
  <2>2. <<f>> # <<>>
    OBVIOUS
  <2>3. PICK h \in F : lists[n] = <<h>> /\ Restored(h, map, text, n)
    BY <1>2, <2>1, <2>2
  <2>4. h = f
    BY <2>1, <2>3
  <2> QED
    BY <1>1, <2>3, <2>4
<1>12. \A i \in DOMAIN map.sources : HasText(map, i) => \E f \in F : Restored(f, map, text, i)
  BY <1>1, <1>2
<1> QED
  BY <1>4, <1>7, <1>10, <1>11, <1>12 DEF FilesRestored, F

-----------------------------------------------------------------------------
(* Where the files go.                                                     *)

Texted(F) == \A f \in F : f.path \in Seq(Signs)

\* A file with the path it was given and the one it was written at.
PutFile(F) == [file : F, target : Seq(Signs), at : Seq(Signs)]

\* The n-th file is under its own path, which none before it had, or under
\* the map's name since one before it had that path.
PutAt(acc, n) ==
  \/ /\ acc[n].target = acc[n].file.path
     /\ \A m \in 1..(n - 1) : acc[m].target # acc[n].file.path
  \/ /\ acc[n].target = MapPrefix \o acc[n].file.path
     /\ \E m \in 1..(n - 1) : acc[m].target = acc[n].file.path

PutWell(acc) ==
  \A n \in 1..Len(acc) : /\ acc[n].at = SafeSourcePath(acc[n].target) /\ acc[n].at # <<>>
                         /\ PutAt(acc, n)

PutUpTo(F) == {acc \in Seq(PutFile(F)) : PutWell(acc)}

(* One file more.                                                           *)
LEMMA PlacedOn ==
  ASSUME NEW F, Texted(F), NEW acc \in PutUpTo(F), NEW file \in F
  PROVE  LET next == Place(acc, file)
         IN  /\ next \in PutUpTo(F)
             /\ \A w \in ToSet(acc) : w \in ToSet(next)
             /\ Clean(Slashed(file.path)) => \E w \in ToSet(next) : w.file = file
<1> DEFINE path == file.path
           Used == \E w \in ToSet(acc) : w.target = path
           target == IF Used THEN MapPrefix \o path ELSE path
           safe == SafeSourcePath(target)
           x == [file |-> file, target |-> target, at |-> safe]
           next == Place(acc, file)
           l == Len(acc)
<1>1. next = IF safe = <<>> THEN acc ELSE Append(acc, x)
  BY DEF Place
<1>2. path \in Seq(Signs)
  BY DEF Texted
<1>3. acc \in Seq(PutFile(F)) /\ PutWell(acc) /\ l \in Nat
  BY DEF PutUpTo
<1>4. ToSet(acc) = {acc[m] : m \in 1..l}
  <2>1. DOMAIN acc = 1..l
    BY <1>3
  <2> QED
    BY <2>1 DEF ToSet
<1>5. Used <=> \E m \in 1..l : acc[m].target = path
  BY <1>4
<1>6. target \in Seq(Signs) /\ (Clean(Slashed(path)) => Clean(Slashed(target)))
  <2>1. CASE Used
    BY <1>2, <2>1, PrefixedIs
  <2>2. CASE ~Used
    BY <1>2, <2>2
  <2> QED
    BY <2>1, <2>2
<1>7. Used => target = MapPrefix \o path
  OBVIOUS
<1>8. ~Used => target = path
  OBVIOUS
<1> HIDE DEF target, next, Used
<1>9. safe \in Seq(Signs) /\ (Clean(Slashed(target)) => safe # <<>>)
  BY <1>6, SafeIs
<1>10. x \in PutFile(F) /\ x.file = file /\ x.target = target /\ x.at = safe
  BY <1>6, <1>9 DEF PutFile
<1> HIDE DEF x
<1>11. CASE safe = <<>>
  <2>1. next = acc
    BY <1>1, <1>11
  <2>2. ~Clean(Slashed(path))
    BY <1>6, <1>9, <1>11
  <2> QED
    BY <2>1, <2>2 DEF next
<1>12. CASE safe # <<>>
  <2>1. next = Append(acc, x)
    BY <1>1, <1>12
  <2> HIDE DEF safe
  <2>2. /\ next \in Seq(PutFile(F)) /\ Len(next) = l + 1 /\ next[l + 1] = x
        /\ \A m \in 1..l : next[m] = acc[m]
    BY <1>3, <1>10, <2>1
  <2> HIDE DEF l
  <2>3. ASSUME NEW n \in 1..l PROVE PutAt(next, n) /\ next[n] = acc[n]
    <3>1. PutAt(acc, n) /\ next[n] = acc[n]
      BY <1>3, <2>2 DEF PutWell, l
    <3>2. \A m \in 1..(n - 1) : m \in 1..l
      BY <1>3
    <3>3. \A m \in 1..(n - 1) : next[m] = acc[m]
      BY <2>2, <3>2
    <3> QED
      BY <3>1, <3>3, Zenon DEF PutAt
  <2>4. PutAt(next, l + 1)
    <3>1. 1..(l + 1 - 1) = 1..l
      BY <1>3
    <3>0. next[l + 1].target = target /\ next[l + 1].file.path = path
      BY <1>10, <2>2
    <3> DEFINE n == l + 1
    <3> HIDE DEF n, path
    <3>2. CASE Used
      <4>1. PICK m \in 1..l : acc[m].target = path
        BY <1>5, <3>2 DEF l
      <4>0. m \in 1..(n - 1)
        <5>1. l \in Nat /\ m \in 1..l /\ n = l + 1
          BY <1>3, <4>1 DEF n
        <5> QED
          BY <5>1
      <4>2. m \in 1..(n - 1) /\ next[m].target = path
        BY <2>2, <4>0, <4>1, Zenon
      <4>3. next[n].target = MapPrefix \o path /\ next[n].file.path = path
        BY <1>7, <3>0, <3>2 DEF n
      <4>4. PutAt(next, n)
        BY <4>2, <4>3, Zenon DEF PutAt
      <4> QED
        BY <4>4 DEF n
    <3>3. CASE ~Used
      <4>1. \A m \in 1..(n - 1) : next[m].target # path
        BY <1>5, <2>2, <3>1, <3>3 DEF l, n
      <4>2. next[n].target = path /\ next[n].file.path = path
        BY <1>8, <3>0, <3>3 DEF n
      <4>3. PutAt(next, n)
        BY <4>1, <4>2, Zenon DEF PutAt
      <4> QED
        BY <4>3 DEF n
    <3> QED
      BY <3>2, <3>3
  <2>5. PutWell(next)
    <3> SUFFICES ASSUME NEW n \in 1..Len(next)
                 PROVE  /\ next[n].at = SafeSourcePath(next[n].target) /\ next[n].at # <<>>
                        /\ PutAt(next, n)
      BY DEF PutWell
    <3>1. n \in 1..l \/ n = l + 1
      BY <1>3, <2>2
    <3>2. CASE n \in 1..l
      <4>1. acc[n].at = SafeSourcePath(acc[n].target) /\ acc[n].at # <<>>
        BY <1>3, <3>2 DEF PutWell, l
      <4> QED
        BY <2>3, <3>2, <4>1
    <3>3. CASE n = l + 1
      BY <1>10, <1>12, <2>2, <2>4, <3>3 DEF safe
    <3> QED
      BY <3>1, <3>2, <3>3
  <2>6. ToSet(next) = {next[m] : m \in 1..(l + 1)}
    <3>1. DOMAIN next = 1..(l + 1)
      BY <2>2
    <3> QED
      BY <3>1 DEF ToSet
  <2>7. (\A m \in 1..l : m \in 1..(l + 1)) /\ l + 1 \in 1..(l + 1)
    BY <1>3
  <2>8. \A w \in ToSet(acc) : w \in ToSet(next)
    BY <1>4, <2>2, <2>6, <2>7 DEF l
  <2>9. x \in ToSet(next)
    BY <2>2, <2>6, <2>7
  <2>10. next \in PutUpTo(F)
    BY <2>2, <2>5 DEF PutUpTo
  <2> QED
    BY <1>10, <2>8, <2>9, <2>10 DEF next
<1> QED
  BY <1>11, <1>12

(* All of them.                                                             *)
LEMMA AllPlaced ==
  ASSUME NEW F, Texted(F), NEW es \in Seq(F)
  PROVE  LET out == FoldLeft(Place, <<>>, es)
         IN  /\ out \in PutUpTo(F)
             /\ \A f \in ToSet(es) : Clean(Slashed(f.path)) => \E w \in ToSet(out) : w.file = f
<1> DEFINE k == Len(es)
           A == PutUpTo(F)
           step == [n \in 1..k |-> [a \in A |-> Place(a, es[n])]]
           out == FoldLeft(Place, <<>>, es)
           Has(a, f) == \E w \in ToSet(a) : w.file = f
<1>1. k \in Nat /\ DOMAIN es = 1..k /\ \A n \in 1..k : es[n] \in F
  OBVIOUS
<1> HIDE DEF k
<1>2. <<>> \in A
  <2>1. <<>> \in Seq(PutFile(F)) /\ Len(<<>>) = 0
    OBVIOUS
  <2>2. PutWell(<<>>)
    BY <2>1 DEF PutWell
  <2> QED
    BY <2>1, <2>2 DEF PutUpTo
<1>3. ASSUME NEW n \in 1..k, NEW a \in A
      PROVE  /\ Place(a, es[n]) \in A
             /\ \A f : Has(a, f) => Has(Place(a, es[n]), f)
             /\ Clean(Slashed(es[n].path)) => Has(Place(a, es[n]), es[n])
  BY <1>1, PlacedOn
<1>4. /\ step \in [1..k -> [A -> A]]
      /\ \A n \in 1..k : \A a \in A : step[n][a] = Place(a, es[n])
  BY <1>3
<1> HIDE DEF A, step, out, Has
<1>5. Lead(out, k, A, <<>>, step)
  BY <1>1, <1>2, <1>4, FoldPlace DEF out
<1>6. PICK g \in [0..k -> A] : Steps(g, k, <<>>, step) /\ out = g[k]
  BY <1>5 DEF Lead
<1>7. \A n \in 1..k : g[n] = Place(g[n - 1], es[n])
  <2> TAKE n \in 1..k
  <2>1. n - 1 \in 0..k
    BY <1>1
  <2>2. g[n - 1] \in A /\ g[n] = step[n][g[n - 1]]
    BY <1>6, <2>1 DEF Steps
  <2> QED
    BY <1>4, <2>2
<1> DEFINE P(n) == \A j \in 1..n : Clean(Slashed(es[j].path)) => Has(g[n], es[j])
           S == {n \in 0..k : P(n)}
<1>8. 0 \in S
  BY <1>1
<1>9. ASSUME NEW n \in 1..k, n - 1 \in S PROVE n \in S
  <2>1. n - 1 \in 0..k /\ n \in 0..k /\ \A j \in 1..n : j \in 1..(n - 1) \/ j = n
    BY <1>1
  <2>2. g[n] = Place(g[n - 1], es[n]) /\ g[n - 1] \in A
    BY <1>7, <2>1
  <2>3. P(n - 1)
    BY <1>9
  <2> HIDE DEF P
  <2>4. ASSUME NEW j \in 1..n, Clean(Slashed(es[j].path)) PROVE Has(g[n], es[j])
    <3>1. CASE j \in 1..(n - 1)
      <4>1. Has(g[n - 1], es[j])
        BY <2>3, <2>4, <3>1 DEF P
      <4> QED
        BY <1>3, <2>2, <4>1
    <3>2. CASE j = n
      BY <1>3, <2>2, <2>4, <3>2
    <3> QED
      BY <2>1, <3>1, <3>2
  <2>5. P(n)
    BY <2>4 DEF P
  <2> QED
    BY <2>1, <2>5
<1> HIDE DEF S
<1>10. k \in S
  <2>1. 0..k \subseteq S
    BY <1>1, <1>8, <1>9, InductionUpTo
  <2> QED
    BY <1>1, <2>1
<1>11. P(k)
  BY <1>10 DEF S
<1>12. \A f \in ToSet(es) : \E n \in 1..k : f = es[n]
  BY <1>1 DEF ToSet
<1>13. \A f \in ToSet(es) : Clean(Slashed(f.path)) => Has(out, f)
  BY <1>6, <1>11, <1>12
<1>14. out \in A
  <2>1. k \in 0..k
    BY <1>1
  <2> QED
    BY <1>6, <2>1
<1> QED
  BY <1>13, <1>14 DEF out, A, Has

(* Two files written at one place under the path they were given: one       *)
(* before them has the path of both, or one of the two has a path under the *)
(* map's own name.                                                          *)
LEMMA TwoInOne ==
  ASSUME NEW F, Texted(F), NEW acc \in PutUpTo(F), NEW m \in DOMAIN acc, NEW n \in DOMAIN acc,
         m # n, acc[m].target = acc[n].target
  PROVE  \/ \E k \in 1..(m - 1) : acc[k].file.path = acc[m].file.path
                                  /\ acc[k].file.path = acc[n].file.path
         \/ \E k \in {m, n} : IsPrefix(MapPrefix, acc[k].file.path)
<1> DEFINE l == Len(acc)
           path(k) == acc[k].file.path
           Own(k) == acc[k].target = path(k)
           Prefixed(k) == acc[k].target = MapPrefix \o path(k)
           Two(k) == IsPrefix(MapPrefix, path(k))
<1>1. acc \in Seq(PutFile(F)) /\ l \in Nat /\ DOMAIN acc = 1..l /\ PutWell(acc)
  BY DEF PutUpTo
<1>2. \A k \in 1..l : path(k) \in Seq(Signs)
  <2> TAKE k \in 1..l
  <2>1. acc[k] \in PutFile(F)
    BY <1>1
  <2> QED
    BY <2>1 DEF PutFile, Texted
<1>3. \A k \in 1..l : \/ Own(k) /\ \A j \in 1..(k - 1) : acc[j].target # path(k)
                      \/ Prefixed(k) /\ \E j \in 1..(k - 1) : acc[j].target = path(k)
  BY <1>1 DEF PutWell, PutAt
<1>4. \A k \in 1..l : MapPrefix \o path(k) # path(k) /\ IsPrefix(MapPrefix, MapPrefix \o path(k))
  BY <1>2, PrefixedIs
<1>5. \A j, k \in 1..l : acc[j].target = path(k) /\ Prefixed(j) => Two(k)
  BY <1>4
<1>6. \A j, k \in 1..l : Own(j) /\ Prefixed(k) /\ acc[j].target = acc[k].target => Two(j)
  BY <1>4
<1>7. \A j, k \in 1..l : j < k /\ Own(j) /\ Own(k) /\ acc[j].target = acc[k].target => FALSE
  <2>1. \A j, k \in 1..l : j < k => j \in 1..(k - 1)
    BY <1>1
  <2>2. ASSUME NEW k \in 1..l, Own(k) PROVE \A j \in 1..(k - 1) : acc[j].target # path(k)
    BY <1>3, <1>4, <2>2
  <2> QED
    BY <2>1, <2>2
<1>8. ASSUME Prefixed(m), Prefixed(n) PROVE Two(m) \/ \E k \in 1..(m - 1) : path(k) = path(m) /\ path(k) = path(n)
  <2>1. path(m) = path(n)
    <3> DEFINE p == path(m)
               q == path(n)
    <3>1. p \in Seq(Signs) /\ q \in Seq(Signs) /\ MapPrefix \o p = MapPrefix \o q
      BY <1>1, <1>2, <1>8
    <3> HIDE DEF p, q
    <3>2. p = q
      <4>1. MapPrefix \in Seq(Signs)
        <5>1. "map" \in Signs /\ "/" \in Signs
          BY TextsAre
        <5>2. <<"map", "/">> \in Seq(Signs)
          BY <5>1
        <5> QED
          BY <5>2 DEF MapPrefix
      <4> DEFINE r == MapPrefix \o p
                 h == Len(MapPrefix)
      <4>2. Both(r, MapPrefix, p) /\ Both(r, MapPrefix, q)
        BY <3>1, <4>1, PlacesOfBoth
      <4>3. h \in Nat /\ Len(p) \in Nat /\ Len(q) \in Nat
        BY <3>1, <4>1
      <4> HIDE DEF r, h
      <4>4. /\ Len(r) = h + Len(p) /\ Len(r) = h + Len(q)
            /\ \A i \in 1..Len(p) : r[h + i] = p[i]
            /\ \A i \in 1..Len(q) : r[h + i] = q[i]
        BY <4>2 DEF Both, h
      <4>5. Len(p) = Len(q)
        BY <4>3, <4>4
      <4>6. \A i \in 1..Len(p) : p[i] = q[i]
        BY <4>4, <4>5
      <4>7. p = [i \in 1..Len(p) |-> p[i]] /\ q = [i \in 1..Len(q) |-> q[i]]
        BY <3>1
      <4> QED
        BY <4>5, <4>6, <4>7
    <3> QED
      BY <3>2 DEF p, q
  <2>2. PICK j \in 1..(m - 1) : acc[j].target = path(m)
    BY <1>1, <1>3, <1>4, <1>8
  <2>3. j \in 1..l
    BY <1>1
  <2>4. CASE Prefixed(j)
    BY <1>1, <1>5, <2>2, <2>3, <2>4
  <2>5. CASE Own(j)
    BY <2>1, <2>2, <2>5
  <2> QED
    BY <1>3, <2>3, <2>4, <2>5
<1>9. CASE Own(m) /\ Own(n)
  <2>1. m < n \/ n < m
    BY <1>1
  <2> QED
    BY <1>1, <1>7, <1>9, <2>1
<1>10. CASE Own(m) /\ Prefixed(n)
  BY <1>1, <1>6, <1>10
<1>11. CASE Prefixed(m) /\ Own(n)
  BY <1>1, <1>6, <1>11
<1>12. m \in 1..l /\ n \in 1..l
  BY <1>1
<1> QED
  BY <1>3, <1>8, <1>9, <1>10, <1>11, <1>12

-----------------------------------------------------------------------------
(* The life of a map.                                                      *)

\* The map in hand is what was read of one there is, and its files are those
\* its sources give.
MapInv ==
  /\ part = "maps" => raw \in RawMap
  /\ script \in Seq(Nat)
  /\ sm = Absent => files = Absent
  /\ Loaded => ReadMap(sm)
  /\ Loaded /\ files # Absent =>
       files = FoldLeft(Place, <<>>,
                        RestoreFiles(sm, IF HasSourcesContent(sm) THEN <<0>> ELSE script))

(* At first nothing is read. *)
LEMMA MapStarts == Init => MapInv
<1> SUFFICES ASSUME Init PROVE MapInv
  OBVIOUS
<1>1. sm = Absent /\ files = Absent /\ script \in Seq(Nat) /\ (part = "maps" => raw \in RawMap)
  <2>1. CASE part = "maps"
    BY <2>1, SourceMapsAssumption DEF Init, MapInit
  <2>2. CASE part # "maps"
    <3>1. <<0>> \in Seq(Nat)
      OBVIOUS
    <3> QED
      BY <2>2, <3>1 DEF Init, Idle
  <2> QED
    BY <2>1, <2>2
<1> QED
  BY <1>1 DEF MapInv, Loaded

(* What is read of a map has its sources, root and mappings.                *)
LEMMA ParsedMap ==
  ASSUME NEW doc \in RawMap
  PROVE  Parse(doc) # Failed => ReadMap(Parse(doc))
<1> DEFINE sources == [i \in DOMAIN doc.sources |->
                       IF doc.sources[i] = Absent THEN <<>> ELSE doc.sources[i]]
           root == IF doc.sourceRoot = Absent THEN <<>> ELSE doc.sourceRoot
           mappings == IF doc.mappings = Absent THEN <<>> ELSE doc.mappings
           map == [sources |-> sources, sourcesContent |-> doc.sourcesContent,
                   sourceRoot |-> root, mappings |-> mappings]
<1> SUFFICES ASSUME Parse(doc) # Failed PROVE ReadMap(Parse(doc))
  OBVIOUS
<1>1. doc.form = "object" /\ Parse(doc) = map
  BY DEF Parse
<1>2. /\ doc.sources \in Seq(Seq(STRING) \cup {Absent})
      /\ doc.sourceRoot \in Seq(STRING) \cup {Absent}
      /\ doc.mappings \in Seq(0..Invalid) \cup {Absent}
  BY <1>1, SourceMapsAssumption
<1>3. (\A s \in Seq(STRING) : s \in Seq(Signs)) /\ <<>> \in Seq(Signs) /\ <<>> \in Seq(0..Invalid)
  <2>1. <<>> \in Seq(Signs) /\ <<>> \in Seq(0..Invalid)
    OBVIOUS
  <2> QED
    BY <2>1, TextsAre
<1>4. root \in Seq(Signs) /\ mappings \in Seq(0..Invalid)
  BY <1>2, <1>3
<1>5. sources \in Seq(Seq(Signs))
  <2> DEFINE k == Len(doc.sources)
             Y == Seq(STRING) \cup {Absent}
  <2>1. k \in Nat /\ DOMAIN doc.sources = 1..k /\ \A i \in 1..k : doc.sources[i] \in Y
    <3> HIDE DEF Y
    <3> QED
      BY <1>2 DEF Y
  <2>2. sources = [i \in 1..k |-> sources[i]]
    BY <2>1
  <2>3. ASSUME NEW i \in 1..k PROVE sources[i] \in Seq(Signs)
    <3>1. sources[i] = IF doc.sources[i] = Absent THEN <<>> ELSE doc.sources[i]
      BY <2>1
    <3>2. doc.sources[i] \in Seq(STRING) \/ doc.sources[i] = Absent
      BY <2>1
    <3> HIDE DEF sources
    <3> QED
      BY <1>3, <3>1, <3>2
  <2> HIDE DEF k, sources
  <2> QED
    BY <2>1, <2>2, <2>3, ListFrom
<1>6. map.sources = sources /\ map.sourceRoot = root /\ map.mappings = mappings
  OBVIOUS
<1> HIDE DEF map, sources, root, mappings
<1> QED
  BY <1>1, <1>4, <1>5, <1>6 DEF ReadMap

(* A map is read once, and its files are restored once.                     *)
LEMMA MapStep == MapInv /\ [Next]_vars => MapInv'
<1> SUFFICES ASSUME MapInv, [Next]_vars PROVE MapInv'
  OBVIOUS
<1>1. CASE part = "maps" /\ ParseMap /\ UNCHANGED part
  <2>1. /\ raw \in RawMap /\ sm = Absent /\ files = Absent /\ sm' = Parse(raw)
        /\ raw' = raw /\ script' = script /\ files' = files /\ part' = part
    BY <1>1 DEF MapInv, ParseMap
  <2>2. Loaded' => ReadMap(sm')
    BY <2>1, ParsedMap DEF Loaded
  <2> QED
    BY <2>1, <2>2 DEF MapInv
<1>2. CASE part = "maps" /\ RestoreSources /\ UNCHANGED part
  <2>1. /\ sm # Absent /\ sm' = sm /\ raw' = raw /\ script' = script /\ part' = part
        /\ files' = FoldLeft(Place, <<>>,
                             RestoreFiles(sm, IF HasSourcesContent(sm) THEN <<0>> ELSE script))
    BY <1>2 DEF RestoreSources
  <2>2. Loaded' = Loaded
    BY <2>1 DEF Loaded
  <2>3. files' = (FoldLeft(Place, <<>>,
                           RestoreFiles(sm, IF HasSourcesContent(sm) THEN <<0>> ELSE script)))'
    BY <2>1
  <2> QED
    BY <2>1, <2>2, <2>3, Zenon DEF MapInv
<1>3. CASE UNCHANGED <<part, mapVars>>
  <2>1. part' = part /\ raw' = raw /\ script' = script /\ sm' = sm /\ files' = files
    BY <1>3 DEF mapVars
  <2>2. Loaded' = Loaded
    BY <2>1 DEF Loaded
  <2>3. (FoldLeft(Place, <<>>,
                  RestoreFiles(sm, IF HasSourcesContent(sm) THEN <<0>> ELSE script)))'
          = FoldLeft(Place, <<>>,
                     RestoreFiles(sm, IF HasSourcesContent(sm) THEN <<0>> ELSE script))
    BY <2>1
  <2> QED
    BY <2>1, <2>2, <2>3, Zenon DEF MapInv
<1> QED
  BY <1>1, <1>2, <1>3 DEF Next, MapNext, vars

(* Restored files: if the mappings come in the script's order, no piece of  *)
(* it is put into a file twice or out of that order; a path is below        *)
(* sources/ and has room; a source with its text in the map is written,     *)
(* unless its file name is longer than a path; and of two sources in one    *)
(* file, which the later overwrites, one has the path of a third before it, *)
(* or a path under the map's own name, or one the guard rewrote: for any    *)
(* map, any script, any limits.                                             *)
THEOREM SourcesAreWritten == Spec => []SourcesWritten
<1>1. MapInv => SourcesWritten
  <2> SUFFICES ASSUME MapInv, Loaded, files # Absent PROVE SourcesWritten
    BY DEF SourcesWritten
  <2> DEFINE text == IF HasSourcesContent(sm) THEN <<0>> ELSE script
             es == RestoreFiles(sm, text)
             F == FilesOf(sm, text)
             S == DOMAIN files
  <2>1. ReadMap(sm) /\ files = FoldLeft(Place, <<>>, es)
    BY DEF MapInv
  <2>2. text \in Seq(Nat)
    <3>1. <<0>> \in Seq(Nat) /\ script \in Seq(Nat)
      BY DEF MapInv
    <3> QED
      BY <3>1
  <2> HIDE DEF text
  <2>3. /\ es \in Seq(F) /\ ToSet(es) = F
        /\ \A f \in F : \E i \in DOMAIN sm.sources : Restored(f, sm, text, i)
        /\ \A i \in DOMAIN sm.sources :
             HasText(sm, i) => \E f \in F : Restored(f, sm, text, i)
    BY <2>1, FilesAre DEF FilesRestored
  <2> HIDE DEF es, F
  <2>4. Texted(F)
    BY <2>3 DEF Texted, Restored
  <2>5. /\ files \in PutUpTo(F)
        /\ \A f \in F : Clean(Slashed(f.path)) => \E w \in ToSet(files) : w.file = f
    BY <2>1, <2>3, <2>4, AllPlaced
  <2>6. \A n \in S : /\ files[n].file \in F /\ files[n].at # <<>>
                     /\ files[n].at = SafeSourcePath(files[n].target)
                     /\ files[n].target \in Seq(Signs)
    <3>1. files \in Seq(PutFile(F)) /\ PutWell(files) /\ S = 1..Len(files)
      BY <2>5 DEF PutUpTo
    <3> TAKE n \in S
    <3>2. files[n] \in PutFile(F)
      BY <3>1
    <3> QED
      BY <3>1, <3>2 DEF PutFile, PutWell
  <2>7. ASSUME NEW n \in S, files[n].file.mode = "mappings", InOrder(ParseMappings(sm.mappings))
        PROVE  \A i, j \in DOMAIN files[n].file.content :
                 i < j => Before(files[n].file.content[i], files[n].file.content[j])
    <3> DEFINE out == files[n].file.content
    <3>1. PICK i \in DOMAIN sm.sources : Restored(files[n].file, sm, text, i)
      BY <2>3, <2>6
    <3>2. out = ReconstructFromMappings(ParseMappings(sm.mappings), text, i - 1)
      BY <2>7, <3>1 DEF Restored
    <3>3. ParseMappings(sm.mappings) \in Seq(Entry)
      BY <2>1, MappingsRead DEF ReadMap
    <3> HIDE DEF out
    <3>4. \A k, j \in DOMAIN out : k < j => Before(out[k], out[j])
      BY <2>2, <2>7, <3>2, <3>3, PiecesOrdered
    <3> QED
      BY <3>4 DEF out
  <2>8. ASSUME NEW n \in S
        PROVE  /\ ToSet(Split(files[n].at, "/")) \cap {<<>>, <<".">>, Up} = {}
               /\ Len(files[n].file.path) <= MAX_LEN
    <3> DEFINE at == files[n].at
               p == Split(at, "/")
    <3>1. at \in Seq(Signs) /\ Clean(at)
      BY <2>6, SafeIs
    <3> HIDE DEF at
    <3>2. p \in Seq(Seq(Signs)) /\ \A k \in 1..Len(p) : p[k] \notin Poor
      BY <3>1, CleanParts
    <3> HIDE DEF p
    <3>3. ToSet(p) \cap Poor = {}
      <4>1. DOMAIN p = 1..Len(p)
        BY <3>2
      <4> QED
        BY <3>2, <4>1 DEF ToSet
    <3>4. Len(files[n].file.path) <= MAX_LEN
      BY <2>3, <2>6 DEF Restored
    <3> QED
      BY <3>3, <3>4 DEF Poor, p, at
  <2>9. ASSUME NEW m \in S, NEW n \in S, m # n, files[m].at = files[n].at
        PROVE  Unparted(m, n)
    <3>1. CASE \E k \in {m, n} : files[k].at # files[k].target
      BY <3>1 DEF Unparted
    <3>2. CASE ~ \E k \in {m, n} : files[k].at # files[k].target
      <4>1. files[m].target = files[n].target
        BY <2>9, <3>2
      <4>2. \/ \E k \in 1..(m - 1) : files[k].file.path = files[m].file.path
                                    /\ files[k].file.path = files[n].file.path
            \/ \E k \in {m, n} : IsPrefix(MapPrefix, files[k].file.path)
        BY <2>4, <2>5, <2>9, <4>1, TwoInOne
      <4> QED
        BY <4>2, Zenon DEF Unparted
    <3> QED
      BY <3>1, <3>2
  <2>10. ASSUME NEW i \in DOMAIN sm.sources, HasText(sm, i), Fits(sm, i)
         PROVE  \E n \in S : files[n].file.mode = "sourcesContent"
                             /\ files[n].file.content = sm.sourcesContent[i]
    <3>1. PICK f \in F : Restored(f, sm, text, i)
      BY <2>3, <2>10
    <3>2. /\ Clean(Slashed(f.path))
          /\ f.mode = "sourcesContent" /\ f.content = sm.sourcesContent[i]
      BY <2>10, <3>1 DEF Restored
    <3>3. PICK w \in ToSet(files) : w.file = f
      BY <2>5, <3>2
    <3>4. PICK n \in S : w = files[n]
      BY <3>3 DEF ToSet
    <3> QED
      BY <3>2, <3>3, <3>4
  <2>11. \A i \in DOMAIN sm.sources : Fits(sm, i)
           \/ Len(Last(Split(CleanedPath(sm.sources[i], sm.sourceRoot), "/"))) > MAX_LEN - 1
    <3> TAKE i \in DOMAIN sm.sources
    <3> DEFINE c == CleanedPath(sm.sources[i], sm.sourceRoot)
               l == Len(Last(Split(c, "/")))
    <3>1. c \in Seq(Plain)
      <4>1. sm.sources[i] \in Seq(Signs) /\ sm.sourceRoot \in Seq(Signs)
        BY <2>1 DEF ReadMap
      <4> QED
        BY <4>1, CleanedIs
    <3> HIDE DEF c
    <3>2. l \in Nat
      <4> DEFINE s == Split(c, "/")
      <4>1. s \in Seq(Seq(Bare)) /\ Len(s) \in Nat \ {0}
        BY <3>1, SplitWithout DEF Bare
      <4> HIDE DEF s
      <4>2. s # <<>>
        BY <4>1
      <4>3. Last(s) \in Seq(Bare)
        BY <4>1, <4>2, FrontAndLast
      <4> QED
        BY <4>3 DEF s
    <3> HIDE DEF l
    <3>3. MAX_LEN \in Nat
      BY SourceMapsAssumption
    <3>4. l <= MAX_LEN - 1 \/ l > MAX_LEN - 1
      BY <3>2, <3>3
    <3> QED
      BY <3>4 DEF Fits, l, c
  <2>12. \A i \in DOMAIN sm.sources : HasText(sm, i) =>
           \/ \E n \in S : files[n].file.mode = "sourcesContent"
                           /\ files[n].file.content = sm.sourcesContent[i]
           \/ Len(Last(Split(CleanedPath(sm.sources[i], sm.sourceRoot), "/"))) > MAX_LEN - 1
    BY <2>10, <2>11
  <2> QED
    BY <2>7, <2>8, <2>9, <2>12, Zenon DEF SourcesWritten
<1> QED
  BY <1>1, MapStarts, MapStep, PTL DEF Spec

-----------------------------------------------------------------------------
(* Cutting out what a page embeds.                                         *)

(* Reading a text for its strings takes its symbols one by one.             *)
LEMMA FoldQuoting ==
  ASSUME NEW text, NEW k \in Nat, DOMAIN text = 1..k, NEW A, Outside \in A,
         NEW step \in [1..k -> [A -> A]],
         \A n \in 1..k : \A b \in A : step[n][b] = Quoting(HtmlQuote, b, text[n])
  PROVE  Lead(QuotedAfter(text), k, A, Outside, step)
<1> DEFINE base == Outside
           es == text
           Turn(f, s) == IF s = {} THEN base ELSE Quoting(HtmlQuote, f[s \ {Max(s)}], es[Max(s)])
           Fills(f) == f = [s \in SUBSET (1..k) |-> Turn(f, s)]
           iter == CHOOSE h : Fills(h)
<1>1. PICK f \in [SUBSET (1..k) -> A] : Folds(f, k, base, step)
  BY FoldsExist
<1>2. \A s \in SUBSET (1..k) : s # {} => Max(s) \in 1..k /\ s \ {Max(s)} \in SUBSET (1..k)
  BY GreatestNumber
<1>3. QuotedAfter(text) = iter[1..k]
  BY DEF QuotedAfter, FoldLeft, MapThenFoldSet
<1>4. \A n \in 1..k : es[n] = text[n]
  OBVIOUS
<1> HIDE DEF es
<1>5. \A s \in SUBSET (1..k) : s # {} => \A b \in A : step[Max(s)][b] = Quoting(HtmlQuote, b, es[Max(s)])
  BY <1>2, <1>4, Zenon
<1>6. \A s \in SUBSET (1..k) : f[s] = Turn(f, s)
  BY <1>1, <1>2, <1>5, Zenon DEF Folds, Turned
<1>7. f = [s \in SUBSET (1..k) |-> f[s]]
  OBVIOUS
<1>8. Fills(f)
  BY <1>6, <1>7, Zenon
<1>9. Fills(iter)
  BY <1>8, Zenon
<1> HIDE DEF iter
<1>10. \A s \in SUBSET (1..k) : iter[s] = Turn(iter, s)
  BY <1>9, Zenon
<1>11. Turns(iter, k, base, A, step)
  BY <1>2, <1>5, <1>10, Zenon DEF Turns
<1> HIDE DEF Turn, Fills
<1>12. Lead(iter[1..k], k, A, base, step)
  BY <1>11, FoldLeads
<1> QED
  BY <1>3, <1>12, Zenon

(* So does reading a text for its comments.                                 *)
LEMMA FoldCommenting ==
  ASSUME NEW text, NEW k \in Nat, DOMAIN text = 1..k, NEW A, FALSE \in A,
         NEW step \in [1..k -> [A -> A]],
         \A n \in 1..k : \A b \in A : step[n][b] = Commenting(b, text[n])
  PROVE  Lead(CommentedAfter(text), k, A, FALSE, step)
<1> DEFINE base == FALSE
           es == text
           Turn(f, s) == IF s = {} THEN base ELSE Commenting(f[s \ {Max(s)}], es[Max(s)])
           Fills(f) == f = [s \in SUBSET (1..k) |-> Turn(f, s)]
           iter == CHOOSE h : Fills(h)
<1>1. PICK f \in [SUBSET (1..k) -> A] : Folds(f, k, base, step)
  BY FoldsExist
<1>2. \A s \in SUBSET (1..k) : s # {} => Max(s) \in 1..k /\ s \ {Max(s)} \in SUBSET (1..k)
  BY GreatestNumber
<1>3. CommentedAfter(text) = iter[1..k]
  BY DEF CommentedAfter, FoldLeft, MapThenFoldSet
<1>4. \A n \in 1..k : es[n] = text[n]
  OBVIOUS
<1> HIDE DEF es
<1>5. \A s \in SUBSET (1..k) : s # {} => \A b \in A : step[Max(s)][b] = Commenting(b, es[Max(s)])
  BY <1>2, <1>4, Zenon
<1>6. \A s \in SUBSET (1..k) : f[s] = Turn(f, s)
  BY <1>1, <1>2, <1>5, Zenon DEF Folds, Turned
<1>7. f = [s \in SUBSET (1..k) |-> f[s]]
  OBVIOUS
<1>8. Fills(f)
  BY <1>6, <1>7, Zenon
<1>9. Fills(iter)
  BY <1>8, Zenon
<1> HIDE DEF iter
<1>10. \A s \in SUBSET (1..k) : iter[s] = Turn(iter, s)
  BY <1>9, Zenon
<1>11. Turns(iter, k, base, A, step)
  BY <1>2, <1>5, <1>10, Zenon DEF Turns
<1> HIDE DEF Turn, Fills
<1>12. Lead(iter[1..k], k, A, base, step)
  BY <1>11, FoldLeads
<1> QED
  BY <1>3, <1>12, Zenon

(* So does counting the braces of a text.                                   *)
LEMMA FoldBrace ==
  ASSUME NEW text, NEW k \in Nat, DOMAIN text = 1..k, NEW A, [scan |-> Outside, depth |-> 1, text |-> <<>>] \in A,
         NEW step \in [1..k -> [A -> A]],
         \A n \in 1..k : \A b \in A : step[n][b] = Brace(b, text[n])
  PROVE  Lead(BracesAfter(text), k, A, [scan |-> Outside, depth |-> 1, text |-> <<>>], step)
<1> DEFINE base == [scan |-> Outside, depth |-> 1, text |-> <<>>]
           es == text
           Turn(f, s) == IF s = {} THEN base ELSE Brace(f[s \ {Max(s)}], es[Max(s)])
           Fills(f) == f = [s \in SUBSET (1..k) |-> Turn(f, s)]
           iter == CHOOSE h : Fills(h)
<1>1. PICK f \in [SUBSET (1..k) -> A] : Folds(f, k, base, step)
  BY FoldsExist
<1>2. \A s \in SUBSET (1..k) : s # {} => Max(s) \in 1..k /\ s \ {Max(s)} \in SUBSET (1..k)
  BY GreatestNumber
<1>3. BracesAfter(text) = iter[1..k]
  BY DEF BracesAfter, FoldLeft, MapThenFoldSet
<1>4. \A n \in 1..k : es[n] = text[n]
  OBVIOUS
<1> HIDE DEF es
<1>5. \A s \in SUBSET (1..k) : s # {} => \A b \in A : step[Max(s)][b] = Brace(b, es[Max(s)])
  BY <1>2, <1>4, Zenon
<1>6. \A s \in SUBSET (1..k) : f[s] = Turn(f, s)
  BY <1>1, <1>2, <1>5, Zenon DEF Folds, Turned
<1>7. f = [s \in SUBSET (1..k) |-> f[s]]
  OBVIOUS
<1>8. Fills(f)
  BY <1>6, <1>7, Zenon
<1>9. Fills(iter)
  BY <1>8, Zenon
<1> HIDE DEF iter
<1>10. \A s \in SUBSET (1..k) : iter[s] = Turn(iter, s)
  BY <1>9, Zenon
<1>11. Turns(iter, k, base, A, step)
  BY <1>2, <1>5, <1>10, Zenon DEF Turns
<1> HIDE DEF Turn, Fills
<1>12. Lead(iter[1..k], k, A, base, step)
  BY <1>11, FoldLeads
<1> QED
  BY <1>3, <1>12, Zenon

(* So does looking for the opening tags of a page.                          *)
LEMMA FoldScan ==
  ASSUME NEW html, NEW k \in Nat, DOMAIN html = 1..k, NEW A, [cursor |-> 1, scripts |-> <<>>] \in A,
         NEW step \in [1..k -> [A -> A]],
         \A n \in 1..k : \A b \in A : step[n][b] = ScanTag(html, b, n)
  PROVE  Lead(ScanTags(html), k, A, [cursor |-> 1, scripts |-> <<>>], step)
<1> DEFINE base == [cursor |-> 1, scripts |-> <<>>]
           es == [i \in DOMAIN html |-> i]
           Turn(f, s) == IF s = {} THEN base ELSE ScanTag(html, f[s \ {Max(s)}], es[Max(s)])
           Fills(f) == f = [s \in SUBSET (1..k) |-> Turn(f, s)]
           iter == CHOOSE h : Fills(h)
<1>1. PICK f \in [SUBSET (1..k) -> A] : Folds(f, k, base, step)
  BY FoldsExist
<1>2. \A s \in SUBSET (1..k) : s # {} => Max(s) \in 1..k /\ s \ {Max(s)} \in SUBSET (1..k)
  BY GreatestNumber
<1>3. ScanTags(html) = iter[1..k]
  BY DEF ScanTags, FoldLeft, MapThenFoldSet
<1>4. \A n \in 1..k : es[n] = n
  OBVIOUS
<1> HIDE DEF es
<1>5. \A s \in SUBSET (1..k) : s # {} => \A b \in A : step[Max(s)][b] = ScanTag(html, b, es[Max(s)])
  BY <1>2, <1>4, Zenon
<1>6. \A s \in SUBSET (1..k) : f[s] = Turn(f, s)
  BY <1>1, <1>2, <1>5, Zenon DEF Folds, Turned
<1>7. f = [s \in SUBSET (1..k) |-> f[s]]
  OBVIOUS
<1>8. Fills(f)
  BY <1>6, <1>7, Zenon
<1>9. Fills(iter)
  BY <1>8, Zenon
<1> HIDE DEF iter
<1>10. \A s \in SUBSET (1..k) : iter[s] = Turn(iter, s)
  BY <1>9, Zenon
<1>11. Turns(iter, k, base, A, step)
  BY <1>2, <1>5, <1>10, Zenon DEF Turns
<1> HIDE DEF Turn, Fills
<1>12. Lead(iter[1..k], k, A, base, step)
  BY <1>11, FoldLeads
<1> QED
  BY <1>3, <1>12, Zenon

(* Bodies are taken one by one when the empty ones are dropped.             *)
LEMMA FoldKeepBody ==
  ASSUME NEW bodies, NEW k \in Nat, DOMAIN bodies = 1..k, NEW A, <<>> \in A,
         NEW step \in [1..k -> [A -> A]],
         \A n \in 1..k : \A b \in A : step[n][b] = KeepBody(bodies, b, n)
  PROVE  Lead(KeptBodies(bodies), k, A, <<>>, step)
<1> DEFINE base == <<>>
           es == [n \in DOMAIN bodies |-> n]
           Turn(f, s) == IF s = {} THEN base ELSE KeepBody(bodies, f[s \ {Max(s)}], es[Max(s)])
           Fills(f) == f = [s \in SUBSET (1..k) |-> Turn(f, s)]
           iter == CHOOSE h : Fills(h)
<1>1. PICK f \in [SUBSET (1..k) -> A] : Folds(f, k, base, step)
  BY FoldsExist
<1>2. \A s \in SUBSET (1..k) : s # {} => Max(s) \in 1..k /\ s \ {Max(s)} \in SUBSET (1..k)
  BY GreatestNumber
<1>3. KeptBodies(bodies) = iter[1..k]
  BY DEF KeptBodies, FoldLeft, MapThenFoldSet
<1>4. \A n \in 1..k : es[n] = n
  OBVIOUS
<1> HIDE DEF es
<1>5. \A s \in SUBSET (1..k) : s # {} => \A b \in A : step[Max(s)][b] = KeepBody(bodies, b, es[Max(s)])
  BY <1>2, <1>4, Zenon
<1>6. \A s \in SUBSET (1..k) : f[s] = Turn(f, s)
  BY <1>1, <1>2, <1>5, Zenon DEF Folds, Turned
<1>7. f = [s \in SUBSET (1..k) |-> f[s]]
  OBVIOUS
<1>8. Fills(f)
  BY <1>6, <1>7, Zenon
<1>9. Fills(iter)
  BY <1>8, Zenon
<1> HIDE DEF iter
<1>10. \A s \in SUBSET (1..k) : iter[s] = Turn(iter, s)
  BY <1>9, Zenon
<1>11. Turns(iter, k, base, A, step)
  BY <1>2, <1>5, <1>10, Zenon DEF Turns
<1> HIDE DEF Turn, Fills
<1>12. Lead(iter[1..k], k, A, base, step)
  BY <1>11, FoldLeads
<1> QED
  BY <1>3, <1>12, Zenon

(* The steps lead to one value only.                                        *)
LEMMA LeadIs ==
  ASSUME NEW k \in Nat, NEW A, NEW base, NEW step, NEW g, Steps(g, k, base, step),
         NEW v, Lead(v, k, A, base, step)
  PROVE  v = g[k]
<1>1. PICK h \in [0..k -> A] : Steps(h, k, base, step) /\ v = h[k]
  BY DEF Lead
<1> DEFINE S == {n \in 0..k : h[n] = g[n]}
<1>2. 0 \in S
  BY <1>1 DEF Steps
<1>3. \A n \in 1..k : n - 1 \in S => n \in S
  BY <1>1 DEF Steps
<1> HIDE DEF S
<1>4. 0..k \subseteq S
  BY <1>2, <1>3, InductionUpTo
<1>5. k \in 0..k
  OBVIOUS
<1> QED
  BY <1>1, <1>4, <1>5 DEF S

\* The quotes a scan may tell from the rest.
QuoteSets == SUBSET HtmlQuote

\* What a scan for strings knows.
State == [quote : {""} \cup HtmlQuote, skip : BOOLEAN]

\* What a scan that starts after place b knows of strings, or of comments, up to
\* each place.
ScansStrings(q, quotes, t, b) ==
  /\ q \in [b..Len(t) -> State] /\ q[b] = Outside
  /\ \A p \in (b + 1)..Len(t) : q[p] = Quoting(quotes, q[p - 1], t[p])

ScansComments(c, t, b) ==
  /\ c \in [b..Len(t) -> BOOLEAN] /\ c[b] = FALSE
  /\ \A p \in (b + 1)..Len(t) : c[p] = Commenting(c[p - 1], t[p])

(* A state with one of its two parts changed.                               *)
LEMMA StateChanged ==
  ASSUME NEW a \in State, NEW v
  PROVE  /\ a = [quote |-> a.quote, skip |-> a.skip]
         /\ [a EXCEPT !.skip = v] = [quote |-> a.quote, skip |-> v]
         /\ [a EXCEPT !.quote = v] = [quote |-> v, skip |-> a.skip]
<1> DEFINE x == a.quote
           y == a.skip
<1>1. a = [quote |-> x, skip |-> y]
  BY DEF State
<1> HIDE DEF x, y
<1>2. [[quote |-> x, skip |-> y] EXCEPT !.skip = v] = [quote |-> x, skip |-> v]
  OBVIOUS
<1>3. [[quote |-> x, skip |-> y] EXCEPT !.quote = v] = [quote |-> v, skip |-> y]
  OBVIOUS
<1>4. /\ a = [quote |-> x, skip |-> y] /\ [a EXCEPT !.skip = v] = [quote |-> x, skip |-> v]
      /\ [a EXCEPT !.quote = v] = [quote |-> v, skip |-> y]
  BY <1>1, <1>2, <1>3, Zenon
<1> QED
  BY <1>4 DEF x, y

(* One symbol of a scan for strings.                                        *)
LEMMA QuotingStep ==
  ASSUME NEW quotes \in QuoteSets, NEW a \in State, NEW t
  PROVE  /\ Quoting(quotes, a, t) \in State
         /\ a.skip => Quoting(quotes, a, t) = [quote |-> a.quote, skip |-> FALSE]
         /\ ~a.skip /\ a.quote = "" /\ t \notin quotes => Quoting(quotes, a, t) = a
         /\ ~a.skip /\ a.quote = "" /\ t \in quotes =>
              Quoting(quotes, a, t) = [quote |-> t, skip |-> FALSE]
         /\ ~a.skip /\ a.quote # "" /\ t = "\\" =>
              Quoting(quotes, a, t) = [quote |-> a.quote, skip |-> TRUE]
         /\ ~a.skip /\ a.quote # "" /\ t # "\\" /\ t = a.quote => Quoting(quotes, a, t) = Outside
         /\ ~a.skip /\ a.quote # "" /\ t # "\\" /\ t # a.quote => Quoting(quotes, a, t) = a
<1>1. a = [quote |-> a.quote, skip |-> a.skip] /\ a.quote \in {""} \cup HtmlQuote /\ a.skip \in BOOLEAN
  BY DEF State
<1>2. /\ [a EXCEPT !.skip = FALSE] = [quote |-> a.quote, skip |-> FALSE]
      /\ [a EXCEPT !.skip = TRUE] = [quote |-> a.quote, skip |-> TRUE]
      /\ [a EXCEPT !.quote = t] = [quote |-> t, skip |-> a.skip]
      /\ [a EXCEPT !.quote = ""] = [quote |-> "", skip |-> a.skip]
  BY StateChanged
<1>3. CASE a.skip
  BY <1>1, <1>2, <1>3 DEF Quoting, State
<1>4. CASE ~a.skip /\ a.quote = ""
  <2>1. Quoting(quotes, a, t) = IF t \in quotes THEN [a EXCEPT !.quote = t] ELSE a
    BY <1>4 DEF Quoting
  <2> QED
    BY <1>1, <1>2, <1>4, <2>1 DEF State, QuoteSets
<1>5. CASE ~a.skip /\ a.quote # "" /\ t = "\\"
  <2>1. Quoting(quotes, a, t) = [a EXCEPT !.skip = TRUE]
    BY <1>5 DEF Quoting
  <2> QED
    BY <1>1, <1>2, <1>5, <2>1 DEF State
<1>6. CASE ~a.skip /\ a.quote # "" /\ t # "\\"
  <2>1. Quoting(quotes, a, t) = IF t = a.quote THEN [a EXCEPT !.quote = ""] ELSE a
    BY <1>6 DEF Quoting
  <2> QED
    BY <1>1, <1>2, <1>6, <2>1 DEF State, Outside
<1> QED
  BY <1>3, <1>4, <1>5, <1>6

(* A text can be scanned for strings from any place on.                     *)
LEMMA StringsScanned ==
  ASSUME NEW X, NEW t \in Seq(X), NEW b \in 0..Len(t), NEW quotes \in QuoteSets
  PROVE  \E q : ScansStrings(q, quotes, t, b)
<1> DEFINE k == Len(t) - b
           step == [n \in 1..k |-> [a \in State |-> Quoting(quotes, a, t[b + n])]]
<1>1. k \in Nat /\ Outside \in State
  BY DEF Outside, State
<1>2. step \in [1..k -> [State -> State]]
  <2>1. \A n \in 1..k : \A a \in State : Quoting(quotes, a, t[b + n]) \in State
    BY QuotingStep
  <2> QED
    BY <2>1
<1>3. \A n \in 1..k : \A a \in State : step[n][a] = Quoting(quotes, a, t[b + n])
  OBVIOUS
<1> HIDE DEF k, step
<1>4. PICK g \in [0..k -> State] : Steps(g, k, Outside, step)
  BY <1>1, <1>2, StepwiseFunction
<1>5. \A n \in 1..k : n - 1 \in 0..k
  BY <1>1
<1>6. g[0] = Outside /\ \A n \in 1..k : g[n] = Quoting(quotes, g[n - 1], t[b + n])
  BY <1>3, <1>4, <1>5 DEF Steps
<1> DEFINE q == [p \in b..Len(t) |-> g[p - b]]
<1>7. /\ \A p \in b..Len(t) : p - b \in 0..k /\ q[p] = g[p - b]
      /\ b \in b..Len(t) /\ b - b = 0 /\ \A p \in (b + 1)..Len(t) : p \in b..Len(t)
      /\ \A p \in (b + 1)..Len(t) : /\ p - b \in 1..k /\ b + (p - b) = p /\ p - 1 \in b..Len(t)
                                  /\ p - 1 - b = p - b - 1
  BY DEF k
<1>8. q \in [b..Len(t) -> State]
  BY <1>4, <1>7
<1> HIDE DEF q
<1>9. q[b] = Outside
  BY <1>6, <1>7
<1>10. \A p \in (b + 1)..Len(t) : q[p] = Quoting(quotes, q[p - 1], t[p])
  BY <1>6, <1>7
<1> QED
  BY <1>8, <1>9, <1>10 DEF ScansStrings

(* A text can be scanned for comments from any place on.                    *)
LEMMA CommentsScanned ==
  ASSUME NEW X, NEW t \in Seq(X), NEW b \in 0..Len(t)
  PROVE  \E c : ScansComments(c, t, b)
<1> DEFINE k == Len(t) - b
           step == [n \in 1..k |-> [a \in BOOLEAN |-> Commenting(a, t[b + n])]]
<1>1. k \in Nat
  OBVIOUS
<1>2. step \in [1..k -> [BOOLEAN -> BOOLEAN]]
  <2>1. \A n \in 1..k : \A a \in BOOLEAN : Commenting(a, t[b + n]) \in BOOLEAN
    BY DEF Commenting
  <2> QED
    BY <2>1
<1>3. \A n \in 1..k : \A a \in BOOLEAN : step[n][a] = Commenting(a, t[b + n])
  OBVIOUS
<1> HIDE DEF k, step
<1>4. PICK g \in [0..k -> BOOLEAN] : Steps(g, k, FALSE, step)
  BY <1>1, <1>2, StepwiseFunction
<1>5. \A n \in 1..k : n - 1 \in 0..k
  BY <1>1
<1>6. g[0] = FALSE /\ \A n \in 1..k : g[n] = Commenting(g[n - 1], t[b + n])
  BY <1>3, <1>4, <1>5 DEF Steps
<1> DEFINE c == [p \in b..Len(t) |-> g[p - b]]
<1>7. /\ \A p \in b..Len(t) : p - b \in 0..k /\ c[p] = g[p - b]
      /\ b \in b..Len(t) /\ b - b = 0 /\ \A p \in (b + 1)..Len(t) : p \in b..Len(t)
      /\ \A p \in (b + 1)..Len(t) : /\ p - b \in 1..k /\ b + (p - b) = p /\ p - 1 \in b..Len(t)
                                  /\ p - 1 - b = p - b - 1
  BY DEF k
<1>8. c \in [b..Len(t) -> BOOLEAN]
  BY <1>4, <1>7
<1> HIDE DEF c
<1>9. c[b] = FALSE
  BY <1>6, <1>7
<1>10. \A p \in (b + 1)..Len(t) : c[p] = Commenting(c[p - 1], t[p])
  BY <1>6, <1>7
<1> QED
  BY <1>8, <1>9, <1>10 DEF ScansComments

(* Whether a place is in a string is what the scan knows there.             *)
LEMMA InsideString ==
  ASSUME NEW X, NEW t \in Seq(X), NEW b \in 0..Len(t), NEW q, ScansStrings(q, HtmlQuote, t, b),
         NEW p \in b..Len(t)
  PROVE  IsInsideString(t, b + 1, p + 1) <=> q[p].quote # ""
<1> DEFINE j == p - b
           u == SubSeq(t, b + 1, p)
           step == [n \in 1..j |-> [a \in State |-> Quoting(HtmlQuote, a, u[n])]]
<1>0. HtmlQuote \in QuoteSets
  BY DEF QuoteSets
<1>1. /\ u \in Seq(X) /\ Len(u) = j /\ j \in Nat /\ Outside \in State /\ DOMAIN u = 1..j
      /\ \A i \in 1..j : u[i] = t[b + i]
  <2>1. b \in Nat /\ p \in Nat /\ b <= p /\ p <= Len(t) /\ p - b = j /\ j \in Nat
    OBVIOUS
  <2>2. u \in Seq(X) /\ Onward(u, t, b, j)
    BY <2>1, CutOut
  <2> QED
    BY <2>1, <2>2 DEF Onward, Outside, State
<1> HIDE DEF u
<1>2. step \in [1..j -> [State -> State]]
  <2>1. \A n \in 1..j : \A a \in State : Quoting(HtmlQuote, a, u[n]) \in State
    BY <1>0, QuotingStep
  <2> QED
    BY <2>1
<1>3. \A n \in 1..j : \A a \in State : step[n][a] = Quoting(HtmlQuote, a, u[n])
  OBVIOUS
<1> HIDE DEF step
<1>4. Lead(QuotedAfter(u), j, State, Outside, step)
  BY <1>1, <1>2, <1>3, FoldQuoting
<1> DEFINE g == [n \in 0..j |-> q[b + n]]
<1>5. Steps(g, j, Outside, step) /\ g[j] = q[p]
  <2>1. /\ \A n \in 1..j : /\ b + n \in (b + 1)..Len(t) /\ b + n - 1 = b + (n - 1)
                          /\ n - 1 \in 0..j /\ n \in 0..j /\ b + (n - 1) \in b..Len(t)
        /\ b + 0 = b /\ 0 \in 0..j /\ j \in 0..j /\ b + j = p
    OBVIOUS
  <2>2. \A n \in 1..j : g[n - 1] \in State /\ g[n] = Quoting(HtmlQuote, g[n - 1], u[n])
    <3> TAKE n \in 1..j
    <3>1. g[n - 1] = q[b + (n - 1)] /\ g[n] = q[b + n] /\ u[n] = t[b + n]
      BY <1>1, <2>1
    <3>2. q[b + n] = Quoting(HtmlQuote, q[b + (n - 1)], t[b + n]) /\ q[b + (n - 1)] \in State
      <4>1. /\ \A r \in b..Len(t) : q[r] \in State
            /\ \A r \in (b + 1)..Len(t) : q[r] = Quoting(HtmlQuote, q[r - 1], t[r])
        BY DEF ScansStrings
      <4>2. q[b + n] = Quoting(HtmlQuote, q[b + n - 1], t[b + n])
        BY <2>1, <4>1
      <4> QED
        BY <2>1, <4>1, <4>2
    <3> QED
      BY <3>1, <3>2
  <2>3. g[0] = Outside /\ g[j] = q[p]
    BY <2>1 DEF ScansStrings
  <2> HIDE DEF g
  <2> QED
    BY <1>3, <2>2, <2>3 DEF Steps
<1>6. QuotedAfter(u) = q[p]
  BY <1>1, <1>4, <1>5, LeadIs
<1>7. p + 1 - 1 = p
  OBVIOUS
<1> DEFINE m == p + 1
<1>8. IsInsideString(t, b + 1, m) = (QuotedAfter(SubSeq(t, b + 1, m - 1)).quote # "")
  BY DEF IsInsideString
<1>9. SubSeq(t, b + 1, m - 1) = u
  BY <1>7 DEF u
<1> QED
  BY <1>6, <1>8, <1>9

(* Whether a place is in a comment is what the scan knows there.            *)
LEMMA InsideComment ==
  ASSUME NEW X, NEW t \in Seq(X), NEW b \in 0..Len(t), NEW c, ScansComments(c, t, b),
         NEW p \in b..Len(t)
  PROVE  IsInsideComment(t, b + 1, p + 1) = c[p]
<1> DEFINE j == p - b
           u == SubSeq(t, b + 1, p)
           step == [n \in 1..j |-> [a \in BOOLEAN |-> Commenting(a, u[n])]]
<1>1. /\ u \in Seq(X) /\ Len(u) = j /\ j \in Nat /\ DOMAIN u = 1..j
      /\ \A i \in 1..j : u[i] = t[b + i]
  <2>1. b \in Nat /\ p \in Nat /\ b <= p /\ p <= Len(t) /\ p - b = j /\ j \in Nat
    OBVIOUS
  <2>2. u \in Seq(X) /\ Onward(u, t, b, j)
    BY <2>1, CutOut
  <2> QED
    BY <2>1, <2>2, SMTT(20) DEF Onward
<1> HIDE DEF u
<1>2. step \in [1..j -> [BOOLEAN -> BOOLEAN]]
  <2>1. \A n \in 1..j : \A a \in BOOLEAN : Commenting(a, u[n]) \in BOOLEAN
    BY DEF Commenting
  <2> QED
    BY <2>1
<1>3. \A n \in 1..j : \A a \in BOOLEAN : step[n][a] = Commenting(a, u[n])
  OBVIOUS
<1> HIDE DEF step
<1>4. Lead(CommentedAfter(u), j, BOOLEAN, FALSE, step)
  BY <1>1, <1>2, <1>3, FoldCommenting
<1> DEFINE g == [n \in 0..j |-> c[b + n]]
<1>5. Steps(g, j, FALSE, step) /\ g[j] = c[p]
  <2>1. /\ \A n \in 1..j : /\ b + n \in (b + 1)..Len(t) /\ b + n - 1 = b + (n - 1)
                          /\ n - 1 \in 0..j /\ n \in 0..j /\ b + (n - 1) \in b..Len(t)
        /\ b + 0 = b /\ 0 \in 0..j /\ j \in 0..j /\ b + j = p
    OBVIOUS
  <2>2. \A n \in 1..j : g[n - 1] \in BOOLEAN /\ g[n] = Commenting(g[n - 1], u[n])
    <3> TAKE n \in 1..j
    <3>1. g[n - 1] = c[b + (n - 1)] /\ g[n] = c[b + n] /\ u[n] = t[b + n]
      BY <1>1, <2>1
    <3>2. c[b + n] = Commenting(c[b + (n - 1)], t[b + n]) /\ c[b + (n - 1)] \in BOOLEAN
      BY <2>1 DEF ScansComments
    <3> QED
      BY <3>1, <3>2
  <2>3. g[0] = FALSE /\ g[j] = c[p]
    BY <2>1 DEF ScansComments
  <2> HIDE DEF g
  <2> QED
    BY <1>3, <2>2, <2>3 DEF Steps
<1>6. CommentedAfter(u) = c[p]
  BY <1>1, <1>4, <1>5, LeadIs
<1>7. p + 1 - 1 = p
  OBVIOUS
<1> DEFINE m == p + 1
<1>8. IsInsideComment(t, b + 1, m) = (CommentedAfter(SubSeq(t, b + 1, m - 1)))
  BY DEF IsInsideComment
<1>9. SubSeq(t, b + 1, m - 1) = u
  BY <1>7 DEF u
<1> QED
  BY <1>6, <1>8, <1>9

\* Where the first m lists stand that u begins with: the n-th ends at e[n].
SitsUpTo(u, lists, e, m) ==
  /\ \A n \in 1..m : e[n] <= e[m] /\ \A j \in 1..Len(lists[n]) : u[e[n - 1] + j] = lists[n][j]
  /\ \A i \in 1..e[m] : \E n \in 1..m : e[n - 1] < i /\ i <= e[n]

\* Where all of them stand.
Sits(u, lists, e) ==
  /\ e \in [0..Len(lists) -> 0..Len(u)] /\ e[0] = 0 /\ e[Len(lists)] = Len(u)
  /\ \A n \in 1..Len(lists) : e[n] = e[n - 1] + Len(lists[n])
  /\ SitsUpTo(u, lists, e, Len(lists))

(* Every list put together of lists has them one after another.             *)
LEMMA FlattenPlaces ==
  ASSUME NEW X, NEW lists \in Seq(Seq(X))
  PROVE  \E e : Sits(FlattenSeq(lists), lists, e)
<1> DEFINE k == Len(lists)
<1>1. k \in Nat /\ \A n \in 1..k : lists[n] \in Seq(X) /\ Len(lists[n]) \in Nat
  OBVIOUS
<1>2. PICK f : Flattens(f, lists, X)
  BY FlattenSteps
<1>3. /\ f \in [0..k -> Seq(X)] /\ f[0] = <<>> /\ FlattenSeq(lists) = f[k]
      /\ \A n \in 1..k : f[n] = f[n - 1] \o lists[n]
  BY <1>2 DEF Flattens
<1> DEFINE e == [n \in 0..k |-> Len(f[n])]
<1> HIDE DEF k
<1>4. e \in [0..k -> Nat] /\ e[0] = 0 /\ \A n \in 0..k : e[n] = Len(f[n])
  <2>1. 0 \in 0..k /\ Len(f[0]) = 0
    BY <1>1, <1>3
  <2>2. \A n \in 0..k : Len(f[n]) \in Nat
    BY <1>3
  <2> QED
    BY <2>1, <2>2
<1> HIDE DEF e
<1>5. ASSUME NEW m \in 1..k
      PROVE  /\ e[m] = e[m - 1] + Len(lists[m]) /\ e[m - 1] \in Nat /\ e[m] \in Nat
             /\ \A i \in 1..e[m - 1] : f[m][i] = f[m - 1][i]
             /\ \A i \in 1..Len(lists[m]) : f[m][e[m - 1] + i] = lists[m][i]
  <2>1. m - 1 \in 0..k /\ m \in 0..k
    BY <1>1
  <2>2. f[m - 1] \in Seq(X) /\ lists[m] \in Seq(X) /\ f[m] = f[m - 1] \o lists[m]
    BY <1>1, <1>3, <2>1
  <2>3. Both(f[m], f[m - 1], lists[m])
    BY <2>2, PlacesOfBoth
  <2>4. Len(f[m - 1]) = e[m - 1] /\ Len(f[m]) = e[m]
    BY <1>4, <2>1
  <2> QED
    BY <1>4, <2>1, <2>3, <2>4, Zenon DEF Both
<1> DEFINE S == {m \in 0..k : SitsUpTo(f[m], lists, e, m)}
<1>6. 0 \in S
  <2>1. e[0] = 0 /\ 0 \in 0..k
    BY <1>1, <1>4
  <2> QED
    BY <2>1 DEF SitsUpTo
<1>7. \A m \in 1..k : m - 1 \in S => m \in S
  <2> TAKE m \in 1..k
  <2>1. SUFFICES ASSUME m - 1 \in S PROVE m \in S
    OBVIOUS
  <2> HIDE DEF S
  <2> DEFINE a == e[m - 1]
             l == Len(lists[m])
             c == e[m]
  <2>2. m - 1 \in 0..k /\ m \in 0..k /\ m \in Nat \ {0} /\ SitsUpTo(f[m - 1], lists, e, m - 1)
    BY <1>1, <2>1 DEF S
  <2>3. /\ a \in Nat /\ l \in Nat /\ c \in Nat /\ c = a + l
        /\ \A i \in 1..a : f[m][i] = f[m - 1][i]
        /\ \A i \in 1..l : f[m][a + i] = lists[m][i]
    BY <1>1, <1>5
  <2>4. /\ \A n \in 1..(m - 1) : /\ e[n] <= a
                                 /\ \A j \in 1..Len(lists[n]) : f[m - 1][e[n - 1] + j] = lists[n][j]
        /\ \A i \in 1..a : \E n \in 1..(m - 1) : e[n - 1] < i /\ i <= e[n]
    BY <2>2 DEF SitsUpTo
  <2>5. ASSUME NEW n \in 1..m
        PROVE  e[n] <= c /\ \A j \in 1..Len(lists[n]) : f[m][e[n - 1] + j] = lists[n][j]
    <3>1. CASE n = m
      <4>1. \A j \in 1..l : f[m][a + j] = lists[m][j]
        BY <2>3
      <4>2. c <= c
        BY <2>3
      <4> QED
        BY <3>1, <4>1, <4>2, Zenon
    <3>2. CASE n # m
      <4>1. n \in 1..(m - 1) /\ n \in 1..k
        BY <1>1, <3>2
      <4> DEFINE x == e[n - 1]
                 y == Len(lists[n])
                 z == e[n]
      <4>2. x \in Nat /\ y \in Nat /\ z \in Nat /\ z = x + y /\ z <= a
        BY <1>1, <1>5, <2>4, <4>1
      <4>3. \A j \in 1..y : f[m - 1][x + j] = lists[n][j]
        BY <2>4, <4>1
      <4> HIDE DEF x, y, z, a, c, l
      <4>4. \A j \in 1..y : x + j \in 1..a
        BY <2>3, <4>2
      <4>5. \A j \in 1..y : f[m][x + j] = lists[n][j]
        BY <2>3, <4>3, <4>4
      <4>6. z <= c
        BY <2>3, <4>2
      <4> QED
        BY <4>5, <4>6 DEF x, y, z
    <3> QED
      BY <3>1, <3>2
  <2>6. ASSUME NEW i \in 1..c
        PROVE  \E n \in 1..m : e[n - 1] < i /\ i <= e[n]
    <3>1. CASE i <= a
      <4>1. i \in 1..a
        BY <2>3, <3>1
      <4>2. PICK n \in 1..(m - 1) : e[n - 1] < i /\ i <= e[n]
        BY <2>4, <4>1
      <4>3. n \in 1..m
        OBVIOUS
      <4> QED
        BY <4>2, <4>3
    <3>2. CASE ~(i <= a)
      <4>1. a < i /\ m \in 1..m /\ i <= c
        BY <2>2, <2>3, <3>2
      <4> QED
        BY <4>1
    <3> QED
      BY <3>1, <3>2
  <2>7. SitsUpTo(f[m], lists, e, m)
    BY <2>5, <2>6 DEF SitsUpTo
  <2> QED
    BY <2>2, <2>7 DEF S
<1> HIDE DEF S
<1>8. 0..k \subseteq S
  BY <1>1, <1>6, <1>7, InductionUpTo
<1>9. SitsUpTo(f[k], lists, e, k) /\ e[k] = Len(f[k])
  <2>1. k \in 0..k
    BY <1>1
  <2> QED
    BY <1>4, <1>8, <2>1 DEF S
<1>10. e \in [0..k -> 0..Len(f[k])]
  <2>1. \A n \in 0..k : n = 0 \/ n \in 1..k
    BY <1>1
  <2>2. \A n \in 1..k : e[n] <= e[k]
    BY <1>9 DEF SitsUpTo
  <2>3. e[k] \in Nat
    <3>1. k \in 0..k
      BY <1>1
    <3> QED
      BY <1>4, <3>1
  <2>4. \A n \in 0..k : e[n] \in 0..e[k]
    BY <1>4, <2>1, <2>2, <2>3
  <2>5. \A n \in 0..k : e[n] \in 0..Len(f[k])
    BY <1>9, <2>4
  <2> QED
    BY <1>4, <2>5
<1>11. Sits(f[k], lists, e)
  BY <1>4, <1>5, <1>9, <1>10 DEF Sits, k
<1> QED
  BY <1>3, <1>11

\* What scans know after each of the first k symbols of w.
ReadsStrings(r, quotes, w, k) ==
  r[0] = Outside /\ \A i \in 1..k : r[i] = Quoting(quotes, r[i - 1], w[i])
ReadsComments(r, w, k) == r[0] = FALSE /\ \A i \in 1..k : r[i] = Commenting(r[i - 1], w[i])

\* A text in which a quote only follows a backslash, and each backslash escapes
\* one symbol that is none.
Escapes(text, l, quote) ==
  \A n \in 1..l : /\ text[n] = quote => n > 1 /\ text[n - 1] = "\\"
                  /\ text[n] = "\\" => n < l /\ text[n + 1] # "\\"

\* A text of l symbols between two others.
Wraps(w, left, text, l, right) ==
  w[1] = left /\ w[l + 2] = right /\ \A j \in 1..l : w[j + 1] = text[j]

\* A string of l symbols, and its reading.
ReadsString(r, quotes, quote, text, l, w) ==
  /\ quotes \in QuoteSets /\ quote \in quotes
  /\ Escapes(text, l, quote) /\ Wraps(w, quote, text, l, quote)
  /\ ReadsStrings(r, quotes, w, l + 2)

\* It is a string all the way, and none any more at its end.
StringDone(r, quote, l) == r[l + 2] = Outside /\ \A i \in 1..(l + 1) : r[i].quote = quote

(* From its opening quote to the one that closes it a string is one.        *)
LEMMA StringRead ==
  ASSUME NEW quotes, NEW quote, NEW text, NEW l \in Nat, NEW w, NEW r,
         ReadsString(r, quotes, quote, text, l, w)
  PROVE  StringDone(r, quote, l)
<1>a. ReadsStrings(r, quotes, w, l + 2)
  BY DEF ReadsString
<1>b. Escapes(text, l, quote)
  BY DEF ReadsString
<1>c. Wraps(w, quote, text, l, quote)
  BY DEF ReadsString
<1>1. quotes \in QuoteSets /\ quote \in quotes /\ quote \in HtmlQuote /\ quote # "" /\ quote # "\\"
  <2>1. quotes \in QuoteSets /\ quote \in quotes
    BY DEF ReadsString
  <2>2. quote \in HtmlQuote
    BY <2>1 DEF QuoteSets
  <2>3. quote # "" /\ quote # "\\"
    BY <2>2 DEF HtmlQuote, JsonQuote
  <2> QED
    BY <2>1, <2>2, <2>3
<1> DEFINE skips(j) == j > 0 /\ text[j] = "\\"
           after(j) == [quote |-> quote, skip |-> skips(j)]
           S == {j \in 0..l : r[j + 1] = after(j)}
<1>2. \A j \in 0..l : after(j) \in State /\ after(j).quote = quote /\ after(j).skip = skips(j)
  <2> TAKE j \in 0..l
  <2>1. skips(j) \in BOOLEAN
    OBVIOUS
  <2> HIDE DEF skips
  <2> QED
    BY <1>1, <2>1 DEF State
<1>3. /\ r[0] = Outside /\ r[1] = Quoting(quotes, r[0], quote)
      /\ r[l + 2] = Quoting(quotes, r[l + 1], quote)
      /\ \A j \in 1..l : r[j + 1] = Quoting(quotes, r[j], text[j])
  <2>1. 1 \in 1..(l + 2) /\ 1 - 1 = 0 /\ l + 2 \in 1..(l + 2) /\ l + 2 - 1 = l + 1
    OBVIOUS
  <2>2. \A j \in 1..l : j + 1 \in 1..(l + 2) /\ j + 1 - 1 = j
    OBVIOUS
  <2>3. r[1] = Quoting(quotes, r[0], w[1]) /\ r[l + 2] = Quoting(quotes, r[l + 1], w[l + 2])
    BY <1>a, <2>1 DEF ReadsStrings
  <2>4. \A j \in 1..l : r[j + 1] = Quoting(quotes, r[j], w[j + 1])
    BY <1>a, <2>2 DEF ReadsStrings
  <2> QED
    BY <1>a, <1>c, <2>3, <2>4, Zenon DEF ReadsStrings, Wraps
<1>4. r[1] = after(0)
  <2>1. Outside \in State /\ ~Outside.skip /\ Outside.quote = ""
    BY DEF Outside, State
  <2>2. Quoting(quotes, Outside, quote) = [quote |-> quote, skip |-> FALSE]
    BY <1>1, <2>1, QuotingStep
  <2>3. skips(0) = FALSE
    OBVIOUS
  <2> QED
    BY <1>3, <2>2, <2>3
<1>5. \A j \in 1..l : r[j] = after(j - 1) => r[j + 1] = after(j)
  <2> TAKE j \in 1..l
  <2>1. SUFFICES ASSUME r[j] = after(j - 1) PROVE r[j + 1] = after(j)
    OBVIOUS
  <2>2. j - 1 \in 0..l /\ j > 0
    OBVIOUS
  <2>3. after(j - 1) \in State /\ after(j - 1).quote = quote /\ after(j - 1).skip = skips(j - 1)
    BY <1>2, <2>2
  <2>4. skips(j) = (text[j] = "\\")
    BY <2>2
  <2>5. r[j + 1] = Quoting(quotes, after(j - 1), text[j])
    BY <1>3, <2>1
  <2>6. CASE skips(j - 1)
    <3>1. j - 1 \in 1..l /\ j - 1 + 1 = j /\ text[j - 1] = "\\"
      BY <2>6
    <3>2. text[j] # "\\"
      BY <1>b, <3>1 DEF Escapes
    <3>3. skips(j) = FALSE
      BY <2>4, <3>2
    <3> HIDE DEF skips
    <3>4. Quoting(quotes, after(j - 1), text[j]) = [quote |-> quote, skip |-> FALSE]
      <4> HIDE DEF after
      <4> QED
        BY <1>1, <2>3, <2>6, QuotingStep
    <3> QED
      BY <2>5, <3>3, <3>4
  <2>7. CASE ~skips(j - 1) /\ text[j] = "\\"
    <3>1. skips(j) = TRUE
      BY <2>4, <2>7
    <3> HIDE DEF skips
    <3>2. Quoting(quotes, after(j - 1), text[j]) = [quote |-> quote, skip |-> TRUE]
      <4> HIDE DEF after
      <4> QED
        BY <1>1, <2>3, <2>7, QuotingStep
    <3> QED
      BY <2>5, <3>1, <3>2
  <2>8. CASE ~skips(j - 1) /\ text[j] # "\\"
    <3>1. text[j] # quote
      BY <1>b, <2>8 DEF Escapes
    <3>2. skips(j) = FALSE /\ skips(j - 1) = FALSE
      BY <2>4, <2>8
    <3> HIDE DEF skips
    <3>3. Quoting(quotes, after(j - 1), text[j]) = after(j - 1)
      <4> HIDE DEF after
      <4> QED
        BY <1>1, <2>3, <2>8, <3>1, QuotingStep
    <3> QED
      BY <2>5, <3>2, <3>3
  <2> QED
    BY <2>6, <2>7, <2>8
<1> HIDE DEF after
<1>6. 0 \in S /\ \A j \in 1..l : j - 1 \in S => j \in S
  <2>1. 0 \in 0..l /\ 0 + 1 = 1 /\ \A j \in 1..l : j \in 0..l /\ j - 1 + 1 = j
    OBVIOUS
  <2> QED
    BY <1>4, <1>5, <2>1
<1> HIDE DEF S
<1>7. 0..l \subseteq S
  BY <1>6, InductionUpTo
<1>8. \A j \in 0..l : r[j + 1] = after(j)
  BY <1>7 DEF S
<1>9. r[l + 2] = Outside
  <2>1. l \in 0..l /\ ~skips(l)
    BY <1>b DEF Escapes
  <2>2. r[l + 2] = Quoting(quotes, after(l), quote)
    BY <1>3, <1>8, <2>1
  <2>3. after(l) \in State /\ after(l).quote = quote /\ after(l).skip = skips(l)
    BY <1>2, <2>1
  <2> QED
    BY <1>1, <2>1, <2>2, <2>3, QuotingStep
<1>10. \A i \in 1..(l + 1) : r[i].quote = quote
  <2> TAKE i \in 1..(l + 1)
  <2>1. i - 1 \in 0..l /\ i - 1 + 1 = i
    OBVIOUS
  <2>2. r[i] = after(i - 1)
    BY <1>8, <2>1
  <2> QED
    BY <1>2, <2>1, <2>2
<1> QED
  BY <1>9, <1>10 DEF StringDone

(* A text without quotes has no strings.                                    *)
LEMMA QuietRead ==
  ASSUME NEW quotes \in QuoteSets, NEW w, NEW k \in Nat, NEW r,
         ReadsStrings(r, quotes, w, k), \A i \in 1..k : w[i] \notin quotes
  PROVE  \A i \in 0..k : r[i] = Outside
<1> DEFINE S == {i \in 0..k : r[i] = Outside}
<1>1. 0 \in S
  BY DEF ReadsStrings
<1>2. \A i \in 1..k : r[i - 1] = Outside => r[i] = Outside
  <2> TAKE i \in 1..k
  <2>1. r[i] = Quoting(quotes, r[i - 1], w[i]) /\ w[i] \notin quotes
    BY DEF ReadsStrings
  <2>2. Outside \in State /\ ~Outside.skip /\ Outside.quote = ""
    BY DEF Outside, State
  <2>3. Quoting(quotes, Outside, w[i]) = Outside
    BY <2>1, <2>2, QuotingStep
  <2> QED
    BY <2>1, <2>3
<1>3. \A i \in 1..k : i - 1 \in S => i \in S
  BY <1>2
<1> HIDE DEF S
<1>4. 0..k \subseteq S
  BY <1>1, <1>3, InductionUpTo
<1> QED
  BY <1>4 DEF S

(* A text without comment marks has no comments.                            *)
LEMMA BareRead ==
  ASSUME NEW w, NEW k \in Nat, NEW r, ReadsComments(r, w, k), \A i \in 1..k : w[i] # "<!--"
  PROVE  \A i \in 0..k : r[i] = FALSE
<1> DEFINE S == {i \in 0..k : r[i] = FALSE}
<1>1. 0 \in S
  BY DEF ReadsComments
<1>2. \A i \in 1..k : r[i - 1] = FALSE => r[i] = FALSE
  BY DEF ReadsComments, Commenting
<1>3. \A i \in 1..k : i - 1 \in S => i \in S
  BY <1>2
<1> HIDE DEF S
<1>4. 0..k \subseteq S
  BY <1>1, <1>3, InductionUpTo
<1> QED
  BY <1>4 DEF S

(* From its mark to the one that closes it a comment is one.                *)
LEMMA CommentRead ==
  ASSUME NEW text, NEW l \in Nat, NEW w, NEW r, \A j \in 1..l : text[j] # "-->",
         Wraps(w, "<!--", text, l, "-->"), ReadsComments(r, w, l + 2)
  PROVE  r[l + 2] = FALSE /\ \A i \in 1..(l + 1) : r[i] = TRUE
<1> DEFINE S == {j \in 0..l : r[j + 1] = TRUE}
<1>1. /\ r[0] = FALSE /\ r[1] = Commenting(r[0], "<!--")
      /\ r[l + 2] = Commenting(r[l + 1], "-->")
      /\ \A j \in 1..l : r[j + 1] = Commenting(r[j], text[j])
  <2>1. 1 \in 1..(l + 2) /\ 1 - 1 = 0 /\ l + 2 \in 1..(l + 2) /\ l + 2 - 1 = l + 1
    OBVIOUS
  <2>2. \A j \in 1..l : j + 1 \in 1..(l + 2) /\ j + 1 - 1 = j
    OBVIOUS
  <2>3. r[1] = Commenting(r[0], w[1]) /\ r[l + 2] = Commenting(r[l + 1], w[l + 2])
    BY <2>1 DEF ReadsComments
  <2>4. \A j \in 1..l : r[j + 1] = Commenting(r[j], w[j + 1])
    BY <2>2 DEF ReadsComments
  <2> QED
    BY <2>3, <2>4, Zenon DEF ReadsComments, Wraps
<1>2. 0 \in S
  <2>1. 0 + 1 = 1 /\ 0 \in 0..l
    OBVIOUS
  <2> QED
    BY <1>1, <2>1 DEF Commenting
<1>3. \A j \in 1..l : r[j] = TRUE => r[j + 1] = TRUE
  BY <1>1 DEF Commenting
<1>4. \A j \in 1..l : j - 1 \in S => j \in S
  <2>1. \A j \in 1..l : j \in 0..l /\ j - 1 + 1 = j
    OBVIOUS
  <2> QED
    BY <1>3, <2>1
<1> HIDE DEF S
<1>5. 0..l \subseteq S
  BY <1>2, <1>4, InductionUpTo
<1>6. \A i \in 1..(l + 1) : r[i] = TRUE
  <2> TAKE i \in 1..(l + 1)
  <2>1. i - 1 \in 0..l /\ i - 1 + 1 = i
    OBVIOUS
  <2> QED
    BY <1>5, <2>1 DEF S
<1>7. l + 1 \in 1..(l + 1)
  OBVIOUS
<1> QED
  BY <1>1, <1>6, <1>7 DEF Commenting

\* The symbols of a page.
Symbols == STRING \cup {"<script>", "</script>", "<!--", "-->", "{", "}", "marker", " ", "="}

\* What a piece is written as.
Shape(piece, w) ==
  LET l == Len(piece.text)
  IN  /\ w \in Seq(Symbols) /\ l \in Nat
      /\ piece.kind = "string" =>
           Len(w) = l + 2 /\ Wraps(w, piece.quote, piece.text, l, piece.quote)
      /\ piece.kind = "comment" => Len(w) = l + 2 /\ Wraps(w, "<!--", piece.text, l, "-->")
      /\ piece.kind = "object" => Len(w) = l + 2 /\ Wraps(w, "{", piece.text, l, "}")
      /\ piece.kind \notin {"string", "comment", "object"} => w = piece.text

(* A text between two symbols.                                              *)
LEMMA WrapPlaces ==
  ASSUME NEW X, NEW left \in X, NEW right \in X, NEW text \in Seq(X),
         NEW u, u = <<left>> \o text \o <<right>>
  PROVE  u \in Seq(X) /\ Len(u) = Len(text) + 2 /\ Wraps(u, left, text, Len(text), right)
<1> DEFINE v == <<left>> \o text
           w == v \o <<right>>
           l == Len(text)
<1>1. /\ <<left>> \in Seq(X) /\ Len(<<left>>) = 1 /\ <<left>>[1] = left
      /\ <<right>> \in Seq(X) /\ Len(<<right>>) = 1 /\ <<right>>[1] = right /\ l \in Nat
  BY ListOfOne
<1>2. v \in Seq(X) /\ Both(v, <<left>>, text)
  BY <1>1, PlacesOfBoth
<1> HIDE DEF v
<1>3. w \in Seq(X) /\ Both(w, v, <<right>>)
  BY <1>1, <1>2, PlacesOfBoth
<1> HIDE DEF w
<1> HIDE DEF l
<1>4. Len(v) = l + 1 /\ v[1] = left /\ \A j \in 1..l : v[1 + j] = text[j]
  <2>1. 1 \in 1..1 /\ Len(v) = 1 + l
    BY <1>1, <1>2 DEF Both, l
  <2> QED
    BY <1>1, <1>2, <2>1 DEF Both, l
<1>5. Len(w) = l + 2 /\ w[l + 2] = right /\ \A j \in 1..(l + 1) : w[j] = v[j]
  <2>1. 1 \in 1..1 /\ Len(w) = Len(v) + 1 /\ Len(v) + 1 = l + 2
    BY <1>1, <1>3, <1>4 DEF Both
  <2>2. w[Len(v) + 1] = right /\ \A j \in 1..Len(v) : w[j] = v[j]
    BY <1>1, <1>3, <2>1 DEF Both
  <2> QED
    BY <1>4, <2>1, <2>2
<1>6. w[1] = left /\ \A j \in 1..l : w[j + 1] = text[j]
  <2>1. 1 \in 1..(l + 1) /\ \A j \in 1..l : j + 1 \in 1..(l + 1) /\ 1 + j = j + 1
    BY <1>1
  <2> QED
    BY <1>4, <1>5, <2>1
<1>7. w \in Seq(X) /\ Len(w) = l + 2 /\ Wraps(w, left, text, l, right)
  BY <1>3, <1>5, <1>6 DEF Wraps
<1> QED
  BY <1>7 DEF w, v, l

(* Its places.                                                              *)
LEMMA WrapCases ==
  ASSUME NEW l \in Nat, NEW k, k = l + 2, NEW i \in 1..k
  PROVE  i = 1 \/ i = l + 2 \/ (i - 1 \in 1..l /\ i = i - 1 + 1)
OBVIOUS

(* What a piece is written as.                                              *)
LEMMA WrittenShape ==
  ASSUME NEW piece \in ScriptPiece
  PROVE  Shape(piece, Written(piece))
<1>1. piece.text \in Seq(STRING) /\ piece.quote \in STRING
  BY DEF ScriptPiece
<1>2. piece.text \in Seq(Symbols) /\ piece.quote \in Symbols
  <2>1. \A x \in STRING : x \in Symbols
    BY DEF Symbols
  <2> QED
    BY <1>1, <2>1, ListWithin
<1>3. "<!--" \in Symbols /\ "-->" \in Symbols /\ "{" \in Symbols /\ "}" \in Symbols
  BY DEF Symbols
<1>4. Len(piece.text) \in Nat
  BY <1>1
<1> DEFINE text == piece.text
<1> HIDE DEF text
<1>5. CASE piece.kind = "string"
  <2>1. Written(piece) = <<piece.quote>> \o text \o <<piece.quote>>
    BY <1>5 DEF Written, text
  <2>2. Written(piece) \in Seq(Symbols) /\ Len(Written(piece)) = Len(text) + 2
        /\ Wraps(Written(piece), piece.quote, text, Len(text), piece.quote)
    BY <1>2, <2>1, WrapPlaces DEF text
  <2> QED
    BY <1>4, <1>5, <2>2 DEF Shape, text
<1>6. CASE piece.kind = "comment"
  <2>1. Written(piece) = <<"<!--">> \o text \o <<"-->">>
    BY <1>6 DEF Written, text
  <2>2. Written(piece) \in Seq(Symbols) /\ Len(Written(piece)) = Len(text) + 2
        /\ Wraps(Written(piece), "<!--", text, Len(text), "-->")
    BY <1>2, <1>3, <2>1, WrapPlaces DEF text
  <2> QED
    BY <1>4, <1>6, <2>2 DEF Shape, text
<1>7. CASE piece.kind = "object"
  <2>1. Written(piece) = <<"{">> \o text \o <<"}">>
    BY <1>7 DEF Written, text
  <2>2. Written(piece) \in Seq(Symbols) /\ Len(Written(piece)) = Len(text) + 2
        /\ Wraps(Written(piece), "{", text, Len(text), "}")
    BY <1>2, <1>3, <2>1, WrapPlaces DEF text
  <2> QED
    BY <1>4, <1>7, <2>2 DEF Shape, text
<1>8. CASE piece.kind \notin {"string", "comment", "object"}
  <2>1. Written(piece) = text
    BY <1>8 DEF Written, text
  <2> QED
    BY <1>2, <1>4, <1>8, <2>1 DEF Shape, text
<1> QED
  BY <1>5, <1>6, <1>7, <1>8

(* The strings of one piece are read as such, and nothing else is.          *)
LEMMA PieceStrings ==
  ASSUME NEW piece \in ScriptPiece, PlainPiece(piece), NEW quotes \in QuoteSets,
         piece.kind = "string" => piece.quote \in quotes,
         NEW r, ReadsStrings(r, quotes, Written(piece), Len(Written(piece)))
  PROVE  /\ r[Len(Written(piece))] = Outside
         /\ piece.kind = "string" => \A i \in 1..(Len(Written(piece)) - 1) : r[i].quote # ""
         /\ piece.kind # "string" => \A i \in 0..Len(Written(piece)) : r[i] = Outside
<1> DEFINE w == Written(piece)
           l == Len(piece.text)
           k == Len(w)
<1>1. Shape(piece, w)
  BY WrittenShape
<1>2. k \in Nat /\ l \in Nat /\ k \in 0..k
  <2>1. w \in Seq(Symbols) /\ l \in Nat
    BY <1>1 DEF Shape
  <2> HIDE DEF w, l
  <2> QED
    BY <2>1
<1>3. DOMAIN piece.text = 1..l /\ ToSet(piece.text) = {piece.text[n] : n \in 1..l}
  <2>1. piece.text \in Seq(STRING)
    BY DEF ScriptPiece
  <2> QED
    BY <2>1, ElementsOf
<1>4. CASE piece.kind = "string"
  <2>1. k = l + 2 /\ Wraps(w, piece.quote, piece.text, l, piece.quote)
    BY <1>1, <1>4 DEF Shape
  <2>2. Escapes(piece.text, l, piece.quote)
    BY <1>3, <1>4 DEF PlainPiece, Escapes
  <2>3. piece.quote # ""
    <3>1. piece.quote \in HtmlQuote
      BY <1>4 DEF PlainPiece
    <3> QED
      BY <3>1 DEF HtmlQuote, JsonQuote
  <2>4. ReadsStrings(r, quotes, w, l + 2)
    BY <2>1
  <2>5. r[l + 2] = Outside /\ \A i \in 1..(l + 1) : r[i].quote = piece.quote
    <3>1. ReadsString(r, quotes, piece.quote, piece.text, l, w)
      BY <1>4, <2>1, <2>2, <2>4 DEF ReadsString
    <3> HIDE DEF w, l
    <3>2. StringDone(r, piece.quote, l)
      BY <1>2, <3>1, StringRead
    <3> QED
      BY <3>2 DEF StringDone
  <2>6. k - 1 = l + 1 /\ k = l + 2
    BY <1>2, <2>1
  <2> QED
    <3> HIDE DEF w, l, k
    <3>1. r[k] = Outside /\ \A i \in 1..(k - 1) : r[i].quote # ""
      BY <2>3, <2>5, <2>6
    <3> QED
      BY <1>4, <3>1 DEF k, w
<1>5. CASE piece.kind # "string"
  <2>1. ASSUME NEW i \in 1..k PROVE w[i] \notin HtmlQuote
    <3>1. "<!--" \notin HtmlQuote /\ "-->" \notin HtmlQuote /\ "{" \notin HtmlQuote /\ "}" \notin HtmlQuote
      BY DEF HtmlQuote, JsonQuote
    <3>2. \A n \in 1..l : piece.text[n] \notin HtmlQuote
      BY <1>3, <1>5 DEF PlainPiece
    <3>3. CASE piece.kind \in {"comment", "object"}
      <4>1. k = l + 2 /\ (Wraps(w, "<!--", piece.text, l, "-->") \/ Wraps(w, "{", piece.text, l, "}"))
        BY <1>1, <3>3 DEF Shape
      <4>2. i = 1 \/ i = l + 2 \/ (i - 1 \in 1..l /\ i = i - 1 + 1)
        BY <1>2, <4>1, WrapCases
      <4>3. \A j \in 1..l : w[j + 1] = piece.text[j]
        BY <4>1 DEF Wraps
      <4>4. w[1] \in {"<!--", "{"} /\ w[l + 2] \in {"-->", "}"}
        BY <4>1 DEF Wraps
      <4>5. CASE i - 1 \in 1..l /\ i = i - 1 + 1
        BY <3>2, <4>3, <4>5
      <4> QED
        BY <3>1, <4>2, <4>4, <4>5
    <3>4. CASE piece.kind \notin {"comment", "object"}
      BY <1>1, <1>5, <3>2, <3>4 DEF Shape
    <3> QED
      BY <3>3, <3>4
  <2>2. \A i \in 1..k : w[i] \notin quotes
    BY <2>1 DEF QuoteSets
  <2>3. \A i \in 0..k : r[i] = Outside
    <3> HIDE DEF w, k
    <3> QED
      BY <1>2, <2>2, QuietRead DEF k, w
  <2> QED
    BY <1>2, <1>5, <2>3
<1> QED
  BY <1>4, <1>5

(* The comments of one piece are read as such, and nothing else is.         *)
LEMMA PieceComments ==
  ASSUME NEW piece \in ScriptPiece, PlainPiece(piece),
         NEW r, ReadsComments(r, Written(piece), Len(Written(piece)))
  PROVE  /\ r[Len(Written(piece))] = FALSE
         /\ piece.kind = "comment" => \A i \in 1..(Len(Written(piece)) - 1) : r[i] = TRUE
<1> DEFINE w == Written(piece)
           l == Len(piece.text)
           k == Len(w)
<1>1. Shape(piece, w)
  BY WrittenShape
<1>2. k \in Nat /\ l \in Nat /\ k \in 0..k
  <2>1. w \in Seq(Symbols) /\ l \in Nat
    BY <1>1 DEF Shape
  <2> HIDE DEF w, l
  <2> QED
    BY <2>1
<1>3. DOMAIN piece.text = 1..l /\ ToSet(piece.text) = {piece.text[n] : n \in 1..l}
  <2>1. piece.text \in Seq(STRING)
    BY DEF ScriptPiece
  <2> QED
    BY <2>1, ElementsOf
<1>4. CASE piece.kind = "comment"
  <2>1. k = l + 2 /\ Wraps(w, "<!--", piece.text, l, "-->")
    BY <1>1, <1>4 DEF Shape
  <2>2. \A n \in 1..l : piece.text[n] # "-->"
    BY <1>3, <1>4 DEF PlainPiece
  <2>3. ReadsComments(r, w, l + 2)
    BY <2>1
  <2>4. r[l + 2] = FALSE /\ \A i \in 1..(l + 1) : r[i] = TRUE
    <3> HIDE DEF w, l
    <3> QED
      BY <1>2, <2>1, <2>2, <2>3, CommentRead DEF l
  <2>5. k - 1 = l + 1
    BY <1>2, <2>1
  <2> QED
    BY <2>1, <2>4, <2>5
<1>5. CASE piece.kind # "comment"
  <2>1. ASSUME NEW i \in 1..k PROVE w[i] # "<!--"
    <3>1. \A n \in 1..l : piece.text[n] # "<!--"
      BY <1>3, <1>5 DEF PlainPiece
    <3>2. CASE piece.kind \in {"string", "object"}
      <4>1. k = l + 2 /\ (Wraps(w, piece.quote, piece.text, l, piece.quote) \/ Wraps(w, "{", piece.text, l, "}"))
        BY <1>1, <3>2 DEF Shape
      <4>2. i = 1 \/ i = l + 2 \/ (i - 1 \in 1..l /\ i = i - 1 + 1)
        BY <1>2, <4>1, WrapCases
      <4>3. \A j \in 1..l : w[j + 1] = piece.text[j]
        BY <4>1 DEF Wraps
      <4>4. piece.kind = "string" => piece.quote \in HtmlQuote
        BY DEF PlainPiece
      <4>5. w[1] # "<!--" /\ w[l + 2] # "<!--"
        <5>1. CASE piece.kind = "string"
          <6>1. w[1] = piece.quote /\ w[l + 2] = piece.quote
            BY <1>1, <5>1 DEF Shape, Wraps
          <6> QED
            BY <4>4, <5>1, <6>1 DEF HtmlQuote, JsonQuote
        <5>2. CASE piece.kind = "object"
          BY <1>1, <5>2 DEF Shape, Wraps
        <5> QED
          BY <3>2, <5>1, <5>2
      <4>6. CASE i - 1 \in 1..l /\ i = i - 1 + 1
        BY <3>1, <4>3, <4>6
      <4> QED
        BY <4>2, <4>5, <4>6
    <3>3. CASE piece.kind \notin {"string", "object"}
      BY <1>1, <1>5, <3>1, <3>3 DEF Shape
    <3> QED
      BY <3>2, <3>3
  <2>2. \A i \in 0..k : r[i] = FALSE
    <3> HIDE DEF w, k
    <3> QED
      BY <1>2, <2>1, BareRead DEF k, w
  <2> QED
    BY <1>2, <1>5, <2>2
<1> QED
  BY <1>4, <1>5

(* Closing tags are only in the strings and the comments of a piece.        *)
LEMMA PieceClosers ==
  ASSUME NEW piece \in ScriptPiece, PlainPiece(piece),
         NEW i \in 1..Len(Written(piece)), Written(piece)[i] = "</script>"
  PROVE  i - 1 \in 1..(Len(Written(piece)) - 1) /\ piece.kind \in {"string", "comment"}
<1> DEFINE w == Written(piece)
           l == Len(piece.text)
           k == Len(w)
<1>1. Shape(piece, w)
  BY WrittenShape
<1>2. k \in Nat /\ l \in Nat
  <2>1. w \in Seq(Symbols) /\ l \in Nat
    BY <1>1 DEF Shape
  <2> HIDE DEF w, l
  <2> QED
    BY <2>1
<1>3. DOMAIN piece.text = 1..l /\ ToSet(piece.text) = {piece.text[n] : n \in 1..l}
  <2>1. piece.text \in Seq(STRING)
    BY DEF ScriptPiece
  <2> QED
    BY <2>1, ElementsOf
<1>4. piece.kind \in {"string", "comment"}
  <2> SUFFICES ASSUME piece.kind \notin {"string", "comment"} PROVE FALSE
    OBVIOUS
  <2>1. \A n \in 1..l : piece.text[n] # "</script>"
    BY <1>3 DEF PlainPiece
  <2>2. CASE piece.kind = "object"
    <3>1. k = l + 2 /\ Wraps(w, "{", piece.text, l, "}")
      BY <1>1, <2>2 DEF Shape
    <3>2. i = 1 \/ i = l + 2 \/ (i - 1 \in 1..l /\ i = i - 1 + 1)
      BY <1>2, <3>1, WrapCases
    <3>3. w[1] # "</script>" /\ w[l + 2] # "</script>" /\ \A j \in 1..l : w[j + 1] # "</script>"
      BY <2>1, <3>1 DEF Wraps
    <3> QED
      BY <3>2, <3>3
  <2>3. CASE piece.kind # "object"
    BY <1>1, <2>1, <2>3 DEF Shape
  <2> QED
    BY <2>2, <2>3
<1>5. i # 1
  <2>1. piece.kind = "string" => piece.quote \in HtmlQuote
    BY DEF PlainPiece
  <2>2. w[1] \in HtmlQuote \cup {"<!--"}
    BY <1>1, <1>4, <2>1 DEF Shape, Wraps
  <2> QED
    BY <2>2 DEF HtmlQuote, JsonQuote
<1> QED
  BY <1>2, <1>4, <1>5

\* A piece is read up to its end, and every closer in it is in a string or a comment.
PieceDone(r, s, w, k) ==
  /\ r[k] = Outside /\ s[k] = FALSE
  /\ \A i \in 1..k : w[i] = "</script>" => r[i - 1].quote # "" \/ s[i - 1]

(* A piece is read whole.                                                   *)
LEMMA PieceRead ==
  ASSUME NEW piece \in ScriptPiece, PlainPiece(piece), NEW w, w = Written(piece),
         NEW k, k = Len(w), NEW r, ReadsStrings(r, HtmlQuote, w, k),
         NEW s, ReadsComments(s, w, k)
  PROVE  PieceDone(r, s, w, k)
<1>0. HtmlQuote \in QuoteSets /\ (piece.kind = "string" => piece.quote \in HtmlQuote)
  BY DEF QuoteSets, PlainPiece
<1>1. /\ r[k] = Outside
      /\ piece.kind = "string" => \A i \in 1..(k - 1) : r[i].quote # ""
  BY <1>0, PieceStrings
<1>2. s[k] = FALSE /\ (piece.kind = "comment" => \A i \in 1..(k - 1) : s[i] = TRUE)
  BY PieceComments
<1>3. ASSUME NEW i \in 1..k, w[i] = "</script>" PROVE r[i - 1].quote # "" \/ s[i - 1]
  <2>1. i - 1 \in 1..(k - 1) /\ piece.kind \in {"string", "comment"}
    BY <1>3, PieceClosers
  <2> QED
    BY <1>1, <1>2, <2>1
<1> QED
  BY <1>1, <1>2, <1>3 DEF PieceDone

\* The steps of scans of t from a place to another.
StringsGo(q, quotes, t, b, z) == \A p \in (b + 1)..z : q[p] = Quoting(quotes, q[p - 1], t[p])
CommentsGo(c, t, b, z) == \A p \in (b + 1)..z : c[p] = Commenting(c[p - 1], t[p])

\* The k symbols of w stand in t after a place.
Stands(t, w, a, k) == \A i \in 1..k : t[a + i] = w[i]

(* What a scan for strings reads from a place outside of all of them on is  *)
(* what a scan of that stretch alone reads.                                 *)
LEMMA StringsFrom ==
  ASSUME NEW b \in Nat, NEW z \in Nat, NEW a \in Nat, NEW k \in Nat, b <= a, a + k <= z,
         NEW q, NEW quotes, NEW t, NEW w, StringsGo(q, quotes, t, b, z), q[a] = Outside,
         Stands(t, w, a, k), NEW r, r = [i \in 0..k |-> q[a + i]]
  PROVE  ReadsStrings(r, quotes, w, k)
<1>1. 0 \in 0..k /\ a + 0 = a
  OBVIOUS
<1>2. \A i \in 1..k : /\ i \in 0..k /\ i - 1 \in 0..k /\ a + i \in (b + 1)..z
                      /\ a + (i - 1) = a + i - 1
  OBVIOUS
<1>3. \A i \in 1..k : r[i] = q[a + i] /\ r[i - 1] = q[a + i - 1]
  BY <1>2
<1>4. \A i \in 1..k : q[a + i] = Quoting(quotes, q[a + i - 1], t[a + i])
  BY <1>2 DEF StringsGo
<1>5. r[0] = Outside
  BY <1>1
<1>6. \A i \in 1..k : r[i] = Quoting(quotes, r[i - 1], w[i])
  BY <1>3, <1>4 DEF Stands
<1> QED
  BY <1>5, <1>6 DEF ReadsStrings

(* The same holds of a scan for comments.                                   *)
LEMMA CommentsFrom ==
  ASSUME NEW b \in Nat, NEW z \in Nat, NEW a \in Nat, NEW k \in Nat, b <= a, a + k <= z,
         NEW c, NEW t, NEW w, CommentsGo(c, t, b, z), c[a] = FALSE,
         Stands(t, w, a, k), NEW s, s = [i \in 0..k |-> c[a + i]]
  PROVE  ReadsComments(s, w, k)
<1>1. 0 \in 0..k /\ a + 0 = a
  OBVIOUS
<1>2. \A i \in 1..k : /\ i \in 0..k /\ i - 1 \in 0..k /\ a + i \in (b + 1)..z
                      /\ a + (i - 1) = a + i - 1
  OBVIOUS
<1>3. \A i \in 1..k : s[i] = c[a + i] /\ s[i - 1] = c[a + i - 1]
  BY <1>2
<1>4. \A i \in 1..k : c[a + i] = Commenting(c[a + i - 1], t[a + i])
  BY <1>2 DEF CommentsGo
<1>5. s[0] = FALSE
  BY <1>1
<1>6. \A i \in 1..k : s[i] = Commenting(s[i - 1], w[i])
  BY <1>3, <1>4 DEF Stands
<1> QED
  BY <1>5, <1>6 DEF ReadsComments

\* From a place to another no closer is found, and there everything is closed.
Past(t, q, c, a, z) ==
  /\ q[z] = Outside /\ c[z] = FALSE
  /\ \A p \in (a + 1)..z : t[p] = "</script>" => q[p - 1].quote # "" \/ c[p - 1]

(* Stretches add up.                                                        *)
LEMMA PastBoth ==
  ASSUME NEW t, NEW q, NEW c, NEW a \in Nat, NEW m \in Nat, NEW z \in Nat,
         Past(t, q, c, a, m), Past(t, q, c, m, z)
  PROVE  Past(t, q, c, a, z)
<1>1. \A p \in (a + 1)..z : p \in (a + 1)..m \/ p \in (m + 1)..z
  OBVIOUS
<1> QED
  BY <1>1 DEF Past

(* After a piece a scan is outside of strings and comments again.           *)
LEMMA PastPiece ==
  ASSUME NEW piece \in ScriptPiece, PlainPiece(piece), NEW w, w = Written(piece),
         NEW k, k = Len(w),
         NEW b \in Nat, NEW z \in Nat, NEW a \in Nat, b <= a, a + k <= z,
         NEW t, Stands(t, w, a, k), NEW q, StringsGo(q, HtmlQuote, t, b, z),
         NEW c, CommentsGo(c, t, b, z), q[a] = Outside, c[a] = FALSE
  PROVE  Past(t, q, c, a, a + k)
<1> DEFINE r == [i \in 0..k |-> q[a + i]]
           s == [i \in 0..k |-> c[a + i]]
<1>1. k \in Nat
  <2>1. w \in Seq(Symbols)
    BY WrittenShape DEF Shape
  <2> QED
    BY <2>1
<1>2. ReadsStrings(r, HtmlQuote, w, k)
  BY <1>1, StringsFrom
<1>3. ReadsComments(s, w, k)
  BY <1>1, CommentsFrom
<1> HIDE DEF r, s
<1>4. PieceDone(r, s, w, k)
  BY <1>2, <1>3, PieceRead
<1>5. \A i \in 0..k : r[i] = q[a + i] /\ s[i] = c[a + i]
  BY DEF r, s
<1>6. k \in 0..k
  BY <1>1
<1>7. \A p \in (a + 1)..(a + k) : /\ p - a \in 1..k /\ a + (p - a) = p /\ p - a - 1 \in 0..k
                                /\ a + (p - a - 1) = p - 1
  BY <1>1
<1>8. q[a + k] = Outside /\ c[a + k] = FALSE
  BY <1>4, <1>5, <1>6 DEF PieceDone
<1>9. ASSUME NEW p \in (a + 1)..(a + k), t[p] = "</script>" PROVE q[p - 1].quote # "" \/ c[p - 1]
  <2>1. t[p] = w[p - a]
    BY <1>7 DEF Stands
  <2>2. r[p - a - 1].quote # "" \/ s[p - a - 1]
    BY <1>4, <1>7, <1>9, <2>1 DEF PieceDone
  <2>3. r[p - a - 1] = q[p - 1] /\ s[p - a - 1] = c[p - 1]
    BY <1>5, <1>7
  <2> QED
    BY <2>2, <2>3
<1> QED
  BY <1>8, <1>9 DEF Past

\* Where the pieces of a script stand: the n-th ends at e[n].
PiecesAt(e, pieces, w) ==
  /\ e \in [0..Len(pieces) -> 0..Len(w)] /\ e[0] = 0 /\ e[Len(pieces)] = Len(w)
  /\ \A n \in 1..Len(pieces) : /\ e[n] = e[n - 1] + Len(Written(pieces[n]))
                               /\ Stands(w, Written(pieces[n]), e[n - 1], Len(Written(pieces[n])))

(* The pieces of a script stand one after another.                          *)
LEMMA PiecePlaces ==
  ASSUME NEW pieces \in Seq(ScriptPiece)
  PROVE  WrittenAll(pieces) \in Seq(Symbols) /\ \E e : PiecesAt(e, pieces, WrittenAll(pieces))
<1> DEFINE k == Len(pieces)
           lists == [n \in 1..k |-> Written(pieces[n])]
           w == WrittenAll(pieces)
<1>1. k \in Nat /\ DOMAIN pieces = 1..k /\ \A n \in 1..k : pieces[n] \in ScriptPiece
  OBVIOUS
<1>2. w = FlattenSeq(lists)
  BY <1>1 DEF WrittenAll
<1>3. \A n \in 1..k : lists[n] = Written(pieces[n]) /\ lists[n] \in Seq(Symbols)
  <2>1. \A n \in 1..k : Written(pieces[n]) \in Seq(Symbols)
    BY <1>1, WrittenShape DEF Shape
  <2> QED
    BY <2>1
<1>4. lists = [n \in 1..k |-> lists[n]]
  OBVIOUS
<1> HIDE DEF lists, k, w
<1>5. lists \in Seq(Seq(Symbols)) /\ Len(lists) = k
  BY <1>1, <1>3, <1>4, ListFrom
<1>6. w \in Seq(Symbols)
  BY <1>2, <1>5, Flattened
<1>7. PICK e : Sits(w, lists, e)
  BY <1>2, <1>5, FlattenPlaces
<1>8. /\ e \in [0..k -> 0..Len(w)] /\ e[0] = 0 /\ e[k] = Len(w)
      /\ \A n \in 1..k : e[n] = e[n - 1] + Len(lists[n])
      /\ \A n \in 1..k : \A j \in 1..Len(lists[n]) : w[e[n - 1] + j] = lists[n][j]
  BY <1>5, <1>7, Zenon DEF Sits, SitsUpTo
<1>9. \A n \in 1..k : /\ e[n] = e[n - 1] + Len(Written(pieces[n]))
                      /\ Stands(w, Written(pieces[n]), e[n - 1], Len(Written(pieces[n])))
  BY <1>3, <1>8, Zenon DEF Stands
<1>10. PiecesAt(e, pieces, w)
  BY <1>8, <1>9, Zenon DEF PiecesAt, k
<1> QED
  BY <1>6, <1>10 DEF w

(* Nothing happens on a stretch without quotes, comment marks and closers.  *)
LEMMA PastQuiet ==
  ASSUME NEW b \in Nat, NEW z \in Nat, NEW a \in Nat, NEW k \in Nat, b <= a, a + k <= z,
         NEW t, NEW q, StringsGo(q, HtmlQuote, t, b, z),
         NEW c, CommentsGo(c, t, b, z), q[a] = Outside, c[a] = FALSE,
         \A i \in 1..k : t[a + i] \notin HtmlQuote \cup {"<!--", "</script>"}
  PROVE  Past(t, q, c, a, a + k)
<1> DEFINE w == [i \in 1..k |-> t[a + i]]
           r == [i \in 0..k |-> q[a + i]]
           s == [i \in 0..k |-> c[a + i]]
<1>1. \A i \in 1..k : w[i] = t[a + i] /\ w[i] \notin HtmlQuote /\ w[i] # "<!--"
  OBVIOUS
<1> HIDE DEF w
<1>2. Stands(t, w, a, k)
  BY <1>1 DEF Stands
<1>3. ReadsStrings(r, HtmlQuote, w, k) /\ ReadsComments(s, w, k)
  BY <1>2, StringsFrom, CommentsFrom
<1> HIDE DEF r, s
<1>4. \A i \in 0..k : r[i] = Outside
  <2>1. HtmlQuote \in QuoteSets
    BY DEF QuoteSets
  <2> QED
    BY <1>1, <1>3, <2>1, QuietRead
<1>5. \A i \in 0..k : s[i] = FALSE
  BY <1>1, <1>3, BareRead
<1>6. k \in 0..k
  OBVIOUS
<1>7. q[a + k] = Outside /\ c[a + k] = FALSE
  BY <1>4, <1>5, <1>6 DEF r, s
<1>8. ASSUME NEW p \in (a + 1)..(a + k) PROVE t[p] # "</script>"
  <2>1. p - a \in 1..k /\ a + (p - a) = p
    OBVIOUS
  <2> QED
    BY <2>1
<1> QED
  BY <1>7, <1>8 DEF Past

(* Nothing is found in the pieces of a script.                              *)
LEMMA PastPieces ==
  ASSUME NEW pieces \in Seq(ScriptPiece), \A n \in 1..Len(pieces) : PlainPiece(pieces[n]),
         NEW w, NEW k \in Nat, NEW e, PiecesAt(e, pieces, w), k = Len(w),
         NEW b \in Nat, NEW z \in Nat, NEW a \in Nat, b <= a, a + k <= z,
         NEW t, Stands(t, w, a, k), NEW q, StringsGo(q, HtmlQuote, t, b, z),
         NEW c, CommentsGo(c, t, b, z), q[a] = Outside, c[a] = FALSE
  PROVE  Past(t, q, c, a, a + k)
<1> DEFINE m == Len(pieces)
           S == {n \in 0..m : Past(t, q, c, a, a + e[n])}
<1>1. m \in Nat /\ \A n \in 1..m : pieces[n] \in ScriptPiece /\ PlainPiece(pieces[n])
  OBVIOUS
<1>2. /\ e \in [0..m -> 0..k] /\ e[0] = 0 /\ e[m] = k
      /\ \A n \in 1..m : /\ e[n] = e[n - 1] + Len(Written(pieces[n]))
                         /\ Stands(w, Written(pieces[n]), e[n - 1], Len(Written(pieces[n])))
  BY DEF PiecesAt
<1> HIDE DEF m
<1>3. 0 \in S
  <2>1. 0 \in 0..m /\ a + e[0] = a
    BY <1>1, <1>2
  <2>2. \A p \in (a + 1)..a : FALSE
    OBVIOUS
  <2> QED
    BY <2>1, <2>2 DEF Past
<1>4. \A n \in 1..m : n - 1 \in S => n \in S
  <2> TAKE n \in 1..m
  <2>1. SUFFICES ASSUME n - 1 \in S PROVE n \in S
    OBVIOUS
  <2> DEFINE u == Written(pieces[n])
             l == Len(u)
             x == e[n - 1]
             y == e[n]
             v == a + x
  <2>2. n \in 0..m /\ n - 1 \in 0..m
    BY <1>1
  <2>3. x \in 0..k /\ y \in 0..k /\ y = x + l /\ Stands(w, u, x, l)
    BY <1>2, <2>2
  <2>4. Past(t, q, c, a, v)
    BY <2>1
  <2>5. l \in Nat
    <3>1. u \in Seq(Symbols)
      BY <1>1, WrittenShape DEF Shape
    <3> QED
      BY <3>1
  <2> HIDE DEF x, y, l, v
  <2>6. v = a + x /\ v \in Nat /\ b <= v /\ v + l <= z /\ v + l = a + y /\ a + y \in Nat
    BY <2>3, <2>5 DEF v
  <2>7. Stands(t, u, v, l)
    <3>1. \A i \in 1..l : x + i \in 1..k /\ a + (x + i) = v + i
      BY <2>3, <2>5, <2>6
    <3> HIDE DEF u
    <3> QED
      BY <2>3, <3>1 DEF Stands
  <2>8. q[v] = Outside /\ c[v] = FALSE
    BY <2>4 DEF Past
  <2>9. Past(t, q, c, v, v + l)
    BY <1>1, <2>6, <2>7, <2>8, PastPiece DEF l
  <2>10. Past(t, q, c, a, a + y)
    BY <2>4, <2>6, <2>9, PastBoth
  <2> QED
    BY <2>2, <2>10 DEF y
<1> HIDE DEF S
<1>5. 0..m \subseteq S
  BY <1>1, <1>3, <1>4, InductionUpTo
<1>6. m \in 0..m
  BY <1>1
<1> QED
  BY <1>2, <1>5, <1>6 DEF S

\* How a manifest w of k symbols is assigned.
Assigns(u, w, k) ==
  /\ u[1] = "marker" /\ u[2] = " " /\ u[3] = "=" /\ u[4] = " " /\ u[5] = "{"
  /\ Stands(u, w, 5, k) /\ u[k + 6] = "}"

(* A list of five.                                                          *)
LEMMA ListOfFive ==
  ASSUME NEW X, NEW a \in X, NEW b \in X, NEW c \in X, NEW d \in X, NEW e \in X
  PROVE  /\ <<a, b, c, d, e>> \in Seq(X) /\ Len(<<a, b, c, d, e>>) = 5
         /\ <<a, b, c, d, e>>[1] = a /\ <<a, b, c, d, e>>[2] = b /\ <<a, b, c, d, e>>[3] = c
         /\ <<a, b, c, d, e>>[4] = d /\ <<a, b, c, d, e>>[5] = e
OBVIOUS

\* Where three texts stand in u.
Three(u, s, w, x, k) ==
  /\ Len(u) = k + 6 /\ u[k + 6] = x[1] /\ Stands(u, w, 5, k)
  /\ u[1] = s[1] /\ u[2] = s[2] /\ u[3] = s[3] /\ u[4] = s[4] /\ u[5] = s[5]

(* Where the symbols of three texts stand, put one after another.           *)
LEMMA ThreePlaces ==
  ASSUME NEW X, NEW s \in Seq(X), Len(s) = 5, NEW w \in Seq(X), NEW x \in Seq(X), Len(x) = 1,
         NEW u, u = s \o w \o x, NEW k, k = Len(w)
  PROVE  u \in Seq(X) /\ Three(u, s, w, x, k)
<1> DEFINE v == s \o w
<1>1. v \in Seq(X) /\ Both(v, s, w)
  BY PlacesOfBoth
<1>2. u = v \o x
  OBVIOUS
<1>3. k \in Nat
  OBVIOUS
<1> HIDE DEF v
<1>4. u \in Seq(X) /\ Both(u, v, x)
  BY <1>1, <1>2, PlacesOfBoth
<1>5. Len(v) = 5 + k /\ (\A i \in 1..5 : v[i] = s[i]) /\ Stands(v, w, 5, k)
  BY <1>1, Zenon DEF Both, Stands
<1>6. Len(u) = 5 + k + 1 /\ (\A i \in 1..(5 + k) : u[i] = v[i])
      /\ \A i \in 1..1 : u[5 + k + i] = x[i]
  BY <1>4, <1>5, Zenon DEF Both
<1>7. 1 \in 1..1 /\ 5 + k + 1 = k + 6 /\ (\A i \in 1..k : 5 + i \in 1..(5 + k))
      /\ \A i \in 1..5 : i \in 1..(5 + k)
  BY <1>3
<1>8. Len(u) = k + 6 /\ u[k + 6] = x[1]
  BY <1>6, <1>7, Zenon
<1>9. Stands(u, w, 5, k) /\ \A i \in 1..5 : u[i] = s[i]
  BY <1>5, <1>6, <1>7, Zenon DEF Stands
<1>10. 1 \in 1..5 /\ 2 \in 1..5 /\ 3 \in 1..5 /\ 4 \in 1..5 /\ 5 \in 1..5
  OBVIOUS
<1>11. Three(u, s, w, x, k)
  BY <1>8, <1>9, <1>10, Zenon DEF Three
<1> QED
  BY <1>4, <1>11

(* Where the symbols of an assignment stand.                                *)
LEMMA AssignPlaces ==
  ASSUME NEW w \in Seq(Symbols), NEW u, u = <<"marker", " ", "=", " ", "{">> \o w \o <<"}">>
  PROVE  u \in Seq(Symbols) /\ Len(u) = Len(w) + 6 /\ Assigns(u, w, Len(w))
<1> DEFINE k == Len(w)
           s == <<"marker", " ", "=", " ", "{">>
           x == <<"}">>
<1>1. "marker" \in Symbols /\ " " \in Symbols /\ "=" \in Symbols /\ "{" \in Symbols
      /\ "}" \in Symbols
  BY DEF Symbols
<1>2. /\ s \in Seq(Symbols) /\ Len(s) = 5
      /\ s[1] = "marker" /\ s[2] = " " /\ s[3] = "=" /\ s[4] = " " /\ s[5] = "{"
  BY <1>1, ListOfFive, Zenon
<1>3. x \in Seq(Symbols) /\ Len(x) = 1 /\ x[1] = "}"
  BY <1>1, ListOfOne, Zenon
<1>4. u = s \o w \o x
  OBVIOUS
<1> HIDE DEF k, s, x
<1>5. k = Len(w)
  BY DEF k
<1>6. u \in Seq(Symbols) /\ Three(u, s, w, x, k)
  BY <1>2, <1>3, <1>4, <1>5, ThreePlaces, Zenon
<1>7. Assigns(u, w, k)
  BY <1>2, <1>3, <1>6, Zenon DEF Assigns, Three
<1>8. Len(u) = k + 6
  BY <1>6, Zenon DEF Three
<1> QED
  BY <1>5, <1>6, <1>7, <1>8, Zenon

(* What a script is written as.                                             *)
LEMMA BodyShape ==
  ASSUME NEW one \in ScriptPart
  PROVE  /\ ScriptBody(one) \in Seq(Symbols) /\ Manifest(one) \in Seq(Symbols)
         /\ one.kind # "manifest" => ScriptBody(one) = WrittenAll(one.pieces)
         /\ one.kind = "manifest" =>
              /\ Len(ScriptBody(one)) = Len(Manifest(one)) + 6
              /\ Assigns(ScriptBody(one), Manifest(one), Len(Manifest(one)))
<1>1. one.pieces \in Seq(ScriptPiece)
  BY DEF ScriptPart
<1>2. Manifest(one) \in Seq(Symbols) /\ WrittenAll(one.pieces) \in Seq(Symbols)
  BY <1>1, PiecePlaces DEF Manifest
<1>3. CASE one.kind = "manifest"
  <2>1. ScriptBody(one) = <<"marker", " ", "=", " ", "{">> \o Manifest(one) \o <<"}">>
    BY <1>3 DEF ScriptBody
  <2> QED
    BY <1>2, <1>3, <2>1, AssignPlaces
<1>4. CASE one.kind # "manifest"
  BY <1>2, <1>4 DEF ScriptBody
<1> QED
  BY <1>3, <1>4

(* Nothing is found in a script.                                            *)
LEMMA PastBody ==
  ASSUME NEW one \in ScriptPart, PlainPart(one), NEW w, w = ScriptBody(one),
         NEW k, k = Len(w),
         NEW b \in Nat, NEW z \in Nat, NEW a \in Nat, b <= a, a + k <= z,
         NEW t, Stands(t, w, a, k), NEW q, StringsGo(q, HtmlQuote, t, b, z),
         NEW c, CommentsGo(c, t, b, z), q[a] = Outside, c[a] = FALSE
  PROVE  Past(t, q, c, a, a + k)
<1>1. one.pieces \in Seq(ScriptPiece) /\ \A n \in 1..Len(one.pieces) : PlainPiece(one.pieces[n])
  <2>1. one.pieces \in Seq(ScriptPiece) /\ one.kind # "tag"
    BY DEF ScriptPart
  <2> QED
    BY <2>1 DEF PlainPart
<1>2. w \in Seq(Symbols) /\ k \in Nat
  BY BodyShape
<1>3. CASE one.kind # "manifest"
  <2>1. w = WrittenAll(one.pieces)
    BY <1>3, BodyShape
  <2>2. PICK e : PiecesAt(e, one.pieces, w)
    BY <1>1, <2>1, PiecePlaces
  <2> QED
    BY <1>1, <1>2, <2>2, PastPieces
<1>4. CASE one.kind = "manifest"
  <2> DEFINE y == Manifest(one)
             l == Len(y)
  <2>1. y \in Seq(Symbols) /\ l \in Nat /\ k = l + 6 /\ Assigns(w, y, l)
    BY <1>4, BodyShape
  <2>2. PICK e : PiecesAt(e, one.pieces, y)
    BY <1>1, PiecePlaces DEF Manifest
  <2> HIDE DEF y
  <2>3. l \in Nat /\ k = l + 6 /\ Assigns(w, y, l) /\ Stands(w, y, 5, l)
    BY <2>1 DEF Assigns
  <2> DEFINE v == a + 5
  <2>4. /\ v \in Nat /\ b <= v /\ v + l <= z /\ v + l \in Nat /\ b <= v + l
        /\ v + l + 1 = a + k /\ v + l + 1 <= z /\ v <= z /\ a + k \in Nat
    BY <2>3
  <2>5. Past(t, q, c, a, v)
    <3>1. \A i \in 1..5 : i = 1 \/ i = 2 \/ i = 3 \/ i = 4 \/ i = 5
      OBVIOUS
    <3>2. \A i \in 1..5 : w[i] \in {"marker", " ", "=", "{"}
      BY <2>3, <3>1 DEF Assigns
    <3>3. \A i \in 1..5 : i \in 1..k
      BY <2>3
    <3>4. \A i \in 1..5 : t[a + i] \in {"marker", " ", "=", "{"}
      BY <3>2, <3>3 DEF Stands
    <3>5. \A x \in {"marker", " ", "=", "{"} : x \notin HtmlQuote \cup {"<!--", "</script>"}
      BY DEF HtmlQuote, JsonQuote
    <3>6. \A i \in 1..5 : t[a + i] \notin HtmlQuote \cup {"<!--", "</script>"}
      BY <3>4, <3>5
    <3> QED
      BY <2>4, <3>6, PastQuiet
  <2>6. q[v] = Outside /\ c[v] = FALSE
    BY <2>5 DEF Past
  <2>7. Stands(t, y, v, l)
    <3>1. \A i \in 1..l : 5 + i \in 1..k /\ a + (5 + i) = v + i
      BY <2>3
    <3> QED
      BY <2>3, <3>1 DEF Stands
  <2> HIDE DEF v
  <2>8. Past(t, q, c, v, v + l)
    BY <1>1, <2>2, <2>3, <2>4, <2>6, <2>7, PastPieces
  <2>9. q[v + l] = Outside /\ c[v + l] = FALSE
    BY <2>8 DEF Past
  <2>10. Past(t, q, c, v + l, v + l + 1)
    <3>1. k \in 1..k /\ a + k = v + l + 1
      BY <2>3, <2>4
    <3>2. t[v + l + 1] = "}"
      BY <2>3, <3>1 DEF Stands, Assigns
    <3>3. \A i \in 1..1 : t[v + l + i] \notin HtmlQuote \cup {"<!--", "</script>"}
      <4>1. \A i \in 1..1 : i = 1
        OBVIOUS
      <4> QED
        BY <3>2, <4>1 DEF HtmlQuote, JsonQuote
    <3> QED
      BY <2>4, <2>9, <3>3, PastQuiet
  <2>11. Past(t, q, c, a, v + l)
    BY <2>4, <2>5, <2>8, PastBoth
  <2>12. v + l + 1 \in Nat
    BY <2>4
  <2> QED
    BY <2>4, <2>10, <2>11, <2>12, PastBoth
<1> QED
  BY <1>3, <1>4

\* The closers of a script whose body starts after place i, and the page's end.
Closers(t, i) ==
  {p \in (i + 1)..Len(t) : /\ t[p] = "</script>" /\ ~IsInsideComment(t, i + 1, p)
                           /\ ~IsInsideString(t, i + 1, p)} \cup {Len(t) + 1}

(* A script ends at the closer that follows it, or at the end of the page.  *)
LEMMA CloseIs ==
  ASSUME NEW t \in Seq(Symbols), NEW i \in 1..Len(t)
  PROVE  /\ FindScriptClose(t, i + 1) \in (i + 1)..(Len(t) + 1)
         /\ \A m \in Closers(t, i) :
              (\A y \in Closers(t, i) : m <= y) => FindScriptClose(t, i + 1) = m
<1> DEFINE S == Closers(t, i)
           z == Len(t)
<1>1. z \in Nat /\ i \in Nat /\ i <= z /\ z + 1 \in S
  BY DEF Closers
<1>2. FindScriptClose(t, i + 1) = Min(S)
  BY DEF FindScriptClose, Closers
<1>3. \A y \in S : y \in (i + 1)..z \/ y = z + 1
  BY DEF Closers
<1> HIDE DEF S, z
<1>4. \A y \in S : y \in (i + 1)..(z + 1) /\ y \in Nat /\ y \in Int
  BY <1>1, <1>3
<1>5. S \in SUBSET Nat /\ S \in SUBSET Int /\ S # {}
  BY <1>1, <1>4
<1>6. PICK m \in S : \A y \in S : m <= y
  BY <1>5, LeastOf
<1>7. Min(S) = m
  BY <1>5, <1>6, LeastIs
<1>8. \A x \in S : (\A y \in S : x <= y) => Min(S) = x
  BY <1>5, LeastIs
<1> QED
  BY <1>2, <1>4, <1>7, <1>8 DEF S, z

(* The script is closed where it was written to be.                         *)
LEMMA CloseAt ==
  ASSUME NEW one \in ScriptPart, PlainPart(one), NEW w, w = ScriptBody(one),
         NEW k \in Nat, k = Len(w), NEW t \in Seq(Symbols), NEW i \in 1..Len(t),
         i + k + 1 <= Len(t), Stands(t, w, i, k), t[i + k + 1] = "</script>"
  PROVE  FindScriptClose(t, i + 1) = i + k + 1
<1> DEFINE z == Len(t)
           m == i + k + 1
<1>1. z \in Nat /\ i \in Nat /\ i \in 0..z /\ HtmlQuote \in QuoteSets
  BY DEF QuoteSets
<1>2. PICK q : ScansStrings(q, HtmlQuote, t, i)
  BY <1>1, StringsScanned
<1>3. PICK c : ScansComments(c, t, i)
  BY <1>1, CommentsScanned
<1>4. StringsGo(q, HtmlQuote, t, i, z) /\ q[i] = Outside
  BY <1>2 DEF ScansStrings, StringsGo
<1>5. CommentsGo(c, t, i, z) /\ c[i] = FALSE
  BY <1>3 DEF ScansComments, CommentsGo
<1>6. \A p \in i..z : /\ IsInsideString(t, i + 1, p + 1) <=> q[p].quote # ""
                      /\ IsInsideComment(t, i + 1, p + 1) = c[p]
  BY <1>1, <1>2, <1>3, InsideString, InsideComment
<1>7. i <= i /\ i + k <= z /\ m <= z /\ m \in Nat /\ i + k \in i..z /\ i + k + 1 = m /\ m \in (i + 1)..z
  BY <1>1
<1> HIDE DEF z, m
<1>8. Past(t, q, c, i, i + k)
  BY <1>1, <1>4, <1>5, <1>7, PastBody
<1>9. q[i + k].quote = "" /\ c[i + k] = FALSE
  <2>1. q[i + k] = Outside /\ c[i + k] = FALSE
    BY <1>8 DEF Past
  <2>2. Outside.quote = ""
    BY DEF Outside
  <2> QED
    BY <2>1, <2>2
<1>10. t[m] = "</script>" /\ ~IsInsideComment(t, i + 1, m) /\ ~IsInsideString(t, i + 1, m)
  BY <1>6, <1>7, <1>9 DEF m
<1>11. m \in Closers(t, i)
  BY <1>7, <1>10 DEF Closers, z
<1>12. ASSUME NEW y \in Closers(t, i) PROVE m <= y
  <2>1. CASE y = z + 1
    BY <1>1, <1>7, <2>1
  <2>2. CASE /\ y \in (i + 1)..z /\ t[y] = "</script>" /\ ~IsInsideComment(t, i + 1, y)
             /\ ~IsInsideString(t, i + 1, y)
    <3> SUFFICES ASSUME ~(m <= y) PROVE FALSE
      OBVIOUS
    <3>1. y \in (i + 1)..(i + k) /\ y - 1 \in i..z /\ y - 1 + 1 = y
      BY <1>1, <1>7, <2>2
    <3>2. q[y - 1].quote # "" \/ c[y - 1]
      BY <1>8, <2>2, <3>1 DEF Past
    <3>3. /\ IsInsideString(t, i + 1, y - 1 + 1) <=> q[y - 1].quote # ""
          /\ IsInsideComment(t, i + 1, y - 1 + 1) = c[y - 1]
      BY <1>6, <3>1
    <3> QED
      BY <2>2, <3>1, <3>2, <3>3
  <2> QED
    BY <2>1, <2>2 DEF Closers, z
<1>13. FindScriptClose(t, i + 1) = m
  BY <1>11, <1>12, CloseIs
<1> QED
  BY <1>13 DEF m

\* What the scan for opening tags knows.
Found == [cursor : Nat, scripts : Seq(Seq(Symbols))]

(* A script is added to what is found.                                      *)
LEMMA ScriptAdded ==
  ASSUME NEW x, NEW y, NEW v, NEW a, a = [cursor |-> x, scripts |-> y]
  PROVE  [a EXCEPT !.scripts = Append(@, v)] = [cursor |-> x, scripts |-> Append(y, v)]
<1>1. a.scripts = y
  OBVIOUS
<1>2. [a EXCEPT !.scripts = Append(@, v)] = [a EXCEPT !.scripts = Append(a.scripts, v)]
  OBVIOUS
<1> DEFINE w == Append(y, v)
<1> HIDE DEF w
<1>3. [a EXCEPT !.scripts = w] = [cursor |-> x, scripts |-> w]
  OBVIOUS
<1> QED
  BY <1>1, <1>2, <1>3 DEF w

(* One symbol of that scan.                                                 *)
LEMMA ScanTagStep ==
  ASSUME NEW t \in Seq(Symbols), NEW i \in 1..Len(t), NEW a \in Found
  PROVE  /\ ScanTag(t, a, i) \in Found
         /\ i < a.cursor \/ t[i] \notin {"<script>", "<script/>"} => ScanTag(t, a, i) = a
         /\ i >= a.cursor /\ t[i] = "<script/>" =>
              ScanTag(t, a, i) = [cursor |-> a.cursor, scripts |-> Append(a.scripts, <<>>)]
         /\ i >= a.cursor /\ t[i] = "<script>" =>
              ScanTag(t, a, i) =
                [cursor |-> FindScriptClose(t, i + 1) + 1,
                 scripts |-> Append(a.scripts, SubSeq(t, i + 1, FindScriptClose(t, i + 1) - 1))]
<1> DEFINE m == FindScriptClose(t, i + 1)
           u == SubSeq(t, i + 1, m - 1)
<1>1. m \in (i + 1)..(Len(t) + 1)
  BY CloseIs
<1>2. /\ a.cursor \in Nat /\ a.scripts \in Seq(Seq(Symbols))
      /\ a = [cursor |-> a.cursor, scripts |-> a.scripts]
  BY DEF Found
<1>3. u \in Seq(Symbols) /\ m + 1 \in Nat
  <2>1. i \in Nat /\ m \in Nat /\ m - 1 \in Nat /\ i <= m - 1 /\ m - 1 <= Len(t)
    BY <1>1
  <2> HIDE DEF m
  <2> QED
    BY <2>1, CutOut
<1> HIDE DEF m, u
<1>4. <<>> \in Seq(Symbols)
  OBVIOUS
<1>5. Append(a.scripts, <<>>) \in Seq(Seq(Symbols)) /\ Append(a.scripts, u) \in Seq(Seq(Symbols))
  BY <1>2, <1>3, <1>4, AppendProperties
<1>6. CASE i < a.cursor \/ t[i] \notin {"<script>", "<script/>"}
  <2>1. ScanTag(t, a, i) = a
    BY <1>2, <1>6 DEF ScanTag
  <2> QED
    BY <1>2, <1>6, <2>1
<1>7. CASE i >= a.cursor /\ t[i] = "<script/>"
  <2>1. ScanTag(t, a, i) = [a EXCEPT !.scripts = Append(@, <<>>)]
    BY <1>2, <1>7 DEF ScanTag
  <2>2. [a EXCEPT !.scripts = Append(@, <<>>)]
        = [cursor |-> a.cursor, scripts |-> Append(a.scripts, <<>>)]
    BY <1>2, ScriptAdded
  <2>3. ScanTag(t, a, i) \in Found
    BY <1>2, <1>5, <2>1, <2>2 DEF Found
  <2> QED
    BY <1>2, <1>7, <2>1, <2>2, <2>3
<1>8. CASE i >= a.cursor /\ t[i] = "<script>"
  <2>1. ScanTag(t, a, i) = [cursor |-> m + 1, scripts |-> Append(a.scripts, u)]
    BY <1>2, <1>8 DEF ScanTag, m, u
  <2>2. ScanTag(t, a, i) \in Found
    BY <1>3, <1>5, <2>1 DEF Found
  <2> QED
    BY <1>2, <1>8, <2>1, <2>2 DEF m, u
<1>9. i < a.cursor \/ i >= a.cursor
  BY <1>2
<1> QED
  BY <1>6, <1>7, <1>8, <1>9

\* A scan of all symbols: what is known after each.
TagsGo(g, t) ==
  /\ g \in [0..Len(t) -> Found] /\ g[0] = [cursor |-> 1, scripts |-> <<>>]
  /\ \A i \in 1..Len(t) : g[i] = ScanTag(t, g[i - 1], i)

(* A page is scanned symbol by symbol.                                      *)
LEMMA TagsScanned ==
  ASSUME NEW t \in Seq(Symbols)
  PROVE  \E g : TagsGo(g, t) /\ ScanTags(t) = g[Len(t)]
<1> DEFINE k == Len(t)
           base == [cursor |-> 1, scripts |-> <<>>]
           step == [i \in 1..k |-> [a \in Found |-> ScanTag(t, a, i)]]
<1>1. k \in Nat /\ DOMAIN t = 1..k
  OBVIOUS
<1>2. base \in Found
  BY DEF Found
<1>3. step \in [1..k -> [Found -> Found]]
  <2>1. \A i \in 1..k : \A a \in Found : ScanTag(t, a, i) \in Found
    BY ScanTagStep
  <2> QED
    BY <2>1
<1>4. \A i \in 1..k : \A a \in Found : step[i][a] = ScanTag(t, a, i)
  OBVIOUS
<1> HIDE DEF step
<1>5. Lead(ScanTags(t), k, Found, base, step)
  BY <1>1, <1>2, <1>3, <1>4, FoldScan
<1> HIDE DEF base, k
<1>6. PICK g \in [0..k -> Found] : Steps(g, k, base, step) /\ ScanTags(t) = g[k]
  BY <1>5 DEF Lead
<1>7. \A i \in 1..k : i - 1 \in 0..k
  BY <1>1
<1>8. g[0] = base /\ \A i \in 1..k : g[i] = ScanTag(t, g[i - 1], i)
  BY <1>4, <1>6, <1>7 DEF Steps
<1>9. TagsGo(g, t)
  BY <1>6, <1>8 DEF TagsGo, base, k
<1> QED
  BY <1>6, <1>9 DEF k

(* A body is skipped.                                                       *)
LEMMA TagsSkip ==
  ASSUME NEW z \in Nat, NEW t \in Seq(Symbols), z = Len(t), NEW g, TagsGo(g, t),
         NEW i \in 0..z, NEW j \in 0..z, i <= j, j + 1 = g[i].cursor
  PROVE  g[j] = g[i]
<1> DEFINE k == j - i
           h == [n \in 0..k |-> g[i + n]]
           T == {g[i]}
<1>1. /\ k \in Nat /\ 0 \in 0..k /\ k \in 0..k /\ i + 0 = i /\ i + k = j
      /\ \A n \in 1..k : /\ n \in 0..k /\ n - 1 \in 0..k /\ i + n \in 1..z
                         /\ i + n - 1 = i + (n - 1) /\ i + n < j + 1
  OBVIOUS
<1>2. h[0] \in T
  BY <1>1
<1>3. g[i] \in Found
  BY DEF TagsGo
<1>4. ASSUME NEW n \in 1..k, h[n - 1] \in T PROVE h[n] \in T
  <2>1. g[i + n - 1] = g[i]
    BY <1>1, <1>4
  <2>2. g[i + n] = ScanTag(t, g[i + n - 1], i + n)
    BY <1>1 DEF TagsGo
  <2>3. i + n < g[i].cursor /\ i + n \in 1..Len(t)
    BY <1>1
  <2>4. g[i + n] = g[i]
    BY <1>3, <2>1, <2>2, <2>3, ScanTagStep
  <2> QED
    BY <1>1, <2>4
<1> HIDE DEF h, T, k
<1>5. \A n \in 0..k : h[n] \in T
  BY <1>1, <1>2, <1>4, HandedOn
<1>6. h[k] \in T
  BY <1>1, <1>5
<1> QED
  BY <1>1, <1>6 DEF h, T

\* What a part of a page is written as.
PartText(one) ==
  IF one.kind = "tag" THEN <<one.tag>> ELSE <<"<script>">> \o ScriptBody(one) \o <<"</script>">>

PageParts == TagPart \cup ScriptPart

\* The length of a part, and what stands in t from place a on.
TagAt(t, one, a, l) == l = 1 /\ t[a + 1] = one.tag
ScriptAt(t, one, a, l) ==
  /\ l = Len(ScriptBody(one)) + 2
  /\ t[a + 1] = "<script>" /\ Stands(t, ScriptBody(one), a + 1, l - 2) /\ t[a + l] = "</script>"

(* What the text of a script is made of.                                    *)
LEMMA ScriptShape ==
  ASSUME NEW one \in ScriptPart, NEW u,
         u = <<"<script>">> \o ScriptBody(one) \o <<"</script>">>
  PROVE  u \in Seq(Symbols) /\ ScriptAt(u, one, 0, Len(u))
<1>1. PICK w : w = ScriptBody(one)
  OBVIOUS
<1>2. w \in Seq(Symbols) /\ u = <<"<script>">> \o w \o <<"</script>">>
  BY <1>1, BodyShape
<1>3. "<script>" \in Symbols /\ "</script>" \in Symbols
  BY DEF Symbols
<1>4. u \in Seq(Symbols) /\ Len(u) = Len(w) + 2 /\ Wraps(u, "<script>", w, Len(w), "</script>")
  BY <1>2, <1>3, WrapPlaces
<1>5. PICK l : l = Len(u)
  OBVIOUS
<1>6. w \in Seq(Symbols) /\ l = Len(w) + 2 /\ Len(w) \in Nat
  BY <1>2, <1>4, <1>5
<1>7. u[1] = "<script>" /\ u[l] = "</script>" /\ \A j \in 1..Len(w) : u[j + 1] = w[j]
  BY <1>4, <1>6 DEF Wraps
<1>8. 0 + 1 = 1 /\ 0 + l = l /\ l - 2 = Len(w) /\ \A j \in 1..Len(w) : j + 1 = 1 + j
  BY <1>6
<1>9. Stands(u, w, 0 + 1, l - 2)
  BY <1>7, <1>8 DEF Stands
<1>10. u[0 + 1] = "<script>" /\ u[0 + l] = "</script>"
  BY <1>7, <1>8
<1>11. l = Len(ScriptBody(one)) + 2 /\ Stands(u, ScriptBody(one), 0 + 1, l - 2)
  BY <1>1, <1>6, <1>9
<1>12. ScriptAt(u, one, 0, l)
  BY <1>10, <1>11, Zenon DEF ScriptAt
<1> QED
  BY <1>4, <1>5, <1>12, Zenon

(* What the text of a part is made of.                                      *)
LEMMA PartShape ==
  ASSUME NEW one \in PageParts
  PROVE  /\ PartText(one) \in Seq(Symbols)
         /\ one \in TagPart => TagAt(PartText(one), one, 0, Len(PartText(one)))
         /\ one \in ScriptPart => ScriptAt(PartText(one), one, 0, Len(PartText(one)))
<1>1. CASE one \in TagPart
  <2>1. one.kind = "tag" /\ one.tag \in Symbols
    BY <1>1 DEF TagPart, Symbols
  <2>2. PartText(one) = <<one.tag>>
    BY <2>1 DEF PartText
  <2>3. <<one.tag>> \in Seq(Symbols) /\ Len(<<one.tag>>) = 1 /\ <<one.tag>>[1] = one.tag
    BY <2>1, ListOfOne
  <2>4. one \notin ScriptPart
    BY <2>1 DEF ScriptPart
  <2>5. 0 + 1 = 1
    OBVIOUS
  <2>6. TagAt(PartText(one), one, 0, Len(PartText(one)))
    BY <2>2, <2>3, <2>5, Zenon DEF TagAt
  <2> QED
    BY <2>2, <2>3, <2>4, <2>6, Zenon
<1>2. CASE one \in ScriptPart
  <2>1. one.kind # "tag" /\ one \notin TagPart
    BY <1>2 DEF TagPart, ScriptPart
  <2>2. PartText(one) = <<"<script>">> \o ScriptBody(one) \o <<"</script>">>
    BY <2>1 DEF PartText
  <2> QED
    BY <1>2, <2>1, <2>2, ScriptShape
<1> QED
  BY <1>1, <1>2 DEF PageParts

\* Where the parts of a page stand: the n-th ends at e[n].
PartsAt(e, p, t) ==
  /\ e \in [0..Len(p) -> 0..Len(t)] /\ e[0] = 0 /\ e[Len(p)] = Len(t)
  /\ \A n \in 1..Len(p) :
       /\ e[n - 1] < e[n]
       /\ p[n] \in TagPart => TagAt(t, p[n], e[n - 1], e[n] - e[n - 1])
       /\ p[n] \in ScriptPart => ScriptAt(t, p[n], e[n - 1], e[n] - e[n - 1])
  /\ \A i \in 1..Len(t) : \E n \in 1..Len(p) : e[n - 1] < i /\ i <= e[n]

(* The parts of a page stand one after another.                             *)
LEMMA PartPlaces ==
  ASSUME NEW p \in Seq(PageParts)
  PROVE  Html(p) \in Seq(Symbols) /\ \E e : PartsAt(e, p, Html(p))
<1> DEFINE k == Len(p)
           lists == [n \in 1..k |-> PartText(p[n])]
           t == Html(p)
<1>1. k \in Nat /\ DOMAIN p = 1..k /\ \A n \in 1..k : p[n] \in PageParts
  OBVIOUS
<1>2. t = FlattenSeq(lists)
  BY <1>1 DEF Html, PartText
<1>3. \A n \in 1..k : lists[n] = PartText(p[n]) /\ lists[n] \in Seq(Symbols)
  <2>1. \A n \in 1..k : PartText(p[n]) \in Seq(Symbols)
    BY <1>1, PartShape
  <2> QED
    BY <2>1
<1>4. lists = [n \in 1..k |-> lists[n]]
  OBVIOUS
<1> HIDE DEF lists, k, t
<1>5. lists \in Seq(Seq(Symbols)) /\ Len(lists) = k
  BY <1>1, <1>3, <1>4, ListFrom
<1>6. t \in Seq(Symbols)
  BY <1>2, <1>5, Flattened
<1>7. PICK e : Sits(t, lists, e)
  BY <1>2, <1>5, FlattenPlaces
<1>8. /\ e \in [0..k -> 0..Len(t)] /\ e[0] = 0 /\ e[k] = Len(t)
      /\ \A n \in 1..k : e[n] = e[n - 1] + Len(lists[n])
      /\ \A n \in 1..k : \A j \in 1..Len(lists[n]) : t[e[n - 1] + j] = lists[n][j]
      /\ \A i \in 1..e[k] : \E n \in 1..k : e[n - 1] < i /\ i <= e[n]
  BY <1>5, <1>7, Zenon DEF Sits, SitsUpTo
<1>9. ASSUME NEW n \in 1..k
      PROVE  /\ e[n - 1] < e[n]
             /\ p[n] \in TagPart => TagAt(t, p[n], e[n - 1], e[n] - e[n - 1])
             /\ p[n] \in ScriptPart => ScriptAt(t, p[n], e[n - 1], e[n] - e[n - 1])
  <2> DEFINE u == PartText(p[n])
             l == Len(u)
             x == e[n - 1]
             y == e[n]
  <2>1. n \in 0..k /\ n - 1 \in 0..k /\ p[n] \in PageParts
    BY <1>1
  <2>2. u \in Seq(Symbols) /\ l \in Nat
    BY <2>1, PartShape
  <2>3. y = x + l /\ Stands(t, u, x, l)
    BY <1>3, <1>8, Zenon DEF Stands
  <2>4. x \in Nat /\ y \in Nat
    <3>1. x \in 0..Len(t) /\ y \in 0..Len(t)
      BY <1>8, <2>1
    <3> QED
      BY <3>1
  <2>5. /\ p[n] \in TagPart => TagAt(u, p[n], 0, l)
        /\ p[n] \in ScriptPart => ScriptAt(u, p[n], 0, l)
    BY <2>1, PartShape
  <2> HIDE DEF u, l, x, y
  <2>6. y - x = l /\ x + 0 = x
    BY <2>2, <2>3, <2>4
  <2>7. CASE p[n] \in TagPart
    <3>1. l = 1 /\ u[0 + 1] = p[n].tag
      BY <2>5, <2>7 DEF TagAt
    <3>2. 1 \in 1..l /\ 0 + 1 = 1 /\ x < y
      BY <2>3, <2>4, <3>1
    <3>3. TagAt(t, p[n], x, l)
      BY <2>3, <3>1, <3>2 DEF TagAt, Stands
    <3>4. p[n] \notin ScriptPart
      BY <2>7 DEF TagPart, ScriptPart
    <3> QED
      BY <2>6, <3>2, <3>3, <3>4 DEF x, y
  <2>8. CASE p[n] \in ScriptPart
    <3> DEFINE w == ScriptBody(p[n])
               j == Len(w)
    <3>1. w \in Seq(Symbols) /\ j \in Nat
      BY <2>8, BodyShape
    <3>2. l = j + 2 /\ u[0 + 1] = "<script>" /\ Stands(u, w, 0 + 1, l - 2) /\ u[0 + l] = "</script>"
      BY <2>5, <2>8 DEF ScriptAt
    <3> HIDE DEF w, j
    <3>3. /\ 1 \in 1..l /\ l \in 1..l /\ 0 + 1 = 1 /\ 0 + l = l /\ x < y /\ l - 2 = j
          /\ \A i \in 1..j : 1 + i \in 1..l /\ x + (1 + i) = x + 1 + i
      BY <2>3, <2>4, <3>1, <3>2
    <3>4. t[x + 1] = "<script>" /\ t[x + l] = "</script>"
      BY <2>3, <3>2, <3>3 DEF Stands
    <3>5. Stands(t, w, x + 1, j)
      <4>1. \A i \in 1..j : u[1 + i] = w[i]
        BY <3>2, <3>3 DEF Stands
      <4>2. \A i \in 1..j : t[x + (1 + i)] = u[1 + i]
        BY <2>3, <3>3 DEF Stands
      <4> QED
        BY <3>3, <4>1, <4>2 DEF Stands
    <3>6. ScriptAt(t, p[n], x, l)
      BY <3>2, <3>3, <3>4, <3>5 DEF ScriptAt, w, j
    <3>7. p[n] \notin TagPart
      BY <2>8 DEF TagPart, ScriptPart
    <3> QED
      BY <2>6, <3>3, <3>6, <3>7 DEF x, y
  <2> QED
    BY <2>1, <2>7, <2>8 DEF PageParts
<1>10. \A i \in 1..Len(t) : \E n \in 1..k : e[n - 1] < i /\ i <= e[n]
  BY <1>8
<1>11. PartsAt(e, p, t)
  BY <1>8, <1>9, <1>10, Zenon DEF PartsAt, k
<1> QED
  BY <1>6, <1>11 DEF t

\* Up to place x exactly these scripts are found.
Taken(g, x, scripts) == g[x] \in Found /\ g[x].cursor <= x + 1 /\ g[x].scripts = scripts

(* A tag adds a script, an empty one, when it closes itself.                *)
LEMMA TagTaken ==
  ASSUME NEW t \in Seq(Symbols), NEW z \in Nat, z = Len(t), NEW g, TagsGo(g, t),
         NEW x \in Nat, NEW y \in Nat, y <= z, NEW one \in TagPart, TagAt(t, one, x, y - x),
         NEW scripts, Taken(g, x, scripts)
  PROVE  Taken(g, y, scripts \o BodiesOf(one))
<1>1. y = x + 1 /\ y \in 1..z /\ y - 1 = x
  BY DEF TagAt
<1>2. t[y] = one.tag
  BY <1>1 DEF TagAt
<1>3. one.kind = "tag" /\ one.tag # "<script>"
  BY DEF TagPart
<1>4. g[x] \in Found /\ g[x].cursor <= y /\ g[x].scripts = scripts
  BY <1>1 DEF Taken
<1>5. g[x].cursor \in Nat /\ scripts \in Seq(Seq(Symbols))
  BY <1>4 DEF Found
<1>6. g[y] = ScanTag(t, g[x], y)
  BY <1>1 DEF TagsGo
<1>7. y \in 1..Len(t)
  BY <1>1
<1>8. g[y] \in Found
  BY <1>4, <1>6, <1>7, ScanTagStep
<1>9. CASE one.tag = "<script/>"
  <2>1. y >= g[x].cursor /\ t[y] = "<script/>"
    BY <1>1, <1>2, <1>4, <1>5, <1>9
  <2>2. g[y] = [cursor |-> g[x].cursor, scripts |-> Append(scripts, <<>>)]
    BY <1>4, <1>6, <1>7, <2>1, ScanTagStep
  <2>3. <<>> \in Seq(Symbols)
    OBVIOUS
  <2>4. Append(scripts, <<>>) = scripts \o <<<<>>>>
    BY <1>5, <2>3, AppendIsConcat
  <2>5. BodiesOf(one) = <<<<>>>>
    BY <1>3, <1>9 DEF BodiesOf
  <2>6. g[y].cursor <= y + 1
    BY <1>1, <1>4, <1>5, <2>2
  <2>7. g[y].scripts = scripts \o BodiesOf(one)
    BY <2>2, <2>4, <2>5
  <2> QED
    BY <1>8, <2>6, <2>7 DEF Taken
<1>10. CASE one.tag # "<script/>"
  <2>1. g[y] = g[x]
    <3>1. t[y] \notin {"<script>", "<script/>"}
      BY <1>2, <1>3, <1>10
    <3> QED
      BY <1>4, <1>6, <1>7, <3>1, ScanTagStep
  <2>2. BodiesOf(one) = <<>>
    BY <1>3, <1>10 DEF BodiesOf
  <2>3. scripts \o BodiesOf(one) = scripts
    BY <1>5, <2>2
  <2>4. g[y].cursor <= y + 1
    BY <1>1, <1>4, <1>5, <2>1
  <2> QED
    BY <1>4, <1>8, <2>1, <2>3, <2>4 DEF Taken
<1> QED
  BY <1>9, <1>10

(* A script adds its body.                                                  *)
LEMMA ScriptTaken ==
  ASSUME NEW t \in Seq(Symbols), NEW z \in Nat, z = Len(t), NEW g, TagsGo(g, t),
         NEW x \in Nat, NEW y \in Nat, y <= z, NEW one \in ScriptPart, PlainPart(one),
         ScriptAt(t, one, x, y - x), NEW scripts, Taken(g, x, scripts)
  PROVE  Taken(g, y, scripts \o BodiesOf(one))
<1>1. PICK w : w = ScriptBody(one)
  OBVIOUS
<1>2. w \in Seq(Symbols)
  BY <1>1, BodyShape
<1>3. PICK k \in Nat : k = Len(w)
  BY <1>2
<1>4. PICK i : i = x + 1
  OBVIOUS
<1>5. /\ y = x + (k + 2) /\ i \in 1..z /\ i \in Nat /\ y - x = k + 2 /\ k + 2 - 2 = k
      /\ x + (k + 2) = i + k + 1 /\ i + k + 1 = y /\ i + k + 1 <= z /\ i - 1 = x
      /\ i \in 0..z /\ y \in 0..z /\ i <= y /\ i + k = y - 1 /\ y - 1 \in Nat /\ y - 1 <= z /\ i <= y - 1
      /\ y - 1 - i = k
  BY <1>1, <1>3, <1>4 DEF ScriptAt
<1>6. t[i] = "<script>" /\ Stands(t, w, i, k) /\ t[i + k + 1] = "</script>"
  BY <1>1, <1>4, <1>5 DEF ScriptAt
<1>7. i \in 1..Len(t) /\ i + k + 1 <= Len(t)
  BY <1>5
<1>8. FindScriptClose(t, i + 1) = y
  BY <1>1, <1>3, <1>5, <1>6, <1>7, CloseAt
<1>9. g[x] \in Found /\ g[x].cursor <= i /\ g[x].scripts = scripts
  BY <1>4 DEF Taken
<1>10. g[x].cursor \in Nat /\ scripts \in Seq(Seq(Symbols))
  BY <1>9 DEF Found
<1>11. g[i] = ScanTag(t, g[x], i)
  BY <1>5 DEF TagsGo
<1>12. g[i] = [cursor |-> y + 1, scripts |-> Append(scripts, SubSeq(t, i + 1, y - 1))]
  <2>1. i >= g[x].cursor
    BY <1>5, <1>9, <1>10
  <2> QED
    BY <1>6, <1>7, <1>8, <1>9, <1>11, <2>1, ScanTagStep
<1>13. SubSeq(t, i + 1, y - 1) = w
  <2>1. PICK u : u = SubSeq(t, i + 1, y - 1)
    OBVIOUS
  <2>2. y - 1 <= Len(t)
    BY <1>5
  <2>3. u \in Seq(Symbols) /\ Onward(u, t, i, y - 1 - i)
    BY <1>5, <2>1, <2>2, CutOut
  <2>4. Len(u) = k /\ \A n \in 1..k : u[n] = t[i + n]
    BY <1>5, <2>3 DEF Onward
  <2>5. \A n \in 1..Len(u) : u[n] = w[n]
    BY <1>6, <2>4 DEF Stands
  <2>6. u = w
    BY <1>2, <1>3, <2>3, <2>4, <2>5, SeqEqual
  <2> QED
    BY <2>1, <2>6
<1>14. Append(scripts, w) = scripts \o BodiesOf(one)
  <2>1. Append(scripts, w) = scripts \o <<w>>
    BY <1>2, <1>10, AppendIsConcat
  <2>2. BodiesOf(one) = <<w>>
    <3>1. one.kind # "tag"
      BY DEF ScriptPart
    <3> QED
      BY <1>1, <3>1 DEF BodiesOf
  <2> QED
    BY <2>1, <2>2
<1>15. g[y] = g[i]
  <2>1. y + 1 = g[i].cursor
    BY <1>12
  <2> QED
    BY <1>5, <2>1, TagsSkip
<1>16. g[y].cursor = y + 1 /\ g[y].scripts = scripts \o BodiesOf(one)
  <2>1. PICK v : v = scripts \o BodiesOf(one)
    OBVIOUS
  <2>2. Append(scripts, SubSeq(t, i + 1, y - 1)) = v
    BY <1>13, <1>14, <2>1
  <2>3. g[y] = [cursor |-> y + 1, scripts |-> v]
    BY <1>12, <1>15, <2>2
  <2> QED
    BY <2>1, <2>3
<1>17. g[y] \in Found
  <2>1. y \in 0..Len(t)
    BY <1>5
  <2> QED
    BY <2>1 DEF TagsGo
<1>18. y + 1 <= y + 1
  OBVIOUS
<1> QED
  BY <1>16, <1>17, <1>18 DEF Taken

(* The bodies of the scripts on a page, one part after the other.           *)
LEMMA BodiesSteps ==
  ASSUME NEW p \in Seq(PageParts)
  PROVE  \E f : /\ f \in [0..Len(p) -> Seq(Seq(Symbols))] /\ f[0] = <<>> /\ Bodies(p) = f[Len(p)]
                /\ \A n \in 1..Len(p) : f[n] = f[n - 1] \o BodiesOf(p[n])
<1>1. PICK k \in Nat : k = Len(p)
  OBVIOUS
<1>2. DOMAIN p = 1..k /\ \A n \in 1..k : p[n] \in PageParts
  BY <1>1
<1>3. PICK lists : lists = [n \in 1..k |-> BodiesOf(p[n])]
  OBVIOUS
<1>4. Bodies(p) = FlattenSeq(lists)
  BY <1>2, <1>3 DEF Bodies
<1>5. \A one \in PageParts : BodiesOf(one) \in Seq(Seq(Symbols))
  <2> TAKE one \in PageParts
  <2>1. <<>> \in Seq(Symbols) /\ <<>> \in Seq(Seq(Symbols))
    OBVIOUS
  <2>2. <<<<>>>> \in Seq(Seq(Symbols))
    BY <2>1, ListOfOne
  <2>3. one.kind # "tag" => <<ScriptBody(one)>> \in Seq(Seq(Symbols))
    <3> SUFFICES ASSUME one.kind # "tag" PROVE <<ScriptBody(one)>> \in Seq(Seq(Symbols))
      OBVIOUS
    <3>1. one \in ScriptPart
      BY DEF PageParts, TagPart
    <3>2. ScriptBody(one) \in Seq(Symbols)
      BY <3>1, BodyShape
    <3> QED
      BY <3>2, ListOfOne
  <2> QED
    BY <2>1, <2>2, <2>3 DEF BodiesOf
<1>6. \A n \in 1..k : lists[n] = BodiesOf(p[n]) /\ lists[n] \in Seq(Seq(Symbols))
  BY <1>2, <1>3, <1>5
<1>7. lists = [n \in 1..k |-> lists[n]]
  BY <1>3
<1>8. lists \in Seq(Seq(Seq(Symbols))) /\ Len(lists) = k
  BY <1>6, <1>7, ListFrom
<1>9. PICK f : Flattens(f, lists, Seq(Symbols))
  BY <1>8, FlattenSteps
<1>10. /\ f \in [0..k -> Seq(Seq(Symbols))] /\ f[0] = <<>> /\ FlattenSeq(lists) = f[k]
       /\ \A n \in 1..k : f[n] = f[n - 1] \o lists[n]
  BY <1>8, <1>9, Zenon DEF Flattens
<1>11. \A n \in 1..k : f[n] = f[n - 1] \o BodiesOf(p[n])
  BY <1>6, <1>10, Zenon
<1> QED
  BY <1>1, <1>4, <1>10, <1>11, Zenon

(* The scripts found on a page are those it was written with.               *)
LEMMA ScriptsExtracted ==
  ASSUME NEW p \in Seq(PageParts), \A n \in 1..Len(p) : PlainPart(p[n])
  PROVE  ExtractInlineScripts(Html(p)) = Bodies(p) /\ Bodies(p) \in Seq(Seq(Symbols))
<1>1. PICK k \in Nat : k = Len(p)
  OBVIOUS
<1>2. PICK t : t = Html(p)
  OBVIOUS
<1>3. t \in Seq(Symbols)
  BY <1>2, PartPlaces
<1>4. PICK z \in Nat : z = Len(t)
  BY <1>3
<1>5. PICK e : PartsAt(e, p, t)
  BY <1>2, PartPlaces
<1>6. PICK g : TagsGo(g, t) /\ ScanTags(t) = g[z]
  BY <1>3, <1>4, TagsScanned
<1>7. PICK f : /\ f \in [0..k -> Seq(Seq(Symbols))] /\ f[0] = <<>> /\ Bodies(p) = f[k]
               /\ \A n \in 1..k : f[n] = f[n - 1] \o BodiesOf(p[n])
  BY <1>1, BodiesSteps
<1>8. /\ e \in [0..k -> 0..z] /\ e[0] = 0 /\ e[k] = z
      /\ \A n \in 1..k :
           /\ p[n] \in TagPart => TagAt(t, p[n], e[n - 1], e[n] - e[n - 1])
           /\ p[n] \in ScriptPart => ScriptAt(t, p[n], e[n - 1], e[n] - e[n - 1])
  BY <1>1, <1>4, <1>5, Zenon DEF PartsAt
<1>9. \A n \in 1..k : p[n] \in PageParts /\ PlainPart(p[n])
  BY <1>1
<1> DEFINE S == {n \in 0..k : Taken(g, e[n], f[n])}
<1>10. 0 \in S
  <2>1. g[0] \in Found /\ g[0].cursor = 1 /\ g[0].scripts = <<>>
    <3>1. g[0] = [cursor |-> 1, scripts |-> <<>>]
      BY <1>6 DEF TagsGo
    <3> QED
      BY <3>1 DEF Found
  <2>2. 0 \in 0..k /\ 1 <= 0 + 1
    OBVIOUS
  <2>3. Taken(g, 0, <<>>)
    BY <2>1, <2>2 DEF Taken
  <2> QED
    BY <1>7, <1>8, <2>2, <2>3
<1>11. \A n \in 1..k : n - 1 \in S => n \in S
  <2> TAKE n \in 1..k
  <2>1. SUFFICES ASSUME n - 1 \in S PROVE n \in S
    OBVIOUS
  <2>2. n \in 0..k /\ n - 1 \in 0..k
    OBVIOUS
  <2>3. PICK x : x = e[n - 1]
    OBVIOUS
  <2>4. PICK y : y = e[n]
    OBVIOUS
  <2>5. PICK scripts : scripts = f[n - 1]
    OBVIOUS
  <2>6. Taken(g, x, scripts)
    BY <2>1, <2>3, <2>5
  <2>7. x \in Nat /\ y \in Nat /\ y <= z
    <3>1. x \in 0..z /\ y \in 0..z
      BY <1>8, <2>2, <2>3, <2>4
    <3> QED
      BY <3>1
  <2>8. /\ p[n] \in TagPart => TagAt(t, p[n], x, y - x)
        /\ p[n] \in ScriptPart => ScriptAt(t, p[n], x, y - x)
    BY <1>8, <2>3, <2>4
  <2>9. f[n] = scripts \o BodiesOf(p[n])
    BY <1>7, <2>5
  <2>10. CASE p[n] \in TagPart
    BY <1>3, <1>4, <1>6, <2>2, <2>4, <2>6, <2>7, <2>8, <2>9, <2>10, TagTaken
  <2>11. CASE p[n] \in ScriptPart
    BY <1>3, <1>4, <1>6, <1>9, <2>2, <2>4, <2>6, <2>7, <2>8, <2>9, <2>11, ScriptTaken
  <2> QED
    BY <1>9, <2>10, <2>11 DEF PageParts
<1> HIDE DEF S
<1>12. 0..k \subseteq S
  BY <1>10, <1>11, InductionUpTo
<1>13. k \in 0..k
  OBVIOUS
<1>14. Taken(g, z, f[k])
  BY <1>8, <1>12, <1>13 DEF S
<1>15. ExtractInlineScripts(t) = f[k]
  BY <1>6, <1>14 DEF ExtractInlineScripts, Taken
<1> QED
  BY <1>2, <1>7, <1>13, <1>15

\* What is kept of the first n bodies.
Inline == [index : Nat, content : Seq(Symbols)]
KeptOf(bodies, m) == [index |-> m - 1, content |-> bodies[m]]
KeptUpTo(list, bodies, n) ==
  /\ list \in Seq(Inline)
  /\ ToSet(list) = {KeptOf(bodies, m) : m \in {j \in 1..n : bodies[j] # <<>>}}
  /\ \A i \in 1..Len(list) : list[i].index < n
  /\ \A i, j \in 1..Len(list) : i < j => list[i].index < list[j].index

(* One body more.                                                           *)
LEMMA OneMoreKept ==
  ASSUME NEW bodies, NEW n \in Nat \ {0}, bodies[n] \in Seq(Symbols),
         NEW list, KeptUpTo(list, bodies, n - 1)
  PROVE  KeptUpTo(KeepBody(bodies, list, n), bodies, n)
<1> DEFINE X(m) == {KeptOf(bodies, i) : i \in {j \in 1..m : bodies[j] # <<>>}}
           one == KeptOf(bodies, n)
<1>1. /\ list \in Seq(Inline) /\ ToSet(list) = X(n - 1)
      /\ \A i \in 1..Len(list) : list[i].index < n - 1
      /\ \A i, j \in 1..Len(list) : i < j => list[i].index < list[j].index
  BY DEF KeptUpTo
<1>2. PICK l \in Nat : l = Len(list)
  BY <1>1
<1>3. \A i \in 1..l : list[i] \in Inline /\ list[i].index \in Nat
  <2>1. \A x \in Inline : x.index \in Nat
    BY DEF Inline
  <2>2. \A i \in 1..l : list[i] \in Inline
    BY <1>1, <1>2
  <2> QED
    BY <2>1, <2>2
<1>4. \A i \in 1..l : list[i].index < n
  BY <1>1, <1>2, <1>3
<1>5. \A j \in 1..n : j \in 1..(n - 1) \/ j = n
  OBVIOUS
<1>6. \A j \in 1..(n - 1) : j \in 1..n
  OBVIOUS
<1>7. n \in 1..n
  OBVIOUS
<1>8. CASE bodies[n] = <<>>
  <2>1. X(n) = X(n - 1)
    BY <1>5, <1>6, <1>8
  <2>2. KeepBody(bodies, list, n) = list
    BY <1>8 DEF KeepBody
  <2> QED
    BY <1>1, <1>2, <1>4, <2>1, <2>2 DEF KeptUpTo
<1>9. CASE bodies[n] # <<>>
  <2>1. X(n) = X(n - 1) \cup {one}
    BY <1>5, <1>6, <1>7, <1>9
  <2>2. one \in Inline /\ one.index = n - 1
    BY DEF Inline, KeptOf
  <2>3. KeepBody(bodies, list, n) = Append(list, one)
    BY <1>9 DEF KeepBody, KeptOf
  <2> HIDE DEF X, one
  <2>4. PICK more : more = Append(list, one)
    OBVIOUS
  <2>5. /\ more \in Seq(Inline) /\ Len(more) = l + 1 /\ more[l + 1] = one
        /\ \A i \in 1..l : more[i] = list[i]
    BY <1>1, <1>2, <2>2, <2>4, AppendProperties
  <2>6. ToSet(more) = ToSet(list) \cup {one}
    <3>1. ToSet(more) = {more[i] : i \in 1..(l + 1)}
      BY <2>5, ElementsOf
    <3>2. ToSet(list) = {list[i] : i \in 1..l}
      BY <1>1, <1>2, ElementsOf
    <3>3. \A i \in 1..(l + 1) : i \in 1..l \/ i = l + 1
      OBVIOUS
    <3>4. l + 1 \in 1..(l + 1) /\ \A i \in 1..l : i \in 1..(l + 1)
      OBVIOUS
    <3> QED
      BY <2>5, <3>1, <3>2, <3>3, <3>4
  <2>7. \A i \in 1..(l + 1) : i \in 1..l \/ i = l + 1
    OBVIOUS
  <2>8. \A i \in 1..(l + 1) : more[i].index < n
    BY <1>4, <2>2, <2>5, <2>7
  <2>9. ASSUME NEW i \in 1..(l + 1), NEW j \in 1..(l + 1), i < j
        PROVE  more[i].index < more[j].index
    <3>1. i \in 1..l
      BY <2>9
    <3>2. CASE j \in 1..l
      BY <1>1, <1>2, <2>5, <2>9, <3>1, <3>2
    <3>3. CASE j = l + 1
      BY <1>1, <1>2, <2>2, <2>5, <3>1, <3>3
    <3> QED
      BY <2>7, <3>2, <3>3
  <2>10. ToSet(more) = X(n)
    BY <1>1, <2>1, <2>6
  <2>11. KeptUpTo(more, bodies, n)
    BY <2>5, <2>8, <2>9, <2>10 DEF KeptUpTo, X
  <2> QED
    BY <2>3, <2>4, <2>11
<1> QED
  BY <1>8, <1>9

(* What is kept are the bodies that are not empty, in their order.          *)
LEMMA BodiesKept ==
  ASSUME NEW bodies \in Seq(Seq(Symbols))
  PROVE  KeptUpTo(KeptBodies(bodies), bodies, Len(bodies))
<1>1. PICK k \in Nat : k = Len(bodies)
  OBVIOUS
<1>2. DOMAIN bodies = 1..k /\ \A n \in 1..k : bodies[n] \in Seq(Symbols)
  BY <1>1
<1> DEFINE A == Seq(Inline)
           step == [n \in 1..k |-> [a \in A |-> KeepBody(bodies, a, n)]]
<1>3. \A n \in 1..k : \A a \in A : KeepBody(bodies, a, n) \in A
  <2> TAKE n \in 1..k
  <2> TAKE a \in A
  <2>1. KeptOf(bodies, n) \in Inline
    <3>1. n - 1 \in Nat
      OBVIOUS
    <3> QED
      BY <1>2, <3>1 DEF Inline, KeptOf
  <2>2. Append(a, KeptOf(bodies, n)) \in A
    BY <2>1, AppendProperties
  <2> QED
    BY <2>2 DEF KeepBody, KeptOf
<1>4. <<>> \in A
  OBVIOUS
<1>5. step \in [1..k -> [A -> A]]
  BY <1>3
<1>6. \A n \in 1..k : \A a \in A : step[n][a] = KeepBody(bodies, a, n)
  OBVIOUS
<1> HIDE DEF step, A
<1>7. Lead(KeptBodies(bodies), k, A, <<>>, step)
  BY <1>2, <1>4, <1>5, <1>6, FoldKeepBody
<1>8. PICK g \in [0..k -> A] : Steps(g, k, <<>>, step) /\ KeptBodies(bodies) = g[k]
  BY <1>7 DEF Lead
<1>9. \A n \in 1..k : n - 1 \in 0..k /\ n \in Nat \ {0}
  OBVIOUS
<1>10. g[0] = <<>> /\ \A n \in 1..k : g[n] = KeepBody(bodies, g[n - 1], n)
  BY <1>6, <1>8, <1>9 DEF Steps
<1> DEFINE S == {n \in 0..k : KeptUpTo(g[n], bodies, n)}
<1>11. 0 \in S
  <2>1. ToSet(<<>>) = {} /\ <<>> \in Seq(Inline) /\ Len(<<>>) = 0
    BY DEF ToSet
  <2>2. 0 \in 0..k /\ {j \in 1..0 : bodies[j] # <<>>} = {} /\ 1..0 = {}
    OBVIOUS
  <2>3. KeptUpTo(<<>>, bodies, 0)
    BY <2>1, <2>2 DEF KeptUpTo
  <2> QED
    BY <1>10, <2>2, <2>3
<1>12. \A n \in 1..k : n - 1 \in S => n \in S
  <2> TAKE n \in 1..k
  <2>1. SUFFICES ASSUME n - 1 \in S PROVE n \in S
    OBVIOUS
  <2>2. KeptUpTo(g[n - 1], bodies, n - 1)
    BY <2>1
  <2>3. KeptUpTo(KeepBody(bodies, g[n - 1], n), bodies, n)
    BY <1>2, <1>9, <2>2, OneMoreKept
  <2>4. n \in 0..k
    OBVIOUS
  <2> QED
    BY <1>10, <2>3, <2>4
<1> HIDE DEF S
<1>13. 0..k \subseteq S
  BY <1>11, <1>12, InductionUpTo
<1>14. k \in 0..k
  OBVIOUS
<1> QED
  BY <1>1, <1>8, <1>13, <1>14 DEF S

\* What the count of braces knows.
Counted == [scan : State, depth : Int, text : Seq(Symbols)]

(* A depth changes by one.                                                  *)
LEMMA DepthChanges ==
  ASSUME NEW n \in Int
  PROVE  /\ n + 1 \in Int /\ n + 0 \in Int /\ n + -1 \in Int /\ n + 0 = n /\ n + -1 = n - 1
         /\ n > 0 => n # 0 /\ n + 1 # 0
         /\ n > 1 => n > 0 /\ n # 0 /\ n - 1 # 0
         /\ n = 1 => n > 0 /\ n # 0 /\ n - 1 = 0
OBVIOUS

(* One symbol of that count.                                                *)
LEMMA BraceStep ==
  ASSUME NEW a \in Counted, NEW t \in Symbols, NEW s, s = Quoting(JsonQuote, a.scan, t)
  PROVE  /\ Brace(a, t) \in Counted
         /\ a.depth = 0 => Brace(a, t) = a
         /\ a.depth > 0 /\ (a.scan.quote # "" \/ s.quote # "" \/ t \notin {"{", "}"}) =>
              Brace(a, t) = [scan |-> s, depth |-> a.depth, text |-> Append(a.text, t)]
         /\ a.depth > 0 /\ a.scan.quote = "" /\ s.quote = "" /\ t = "{" =>
              Brace(a, t) = [scan |-> s, depth |-> a.depth + 1, text |-> Append(a.text, t)]
         /\ a.depth > 1 /\ a.scan.quote = "" /\ s.quote = "" /\ t = "}" =>
              Brace(a, t) = [scan |-> s, depth |-> a.depth - 1, text |-> Append(a.text, t)]
         /\ a.depth = 1 /\ a.scan.quote = "" /\ s.quote = "" /\ t = "}" =>
              Brace(a, t) = [scan |-> s, depth |-> 0, text |-> a.text]
<1>1. a.scan \in State /\ a.depth \in Int /\ a.text \in Seq(Symbols)
  BY DEF Counted
<1>2. s \in State
  <2>1. JsonQuote \in QuoteSets
    BY DEF QuoteSets, HtmlQuote
  <2> QED
    BY <1>1, <2>1, QuotingStep
<1>3. PICK more : more = Append(a.text, t)
  OBVIOUS
<1>4. more \in Seq(Symbols)
  BY <1>1, <1>3, AppendProperties
<1>5. PICK change : change = (IF a.scan.quote = "" /\ s.quote = "" /\ t = "{" THEN 1
                              ELSE IF a.scan.quote = "" /\ s.quote = "" /\ t = "}" THEN -1 ELSE 0)
  OBVIOUS
<1>6. PICK depth : depth = a.depth + change
  OBVIOUS
<1>0. /\ a.depth + 1 \in Int /\ a.depth + 0 \in Int /\ a.depth + -1 \in Int
      /\ a.depth + 0 = a.depth /\ a.depth + -1 = a.depth - 1
      /\ a.depth > 0 => a.depth # 0 /\ a.depth + 1 # 0
      /\ a.depth > 1 => a.depth > 0 /\ a.depth # 0 /\ a.depth - 1 # 0
      /\ a.depth = 1 => a.depth > 0 /\ a.depth # 0 /\ a.depth - 1 = 0
  BY <1>1, DepthChanges
<1>7. depth \in Int
  <2>1. change = 1 \/ change = 0 \/ change = -1
    BY <1>5, Zenon
  <2> QED
    BY <1>0, <1>6, <2>1, Zenon
<1>8. Brace(a, t) = IF a.depth = 0 THEN a
                    ELSE [scan |-> s, depth |-> depth, text |-> IF depth = 0 THEN a.text ELSE more]
  BY <1>3, <1>5, <1>6 DEF Brace
<1>9. Brace(a, t) \in Counted
  BY <1>1, <1>2, <1>4, <1>7, <1>8 DEF Counted
<1>10. a.depth = 0 => Brace(a, t) = a
  BY <1>8
<1>11. ASSUME a.depth > 0, a.scan.quote # "" \/ s.quote # "" \/ t \notin {"{", "}"}
       PROVE  Brace(a, t) = [scan |-> s, depth |-> a.depth, text |-> more]
  <2>1. change = 0
    BY <1>5, <1>11, Zenon
  <2> QED
    BY <1>0, <1>6, <1>8, <1>11, <2>1, Zenon
<1>12. ASSUME a.depth > 0, a.scan.quote = "", s.quote = "", t = "{"
       PROVE  Brace(a, t) = [scan |-> s, depth |-> a.depth + 1, text |-> more]
  <2>1. change = 1
    BY <1>5, <1>12, Zenon
  <2> QED
    BY <1>0, <1>6, <1>8, <1>12, <2>1, Zenon
<1>13. ASSUME a.scan.quote = "", s.quote = "", t = "}"
       PROVE  depth = a.depth - 1
  <2>1. change = -1
    BY <1>5, <1>13
  <2> QED
    BY <1>0, <1>6, <2>1, Zenon
<1>14. ASSUME a.depth > 1, a.scan.quote = "", s.quote = "", t = "}"
       PROVE  Brace(a, t) = [scan |-> s, depth |-> a.depth - 1, text |-> more]
  BY <1>0, <1>8, <1>13, <1>14, Zenon
<1>15. ASSUME a.depth = 1, a.scan.quote = "", s.quote = "", t = "}"
       PROVE  Brace(a, t) = [scan |-> s, depth |-> 0, text |-> a.text]
  BY <1>0, <1>8, <1>13, <1>15, Zenon
<1> QED
  BY <1>3, <1>9, <1>10, <1>11, <1>12, <1>14, <1>15, Zenon

\* What a count of the first k symbols of w knows after each.
Counts(h, w, k) == \A i \in 1..k : h[i] = Brace(h[i - 1], w[i])

\* They are counted through, and all taken.
CountedThrough(h, w, k) ==
  /\ h[k].scan = Outside /\ h[k].depth = 1
  /\ \A i \in 1..k : h[i].text = Append(h[i - 1].text, w[i])

(* The braces of a piece add up.                                            *)
LEMMA PieceBraces ==
  ASSUME NEW piece \in ScriptPiece, PlainPiece(piece), piece.kind # "comment",
         piece.kind = "string" => piece.quote \in JsonQuote,
         NEW w, w = Written(piece), NEW k, k = Len(w), NEW r, ReadsStrings(r, JsonQuote, w, k),
         NEW h, \A i \in 0..k : h[i] \in Counted, Counts(h, w, k),
         h[0].scan = Outside, h[0].depth = 1
  PROVE  CountedThrough(h, w, k)
<1>1. Shape(piece, w)
  BY WrittenShape
<1>2. w \in Seq(Symbols) /\ k \in Nat
  <2>1. w \in Seq(Symbols)
    BY <1>1 DEF Shape
  <2> QED
    BY <2>1
<1>3. PICK l : l = Len(piece.text)
  OBVIOUS
<1>4. l \in Nat
  BY <1>1, <1>3 DEF Shape
<1> DEFINE d(i) == IF piece.kind = "object" /\ i \in 1..(k - 1) THEN 2 ELSE 1
           S == {i \in 0..k : h[i].scan = r[i] /\ h[i].depth = d(i)}
<1>5. JsonQuote \in QuoteSets
  BY DEF QuoteSets, HtmlQuote
<1>6. /\ r[k] = Outside
      /\ piece.kind = "string" => \A i \in 1..(k - 1) : r[i].quote # ""
      /\ piece.kind # "string" => \A i \in 0..k : r[i] = Outside
  BY <1>5, PieceStrings
<1>7. r[0] = Outside /\ \A i \in 1..k : r[i] = Quoting(JsonQuote, r[i - 1], w[i])
  BY DEF ReadsStrings
<1>8. Outside.quote = ""
  BY DEF Outside
<1>9. ASSUME NEW i \in 1..k, i - 1 \in S
      PROVE  h[i].scan = r[i] /\ h[i].depth = d(i) /\ h[i].text = Append(h[i - 1].text, w[i])
  <2>1. PICK a : a = h[i - 1]
    OBVIOUS
  <2>2. i - 1 \in 0..k /\ i \in 0..k
    BY <1>2
  <2>3. a \in Counted /\ a.scan = r[i - 1] /\ a.depth = d(i - 1)
    BY <1>9, <2>1, <2>2
  <2>4. w[i] \in Symbols
    BY <1>2
  <2>5. h[i] = Brace(a, w[i]) /\ r[i] = Quoting(JsonQuote, a.scan, w[i])
    BY <1>7, <2>1, <2>3 DEF Counts
  <2>6. a.depth > 0
    BY <2>3
  <2>7. CASE piece.kind = "string"
    <3>1. i \in 1..(k - 1) \/ i - 1 \in 1..(k - 1)
      <4>1. k = l + 2
        BY <1>1, <1>3, <2>7 DEF Shape
      <4> QED
        BY <1>4, <4>1
    <3>2. a.scan.quote # "" \/ r[i].quote # ""
      BY <1>6, <2>3, <2>7, <3>1
    <3>3. d(i) = 1 /\ d(i - 1) = 1
      BY <2>7
    <3>4. h[i] = [scan |-> r[i], depth |-> a.depth, text |-> Append(a.text, w[i])]
      <4>1. PICK s : s = r[i]
        OBVIOUS
      <4>2. s = Quoting(JsonQuote, a.scan, w[i]) /\ (a.scan.quote # "" \/ s.quote # "")
        BY <2>5, <3>2, <4>1
      <4>3. Brace(a, w[i]) = [scan |-> s, depth |-> a.depth, text |-> Append(a.text, w[i])]
        BY <2>3, <2>4, <2>6, <4>2, BraceStep
      <4> QED
        BY <2>5, <4>1, <4>3
    <3> QED
      BY <2>1, <2>3, <3>3, <3>4
  <2>8. CASE piece.kind = "object"
    <3>1. k = l + 2
      BY <1>1, <1>3, <2>8 DEF Shape
    <3>6. Wraps(w, "{", piece.text, l, "}")
      BY <1>1, <1>3, <2>8 DEF Shape
    <3>7. /\ 1 \in 1..(k - 1) /\ 1 - 1 \notin 1..(k - 1) /\ l + 2 - 1 \in 1..(k - 1)
          /\ l + 2 \notin 1..(k - 1)
          /\ \A j \in 1..k : j - 1 \in 1..l => j \in 1..(k - 1) /\ j - 1 \in 1..(k - 1)
      BY <1>4, <3>1
    <3>8. \A j : d(j) = IF j \in 1..(k - 1) THEN 2 ELSE 1
      BY <2>8
    <3> HIDE DEF d
    <3>2. a.scan.quote = "" /\ r[i].quote = ""
      BY <1>6, <1>8, <2>2, <2>3, <2>8
    <3>3. CASE i = 1
      <4>1. w[i] = "{" /\ d(i - 1) = 1 /\ d(i) = 2
        <5>1. w[i] = "{"
          BY <3>3, <3>6 DEF Wraps
        <5> QED
          BY <3>3, <3>7, <3>8, <5>1
      <4>2. h[i] = [scan |-> r[i], depth |-> a.depth + 1, text |-> Append(a.text, w[i])]
        BY <2>3, <2>4, <2>5, <2>6, <3>2, <4>1, BraceStep
      <4>3. a.depth = 1
        BY <2>3, <4>1, Zenon
      <4>4. a.depth + 1 = 2
        BY <4>3
      <4>5. h[i].scan = r[i] /\ h[i].depth = a.depth + 1 /\ h[i].text = Append(a.text, w[i])
        BY <4>2
      <4> QED
        BY <2>1, <4>1, <4>4, <4>5, Zenon
    <3>4. CASE i = l + 2
      <4>1. w[i] = "}" /\ d(i - 1) = 2 /\ d(i) = 1
        <5>1. w[i] = "}"
          BY <3>4, <3>6 DEF Wraps
        <5>2. i - 1 \in 1..(k - 1) /\ i \notin 1..(k - 1)
          BY <3>4, <3>7
        <5> QED
          BY <3>8, <5>1, <5>2, Zenon
      <4>2. a.depth = 2
        BY <2>3, <4>1, Zenon
      <4>3. a.depth > 1 /\ a.depth - 1 = 1
        BY <4>2
      <4>4. h[i] = [scan |-> r[i], depth |-> a.depth - 1, text |-> Append(a.text, w[i])]
        BY <2>3, <2>4, <2>5, <3>2, <4>1, <4>3, BraceStep
      <4>5. h[i].scan = r[i] /\ h[i].depth = a.depth - 1 /\ h[i].text = Append(a.text, w[i])
        BY <4>4
      <4> QED
        BY <2>1, <4>1, <4>3, <4>5, Zenon
    <3>5. CASE i - 1 \in 1..l /\ i = i - 1 + 1
      <4>1. w[i] \notin {"{", "}"}
        <5>1. w[i] = piece.text[i - 1]
          BY <3>5, <3>6 DEF Wraps
        <5>2. piece.text[i - 1] \in ToSet(piece.text)
          BY <1>3, <3>5, ElementsOf DEF ScriptPiece
        <5> QED
          BY <2>8, <5>1, <5>2 DEF PlainPiece
      <4>2. d(i) = 2 /\ d(i - 1) = 2
        BY <3>5, <3>7, <3>8
      <4>3. h[i] = [scan |-> r[i], depth |-> a.depth, text |-> Append(a.text, w[i])]
        BY <2>3, <2>4, <2>5, <2>6, <4>1, BraceStep
      <4> QED
        BY <2>1, <2>3, <4>2, <4>3
    <3> QED
      BY <1>2, <1>4, <3>1, <3>3, <3>4, <3>5, WrapCases
  <2>9. CASE piece.kind \notin {"string", "object"}
    <3>1. w = piece.text /\ k = l
      BY <1>1, <1>3, <2>9 DEF Shape
    <3>2. w[i] \notin {"{", "}"}
      <4>1. w[i] \in ToSet(piece.text)
        BY <1>3, <3>1, ElementsOf DEF ScriptPiece
      <4> QED
        BY <2>9, <4>1 DEF PlainPiece
    <3>3. d(i) = 1 /\ d(i - 1) = 1
      BY <2>9
    <3>4. h[i] = [scan |-> r[i], depth |-> a.depth, text |-> Append(a.text, w[i])]
      BY <2>3, <2>4, <2>5, <2>6, <3>2, BraceStep
    <3> QED
      BY <2>1, <2>3, <3>3, <3>4
  <2> QED
    BY <2>7, <2>8, <2>9
<1>10. 0 \in S
  <2>1. 0 \in 0..k /\ 0 \notin 1..(k - 1)
    BY <1>2
  <2> QED
    BY <1>7, <2>1
<1>11. \A i \in 1..k : i - 1 \in S => i \in S
  <2>1. \A i \in 1..k : i \in 0..k
    BY <1>2
  <2> QED
    BY <1>9, <2>1
<1> HIDE DEF S
<1>12. 0..k \subseteq S
  BY <1>2, <1>10, <1>11, InductionUpTo
<1>13. k \in 0..k /\ k \notin 1..(k - 1) /\ \A i \in 1..k : i - 1 \in 0..k
  BY <1>2
<1>14. h[k].scan = Outside /\ h[k].depth = 1
  <2>1. k \in S
    BY <1>12, <1>13
  <2>2. d(k) = 1
    BY <1>13
  <2> QED
    BY <1>6, <2>1, <2>2 DEF S
<1>15. \A i \in 1..k : h[i].text = Append(h[i - 1].text, w[i])
  BY <1>9, <1>12, <1>13
<1> QED
  BY <1>14, <1>15 DEF CountedThrough

\* Up to a place the braces add up, and all is taken.
CountedUpTo(h, q, w, x) ==
  /\ h[x].scan = Outside /\ h[x].depth = 1 /\ q[x] = Outside
  /\ \A i \in 1..x : h[i].text = Append(h[i - 1].text, w[i])

(* A count goes on over a piece.                                            *)
LEMMA CountPiece ==
  ASSUME NEW piece \in ScriptPiece, PlainPiece(piece), piece.kind # "comment",
         piece.kind = "string" => piece.quote \in JsonQuote,
         NEW v, v = Written(piece), NEW l \in Nat, l = Len(v),
         NEW w, NEW k \in Nat, NEW x \in Nat, NEW y \in Nat, y = x + l, y <= k,
         Stands(w, v, x, l), NEW q, StringsGo(q, JsonQuote, w, 0, k),
         NEW h, \A i \in 0..k : h[i] \in Counted, Counts(h, w, k), CountedUpTo(h, q, w, x)
  PROVE  CountedUpTo(h, q, w, y)
<1>1. PICK r : r = [i \in 0..l |-> q[x + i]]
  OBVIOUS
<1>2. PICK g : g = [i \in 0..l |-> h[x + i]]
  OBVIOUS
<1>3. /\ 0 \in 0..l /\ x + 0 = x /\ l \in 0..l /\ x + l = y /\ 0 <= x /\ x + l <= k
      /\ \A i \in 0..l : x + i \in 0..k
      /\ \A i \in 1..l : i \in 0..l /\ i - 1 \in 0..l /\ x + i \in 1..k /\ x + (i - 1) = x + i - 1
      /\ \A i \in 1..y : i \in 1..x \/ (i - x \in 1..l /\ x + (i - x) = i)
      /\ 0 \in Nat
  OBVIOUS
<1>4. q[x] = Outside /\ h[x].scan = Outside /\ h[x].depth = 1
      /\ \A i \in 1..x : h[i].text = Append(h[i - 1].text, w[i])
  BY DEF CountedUpTo
<1>5. ReadsStrings(r, JsonQuote, v, l)
  <2>1. 0 \in Nat /\ 0 <= x /\ x + l <= k
    BY <1>3
  <2>2. q[x] = Outside
    BY <1>4
  <2> QED
    BY <1>1, <2>1, <2>2, StringsFrom
<1>6. \A i \in 0..l : g[i] = h[x + i] /\ g[i] \in Counted
  BY <1>2, <1>3
<1>7. \A i \in 1..l : g[i] = h[x + i] /\ g[i - 1] = h[x + i - 1] /\ w[x + i] = v[i]
  BY <1>3, <1>6 DEF Stands
<1>8. Counts(g, v, l)
  <2>1. \A i \in 1..l : h[x + i] = Brace(h[x + i - 1], w[x + i])
    BY <1>3 DEF Counts
  <2> QED
    BY <1>7, <2>1 DEF Counts
<1>9. g[0].scan = Outside /\ g[0].depth = 1
  BY <1>3, <1>4, <1>6
<1>10. CountedThrough(g, v, l)
  BY <1>5, <1>6, <1>8, <1>9, PieceBraces
<1>11. r[l] = Outside
  <2>1. JsonQuote \in QuoteSets
    BY DEF QuoteSets, HtmlQuote
  <2> QED
    BY <1>5, <2>1, PieceStrings
<1>12. q[y] = Outside /\ h[y].scan = Outside /\ h[y].depth = 1
  BY <1>1, <1>3, <1>6, <1>10, <1>11 DEF CountedThrough
<1>13. ASSUME NEW i \in 1..y PROVE h[i].text = Append(h[i - 1].text, w[i])
  <2>1. CASE i \in 1..x
    BY <1>4, <2>1
  <2>2. CASE i - x \in 1..l /\ x + (i - x) = i
    <3>1. g[i - x].text = Append(g[i - x - 1].text, v[i - x])
      BY <1>10, <2>2 DEF CountedThrough
    <3>2. g[i - x] = h[i] /\ g[i - x - 1] = h[i - 1] /\ w[i] = v[i - x]
      BY <1>7, <2>2
    <3> QED
      BY <3>1, <3>2
  <2> QED
    BY <1>3, <2>1, <2>2
<1> QED
  BY <1>12, <1>13 DEF CountedUpTo

\* The first i symbols of w.
Start(text, w, i) == text \in Seq(Symbols) /\ Len(text) = i /\ \A j \in 1..i : text[j] = w[j]

(* What is taken symbol by symbol is the text.                              *)
LEMMA AllTaken ==
  ASSUME NEW w \in Seq(Symbols), NEW k \in Nat, k = Len(w), NEW h, h[0].text = <<>>,
         \A i \in 1..k : h[i].text = Append(h[i - 1].text, w[i])
  PROVE  h[k].text = w
<1> DEFINE S == {i \in 0..k : Start(h[i].text, w, i)}
<1>1. 0 \in S
  <2>1. <<>> \in Seq(Symbols) /\ Len(<<>>) = 0 /\ 0 \in 0..k /\ 1..0 = {}
    OBVIOUS
  <2> QED
    BY <2>1 DEF Start
<1>2. \A i \in 1..k : i - 1 \in S => i \in S
  <2> TAKE i \in 1..k
  <2>1. SUFFICES ASSUME i - 1 \in S PROVE i \in S
    OBVIOUS
  <2>2. PICK s : s = h[i - 1].text
    OBVIOUS
  <2>3. s \in Seq(Symbols) /\ Len(s) = i - 1 /\ \A j \in 1..(i - 1) : s[j] = w[j]
    BY <2>1, <2>2 DEF Start
  <2>4. PICK u : u = Append(s, w[i])
    OBVIOUS
  <2>5. w[i] \in Symbols
    OBVIOUS
  <2>6. u \in Seq(Symbols) /\ Len(u) = i - 1 + 1 /\ u[i - 1 + 1] = w[i]
        /\ \A j \in 1..(i - 1) : u[j] = s[j]
    BY <2>3, <2>4, <2>5, AppendProperties
  <2>7. i - 1 + 1 = i /\ i \in 0..k /\ \A j \in 1..i : j \in 1..(i - 1) \/ j = i
    OBVIOUS
  <2>8. Start(u, w, i)
    BY <2>3, <2>6, <2>7 DEF Start
  <2> QED
    BY <2>2, <2>4, <2>7, <2>8
<1> HIDE DEF S
<1>3. 0..k \subseteq S
  BY <1>1, <1>2, InductionUpTo
<1>4. k \in 0..k
  OBVIOUS
<1>5. PICK u : u = h[k].text
  OBVIOUS
<1>6. u \in Seq(Symbols) /\ Len(u) = k /\ \A j \in 1..k : u[j] = w[j]
  BY <1>3, <1>4, <1>5 DEF S, Start
<1>7. u = w
  BY <1>6, SeqEqual
<1> QED
  BY <1>5, <1>7

(* The braces of a manifest add up.                                         *)
LEMMA ManifestCounted ==
  ASSUME NEW one \in ScriptPart, PlainPart(one), one.kind = "manifest",
         NEW w, w = Manifest(one), NEW k \in Nat, k = Len(w),
         NEW h, \A i \in 0..k : h[i] \in Counted, Counts(h, w, k),
         h[0] = [scan |-> Outside, depth |-> 1, text |-> <<>>]
  PROVE  h[k].scan = Outside /\ h[k].depth = 1 /\ h[k].text = w
<1>1. PICK pieces : pieces = one.pieces
  OBVIOUS
<1>2. PICK m \in Nat : m = Len(pieces)
  BY <1>1 DEF ScriptPart
<1>3. \A n \in 1..m : /\ pieces[n] \in ScriptPiece /\ PlainPiece(pieces[n])
                      /\ pieces[n].kind # "comment"
                      /\ pieces[n].kind = "string" => pieces[n].quote \in JsonQuote
  <2>1. pieces \in Seq(ScriptPiece) /\ one.kind # "tag"
    BY <1>1 DEF ScriptPart
  <2>2. DOMAIN pieces = 1..m /\ \A n \in 1..m : pieces[n] \in ScriptPiece
    BY <1>2, <2>1
  <2> QED
    BY <1>1, <2>1, <2>2 DEF PlainPart
<1>4. w \in Seq(Symbols) /\ w = WrittenAll(pieces)
  BY <1>1, BodyShape DEF Manifest
<1>5. PICK e : PiecesAt(e, pieces, w)
  BY <1>1, <1>4, PiecePlaces DEF ScriptPart
<1>6. /\ e \in [0..m -> 0..k] /\ e[0] = 0 /\ e[m] = k
      /\ \A n \in 1..m : /\ e[n] = e[n - 1] + Len(Written(pieces[n]))
                         /\ Stands(w, Written(pieces[n]), e[n - 1], Len(Written(pieces[n])))
  BY <1>2, <1>5, Zenon DEF PiecesAt
<1>7. PICK q : StringsGo(q, JsonQuote, w, 0, k) /\ q[0] = Outside
  <2>1. 0 \in 0..Len(w)
    OBVIOUS
  <2>2. JsonQuote \in QuoteSets
    BY DEF QuoteSets, HtmlQuote
  <2>3. PICK q : ScansStrings(q, JsonQuote, w, 0)
    BY <1>4, <2>1, <2>2, StringsScanned
  <2>4. StringsGo(q, JsonQuote, w, 0, k) /\ q[0] = Outside
    BY <2>3 DEF ScansStrings, StringsGo
  <2> QED
    BY <2>4
<1> DEFINE S == {n \in 0..m : CountedUpTo(h, q, w, e[n])}
<1>8. 0 \in S
  <2>1. 0 \in 0..m /\ 1..0 = {}
    OBVIOUS
  <2>2. h[0].scan = Outside /\ h[0].depth = 1
    OBVIOUS
  <2>3. CountedUpTo(h, q, w, 0)
    BY <1>7, <2>1, <2>2 DEF CountedUpTo
  <2> QED
    BY <1>6, <2>1, <2>3
<1>9. \A n \in 1..m : n - 1 \in S => n \in S
  <2> TAKE n \in 1..m
  <2>1. SUFFICES ASSUME n - 1 \in S PROVE n \in S
    OBVIOUS
  <2>2. n \in 0..m /\ n - 1 \in 0..m
    OBVIOUS
  <2>3. PICK x : x = e[n - 1]
    OBVIOUS
  <2>4. PICK y : y = e[n]
    OBVIOUS
  <2>5. x \in Nat /\ y \in Nat /\ y <= k
    <3>1. x \in 0..k /\ y \in 0..k
      BY <1>6, <2>2, <2>3, <2>4
    <3> QED
      BY <3>1
  <2>6. PICK v : v = Written(pieces[n])
    OBVIOUS
  <2>7. PICK l \in Nat : l = Len(v)
    <3>1. v \in Seq(Symbols)
      BY <1>3, <2>6, WrittenShape DEF Shape
    <3> QED
      BY <3>1
  <2>8. y = x + l /\ Stands(w, v, x, l)
    BY <1>6, <2>3, <2>4, <2>6, <2>7
  <2>9. CountedUpTo(h, q, w, x)
    BY <2>1, <2>3
  <2>10. CountedUpTo(h, q, w, y)
    BY <1>3, <1>7, <2>5, <2>6, <2>7, <2>8, <2>9, CountPiece
  <2> QED
    BY <2>2, <2>4, <2>10
<1> HIDE DEF S
<1>10. 0..m \subseteq S
  BY <1>8, <1>9, InductionUpTo
<1>11. m \in 0..m
  OBVIOUS
<1>12. CountedUpTo(h, q, w, k)
  BY <1>6, <1>10, <1>11 DEF S
<1>13. h[0].text = <<>>
  OBVIOUS
<1>14. h[k].text = w
  BY <1>4, <1>12, <1>13, AllTaken DEF CountedUpTo
<1> QED
  BY <1>12, <1>14 DEF CountedUpTo

\* A text that begins with w of k symbols and the brace that closes it.
Closed(u, w, k) == u[k + 1] = "}" /\ \A i \in 1..k : u[i] = w[i]

(* The count ends at the brace that closes the manifest.                    *)
LEMMA BracesTaken ==
  ASSUME NEW one \in ScriptPart, PlainPart(one), one.kind = "manifest",
         NEW w, w = Manifest(one), NEW k \in Nat, k = Len(w),
         NEW u \in Seq(Symbols), NEW z \in Nat, z = Len(u), k + 1 <= z, Closed(u, w, k)
  PROVE  BracesAfter(u).depth = 0 /\ BracesAfter(u).text = w
<1> DEFINE base == [scan |-> Outside, depth |-> 1, text |-> <<>>]
           step == [i \in 1..z |-> [a \in Counted |-> Brace(a, u[i])]]
<1>1. DOMAIN u = 1..z /\ \A i \in 1..z : u[i] \in Symbols
  OBVIOUS
<1>2. base \in Counted
  BY DEF Counted, Outside, State
<1>3. step \in [1..z -> [Counted -> Counted]]
  <2>1. \A i \in 1..z : \A a \in Counted : Brace(a, u[i]) \in Counted
    BY <1>1, BraceStep
  <2> QED
    BY <2>1
<1>4. \A i \in 1..z : \A a \in Counted : step[i][a] = Brace(a, u[i])
  OBVIOUS
<1> HIDE DEF step
<1>5. Lead(BracesAfter(u), z, Counted, base, step)
  BY <1>1, <1>2, <1>3, <1>4, FoldBrace
<1>6. PICK h \in [0..z -> Counted] : Steps(h, z, base, step) /\ BracesAfter(u) = h[z]
  BY <1>5 DEF Lead
<1>7. \A i \in 1..z : i - 1 \in 0..z
  OBVIOUS
<1>8. h[0] = base /\ \A i \in 1..z : h[i] = Brace(h[i - 1], u[i])
  BY <1>4, <1>6, <1>7 DEF Steps
<1>9. /\ \A i \in 1..k : i \in 1..z
      /\ \A i \in 0..k : i \in 0..z
      /\ k + 1 \in 1..z /\ k + 1 - 1 = k /\ k \in 0..z
  OBVIOUS
<1>10. Counts(h, w, k)
  BY <1>8, <1>9 DEF Counts, Closed
<1>11. h[k].scan = Outside /\ h[k].depth = 1 /\ h[k].text = w
  <2>1. \A i \in 0..k : h[i] \in Counted
    BY <1>6, <1>9
  <2>2. h[0] = [scan |-> Outside, depth |-> 1, text |-> <<>>]
    BY <1>8
  <2> QED
    BY <1>10, <2>1, <2>2, ManifestCounted
<1>12. h[k + 1].depth = 0 /\ h[k + 1].text = w
  <2>1. PICK a : a = h[k]
    OBVIOUS
  <2>2. a \in Counted /\ a.scan = Outside /\ a.depth = 1 /\ a.text = w
    BY <1>6, <1>9, <1>11, <2>1
  <2>3. Quoting(JsonQuote, Outside, "}") = Outside
    <3>1. JsonQuote \in QuoteSets /\ "}" \notin JsonQuote
      BY DEF QuoteSets, HtmlQuote, JsonQuote
    <3>2. Outside \in State /\ ~Outside.skip /\ Outside.quote = ""
      BY DEF Outside, State
    <3> QED
      BY <3>1, <3>2, QuotingStep
  <2>4. Outside.quote = ""
    BY DEF Outside
  <2>5. PICK s : s = Outside
    OBVIOUS
  <2>6. s = Quoting(JsonQuote, a.scan, "}") /\ a.scan.quote = "" /\ s.quote = ""
    BY <2>2, <2>3, <2>4, <2>5
  <2>7. "}" \in Symbols
    BY DEF Symbols
  <2>8. Brace(a, "}") = [scan |-> s, depth |-> 0, text |-> a.text]
    BY <2>2, <2>6, <2>7, BraceStep
  <2>9. h[k + 1] = Brace(a, "}")
    <3>1. u[k + 1] = "}"
      BY DEF Closed
    <3>2. h[k + 1] = Brace(h[k + 1 - 1], u[k + 1])
      BY <1>8, <1>9
    <3> QED
      BY <1>9, <2>1, <3>1, <3>2
  <2>10. h[k + 1] = [scan |-> s, depth |-> 0, text |-> w]
    BY <2>2, <2>8, <2>9
  <2> QED
    BY <2>10
<1> DEFINE T == {a \in Counted : a.depth = 0 /\ a.text = w}
           m == z - (k + 1)
           g == [i \in 0..m |-> h[k + 1 + i]]
<1>13. /\ m \in Nat /\ 0 \in 0..m /\ k + 1 + 0 = k + 1 /\ m \in 0..m /\ k + 1 + m = z /\ k + 1 \in 0..z
       /\ \A i \in 1..m : /\ i \in 0..m /\ i - 1 \in 0..m /\ k + 1 + i \in 1..z /\ k + 1 + i \in 0..z
                          /\ k + 1 + (i - 1) = k + 1 + i - 1
  OBVIOUS
<1>14. g[0] \in T
  BY <1>6, <1>12, <1>13
<1>15. \A i \in 1..m : g[i - 1] \in T => g[i] \in T
  <2> TAKE i \in 1..m
  <2>1. SUFFICES ASSUME g[i - 1] \in T PROVE g[i] \in T
    OBVIOUS
  <2>2. g[i] = h[k + 1 + i] /\ g[i - 1] = h[k + 1 + i - 1]
    BY <1>13
  <2>3. h[k + 1 + i] = Brace(h[k + 1 + i - 1], u[k + 1 + i])
    BY <1>8, <1>13
  <2>4. u[k + 1 + i] \in Symbols
    BY <1>1, <1>13
  <2> HIDE DEF g, m
  <2>5. g[i - 1] \in Counted /\ g[i - 1].depth = 0
    BY <2>1
  <2>6. g[i] = g[i - 1]
    BY <2>2, <2>3, <2>4, <2>5, BraceStep
  <2> QED
    BY <2>1, <2>6
<1> HIDE DEF g, T, m
<1>16. \A i \in 0..m : g[i] \in T
  BY <1>13, <1>14, <1>15, HandedOn
<1>17. g[m] \in T /\ g[m] = h[z]
  BY <1>13, <1>16 DEF g
<1> QED
  BY <1>6, <1>17 DEF T

(* The places after the sign of an assignment.                              *)
LEMMA PlacesAfter ==
  ASSUME NEW x \in Nat, NEW i \in Nat, i > x + 3
  PROVE  i = x + 4 \/ i = x + 5 \/ x + 5 \in (x + 3 + 1)..(i - 1)
OBVIOUS

(* After that sign a brace opens the object.                                *)
LEMMA OpenIs ==
  ASSUME NEW t, NEW z \in Nat, NEW x \in Nat, NEW b, NEW c, b # c, t[x + 4] = b, t[x + 5] = c,
         NEW i \in 1..z
  PROVE  (i > x + 3 /\ t[i] = c /\ \A j \in (x + 3 + 1)..(i - 1) : t[j] = b) <=> i = x + 5
<1>1. i \in Nat
  OBVIOUS
<1>2. i > x + 3 => i = x + 4 \/ i = x + 5 \/ x + 5 \in (x + 3 + 1)..(i - 1)
  BY <1>1, PlacesAfter
<1>3. x + 5 > x + 3 /\ \A j \in (x + 3 + 1)..(x + 5 - 1) : j = x + 4
  OBVIOUS
<1> QED
  BY <1>2, <1>3

(* A manifest is found when no mark stands before it.                       *)
LEMMA ManifestFound ==
  ASSUME NEW one \in ScriptPart, PlainPart(one), one.kind = "manifest",
         NEW w, w = Manifest(one), NEW k \in Nat, k = Len(w), NEW v, Assigns(v, w, k),
         NEW t \in Seq(Symbols), NEW z \in Nat, z = Len(t), NEW x \in Nat, x + k + 6 <= z,
         Stands(t, v, x, k + 6), \A i \in 1..z : t[i] = "marker" => i > x
  PROVE  ExtractBraceBalancedJson(t) = w
<1>1. DOMAIN t = 1..z
  OBVIOUS
<1>2. /\ x + 1 \in 1..z /\ x + 2 \in 1..z /\ x + 3 \in 1..z /\ x + 4 \in 1..z /\ x + 5 \in 1..z
      /\ 1 \in 1..(k + 6) /\ 2 \in 1..(k + 6) /\ 3 \in 1..(k + 6) /\ 4 \in 1..(k + 6)
      /\ 5 \in 1..(k + 6) /\ k + 6 \in 1..(k + 6)
  OBVIOUS
<1>3. /\ t[x + 1] = "marker" /\ t[x + 2] = " " /\ t[x + 3] = "=" /\ t[x + 4] = " "
      /\ t[x + 5] = "{" /\ t[x + (k + 6)] = "}"
  BY <1>2 DEF Stands, Assigns
<1> DEFINE marks == {i \in DOMAIN t : t[i] = "marker"}
           equals == {i \in DOMAIN t : marks # {} /\ i > Min(marks) /\ t[i] = "="}
           opens == {i \in DOMAIN t :
                       /\ equals # {} /\ i > Min(equals) /\ t[i] = "{"
                       /\ \A j \in (Min(equals) + 1)..(i - 1) : t[j] = " "}
           u == SubSeq(t, Min(opens) + 1, Len(t))
           read == BracesAfter(u)
<1>4. ExtractBraceBalancedJson(t) = IF opens = {} \/ read.depth # 0 THEN <<>> ELSE read.text
  BY DEF ExtractBraceBalancedJson
<1>5. marks \in SUBSET Int /\ x + 1 \in marks /\ \A y \in marks : x + 1 <= y
  <2>1. \A y \in 1..z : y > x => x + 1 <= y
    OBVIOUS
  <2>2. \A y \in 1..z : y \in Int
    OBVIOUS
  <2> QED
    BY <1>1, <1>2, <1>3, <2>1, <2>2
<1>6. Min(marks) = x + 1 /\ marks # {}
  BY <1>5, LeastIs
<1> HIDE DEF marks
<1>7. equals \in SUBSET Int /\ x + 3 \in equals /\ \A y \in equals : x + 3 <= y
  <2>1. \A y \in 1..z : y > x + 1 => y = x + 2 \/ x + 3 <= y
    OBVIOUS
  <2>2. x + 3 > x + 1 /\ \A y \in 1..z : y \in Int
    OBVIOUS
  <2> QED
    BY <1>1, <1>2, <1>3, <1>6, <2>1, <2>2
<1>8. Min(equals) = x + 3 /\ equals # {}
  BY <1>7, LeastIs
<1> HIDE DEF equals
<1>9. opens = {x + 5}
  <2>1. PICK m : m = Min(equals)
    OBVIOUS
  <2>2. opens = {i \in 1..z : i > m /\ t[i] = "{" /\ \A j \in (m + 1)..(i - 1) : t[j] = " "}
    BY <1>1, <1>8, <2>1, Zenon
  <2>3. m = x + 3 /\ x + 5 \in 1..z
    BY <1>2, <1>8, <2>1
  <2>4. ASSUME NEW i \in 1..z
        PROVE  (i > x + 3 /\ t[i] = "{" /\ \A j \in (x + 3 + 1)..(i - 1) : t[j] = " ")
               <=> i = x + 5
    <3>1. PICK b : b = " "
      OBVIOUS
    <3>2. PICK c : c = "{"
      OBVIOUS
    <3>3. b # c /\ t[x + 4] = b /\ t[x + 5] = c
      BY <1>3, <3>1, <3>2
    <3>4. (i > x + 3 /\ t[i] = c /\ \A j \in (x + 3 + 1)..(i - 1) : t[j] = b) <=> i = x + 5
      BY <3>3, OpenIs
    <3> QED
      BY <3>1, <3>2, <3>4, Zenon
  <2> QED
    BY <2>2, <2>3, <2>4, Zenon
<1> HIDE DEF opens
<1>10. Min(opens) = x + 5 /\ opens # {}
  <2>1. PICK m \in Int : m = x + 5
    OBVIOUS
  <2>2. opens \in SUBSET Int /\ m \in opens /\ \A y \in opens : m <= y
    BY <1>9, <2>1
  <2>3. Min(opens) = m
    BY <2>2, LeastIs
  <2> QED
    BY <2>1, <2>2, <2>3
<1>11. PICK o \in Nat : o = x + 5
  OBVIOUS
<1>12. u = SubSeq(t, o + 1, z)
  BY <1>10, <1>11
<1> HIDE DEF u
<1>13. o <= z /\ z <= Len(t) /\ z - o \in Nat /\ k + 1 <= z - o
  BY <1>11
<1>14. u \in Seq(Symbols) /\ Onward(u, t, o, z - o)
  BY <1>12, <1>13, CutOut
<1>15. PICK l \in Nat : l = z - o
  BY <1>13
<1>16. l = Len(u) /\ k + 1 <= l /\ \A i \in 1..l : u[i] = t[o + i]
  BY <1>13, <1>14, <1>15 DEF Onward
<1>17. \A i \in 1..k : u[i] = w[i]
  <2>1. \A i \in 1..k : i \in 1..l /\ 5 + i \in 1..(k + 6) /\ o + i = x + (5 + i)
    BY <1>11, <1>16
  <2>2. \A i \in 1..k : v[5 + i] = w[i]
    BY DEF Assigns, Stands
  <2>3. \A i \in 1..k : t[x + (5 + i)] = v[5 + i]
    BY <2>1 DEF Stands
  <2> QED
    BY <1>16, <2>1, <2>2, <2>3
<1>18. u[k + 1] = "}"
  <2>1. k + 1 \in 1..l /\ o + (k + 1) = x + (k + 6)
    BY <1>11, <1>16
  <2> QED
    BY <1>3, <1>16, <2>1
<1>20. Closed(u, w, k)
  BY <1>17, <1>18 DEF Closed
<1>19. read.depth = 0 /\ read.text = w
  BY <1>14, <1>16, <1>20, BracesTaken
<1> HIDE DEF read
<1> QED
  BY <1>4, <1>10, <1>19

(* A symbol on a page, other than a script's own tags, is mentioned by the  *)
(* part it stands in.                                                       *)
LEMMA MentionedAt ==
  ASSUME NEW t, NEW one \in PageParts, NEW a \in Nat, NEW b \in Nat,
         one \in TagPart => TagAt(t, one, a, b - a),
         one \in ScriptPart => ScriptAt(t, one, a, b - a),
         NEW i \in Nat, a < i, i <= b, t[i] # "<script>", t[i] # "</script>"
  PROVE  Mentions(one, t[i])
<1>1. CASE one \in TagPart
  <2>1. b - a = 1 /\ t[a + 1] = one.tag
    BY <1>1 DEF TagAt
  <2>2. i = a + 1
    BY <2>1
  <2>3. one.kind = "tag"
    BY <1>1 DEF TagPart
  <2> QED
    BY <2>1, <2>2, <2>3 DEF Mentions
<1>2. CASE one \in ScriptPart
  <2>1. PICK w : w = ScriptBody(one)
    OBVIOUS
  <2>2. w \in Seq(Symbols)
    BY <1>2, <2>1, BodyShape
  <2>3. PICK k \in Nat : k = Len(w)
    BY <2>2
  <2>4. b - a = k + 2
    BY <1>2, <2>1, <2>3 DEF ScriptAt
  <2>5. /\ t[a + 1] = "<script>" /\ t[a + (b - a)] = "</script>" /\ a + (b - a) = b
        /\ b - a - 2 = k
    BY <1>2, <2>4 DEF ScriptAt
  <2>6. Stands(t, w, a + 1, k)
    BY <1>2, <2>1, <2>5 DEF ScriptAt
  <2>7. i # a + 1 /\ i # b
    BY <2>5
  <2>8. i - (a + 1) \in 1..k /\ a + 1 + (i - (a + 1)) = i
    BY <2>4, <2>7
  <2>9. t[i] = w[i - (a + 1)]
    BY <2>6, <2>8 DEF Stands
  <2>10. t[i] \in ToSet(w)
    BY <2>2, <2>3, <2>8, <2>9, ElementsOf
  <2>11. one.kind # "tag"
    BY <1>2 DEF ScriptPart
  <2> QED
    BY <2>1, <2>10, <2>11 DEF Mentions
<1> QED
  BY <1>1, <1>2 DEF PageParts

\* A symbol stands between two places.
OnPage(t, a, b, s) == \E i \in (a + 1)..b : t[i] = s

(* What a part mentions stands on the page.                                 *)
LEMMA MentionedStands ==
  ASSUME NEW t, NEW one \in PageParts, NEW a \in Nat, NEW b \in Nat, a < b,
         one \in TagPart => TagAt(t, one, a, b - a),
         one \in ScriptPart => ScriptAt(t, one, a, b - a), NEW s, Mentions(one, s)
  PROVE  OnPage(t, a, b, s)
<1>1. CASE one \in TagPart
  <2>1. b - a = 1 /\ t[a + 1] = one.tag
    BY <1>1 DEF TagAt
  <2>2. one.kind = "tag"
    BY <1>1 DEF TagPart
  <2>3. one.tag = s
    BY <2>2 DEF Mentions
  <2>4. a + 1 \in (a + 1)..b
    OBVIOUS
  <2> QED
    BY <2>1, <2>3, <2>4 DEF OnPage
<1>2. CASE one \in ScriptPart
  <2>1. PICK w : w = ScriptBody(one)
    OBVIOUS
  <2>2. w \in Seq(Symbols)
    BY <1>2, <2>1, BodyShape
  <2>3. PICK k \in Nat : k = Len(w)
    BY <2>2
  <2>4. b - a = k + 2 /\ b - a - 2 = k
    BY <1>2, <2>1, <2>3 DEF ScriptAt
  <2>5. Stands(t, w, a + 1, k)
    BY <1>2, <2>1, <2>4 DEF ScriptAt
  <2>6. s \in ToSet(w)
    BY <1>2, <2>1 DEF Mentions, ScriptPart
  <2>7. PICK j \in 1..k : w[j] = s
    BY <2>2, <2>3, <2>6, ElementsOf
  <2>8. a + 1 + j \in (a + 1)..b
    BY <2>4
  <2> QED
    BY <2>5, <2>7, <2>8 DEF Stands, OnPage
<1> QED
  BY <1>1, <1>2 DEF PageParts

(* The paths of the one manifest are found, under the origin of the page.   *)
LEMMA PathsFound ==
  ASSUME NEW p \in Seq(PageParts), NEW n \in 1..Len(p), PlainPart(p[n]), p[n].kind = "manifest",
         \A m \in 1..Len(p) : m # n => ~Mentions(p[m], "marker")
  PROVE  /\ ExtractBraceBalancedJson(Html(p)) = Manifest(p[n])
         /\ "cdn" \in ToSet(Html(p)) <=> \E m \in 1..Len(p) : Mentions(p[m], "cdn")
<1>1. PICK k \in Nat : k = Len(p)
  OBVIOUS
<1>2. PICK t : t = Html(p)
  OBVIOUS
<1>3. t \in Seq(Symbols)
  BY <1>2, PartPlaces
<1>4. PICK z \in Nat : z = Len(t)
  BY <1>3
<1>5. PICK e : PartsAt(e, p, t)
  BY <1>2, PartPlaces
<1>6. /\ e \in [0..k -> 0..z]
      /\ \A m \in 1..k :
           /\ e[m - 1] < e[m]
           /\ p[m] \in TagPart => TagAt(t, p[m], e[m - 1], e[m] - e[m - 1])
           /\ p[m] \in ScriptPart => ScriptAt(t, p[m], e[m - 1], e[m] - e[m - 1])
      /\ \A i \in 1..z : \E m \in 1..k : e[m - 1] < i /\ i <= e[m]
  BY <1>1, <1>4, <1>5, Zenon DEF PartsAt
<1>7. \A m \in 1..k : p[m] \in PageParts
  BY <1>1
<1>8. \A m \in 1..k : e[m - 1] \in Nat /\ e[m] \in Nat /\ e[m - 1] \in 0..z /\ e[m] \in 0..z
  <2>1. \A m \in 1..k : m \in 0..k /\ m - 1 \in 0..k
    OBVIOUS
  <2>2. \A i \in 0..z : i \in Nat
    OBVIOUS
  <2> QED
    BY <1>6, <2>1, <2>2
<1>9. ASSUME NEW i \in 1..z, t[i] # "<script>", t[i] # "</script>"
      PROVE  \E m \in 1..k : e[m - 1] < i /\ i <= e[m] /\ Mentions(p[m], t[i])
  <2>1. PICK m \in 1..k : e[m - 1] < i /\ i <= e[m]
    BY <1>6
  <2>2. i \in Nat
    OBVIOUS
  <2>3. Mentions(p[m], t[i])
    BY <1>6, <1>7, <1>8, <1>9, <2>1, <2>2, MentionedAt
  <2> QED
    BY <2>1, <2>3
<1>10. ASSUME NEW m \in 1..k, Mentions(p[m], "cdn") PROVE \E i \in 1..z : t[i] = "cdn"
  <2>1. PICK a \in Nat : a = e[m - 1] /\ a \in 0..z
    BY <1>8
  <2>2. PICK b \in Nat : b = e[m] /\ b \in 0..z
    BY <1>8
  <2>3. a < b
    BY <1>6, <2>1, <2>2
  <2>4. /\ p[m] \in TagPart => TagAt(t, p[m], a, b - a)
        /\ p[m] \in ScriptPart => ScriptAt(t, p[m], a, b - a)
    BY <1>6, <2>1, <2>2
  <2>7. OnPage(t, a, b, "cdn")
    BY <1>7, <1>10, <2>3, <2>4, MentionedStands
  <2>5. PICK i \in (a + 1)..b : t[i] = "cdn"
    BY <2>7 DEF OnPage
  <2>6. i \in 1..z
    BY <2>1, <2>2
  <2> QED
    BY <2>5, <2>6
<1>11. ToSet(t) = {t[i] : i \in 1..z}
  BY <1>3, <1>4, ElementsOf
<1>12. "cdn" \in ToSet(t) <=> \E m \in 1..k : Mentions(p[m], "cdn")
  BY <1>9, <1>10, <1>11
<1>13. p[n] \in ScriptPart /\ p[n] \notin TagPart /\ n \in 1..k
  BY <1>1, <1>7 DEF PageParts, TagPart
<1>14. PICK w : w = Manifest(p[n])
  OBVIOUS
<1>15. PICK v : v = ScriptBody(p[n])
  OBVIOUS
<1>16. w \in Seq(Symbols) /\ v \in Seq(Symbols) /\ Len(v) = Len(w) + 6 /\ Assigns(v, w, Len(w))
  BY <1>13, <1>14, <1>15, BodyShape
<1>17. PICK l \in Nat : l = Len(w)
  BY <1>16
<1>18. PICK a \in Nat : a = e[n - 1]
  BY <1>8, <1>13
<1>19. PICK b \in Nat : b = e[n]
  BY <1>8, <1>13
<1>20. ScriptAt(t, p[n], a, b - a) /\ b <= z
  <2>1. ScriptAt(t, p[n], e[n - 1], e[n] - e[n - 1])
    BY <1>6, <1>13
  <2>2. e[n] \in 0..z
    BY <1>8, <1>13
  <2>3. b \in 0..z
    BY <1>19, <2>2
  <2>4. ScriptAt(t, p[n], a, b - a)
    BY <1>18, <1>19, <2>1
  <2> QED
    BY <2>3, <2>4
<1>21. b - a = l + 6 + 2
  BY <1>15, <1>16, <1>17, <1>20 DEF ScriptAt
<1>22. PICK x \in Nat : x = a + 1
  OBVIOUS
<1>23. b - a - 2 = l + 6 /\ x + l + 6 <= z
  BY <1>20, <1>21, <1>22
<1>24. t[x] = "<script>" /\ Stands(t, v, x, l + 6)
  BY <1>15, <1>20, <1>22, <1>23 DEF ScriptAt
<1>25. ASSUME NEW i \in 1..z, t[i] = "marker" PROVE i > x
  <2>1. PICK m \in 1..k : e[m - 1] < i /\ i <= e[m] /\ Mentions(p[m], t[i])
    BY <1>9, <1>25
  <2>2. m = n
    BY <1>1, <1>25, <2>1
  <2>3. a < i /\ i # x
    BY <1>18, <1>24, <1>25, <2>1, <2>2
  <2> QED
    BY <1>22, <2>3
<1>26. ExtractBraceBalancedJson(t) = w
  <2>1. Assigns(v, w, l)
    BY <1>16, <1>17
  <2>2. x + l + 6 <= z
    BY <1>23
  <2>3. Stands(t, v, x, l + 6)
    BY <1>24
  <2>4. \A i \in 1..z : t[i] = "marker" => i > x
    BY <1>25
  <2>5. PICK one \in ScriptPart : one = p[n]
    BY <1>13
  <2>6. PlainPart(one) /\ one.kind = "manifest" /\ w = Manifest(one)
    BY <1>14, <2>5
  <2> QED
    BY <1>3, <1>4, <1>17, <2>1, <2>2, <2>3, <2>4, <2>6, ManifestFound
<1> QED
  BY <1>1, <1>2, <1>12, <1>14, <1>26

\* What a page's inline scripts and its paths should be.
InlineWhole(p, inline) ==
  LET bodies == Bodies(p)
      solid == {n \in DOMAIN bodies : bodies[n] # <<>>}
  IN  /\ ToSet(inline) = {[index |-> n - 1, content |-> bodies[n]] : n \in solid}
      /\ \A i, j \in DOMAIN inline : i < j => inline[i].index < inline[j].index

(* Inline scripts are cut out whole, in order and with their places.        *)
LEMMA InlineIs ==
  ASSUME NEW p \in Seq(PageParts), \A n \in 1..Len(p) : PlainPart(p[n]),
         NEW inline, inline = InlineScripts(Html(p))
  PROVE  InlineWhole(p, inline)
<1>1. PICK bodies : bodies = Bodies(p)
  OBVIOUS
<1>2. bodies \in Seq(Seq(Symbols)) /\ inline = KeptBodies(bodies)
  BY <1>1, ScriptsExtracted DEF InlineScripts
<1>3. PICK k \in Nat : k = Len(bodies)
  BY <1>2
<1>4. KeptUpTo(inline, bodies, k)
  BY <1>2, <1>3, BodiesKept
<1>5. DOMAIN bodies = 1..k
  BY <1>2, <1>3
<1>6. /\ inline \in Seq(Inline)
      /\ ToSet(inline) = {KeptOf(bodies, n) : n \in {j \in 1..k : bodies[j] # <<>>}}
      /\ \A i, j \in 1..Len(inline) : i < j => inline[i].index < inline[j].index
  BY <1>4 DEF KeptUpTo
<1>7. DOMAIN inline = 1..Len(inline)
  BY <1>6
<1> QED
  BY <1>1, <1>5, <1>6, <1>7, Zenon DEF KeptOf, InlineWhole

\* The origin a page names, its one manifest, and the paths written in it.
BaseOf(p) == IF \E n \in DOMAIN p : Mentions(p[n], "cdn") THEN "cdn" ELSE ""
OneManifest(p, n) ==
  /\ p[n].kind = "manifest"
  /\ \A m \in DOMAIN p \ {n} : ~Mentions(p[m], "marker")
PathsOf(p, n) == {<<BaseOf(p), t>> : t \in ToSet(Manifest(p[n])) \cap Path}
ToldOf(p, n) == IF Manifest(p[n]) = <<>> THEN {} ELSE {BaseOf(p)} \ {""}

(* The paths of the one manifest of a page are all found, under the origin  *)
(* the page names, and it is told.                                          *)
LEMMA PathsAre ==
  ASSUME NEW p \in Seq(PageParts), NEW n \in DOMAIN p, PlainPart(p[n]), OneManifest(p, n)
  PROVE  JsPaths(Html(p)) = PathsOf(p, n) /\ PrependUrls(Html(p)) = ToldOf(p, n)
<1>1. DOMAIN p = 1..Len(p)
  OBVIOUS
<1>2. n \in 1..Len(p)
  BY <1>1
<1>3. p[n].kind = "manifest"
  BY DEF OneManifest
<1>4. \A m \in 1..Len(p) : m # n => ~Mentions(p[m], "marker")
  BY <1>1 DEF OneManifest
<1>5. /\ ExtractBraceBalancedJson(Html(p)) = Manifest(p[n])
      /\ "cdn" \in ToSet(Html(p)) <=> \E m \in 1..Len(p) : Mentions(p[m], "cdn")
  BY <1>2, <1>3, <1>4, PathsFound
<1>6. ExtractCdnBase(Html(p)) = BaseOf(p)
  BY <1>1, <1>5 DEF ExtractCdnBase, BaseOf
<1> QED
  BY <1>5, <1>6, Zenon DEF JsPaths, PathsOf, PrependUrls, ToldOf

-----------------------------------------------------------------------------
\* What is cut out of a page is what the plugins find in its text.
EmbeddedInv ==
  /\ part = "embedded" => page \in Page
  /\ cut # NotYet =>
       page \in Page
       /\ cut = [inline |-> InlineScripts(Html(page)), paths |-> JsPaths(Html(page)),
                 prepend |-> PrependUrls(Html(page))]

(* No page is cut at first.                                                 *)
LEMMA EmbeddedStarts == Init => EmbeddedInv
  BY DEF Init, Idle, EmbeddedInit, EmbeddedInv

(* A page is cut once, and stays as it is.                                  *)
LEMMA EmbeddedStep == EmbeddedInv /\ [Next]_vars => EmbeddedInv'
<1> SUFFICES ASSUME EmbeddedInv, [Next]_vars PROVE EmbeddedInv'
  OBVIOUS
<1>1. CASE part = "embedded" /\ Extract /\ UNCHANGED part
  <2>1. page' = page /\ page \in Page
        /\ cut' = [inline |-> InlineScripts(Html(page)), paths |-> JsPaths(Html(page)),
                   prepend |-> PrependUrls(Html(page))]
    BY <1>1 DEF EmbeddedInv, Extract
  <2> QED
    BY <2>1, Zenon DEF EmbeddedInv
<1>2. CASE UNCHANGED <<part, embeddedVars>>
  <2>1. part' = part /\ page' = page /\ cut' = cut
    BY <1>2 DEF embeddedVars
  <2> QED
    BY <2>1, Zenon DEF EmbeddedInv
<1> QED
  BY <1>1, <1>2 DEF Next, vars

WholePage(p, inline, paths, told_) ==
  /\ InlineWhole(p, inline)
  /\ \A n \in DOMAIN p : OneManifest(p, n) => paths = PathsOf(p, n) /\ told_ = ToldOf(p, n)

(* What a page embeds is cut out whole - its inline scripts in order with   *)
(* their places, every path of its one manifest, and the origin they are    *)
(* under - though strings and comments hold closing tags, braces and        *)
(* quotes: for any pages.                                                   *)
THEOREM PagesCutWhole == Spec => []EmbeddedWhole
<1>1. EmbeddedInv => EmbeddedWhole
  <2> SUFFICES ASSUME EmbeddedInv, cut # NotYet, \A n \in DOMAIN page : PlainPart(page[n])
               PROVE  WholePage(page, cut.inline, cut.paths, cut.prepend)
    BY Zenon DEF EmbeddedWhole, WholePage, InlineWhole, OneManifest, PathsOf, ToldOf, BaseOf
  <2>1. PICK p : p = page
    OBVIOUS
  <2>2. PICK inline : inline = InlineScripts(Html(p))
    OBVIOUS
  <2>3. PICK paths : paths = JsPaths(Html(p))
    OBVIOUS
  <2>a. PICK told_ : told_ = PrependUrls(Html(p))
    OBVIOUS
  <2>4. p \in Page /\ cut = [inline |-> inline, paths |-> paths, prepend |-> told_]
    BY <2>1, <2>2, <2>3, <2>a DEF EmbeddedInv
  <2>5. cut.inline = inline /\ cut.paths = paths /\ cut.prepend = told_
    BY <2>4
  <2>6. p \in Seq(PageParts)
    BY <2>4, EmbeddedAssumption DEF EmbeddedAssumption, PageParts
  <2>7. DOMAIN p = 1..Len(p)
    BY <2>6
  <2>8. \A n \in 1..Len(p) : PlainPart(p[n])
    BY <2>1, <2>7
  <2>9. WholePage(p, inline, paths, told_)
    <3>1. InlineWhole(p, inline)
      BY <2>2, <2>6, <2>8, InlineIs
    <3>2. ASSUME NEW n \in DOMAIN p, OneManifest(p, n)
          PROVE  paths = PathsOf(p, n) /\ told_ = ToldOf(p, n)
      <4>1. PlainPart(p[n])
        BY <2>7, <2>8
      <4> QED
        BY <2>3, <2>a, <2>6, <3>2, <4>1, PathsAre
    <3>3. \A n \in DOMAIN p : OneManifest(p, n) => paths = PathsOf(p, n) /\ told_ = ToldOf(p, n)
      BY <3>2
    <3> QED
      BY <3>1, <3>3, Zenon DEF WholePage
  <2> QED
    BY <2>1, <2>5, <2>9, Zenon
<1> QED
  BY <1>1, EmbeddedStarts, EmbeddedStep, PTL DEF Spec

-----------------------------------------------------------------------------
(* Reading mappings back.                                                  *)

(* Powers of thirty-two.                                                    *)
LEMMA Powers ==
  /\ 2^(5 * 1) = 32 /\ 2^(5 * 2) = 1024 /\ 2^(5 * 3) = 32768 /\ 2^(5 * 4) = 1048576
  /\ 2^(5 * 5) = 33554432 /\ 2^(5 * 6) = 1073741824
  /\ 2^(5 * (1 - 1)) = 1 /\ 2^(5 * (2 - 1)) = 32 /\ 2^(5 * (3 - 1)) = 1024
  /\ 2^(5 * (4 - 1)) = 32768 /\ 2^(5 * (5 - 1)) = 1048576 /\ 2^(5 * (6 - 1)) = 33554432
  /\ 2^(5 * (7 - 1)) = 1073741824
  BY SMT

(* Doubling and halving.                                                    *)
LEMMA Doubled ==
  ASSUME NEW m \in Nat
  PROVE  /\ (2 * m) % 2 = 0 /\ (2 * m) \div 2 = m
         /\ (2 * m + 1) % 2 = 1 /\ (2 * m + 1) \div 2 = m
  OBVIOUS

(* The number a value is written as, and what it is read as.                *)
LEMMA SignedLastIs ==
  ASSUME NEW v \in Delta
  PROVE  /\ SignedLast(v) \in Nat /\ SignedLast(v) < 2147483648
         /\ v = IF SignedLast(v) % 2 = 1 THEN -(SignedLast(v) \div 2) ELSE SignedLast(v) \div 2
<1>0. MaxDelta \in Nat /\ MaxDelta = 1073741823
  BY SMT DEF MaxDelta
<1>4. MaxDelta \in Nat
  BY SMT DEF MaxDelta
<1>5. v \in Int /\ -MaxDelta <= v /\ v <= MaxDelta
  BY <1>4, SMT DEF Delta
<1>1. v \in Int /\ -1073741823 <= v /\ v <= 1073741823
  BY <1>0, <1>5, SMT
<1>2. CASE v < 0
  <2>1. -v \in Nat /\ SignedLast(v) = 2 * (-v) + 1
    BY <1>1, <1>2, SMT DEF SignedLast
  <2>2. SignedLast(v) % 2 = 1 /\ SignedLast(v) \div 2 = -v
    BY <2>1, Doubled, SMT
  <2> QED
    BY <1>1, <2>1, <2>2, SMT
<1>3. CASE ~(v < 0)
  <2>1. v \in Nat /\ SignedLast(v) = 2 * v
    BY <1>1, <1>3, SMT DEF SignedLast
  <2>2. SignedLast(v) % 2 = 0 /\ SignedLast(v) \div 2 = v
    BY <2>1, Doubled, SMT
  <2> QED
    BY <1>1, <2>1, <2>2, SMT
<1> QED
  BY <1>2, <1>3, SMT

\* A number halved again and again.
Halves(h, n) == h \in [0..31 -> Nat] /\ h[0] = n /\ \A j \in 1..31 : h[j] = h[j - 1] \div 2

(* Any number can be halved that often.                                     *)
LEMMA HalvesExist ==
  ASSUME NEW n \in Nat
  PROVE  \E h : Halves(h, n)
<1> DEFINE step == [j \in 1..31 |-> [a \in Nat |-> a \div 2]]
<1>1. step \in [1..31 -> [Nat -> Nat]] /\ \A j \in 1..31 : \A a \in Nat : step[j][a] = a \div 2
  OBVIOUS
<1>2. 31 \in Nat
  OBVIOUS
<1> HIDE DEF step
<1>3. PICK h \in [0..31 -> Nat] : Steps(h, 31, n, step)
  BY <1>1, <1>2, StepwiseFunction
<1>4. h[0] = n /\ \A j \in 1..31 : h[j] = step[j][h[j - 1]]
  BY <1>3 DEF Steps
<1>5. \A j \in 1..31 : h[j - 1] \in Nat
  OBVIOUS
<1>6. Halves(h, n)
  BY <1>1, <1>3, <1>4, <1>5 DEF Halves
<1> QED
  BY <1>6

\* Five bits of a number, from bit i on.
Five(h, i, x) == \A b \in 0..4 : ((x \div 2^b) % 2 = 1) <=> (h[i + b] % 2 = 1)

\* Each the half of the one before.
Halved(a0, a1, a2, a3, a4, a5) ==
  /\ {a0, a1, a2, a3, a4, a5} \subseteq Nat
  /\ a1 = a0 \div 2 /\ a2 = a1 \div 2 /\ a3 = a2 \div 2 /\ a4 = a3 \div 2 /\ a5 = a4 \div 2

\* The bits of a digit x.
Bit(x, a0, a1, a2, a3, a4) ==
  /\ (x \div 1) % 2 = a0 % 2 /\ (x \div 2) % 2 = a1 % 2 /\ (x \div 4) % 2 = a2 % 2
  /\ (x \div 8) % 2 = a3 % 2 /\ (x \div 16) % 2 = a4 % 2

(* Halving five times divides by thirty-two, and the rest is the five bits  *)
(* halved away.                                                             *)
LEMMA FiveBits ==
  ASSUME NEW a0, NEW a1, NEW a2, NEW a3, NEW a4, NEW a5, Halved(a0, a1, a2, a3, a4, a5),
         NEW more \in {0, 32}
  PROVE  a5 = a0 \div 32 /\ Bit((a0 % 32) + more, a0, a1, a2, a3, a4)
  BY SMT DEF Bit, Halved

(* The bits of a digit are those of the number it stands in.                *)
LEMMA DigitBits ==
  ASSUME NEW n, NEW h, Halves(h, n), NEW i \in 0..26, NEW more \in {0, 32}
  PROVE  Five(h, i, (h[i] % 32) + more) /\ h[i + 5] = h[i] \div 32
<1>1. /\ h[i] \in Nat /\ h[i + 1] \in Nat /\ h[i + 2] \in Nat /\ h[i + 3] \in Nat
      /\ h[i + 4] \in Nat /\ h[i + 5] \in Nat
  BY DEF Halves
<1>2. /\ h[i + 1] = h[i] \div 2 /\ h[i + 2] = h[i + 1] \div 2 /\ h[i + 3] = h[i + 2] \div 2
      /\ h[i + 4] = h[i + 3] \div 2 /\ h[i + 5] = h[i + 4] \div 2
  <2>1. /\ \A j \in 1..31 : h[j] = h[j - 1] \div 2
        /\ \A c \in 1..5 : i + c \in 1..31 /\ i + c - 1 = i + (c - 1)
        /\ i + 0 = i
    BY DEF Halves
  <2> QED
    BY <2>1
<1>3. h[i + 5] = h[i] \div 32
      /\ Bit((h[i] % 32) + more, h[i], h[i + 1], h[i + 2], h[i + 3], h[i + 4])
  <2>1. Halved(h[i], h[i + 1], h[i + 2], h[i + 3], h[i + 4], h[i + 5])
    BY <1>1, <1>2, Zenon DEF Halved
  <2> QED
    BY <2>1, FiveBits, Zenon
<1> DEFINE x == (h[i] % 32) + more
<1>6. /\ (x \div 1) % 2 = h[i] % 2 /\ (x \div 2) % 2 = h[i + 1] % 2 /\ (x \div 4) % 2 = h[i + 2] % 2
      /\ (x \div 8) % 2 = h[i + 3] % 2 /\ (x \div 16) % 2 = h[i + 4] % 2
  BY <1>3, Zenon DEF Bit
<1>4. 2^0 = 1 /\ 2^1 = 2 /\ 2^2 = 4 /\ 2^3 = 8 /\ 2^4 = 16 /\ i + 0 = i
  OBVIOUS
<1> HIDE DEF x
<1>5. Five(h, i, x)
  <2> SUFFICES ASSUME NEW b \in 0..4 PROVE (x \div 2^b) % 2 = h[i + b] % 2
    BY DEF Five
  <2>1. b = 0 \/ b = 1 \/ b = 2 \/ b = 3 \/ b = 4
    OBVIOUS
  <2> QED
    BY <1>6, <1>4, <2>1, Zenon
<1> QED
  BY <1>3, <1>5 DEF x

(* The number divided by powers of thirty-two.                              *)
LEMMA Divided ==
  ASSUME NEW n \in Nat
  PROVE  /\ (n \div 32) \div 32 = n \div 1024
         /\ (n \div 1024) \div 32 = n \div 32768
         /\ (n \div 32768) \div 32 = n \div 1048576
         /\ (n \div 1048576) \div 32 = n \div 33554432
         /\ (n \div 33554432) \div 32 = n \div 1073741824
         /\ n \div 1 = n
<1>1. (n \div 32) \div 32 = n \div 1024
  BY SMT
<1>2. (n \div 1024) \div 32 = n \div 32768
  BY SMT
<1>3. (n \div 32768) \div 32 = n \div 1048576
  BY SMT
<1>4. (n \div 1048576) \div 32 = n \div 33554432
  BY SMT
<1>5. (n \div 33554432) \div 32 = n \div 1073741824
  BY SMT
<1>6. n \div 1 = n
  BY SMT
<1> QED
  BY <1>1, <1>2, <1>3, <1>4, <1>5, <1>6, SMT

(* The groups of five bits of a number start every five halves.             *)
LEMMA GroupsAre ==
  ASSUME NEW n \in Nat, NEW h, Halves(h, n)
  PROVE  /\ h[0] = n /\ h[5] = n \div 32 /\ h[10] = n \div 1024 /\ h[15] = n \div 32768
         /\ h[20] = n \div 1048576 /\ h[25] = n \div 33554432 /\ h[30] = n \div 1073741824
         /\ h[31] = h[30] \div 2
<1>1. \A i \in 0..26 : h[i + 5] = h[i] \div 32
  <2> TAKE i \in 0..26
  <2>1. 0 \in {0, 32}
    OBVIOUS
  <2> QED
    BY <2>1, DigitBits, Zenon
<1>2. h[5] = h[0] \div 32 /\ h[10] = h[5] \div 32 /\ h[15] = h[10] \div 32
  BY <1>1
<1>3. h[20] = h[15] \div 32 /\ h[25] = h[20] \div 32 /\ h[30] = h[25] \div 32
  BY <1>1
<1>4. h[0] = n /\ h[31] = h[30] \div 2
  BY DEF Halves
<1>5. h[5] = n \div 32
  BY <1>2, <1>4
<1>6. h[10] = n \div 1024
  BY <1>2, <1>5, Divided, SMT
<1>7. h[15] = n \div 32768
  BY <1>2, <1>6, Divided, SMT
<1>8. h[20] = n \div 1048576
  BY <1>3, <1>7, Divided, SMT
<1>9. h[25] = n \div 33554432
  BY <1>3, <1>8, Divided, SMT
<1>10. h[30] = n \div 1073741824
  BY <1>3, <1>9, Divided, SMT
<1> QED
  BY <1>4, <1>5, <1>6, <1>7, <1>8, <1>9, <1>10, SMT

(* The numbers up to six of a set that has all below each of its own.       *)
LEMMA Initial ==
  ASSUME NEW B \in SUBSET (1..6), \A k \in 2..6 : k \in B => k - 1 \in B
  PROVE  \E m \in 0..6 : B = 1..m /\ Cardinality(B) = m
<1>1. /\ 6 \in B => 5 \in B
      /\ 5 \in B => 4 \in B
      /\ 4 \in B => 3 \in B
      /\ 3 \in B => 2 \in B
      /\ 2 \in B => 1 \in B
  BY 6 - 1 = 5, 5 - 1 = 4, 4 - 1 = 3, 3 - 1 = 2, 2 - 1 = 1
<1>2. \E m \in 0..6 : \A k \in 1..6 : k \in B <=> k <= m
  <2>1. \A k \in 1..6 : k = 1 \/ k = 2 \/ k = 3 \/ k = 4 \/ k = 5 \/ k = 6
    OBVIOUS
  <2>2. CASE 6 \in B
    BY <1>1, <2>1, <2>2
  <2>3. CASE 6 \notin B /\ 5 \in B
    BY <1>1, <2>1, <2>3
  <2>4. CASE 5 \notin B /\ 4 \in B
    BY <1>1, <2>1, <2>4
  <2>5. CASE 4 \notin B /\ 3 \in B
    BY <1>1, <2>1, <2>5
  <2>6. CASE 3 \notin B /\ 2 \in B
    BY <1>1, <2>1, <2>6
  <2>7. CASE 2 \notin B /\ 1 \in B
    BY <1>1, <2>1, <2>7
  <2>8. CASE 1 \notin B
    BY <1>1, <2>1, <2>8
  <2> QED
    BY <1>1, <2>2, <2>3, <2>4, <2>5, <2>6, <2>7, <2>8
<1>3. PICK m \in 0..6 : \A k \in 1..6 : k \in B <=> k <= m
  BY <1>2
<1>4. B = 1..m
  <2>1. \A k \in 1..m : k \in 1..6 /\ k <= m
    OBVIOUS
  <2>2. \A k \in 1..6 : k <= m => k \in 1..m
    OBVIOUS
  <2> QED
    BY <1>3, <2>1, <2>2
<1>5. Cardinality(1..m) = m
  <2>1. 1 \in Int /\ m \in Int /\ 1 <= m + 1
    OBVIOUS
  <2>2. Cardinality(1..m) = IF 1 > m THEN 0 ELSE m - 1 + 1
    BY <2>1, FS_Interval
  <2> QED
    BY <2>2
<1> QED
  BY <1>4, <1>5

\* A number below 2^31 is written as last + 1 digits, of which the last is not marked.
DigitsOf(d, h, last) ==
  /\ last \in 0..6 /\ DOMAIN d = 1..(last + 1)
  /\ \A k \in 1..(last + 1) : d[k] = (h[5 * (k - 1)] % 32) + (IF k <= last THEN 32 ELSE 0)
  /\ \A j \in 0..31 : j >= 5 * (last + 1) => h[j] = 0
  /\ h[31] = 0

(* The powers of thirty-two that are at most a number, and dividing by one. *)
LEMMA PowersBelow ==
  ASSUME NEW n \in Nat, NEW h, Halves(h, n)
  PROVE  /\ \A k \in 1..6 : n >= 2^(5 * k) <=> h[5 * k] >= 1
         /\ \A k \in 1..7 : n \div 2^(5 * (k - 1)) = h[5 * (k - 1)]
<1>1. /\ 2^(5 * 1) = 32 /\ 2^(5 * 2) = 1024 /\ 2^(5 * 3) = 32768 /\ 2^(5 * 4) = 1048576
      /\ 2^(5 * 5) = 33554432 /\ 2^(5 * 6) = 1073741824
  BY SMT
<1>2. /\ n >= 32 <=> (n \div 32) >= 1
      /\ n >= 1024 <=> (n \div 1024) >= 1
      /\ n >= 32768 <=> (n \div 32768) >= 1
      /\ n >= 1048576 <=> (n \div 1048576) >= 1
      /\ n >= 33554432 <=> (n \div 33554432) >= 1
      /\ n >= 1073741824 <=> (n \div 1073741824) >= 1
  BY SMT
<1>3. /\ h[0] = n /\ h[5] = n \div 32 /\ h[10] = n \div 1024 /\ h[15] = n \div 32768
      /\ h[20] = n \div 1048576 /\ h[25] = n \div 33554432 /\ h[30] = n \div 1073741824
  BY GroupsAre
<1>4. ASSUME NEW k \in 1..6 PROVE n >= 2^(5 * k) <=> h[5 * k] >= 1
  <2>1. CASE k = 1
    BY <1>1, <1>2, <1>3, <2>1, 5 * 1 = 5, SMT
  <2>2. CASE k = 2
    BY <1>1, <1>2, <1>3, <2>2, 5 * 2 = 10, SMT
  <2>3. CASE k = 3
    BY <1>1, <1>2, <1>3, <2>3, 5 * 3 = 15, SMT
  <2>4. CASE k = 4
    BY <1>1, <1>2, <1>3, <2>4, 5 * 4 = 20, SMT
  <2>5. CASE k = 5
    BY <1>1, <1>2, <1>3, <2>5, 5 * 5 = 25, SMT
  <2>6. CASE k = 6
    BY <1>1, <1>2, <1>3, <2>6, 5 * 6 = 30, SMT
  <2> QED
    BY <2>1, <2>2, <2>3, <2>4, <2>5, <2>6, SMT
<1>5. ASSUME NEW k \in 1..7 PROVE n \div 2^(5 * (k - 1)) = h[5 * (k - 1)]
  <2>1. CASE k = 1
    <3>1. 5 * (1 - 1) = 0 /\ 2^0 = 1 /\ n \div 1 = n
      BY SMT
    <3> QED
      BY <1>3, <2>1, <3>1, SMT
  <2>2. CASE k = 2
    BY <1>1, <1>3, <2>2, 5 * (2 - 1) = 5 * 1, 5 * 1 = 5, SMT
  <2>3. CASE k = 3
    BY <1>1, <1>3, <2>3, 5 * (3 - 1) = 5 * 2, 5 * 2 = 10, SMT
  <2>4. CASE k = 4
    BY <1>1, <1>3, <2>4, 5 * (4 - 1) = 5 * 3, 5 * 3 = 15, SMT
  <2>5. CASE k = 5
    BY <1>1, <1>3, <2>5, 5 * (5 - 1) = 5 * 4, 5 * 4 = 20, SMT
  <2>6. CASE k = 6
    BY <1>1, <1>3, <2>6, 5 * (6 - 1) = 5 * 5, 5 * 5 = 25, SMT
  <2>7. CASE k = 7
    BY <1>1, <1>3, <2>7, 5 * (7 - 1) = 5 * 6, 5 * 6 = 30, SMT
  <2> QED
    BY <2>1, <2>2, <2>3, <2>4, <2>5, <2>6, <2>7, SMT
<1> QED
  BY <1>4, <1>5, Zenon

(* Halving nothing leaves nothing.                                          *)
LEMMA StaysZero ==
  ASSUME NEW n, NEW h, Halves(h, n), NEW i \in 0..31, h[i] = 0
  PROVE  \A j \in i..31 : h[j] = 0
<1> DEFINE g == [c \in 0..(31 - i) |-> h[i + c]]
<1>1. 31 - i \in Nat /\ 0 \in 0..(31 - i) /\ i + 0 = i
  OBVIOUS
<1>2. g[0] \in {0}
  BY <1>1
<1>3. ASSUME NEW c \in 1..(31 - i), g[c - 1] \in {0} PROVE g[c] \in {0}
  <2>1. c \in 0..(31 - i) /\ c - 1 \in 0..(31 - i) /\ i + c \in 1..31 /\ i + c - 1 = i + (c - 1)
    OBVIOUS
  <2>2. h[i + c] = h[i + c - 1] \div 2
    BY <2>1 DEF Halves
  <2>3. h[i + c] = 0 \div 2
    BY <1>3, <2>1, <2>2
  <2> QED
    BY <2>1, <2>3
<1> HIDE DEF g
<1>4. \A c \in 0..(31 - i) : g[c] \in {0}
  BY <1>1, <1>2, <1>3, HandedOn
<1> SUFFICES ASSUME NEW j \in i..31 PROVE h[j] = 0
  OBVIOUS
<1>5. j - i \in 0..(31 - i) /\ i + (j - i) = j
  OBVIOUS
<1>6. g[j - i] = 0
  BY <1>4, <1>5
<1> QED
  BY <1>5, <1>6 DEF g

(* The digits of a value are the groups of five bits of its number.         *)
LEMMA DigitsAre ==
  ASSUME NEW v \in Delta, NEW h, Halves(h, SignedLast(v))
  PROVE  \E last : DigitsOf(VlqDigits(v), h, last)
<1>1. PICK n : n = SignedLast(v)
  OBVIOUS
<1>0. n \in Nat /\ n < 2147483648
  BY <1>1, SignedLastIs, SMT
<1>2. n \in Nat /\ Halves(h, n)
  BY <1>0, <1>1, SMT
<1>3. h \in [0..31 -> Nat]
  BY <1>2, SMT DEF Halves
<1> DEFINE B == {k \in 1..6 : n >= 2^(5 * k)}
<1>4. \A k \in 1..6 : k \in B <=> h[5 * k] >= 1
  BY <1>2, PowersBelow, Zenon
<1>5. \A k \in 2..6 : k \in B => k - 1 \in B
  <2> HIDE DEF B
  <2> TAKE k \in 2..6
  <2>1. 5 * (k - 1) \in 0..26 /\ 5 * (k - 1) + 5 = 5 * k /\ k \in 1..6 /\ k - 1 \in 1..6 /\ 0 \in {0, 32}
    BY SMT
  <2>2. h[5 * (k - 1) + 5] = h[5 * (k - 1)] \div 32
    BY <1>2, <2>1, DigitBits, Zenon
  <2>3. h[5 * (k - 1)] \in Nat
    BY <1>3, <2>1, SMT
  <2> QED
    BY <1>4, <2>1, <2>2, <2>3, SMT
<1>6. B \in SUBSET (1..6)
  BY Zenon
<1> HIDE DEF B
<1>7. PICK last \in 0..6 : B = 1..last /\ Cardinality(B) = last
  BY <1>5, <1>6, Initial, Zenon
<1>8. VlqDigits(v) = [k \in 1..last + 1 |-> ((n \div 2^(5 * (k - 1))) % 32) + IF k <= last THEN 32 ELSE 0]
  BY <1>1, <1>7, Zenon DEF VlqDigits, B
<1>9. \A k \in 1..(last + 1) : VlqDigits(v)[k] = (h[5 * (k - 1)] % 32) + (IF k <= last THEN 32 ELSE 0)
  <2>1. \A k \in 1..(last + 1) : k \in 1..7
    BY SMT
  <2>2. \A k \in 1..7 : n \div 2^(5 * (k - 1)) = h[5 * (k - 1)]
    BY <1>2, PowersBelow, Zenon
  <2> QED
    BY <1>8, <2>1, <2>2, Zenon
<1>10. h[31] = 0
  <2>1. h[30] = n \div 1073741824 /\ h[31] = h[30] \div 2
    BY <1>2, GroupsAre, SMT
  <2>2. n \div 1073741824 < 2 /\ n \div 1073741824 \in Nat
    BY <1>0, SMT
  <2> QED
    BY <2>1, <2>2, SMT
<1>11. ASSUME NEW j \in 0..31, j >= 5 * (last + 1) PROVE h[j] = 0
  <2>1. last + 1 \in 1..6 /\ ~(last + 1 <= last) /\ 5 * (last + 1) \in 0..31 /\ j \in (5 * (last + 1))..31
    BY <1>11, SMT
  <2>2. last + 1 \notin B
    BY <1>7, <2>1, SMT
  <2>3. h[5 * (last + 1)] = 0
    BY <1>3, <1>4, <2>1, <2>2, SMT
  <2> QED
    BY <1>2, <2>1, <2>3, StaysZero, Zenon
<1>12. DOMAIN VlqDigits(v) = 1..(last + 1)
  BY <1>8, Zenon
<1> QED
  BY <1>9, <1>10, <1>11, <1>12, Zenon DEF DigitsOf


\* The bits of a word are those of a number.
BitsOf(word, h) == \A j \in 0..31 : j \in word <=> h[j] % 2 = 1

(* The number in a word with the bits of a positive number is half of it,   *)
(* with the sign its lowest bit says.                                       *)
LEMMA SignedWord ==
  ASSUME NEW word, NEW n \in Nat, NEW h, Halves(h, n), h[31] = 0, BitsOf(word, h)
  PROVE  Signed(word) = IF n % 2 = 1 THEN -(n \div 2) ELSE n \div 2
<1>1. PICK f : SignedBy(f, word)
  BY SignedSteps
<1>2. /\ \A m \in 0..30 : f[m] \in Int
      /\ f[0] = (IF 31 \in word THEN -1 ELSE 0)
      /\ \A m \in 1..30 : f[m] = 2 * f[m - 1] + (IF 31 - m \in word THEN 1 ELSE 0)
      /\ Signed(word) = IF 0 \in word THEN -f[30] ELSE f[30]
  BY <1>1 DEF SignedBy
<1>3. h \in [0..31 -> Nat] /\ h[0] = n /\ \A j \in 1..31 : h[j] = h[j - 1] \div 2
  BY DEF Halves
<1> DEFINE g == [m \in 0..30 |-> f[m] - h[31 - m]]
<1>4. g[0] \in {0}
  <2>1. 31 \notin word
    BY DEF BitsOf
  <2>2. 31 - 0 = 31 /\ 0 \in 0..30
    OBVIOUS
  <2> QED
    BY <1>2, <2>1, <2>2
<1>5. ASSUME NEW m \in 1..30, g[m - 1] \in {0} PROVE g[m] \in {0}
  <2>1. m \in 0..30 /\ m - 1 \in 0..30 /\ 31 - m \in 0..31 /\ 31 - (m - 1) \in 1..31 /\ 31 - (m - 1) - 1 = 31 - m
    OBVIOUS
  <2>2. PICK a \in Nat : a = h[31 - m]
    BY <1>3, <2>1
  <2>3. h[31 - (m - 1)] = a \div 2
    BY <1>3, <2>1, <2>2
  <2>4. f[m - 1] \in Int /\ f[m - 1] - h[31 - (m - 1)] = 0 /\ h[31 - (m - 1)] \in Nat
    BY <1>2, <1>3, <1>5, <2>1
  <2>5. f[m - 1] = a \div 2
    BY <2>3, <2>4
  <2>6. f[m] = 2 * (a \div 2) + (IF a % 2 = 1 THEN 1 ELSE 0)
    BY <1>2, <2>1, <2>2, <2>5 DEF BitsOf
  <2>7. f[m] = a
    BY <2>6
  <2> QED
    BY <2>1, <2>2, <2>7
<1> HIDE DEF g
<1>6. \A m \in 0..30 : g[m] \in {0}
  <2>1. 30 \in Nat
    OBVIOUS
  <2> QED
    BY <1>4, <1>5, <2>1, HandedOn
<1>7. f[30] = h[1]
  <2>1. 30 \in 0..30 /\ 31 - 30 = 1
    OBVIOUS
  <2>3. g[30] = f[30] - h[31 - 30] /\ g[30] = 0
    BY <1>6, <2>1 DEF g
  <2>2. f[30] - h[1] = 0 /\ h[1] \in Nat /\ f[30] \in Int
    BY <1>2, <1>3, <2>1, <2>3
  <2> QED
    BY <2>2
<1>8. h[1] = n \div 2
  <2>1. 1 \in 1..31 /\ 1 - 1 = 0
    OBVIOUS
  <2> QED
    BY <1>3, <2>1
<1>9. 0 \in word <=> n % 2 = 1
  <2>1. 0 \in 0..31
    OBVIOUS
  <2> QED
    BY <1>3, <2>1 DEF BitsOf
<1> QED
  BY <1>2, <1>7, <1>8, <1>9, Zenon

\* The digits d stand in s from a place on.
StandsAt(s, start, d, k) == \A i \in 1..k : s[start + i - 1] = d[i]

(* The bits one digit adds to a word.                                       *)
LEMMA DigitOfWord ==
  ASSUME NEW n, NEW h, Halves(h, n), NEW d, NEW last, DigitsOf(d, h, last), NEW q \in 0..last
  PROVE  \A b \in 0..4 : 5 * q + b <= 31 => (b \in Bits(d[q + 1]) <=> h[5 * q + b] % 2 = 1)
<1>1. last \in 0..6 /\ q \in 0..6 /\ q + 1 \in 1..(last + 1) /\ (q + 1) - 1 = q
  BY DEF DigitsOf
<1>2. PICK more \in {0, 32} : d[q + 1] = (h[5 * q] % 32) + more
  <2>1. d[q + 1] = (h[5 * q] % 32) + (IF q + 1 <= last THEN 32 ELSE 0)
    BY <1>1 DEF DigitsOf
  <2> QED
    BY <2>1
<1>3. CASE q < 6
  <2>1. 5 * q \in 0..26
    BY <1>1, <1>3
  <2>2. Five(h, 5 * q, d[q + 1])
    BY <1>2, <2>1, DigitBits, Zenon
  <2> QED
    BY <2>2, Zenon DEF Five, Bits
<1>4. CASE q = 6
  <2>1. PICK a \in Nat : a = h[30]
    BY DEF Halves
  <2>2. h[31] = a \div 2
    BY <2>1 DEF Halves
  <2>3. 5 * q = 30 /\ 5 * q + 0 = 30 /\ 5 * q + 1 = 31
    BY <1>4
  <2>4. PICK x : x = d[q + 1]
    OBVIOUS
  <2>5. x = (a % 32) + more
    BY <1>2, <2>1, <2>3, <2>4
  <2>6. (x \div 1) % 2 = a % 2 /\ (x \div 2) % 2 = (a \div 2) % 2
    BY <2>5
  <2>7. 2^0 = 1 /\ 2^1 = 2
    OBVIOUS
  <2> SUFFICES ASSUME NEW b \in 0..4, 5 * q + b <= 31 PROVE (x \div 2^b) % 2 = h[5 * q + b] % 2
    BY <2>4 DEF Bits
  <2>8. b = 0 \/ b = 1
    BY <2>3
  <2> QED
    BY <2>1, <2>2, <2>3, <2>6, <2>7, <2>8, Zenon
<1> QED
  BY <1>1, <1>3, <1>4

(* The digits of a number add up to a word with its bits.                   *)
LEMMA WordIs ==
  ASSUME NEW n, NEW h, Halves(h, n), NEW d, NEW last, DigitsOf(d, h, last),
         NEW s, NEW start \in Nat, StandsAt(s, start, d, last + 1)
  PROVE  BitsOf(Word(s, start, start + last), h)
<1>1. /\ last \in 0..6
      /\ \A j \in 0..31 : j >= 5 * (last + 1) => h[j] = 0
      /\ \A q \in 0..last : \A b \in 0..4 : 5 * q + b <= 31 => (b \in Bits(d[q + 1]) <=> h[5 * q + b] % 2 = 1)
  <2>1. last \in 0..6 /\ \A j \in 0..31 : j >= 5 * (last + 1) => h[j] = 0
    BY DEF DigitsOf
  <2> QED
    BY <2>1, DigitOfWord, Zenon
<1> DEFINE Of(i) == {((5 * (i - start)) % 32) + b : b \in Bits(s[i])}
<1>2. ASSUME NEW q \in 0..last
      PROVE  /\ start + q \in start..(start + last) /\ s[start + q] = d[q + 1]
             /\ (5 * ((start + q) - start)) % 32 = 5 * q
  <2>1. q + 1 \in 1..(last + 1) /\ start + (q + 1) - 1 = start + q /\ (start + q) - start = q
        /\ start + q \in start..(start + last) /\ 5 * q \in 0..31
    BY <1>1
  <2>2. (5 * q) % 32 = 5 * q
    BY <2>1
  <2> QED
    BY <2>1, <2>2 DEF StandsAt
<1>3. ASSUME NEW i \in start..(start + last) PROVE \E q \in 0..last : i = start + q
  <2>1. i - start \in 0..last /\ i = start + (i - start)
    BY <1>1
  <2> QED
    BY <2>1
<1>4. \A j : j \in Word(s, start, start + last) <=>
             j \in 0..31 /\ \E i \in start..(start + last) : j \in Of(i)
  <2>1. Word(s, start, start + last) = 0..31 \cap UNION {Of(i) : i \in start..(start + last)}
    BY Zenon DEF Word
  <2> HIDE DEF Of
  <2>2. \A j : (\E i \in start..(start + last) : j \in Of(i))
               => j \in UNION {Of(i) : i \in start..(start + last)}
    BY Zenon
  <2>3. \A j : j \in UNION {Of(i) : i \in start..(start + last)}
               => \E i \in start..(start + last) : j \in Of(i)
    BY Zenon
  <2> QED
    BY <2>1, <2>2, <2>3, Zenon
<1>5. \A b, i : b \in Bits(i) => b \in 0..4
  BY Zenon DEF Bits
<1> SUFFICES ASSUME NEW j \in 0..31
             PROVE  j \in Word(s, start, start + last) <=> h[j] % 2 = 1
  BY DEF BitsOf
<1>6. ASSUME j \in Word(s, start, start + last) PROVE h[j] % 2 = 1
  <2>1. PICK i \in start..(start + last) : j \in Of(i)
    BY <1>4, <1>6
  <2>2. PICK q \in 0..last : i = start + q
    BY <1>3
  <2>3. PICK b \in Bits(s[i]) : j = ((5 * (i - start)) % 32) + b
    BY <2>1
  <2>4. j = 5 * q + b /\ b \in Bits(d[q + 1])
    BY <1>2, <2>2, <2>3
  <2>5. 5 * q + b <= 31 /\ b \in 0..4
    BY <1>5, <2>4
  <2> QED
    BY <1>1, <2>4, <2>5
<1>7. ASSUME h[j] % 2 = 1 PROVE j \in Word(s, start, start + last)
  <2>1. PICK q \in 0..6, b \in 0..4 : j = 5 * q + b
    <3>1. j \div 5 \in 0..6 /\ j % 5 \in 0..4 /\ j = 5 * (j \div 5) + (j % 5)
      OBVIOUS
    <3> QED
      BY <3>1
  <2>2. q \in 0..last
    <3> SUFFICES ASSUME q > last PROVE FALSE
      BY <1>1
    <3>1. j >= 5 * (last + 1)
      BY <1>1, <2>1
    <3>2. h[j] = 0
      BY <1>1, <3>1
    <3> QED
      BY <1>7, <3>2
  <2>3. b \in Bits(d[q + 1])
    BY <1>1, <1>7, <2>1, <2>2
  <2>4. b \in Bits(s[start + q]) /\ j = ((5 * ((start + q) - start)) % 32) + b
    BY <1>2, <2>1, <2>2, <2>3
  <2>5. j \in Of(start + q)
    BY <2>4
  <2> QED
    BY <1>2, <1>4, <2>2, <2>5
<1> QED
  BY <1>6, <1>7

\* The digits of base sixty-four.
Digit == 0..63

(* The digits are the numbers below sixty-four.                             *)
LEMMA DigitIs == \A y : y \in Digit <=> y \in Nat /\ y < 64
  BY SMT DEF Digit

(* A value has digits, of which only the last is below thirty-two.          *)
LEMMA DigitsShape ==
  ASSUME NEW v \in Delta
  PROVE  \E h, last : /\ Halves(h, SignedLast(v)) /\ DigitsOf(VlqDigits(v), h, last)
                      /\ last \in 0..6 /\ VlqDigits(v) \in Seq(Digit) /\ Len(VlqDigits(v)) = last + 1
                      /\ \A k \in 1..last : VlqDigits(v)[k] >= 32
                      /\ VlqDigits(v)[last + 1] < 32
<1>0. PICK n \in Nat : n = SignedLast(v)
  BY SignedLastIs, SMT
<1>1. PICK h : Halves(h, n)
  BY HalvesExist
<1>2. PICK d : d = VlqDigits(v)
  OBVIOUS
<1>3. PICK last : DigitsOf(d, h, last)
  BY <1>0, <1>1, <1>2, DigitsAre, Zenon
<1>4. /\ last \in 0..6 /\ DOMAIN d = 1..(last + 1)
      /\ \A k \in 1..(last + 1) : d[k] = (h[5 * (k - 1)] % 32) + (IF k <= last THEN 32 ELSE 0)
  BY <1>3 DEF DigitsOf
<1>5. ASSUME NEW k \in 1..(last + 1)
      PROVE  d[k] \in Digit /\ (k <= last => d[k] >= 32) /\ (~(k <= last) => d[k] < 32)
  <2>1. 5 * (k - 1) \in 0..31
    BY <1>4
  <2>2. PICK a \in Nat : a = h[5 * (k - 1)]
    BY <1>1, <2>1 DEF Halves
  <2>3. d[k] = (a % 32) + (IF k <= last THEN 32 ELSE 0)
    BY <1>4, <2>2
  <2>4. PICK b \in Nat : b = a % 32 /\ b < 32
    OBVIOUS
  <2>5. k <= last \/ ~(k <= last)
    OBVIOUS
  <2>6. (k <= last => d[k] = b + 32) /\ (~(k <= last) => d[k] = b)
    BY <2>3, <2>4
  <2> QED
    BY <2>4, <2>5, <2>6, DigitIs
<1>6. last + 1 \in Nat /\ last + 1 \in 1..(last + 1) /\ ~(last + 1 <= last)
      /\ \A k \in 1..last : k \in 1..(last + 1) /\ k <= last
  BY <1>4
<1>7. d = [k \in 1..(last + 1) |-> d[k]]
  <2>1. d = [k \in 1..(Cardinality({k \in 1..6 : n >= 2^(5 * k)}) + 1) |-> d[k]]
    BY <1>0, <1>2, Zenon DEF VlqDigits
  <2>2. d = [k \in DOMAIN d |-> d[k]]
    BY <2>1, Zenon
  <2> QED
    BY <1>4, <2>2, Zenon
<1>8. d \in Seq(Digit) /\ Len(d) = last + 1
  <2>1. d \in Seq(Digit)
    BY <1>5, <1>6, <1>7, ListFrom
  <2> QED
    BY <1>4, <1>6, <2>1
<1>9. (\A k \in 1..last : d[k] >= 32) /\ d[last + 1] < 32
  BY <1>5, <1>6
<1> QED
  BY <1>0, <1>1, <1>2, <1>3, <1>4, <1>8, <1>9, Zenon

\* A value is read from a place of a text, and the next follows its digits.
ReadAt(s, start, v) ==
  DecodeVLQSegment(s, start) = [ok |-> TRUE, value |-> v, next |-> start + Len(VlqDigits(v))]

(* A value is read back from its digits.                                    *)
LEMMA ValueReadBack ==
  ASSUME NEW v \in Delta, NEW s, Len(s) \in Nat, NEW start \in Nat \ {0},
         start + Len(VlqDigits(v)) - 1 <= Len(s),
         StandsAt(s, start, VlqDigits(v), Len(VlqDigits(v)))
  PROVE  ReadAt(s, start, v)
<1>1. PICK d : d = VlqDigits(v)
  OBVIOUS
<1>2. PICK h, last : /\ Halves(h, SignedLast(v)) /\ DigitsOf(d, h, last)
                     /\ last \in 0..6 /\ d \in Seq(Digit) /\ Len(d) = last + 1
                     /\ (\A k \in 1..last : d[k] >= 32) /\ d[last + 1] < 32
  BY <1>1, DigitsShape, Zenon
<1>3. PICK n : n = SignedLast(v)
  OBVIOUS
<1>4. n \in Nat /\ v = IF n % 2 = 1 THEN -(n \div 2) ELSE n \div 2
  BY <1>3, SignedLastIs, SMT
<1>5. Halves(h, n) /\ DigitsOf(d, h, last) /\ h[31] = 0
  BY <1>2, <1>3 DEF DigitsOf
<1>6. StandsAt(s, start, d, last + 1) /\ start + last \in start..Len(s) /\ last \in Nat /\ d \in Seq(Digit)
  BY <1>1, <1>2
<1>7. \A k \in 1..(last + 1) : s[start + k - 1] = d[k] /\ d[k] \in Digit
  <2>2. Len(d) = last + 1
    BY <1>2, Zenon
  <2>1. \A k \in 1..(last + 1) : d[k] \in Digit
    BY <1>6, <2>2, SMT
  <2> QED
    BY <1>6, <2>1, Zenon DEF StandsAt
<1> DEFINE ends == {i \in start..Len(s) : s[i] < 32 \/ s[i] = Invalid}
<1>8. s[start + last] < 32 /\ s[start + last] # Invalid
  <2>1. last + 1 \in 1..(last + 1) /\ start + (last + 1) - 1 = start + last
    BY <1>6
  <2> QED
    BY <1>2, <1>7, <2>1, DigitIs DEF Invalid
<1>9. start + last \in ends
  BY <1>6, <1>8
<1>10. ASSUME NEW i \in ends PROVE start + last <= i
  <2> SUFFICES ASSUME i < start + last PROVE FALSE
    BY <1>6
  <2>1. i \in start..Len(s) /\ (s[i] < 32 \/ s[i] = Invalid)
    BY <1>10
  <2>2. i - start + 1 \in 1..last /\ i - start + 1 \in 1..(last + 1) /\ start + (i - start + 1) - 1 = i
    BY <1>6, <2>1
  <2>3. s[i] \in Digit /\ s[i] >= 32
    BY <1>2, <1>7, <2>2
  <2> QED
    <3>1. s[i] < 64 /\ ~(s[i] < 32) /\ s[i] # 66
      BY <2>3, DigitIs
    <3> QED
      BY <2>1, <3>1 DEF Invalid
<1>11. Min(ends) = start + last
  <2>1. ends \in SUBSET Nat
    OBVIOUS
  <2> HIDE DEF ends
  <2>2. Min(ends) \in ends /\ \A y \in ends : Min(ends) <= y
    BY <1>9, <1>10, <2>1 DEF Min
  <2>3. PICK m \in Nat : m = Min(ends)
    BY <2>1, <2>2
  <2>4. m <= start + last
    BY <1>9, <2>2, <2>3
  <2>5. start + last <= m
    BY <1>10, <2>2, <2>3
  <2> QED
    BY <1>6, <2>3, <2>4, <2>5
<1>12. Signed(Word(s, start, start + last)) = v
  <2>1. BitsOf(Word(s, start, start + last), h)
    BY <1>5, <1>6, WordIs, Zenon
  <2> QED
    BY <1>4, <1>5, <2>1, SignedWord, Zenon
<1>13. start + last + 1 = start + Len(d)
  BY <1>2
<1>14. DecodeVLQSegment(s, start) =
         IF ends = {} \/ s[Min(ends)] = Invalid
         THEN [ok |-> FALSE, value |-> 0, next |-> start]
         ELSE [ok |-> TRUE, value |-> Signed(Word(s, start, Min(ends))), next |-> Min(ends) + 1]
  BY Zenon DEF DecodeVLQSegment
<1> HIDE DEF ends
<1>15. ends # {}
  BY <1>9
<1> QED
  BY <1>1, <1>8, <1>11, <1>12, <1>13, <1>14, <1>15, Zenon DEF ReadAt

\* The digits of the values of a segment.
DigitLists(s) == [f \in DOMAIN s |-> VlqDigits(s[f])]

\* Each value of a segment is read from where it stands in its text u.
ReadsAll(u, s, e) ==
  /\ u \in Seq(Digit) /\ Len(s) \in {1, 4, 5} /\ e[0] = 0 /\ e[Len(s)] = Len(u)
  /\ \A f \in 0..Len(s) : e[f] \in Nat /\ e[f] <= Len(u)
  /\ \A f \in 1..Len(s) : e[f - 1] < e[f] /\ DecodeVLQSegment(u, e[f - 1] + 1) = [ok |-> TRUE, value |-> s[f], next |-> e[f] + 1]

(* Each value of a segment is read from where it was written.               *)
LEMMA SegmentPlaces ==
  ASSUME NEW s \in Segment
  PROVE  s \in Seq(Delta) /\ \E e : ReadsAll(SegmentText(s), s, e)
<1>1. s \in Seq(Delta) /\ Len(s) \in {1, 4, 5}
  BY Zenon DEF Segment
<1>2. PICK k \in Nat : k = Len(s)
  BY <1>1
<1>3. DOMAIN s = 1..k /\ k \in {1, 4, 5} /\ \A f \in 1..k : s[f] \in Delta
  BY <1>1, <1>2
<1>4. PICK lists : lists = DigitLists(s)
  OBVIOUS
<1>5. lists = [f \in 1..k |-> VlqDigits(s[f])]
  BY <1>3, <1>4 DEF DigitLists
<1>6. \A f \in 1..k : lists[f] \in Seq(Digit) /\ lists[f] = VlqDigits(s[f]) /\ Len(lists[f]) \in Nat /\ Len(lists[f]) > 0
  <2> TAKE f \in 1..k
  <2>1. lists[f] = VlqDigits(s[f])
    BY <1>5
  <2>2. PICK last \in 0..6 : VlqDigits(s[f]) \in Seq(Digit) /\ Len(VlqDigits(s[f])) = last + 1
    BY <1>3, DigitsShape, Zenon
  <2>3. last + 1 \in Nat /\ last + 1 > 0
    OBVIOUS
  <2> QED
    BY <2>1, <2>2, <2>3, Zenon
<1>7. lists \in Seq(Seq(Digit)) /\ Len(lists) = k
  <2>1. lists = [f \in 1..k |-> lists[f]]
    BY <1>5
  <2> QED
    BY <1>6, <2>1, ListFrom
<1>8. PICK u : u = SegmentText(s)
  OBVIOUS
<1>9. u = FlattenSeq(lists)
  BY <1>4, <1>8, Zenon DEF SegmentText, DigitLists
<1>10. u \in Seq(Digit)
  <2>1. PICK g : Flattens(g, lists, Digit)
    BY <1>7, FlattenSteps
  <2>2. Len(lists) \in 0..Len(lists)
    BY <1>7
  <2> QED
    BY <1>9, <2>1, <2>2 DEF Flattens
<1>11. PICK e : Sits(u, lists, e)
  BY <1>7, <1>9, FlattenPlaces
<1>12. /\ e \in [0..k -> 0..Len(u)] /\ e[0] = 0 /\ e[k] = Len(u)
       /\ \A f \in 1..k : e[f] = e[f - 1] + Len(lists[f])
       /\ \A f \in 1..k : \A j \in 1..Len(lists[f]) : u[e[f - 1] + j] = lists[f][j]
  BY <1>7, <1>11, Zenon DEF Sits, SitsUpTo
<1>13. Len(u) \in Nat
  BY <1>10
<1>14. \A f \in 0..k : e[f] \in Nat /\ e[f] <= Len(u)
  BY <1>12, <1>13
<1>15. ASSUME NEW f \in 1..k
       PROVE  e[f - 1] < e[f] /\ DecodeVLQSegment(u, e[f - 1] + 1) = [ok |-> TRUE, value |-> s[f], next |-> e[f] + 1]
  <2>1. f - 1 \in 0..k /\ f \in 0..k
    BY <1>2
  <2>2. PICK a \in Nat : a = e[f - 1]
    BY <1>14, <2>1
  <2>3. PICK l \in Nat : l = Len(lists[f]) /\ l > 0
    BY <1>6
  <2>4. e[f] = a + l /\ a + l <= Len(u)
    BY <1>12, <1>14, <2>1, <2>2, <2>3
  <2>5. l = Len(VlqDigits(s[f])) /\ a + 1 \in Nat \ {0} /\ (a + 1) + l - 1 <= Len(u) /\ (a + 1) + l = e[f] + 1
    <3>1. lists[f] = VlqDigits(s[f])
      BY <1>6, Zenon
    <3>2. l = Len(VlqDigits(s[f]))
      BY <2>3, <3>1, Zenon
    <3>4. PICK z \in Nat : z = Len(u)
      BY <1>13
    <3>5. a + l <= z /\ e[f] = a + l
      BY <2>4, <3>4
    <3>6. a + 1 \in Nat \ {0} /\ (a + 1) + l - 1 = a + l /\ (a + 1) + l = (a + l) + 1
      OBVIOUS
    <3>3. a + 1 \in Nat \ {0} /\ (a + 1) + l - 1 <= Len(u) /\ (a + 1) + l = e[f] + 1
      BY <3>4, <3>5, <3>6
    <3> QED
      BY <3>2, <3>3, Zenon
  <2>6. \A j \in 1..l : (a + 1) + j - 1 = a + j
    OBVIOUS
  <2>7. \A j \in 1..l : u[a + j] = VlqDigits(s[f])[j]
    BY <1>6, <1>12, <2>2, <2>3, Zenon
  <2>8. StandsAt(u, a + 1, VlqDigits(s[f]), l)
    BY <2>6, <2>7 DEF StandsAt
  <2>9. s[f] \in Delta
    BY <1>3
  <2>10. ReadAt(u, a + 1, s[f])
    BY <1>13, <2>5, <2>8, <2>9, ValueReadBack, Zenon
  <2>11. DecodeVLQSegment(u, a + 1) = [ok |-> TRUE, value |-> s[f], next |-> e[f] + 1]
    BY <2>5, <2>10, Zenon DEF ReadAt
  <2>12. a < e[f]
    BY <2>3, <2>4
  <2> QED
    BY <2>2, <2>11, <2>12, Zenon
<1>16. ReadsAll(u, s, e)
  BY <1>2, <1>3, <1>10, <1>12, <1>14, <1>15, Zenon DEF ReadsAll
<1> QED
  BY <1>1, <1>8, <1>16, Zenon

\* What is known after n values.
ReadTo(a, s, e, n) ==
  /\ a \in ValuesRead /\ a.bad = FALSE
  /\ n <= Len(s) => a.done = FALSE /\ a.next = e[n] + 1 /\ Len(a.values) = n
  /\ n > Len(s) => a.done = TRUE /\ Len(a.values) = Len(s)
  /\ \A i \in 1..Len(a.values) : a.values[i] = s[i]

(* The loop over a segment reads its next value.                            *)
LEMMA OneValueMore ==
  ASSUME NEW u, NEW s \in Seq(Int), NEW e, ReadsAll(u, s, e), NEW n \in 1..5, NEW a, ReadTo(a, s, e, n - 1)
  PROVE  ReadTo(ReadValue(u, a, n), s, e, n)
<1>1. PICK k \in Nat : k = Len(s)
  OBVIOUS
<1>2. /\ k \in {1, 4, 5} /\ Len(u) \in Nat /\ e[k] = Len(u)
      /\ \A f \in 0..k : e[f] \in Nat /\ e[f] <= Len(u)
      /\ \A f \in 1..k : e[f - 1] < e[f] /\ DecodeVLQSegment(u, e[f - 1] + 1) = [ok |-> TRUE, value |-> s[f], next |-> e[f] + 1]
  <2>1. u \in Seq(Digit)
    BY DEF ReadsAll
  <2>2. Len(u) \in Nat
    BY <2>1
  <2> QED
    BY <1>1, <2>2, Zenon DEF ReadsAll
<1>3. /\ a \in [next : Nat, values : Seq(Int), done : BOOLEAN, bad : BOOLEAN] /\ a.bad = FALSE
      /\ n - 1 <= k => a.done = FALSE /\ a.next = e[n - 1] + 1 /\ Len(a.values) = n - 1
      /\ n - 1 > k => a.done = TRUE /\ Len(a.values) = k
      /\ \A i \in 1..Len(a.values) : a.values[i] = s[i]
  BY <1>1, Zenon DEF ReadTo, ValuesRead
<1>4. PICK r : r = ReadValue(u, a, n)
  OBVIOUS
<1>5. CASE n <= k
  <2>1. n \in 1..k /\ n - 1 \in 0..k /\ n \in 0..k /\ n - 1 <= k
    BY <1>5
  <2>2. a.done = FALSE /\ a.next = e[n - 1] + 1 /\ Len(a.values) = n - 1 /\ e[n - 1] < e[n] /\ e[n] \in Nat /\ e[n] <= Len(u)
        /\ e[n - 1] \in Nat
    BY <1>2, <1>3, <2>1
  <2>3. ~(a.next > Len(u))
    BY <1>2, <2>2
  <2>4. DecodeVLQSegment(u, a.next) = [ok |-> TRUE, value |-> s[n], next |-> e[n] + 1]
    BY <1>2, <2>1, <2>2, Zenon
  <2>5. PICK x \in Int : x = s[n]
    BY <1>1, <2>1
  <2>6. PICK m \in Nat : m = e[n] + 1
    BY <2>2
  <2>7. PICK d : d = DecodeVLQSegment(u, a.next)
    OBVIOUS
  <2>8. d.ok = TRUE /\ d.value = x /\ d.next = m
    BY <2>4, <2>5, <2>6, <2>7
  <2>9. PICK v : v = Append(a.values, x)
    OBVIOUS
  <2>10. r = [a EXCEPT !.next = m, !.values = v]
    BY <1>4, <2>2, <2>3, <2>7, <2>8, <2>9 DEF ReadValue
  <2>11. a.values \in Seq(Int)
    BY <1>3
  <2>12. v \in Seq(Int) /\ Len(v) = n /\ v[n] = x /\ \A i \in 1..(n - 1) : v[i] = a.values[i]
    BY <2>2, <2>9, <2>11
  <2>13. r \in [next : Nat, values : Seq(Int), done : BOOLEAN, bad : BOOLEAN] /\ r.next = m /\ r.values = v
         /\ r.done = a.done /\ r.bad = a.bad
    BY <1>3, <2>10, <2>12
  <2>14. \A i \in 1..n : v[i] = s[i]
    <3> TAKE i \in 1..n
    <3>1. i \in 1..(n - 1) \/ i = n
      OBVIOUS
    <3>2. i \in 1..(n - 1) => a.values[i] = s[i]
      BY <1>3, <2>2
    <3> QED
      BY <2>5, <2>12, <3>1, <3>2
  <2>15. ~(n > k)
    BY <1>5
  <2> QED
    BY <1>1, <1>3, <1>4, <1>5, <2>2, <2>6, <2>12, <2>13, <2>14, <2>15, Zenon DEF ReadTo, ValuesRead
<1>6. CASE n = k + 1
  <2>1. n - 1 = k /\ n - 1 <= k /\ k \in 0..k /\ n > k /\ ~(n <= k) /\ n \in {2, 5}
    BY <1>2, <1>6
  <2>2. a.done = FALSE /\ a.next = Len(u) + 1 /\ Len(a.values) = k
    BY <1>2, <1>3, <2>1, Zenon
  <2>3. a.next > Len(u)
    BY <1>2, <2>2
  <2>4. r = [a EXCEPT !.done = TRUE]
    BY <1>4, <2>1, <2>2, <2>3 DEF ReadValue
  <2>5. r \in [next : Nat, values : Seq(Int), done : BOOLEAN, bad : BOOLEAN] /\ r.values = a.values
        /\ r.done = TRUE /\ r.bad = a.bad
    BY <1>3, <2>4
  <2> QED
    BY <1>1, <1>3, <1>4, <2>1, <2>2, <2>5, Zenon DEF ReadTo, ValuesRead
<1>7. CASE n > k + 1
  <2>1. n - 1 > k /\ n > k /\ ~(n <= k)
    BY <1>7
  <2>2. a.done = TRUE /\ Len(a.values) = k
    BY <1>3, <2>1
  <2>3. r = a
    BY <1>4, <2>2 DEF ReadValue
  <2> QED
    BY <1>1, <1>3, <1>4, <2>1, <2>2, <2>3, Zenon DEF ReadTo, ValuesRead
<1> QED
  BY <1>5, <1>6, <1>7

(* What a segment is written with are integers.                             *)
LEMMA DeltasAre ==
  ASSUME NEW s \in Seq(Delta)
  PROVE  s \in Seq(Int)
<1>1. MaxDelta \in Nat
  BY SMT DEF MaxDelta
<1>2. \A v \in Delta : v \in Int
  BY <1>1, SMT DEF Delta
<1>3. Len(s) \in Nat /\ s = [i \in 1..Len(s) |-> s[i]] /\ \A i \in 1..Len(s) : s[i] \in Delta
  OBVIOUS
<1>4. \A i \in 1..Len(s) : s[i] \in Int
  BY <1>2, <1>3
<1> QED
  BY <1>3, <1>4, ListFrom, SMT

\* Nothing is known before the first value.
NothingRead(s, e) == ReadTo(NoValues, s, e, 0)

(* The values of a segment are read back from its text.                     *)
LEMMA ValuesReadBack ==
  ASSUME NEW s \in Segment
  PROVE  /\ Values(SegmentText(s)) \in ValuesRead
         /\ Values(SegmentText(s)).values = s /\ Values(SegmentText(s)).bad = FALSE
<1>1. s \in Seq(Delta) /\ \E e : ReadsAll(SegmentText(s), s, e)
  BY SegmentPlaces
<1>2. s \in Seq(Int)
  BY <1>1, DeltasAre
<1>3. PICK u : u = SegmentText(s)
  OBVIOUS
<1>4. PICK e : ReadsAll(u, s, e)
  BY <1>1, <1>3
<1>5. u \in Seq(Digit) /\ Len(s) \in {1, 4, 5} /\ e[0] = 0
  BY <1>4, Zenon DEF ReadsAll
<1> DEFINE A == ValuesRead
           step == [n \in 1..5 |-> [a \in A |-> ReadValue(u, a, n)]]
<1>6. NoValues \in A
  <2>1. <<>> \in Seq(Int)
    OBVIOUS
  <2> QED
    BY <2>1 DEF NoValues, ValuesRead
<1>7. step \in [1..5 -> [A -> A]] /\ \A n \in 1..5 : \A a \in A : step[n][a] = ReadValue(u, a, n)
  <2>1. \A n \in 1..5 : \A a \in A : ReadValue(u, a, n) \in A
    BY <1>5, ValueKept
  <2> HIDE DEF A
  <2> QED
    BY <2>1
<1> HIDE DEF A, step
<1>8. Lead(Values(u), 5, A, NoValues, step)
  BY <1>6, <1>7, FoldReadValue
<1>9. PICK g \in [0..5 -> A] : Steps(g, 5, NoValues, step) /\ Values(u) = g[5]
  BY <1>8 DEF Lead
<1>10. g[0] = NoValues /\ \A n \in 1..5 : g[n] = ReadValue(u, g[n - 1], n)
  <2>1. \A n \in 1..5 : g[n - 1] \in A
    OBVIOUS
  <2> QED
    BY <1>7, <1>9, <2>1 DEF Steps
<1> DEFINE S == {n \in 0..5 : ReadTo(g[n], s, e, n)}
<1>11. 0 \in S
  <2>1. /\ NoValues.bad = FALSE /\ NoValues.done = FALSE /\ NoValues.next = 1
        /\ NoValues.values = <<>> /\ Len(NoValues.values) = 0
    BY DEF NoValues
  <2>2. 0 + 1 = 1 /\ ~(0 > Len(s)) /\ 1..0 = {} /\ 0 \in 0..5
    BY <1>5
  <2>3. ReadTo(NoValues, s, e, 0)
    BY <1>5, <1>6, <2>1, <2>2 DEF ReadTo, A
  <2> QED
    BY <1>10, <2>2, <2>3
<1>12. \A n \in 1..5 : n - 1 \in S => n \in S
  <2> SUFFICES ASSUME NEW n \in 1..5, ReadTo(g[n - 1], s, e, n - 1) PROVE ReadTo(g[n], s, e, n)
    OBVIOUS
  <2>1. ReadTo(ReadValue(u, g[n - 1], n), s, e, n)
    BY <1>2, <1>4, OneValueMore
  <2> QED
    BY <1>10, <2>1
<1> HIDE DEF S
<1>13. 0..5 \subseteq S
  BY <1>11, <1>12, InductionUpTo
<1>14. ReadTo(g[5], s, e, 5)
  BY <1>13 DEF S
<1>15. PICK r : r = Values(u)
  OBVIOUS
<1>16. /\ r \in ValuesRead /\ r.bad = FALSE
       /\ 5 <= Len(s) => Len(r.values) = 5
       /\ 5 > Len(s) => Len(r.values) = Len(s)
       /\ \A i \in 1..Len(r.values) : r.values[i] = s[i]
  BY <1>9, <1>14, <1>15, Zenon DEF ReadTo
<1>17. Len(r.values) = Len(s)
  <2>1. PICK z \in {1, 4, 5} : z = Len(s)
    BY <1>5
  <2>2. 5 <= z => Len(r.values) = 5
    BY <1>16, <2>1, Zenon
  <2>3. 5 > z => Len(r.values) = z
    BY <1>16, <2>1, Zenon
  <2>4. z = 5 \/ 5 > z
    BY <2>1
  <2>5. 5 <= 5
    OBVIOUS
  <2> QED
    BY <2>1, <2>2, <2>3, <2>4, <2>5, Zenon
<1>18. r.values \in Seq(Int)
  BY <1>16 DEF ValuesRead
<1>19. PICK w \in Seq(Int) : w = r.values
  BY <1>18
<1>20. w = s
  BY <1>2, <1>16, <1>17, <1>19, SeqEqual
<1> QED
  BY <1>3, <1>15, <1>16, <1>19, <1>20, Zenon

(* The text of a segment is made of digits, and is not empty.               *)
LEMMA SegmentShape ==
  ASSUME NEW s \in Segment
  PROVE  SegmentText(s) \in Seq(Digit) /\ SegmentText(s) # <<>>
<1>1. PICK u, e : u = SegmentText(s) /\ ReadsAll(u, s, e)
  BY SegmentPlaces
<1>2. /\ u \in Seq(Digit) /\ Len(s) \in {1, 4, 5} /\ e[0] = 0 /\ e[Len(s)] = Len(u)
      /\ \A f \in 0..Len(s) : e[f] \in Nat /\ e[f] <= Len(u)
      /\ \A f \in 1..Len(s) : e[f - 1] < e[f]
  BY <1>1, Zenon DEF ReadsAll
<1>3. 1 \in 1..Len(s) /\ 1 \in 0..Len(s) /\ 1 - 1 = 0
  BY <1>2
<1>4. PICK z : z = Len(u)
  OBVIOUS
<1>5. e[0] < e[1] /\ e[1] \in Nat /\ e[1] <= z
  BY <1>2, <1>3, <1>4
<1>6. z # 0
  <2>1. z \in Nat
    BY <1>2, <1>4
  <2> QED
    BY <1>2, <1>5, <2>1
<1> QED
  BY <1>1, <1>2, <1>4, <1>6

\* Where parts stand in a text with a mark between them: after place b[k] up to
\* place b[k] + Len(parts[k]).
MarkedAt(t, parts, mark, b) ==
  /\ b[1] = 0 /\ b[Len(parts)] + Len(parts[Len(parts)]) = Len(t)
  /\ \A k \in 1..Len(parts) :
       /\ b[k] \in Nat /\ b[k] + Len(parts[k]) <= Len(t)
       /\ \A j \in 1..Len(parts[k]) : t[b[k] + j] = parts[k][j]
  /\ \A k \in 1..(Len(parts) - 1) :
       b[k + 1] = b[k] + Len(parts[k]) + 1 /\ b[k + 1] <= Len(t) /\ t[b[k + 1]] = mark

(* How long a part is with the mark in front of it.                         *)
LEMMA MarkBefore ==
  ASSUME NEW X, NEW mark \in X, NEW p \in Seq(X)
  PROVE  /\ <<>> \o p = p
         /\ <<mark>> \o p \in Seq(X) /\ Len(<<mark>> \o p) = Len(p) + 1
         /\ (<<mark>> \o p)[1] = mark
         /\ \A j \in 1..Len(p) : (<<mark>> \o p)[j + 1] = p[j]
<1>1. <<>> \o p = p
  OBVIOUS
<1>2. PICK w \in Seq(X) : w = <<mark>> /\ Len(w) = 1 /\ w[1] = mark
  BY ListOfOne
<1>3. PICK q : q = w \o p
  OBVIOUS
<1>4. /\ q \in Seq(X) /\ Len(q) = 1 + Len(p) /\ q[1] = mark
      /\ \A j \in 1..Len(p) : q[1 + j] = p[j]
  BY <1>2, <1>3
<1>5. 1 + Len(p) = Len(p) + 1 /\ \A j \in 1..Len(p) : 1 + j = j + 1
  OBVIOUS
<1>6. Len(q) = Len(p) + 1 /\ \A j \in 1..Len(p) : q[j + 1] = p[j]
  BY <1>4, <1>5
<1> QED
  BY <1>1, <1>2, <1>3, <1>4, <1>6, Zenon

(* Where each part and each mark stand in parts put together.               *)
LEMMA MarkedPlaces ==
  ASSUME NEW X, NEW mark \in X, NEW parts \in Seq(Seq(X)), parts # <<>>
  PROVE  Marked(parts, mark) \in Seq(X) /\ \E b : MarkedAt(Marked(parts, mark), parts, mark, b)
<1>1. PICK m \in Nat : m = Len(parts) /\ m # 0
  <2>1. Len(parts) \in Nat /\ Len(parts) # 0
    OBVIOUS
  <2> QED
    BY <2>1
<1>2. DOMAIN parts = 1..m /\ \A k \in 1..m : parts[k] \in Seq(X) /\ Len(parts[k]) \in Nat
  BY <1>1
<1>3. PICK t : t = Marked(parts, mark)
  OBVIOUS
<1>4. PICK lists : lists = [k \in 1..m |-> (IF k = 1 THEN <<>> ELSE <<mark>>) \o parts[k]]
  OBVIOUS
<1>5. t = FlattenSeq(lists)
  BY <1>2, <1>3, <1>4, Zenon DEF Marked
<1>6. ASSUME NEW k \in 1..m
      PROVE  /\ lists[k] \in Seq(X)
             /\ k = 1 => lists[k] = parts[k]
             /\ k # 1 => /\ Len(lists[k]) = Len(parts[k]) + 1 /\ lists[k][1] = mark
                         /\ \A j \in 1..Len(parts[k]) : lists[k][j + 1] = parts[k][j]
  <2>1. lists[k] = (IF k = 1 THEN <<>> ELSE <<mark>>) \o parts[k]
    BY <1>4
  <2>2. parts[k] \in Seq(X)
    BY <1>2
  <2>3. CASE k = 1
    <3>1. lists[k] = <<>> \o parts[k]
      BY <2>1, <2>3, Zenon
    <3>2. lists[k] = parts[k]
      BY <2>2, <3>1, MarkBefore, Zenon
    <3> QED
      BY <2>2, <2>3, <3>2, Zenon
  <2>4. CASE k # 1
    <3>1. lists[k] = <<mark>> \o parts[k]
      BY <2>1, <2>4, Zenon
    <3>2. PICK q \in Seq(X) : q = parts[k]
      BY <2>2
    <3>3. PICK w : w = <<mark>> \o q
      OBVIOUS
    <3>4. /\ w \in Seq(X) /\ Len(w) = Len(q) + 1 /\ w[1] = mark
          /\ \A j \in 1..Len(q) : w[j + 1] = q[j]
      <4>1. mark \in X /\ q \in Seq(X)
        OBVIOUS
      <4> QED
        BY <3>3, <4>1, MarkBefore
    <3>5. lists[k] = w
      BY <3>1, <3>2, <3>3, Zenon
    <3> QED
      BY <2>4, <3>2, <3>4, <3>5, Zenon
  <2> QED
    BY <2>3, <2>4
<1>7. lists \in Seq(Seq(X)) /\ Len(lists) = m
  <2>1. lists = [k \in 1..m |-> lists[k]]
    BY <1>4
  <2> QED
    BY <1>6, <2>1, ListFrom
<1>8. t \in Seq(X)
  <2>1. PICK g : Flattens(g, lists, X)
    BY <1>7, FlattenSteps
  <2>2. Len(lists) \in 0..Len(lists)
    BY <1>7
  <2> QED
    BY <1>5, <2>1, <2>2 DEF Flattens
<1>9. PICK e : Sits(t, lists, e)
  BY <1>5, <1>7, FlattenPlaces
<1>10. PICK l \in Nat : l = Len(t)
  BY <1>8
<1>11. /\ e[0] = 0 /\ e[m] = l
       /\ \A k \in 0..m : e[k] \in Nat /\ e[k] <= l
       /\ \A k \in 1..m : e[k] = e[k - 1] + Len(lists[k])
       /\ \A k \in 1..m : \A j \in 1..Len(lists[k]) : t[e[k - 1] + j] = lists[k][j]
  <2>1. /\ e \in [0..m -> 0..l] /\ e[0] = 0 /\ e[m] = l
        /\ \A k \in 1..m : e[k] = e[k - 1] + Len(lists[k])
        /\ \A k \in 1..m : \A j \in 1..Len(lists[k]) : t[e[k - 1] + j] = lists[k][j]
    BY <1>7, <1>9, <1>10, Zenon DEF Sits, SitsUpTo
  <2> QED
    BY <1>10, <2>1
<1>12. PICK b : b = [k \in 1..m |-> IF k = 1 THEN 0 ELSE e[k - 1] + 1]
  OBVIOUS
<1>13. \A k \in 1..m : b[k] = IF k = 1 THEN 0 ELSE e[k - 1] + 1
  BY <1>12
<1>14. ASSUME NEW k \in 1..m
       PROVE  /\ b[k] \in Nat /\ b[k] + Len(parts[k]) = e[k]
              /\ \A j \in 1..Len(parts[k]) : t[b[k] + j] = parts[k][j]
  <2>1. PICK n \in Nat : n = Len(parts[k])
    BY <1>2
  <2>2. k - 1 \in 0..m /\ k \in 0..m
    BY <1>1
  <2>3. PICK c \in Nat : c = e[k - 1]
    BY <1>11, <2>2
  <2>4. e[k] = c + Len(lists[k]) /\ \A j \in 1..Len(lists[k]) : t[c + j] = lists[k][j]
    BY <1>11, <2>3, Zenon
  <2>5. CASE k = 1
    <3>1. c = 0
      BY <1>11, <2>3, <2>5
    <3>2. b[k] = 0 /\ lists[k] = parts[k]
      BY <1>6, <1>13, <2>5
    <3>3. e[k] = 0 + n /\ \A j \in 1..n : t[0 + j] = parts[k][j]
      BY <2>1, <2>4, <3>1, <3>2
    <3> QED
      BY <2>1, <3>2, <3>3
  <2>6. CASE k # 1
    <3>1. b[k] = c + 1
      BY <1>13, <2>3, <2>6
    <3>2. Len(lists[k]) = n + 1 /\ \A j \in 1..n : lists[k][j + 1] = parts[k][j]
      BY <1>6, <2>1, <2>6
    <3>3. e[k] = c + (n + 1) /\ \A j \in 1..(n + 1) : t[c + j] = lists[k][j]
      BY <2>4, <3>2
    <3>4. \A j \in 1..n : j + 1 \in 1..(n + 1) /\ (c + 1) + j = c + (j + 1)
      BY <2>1
    <3>5. \A j \in 1..n : t[(c + 1) + j] = parts[k][j]
      BY <3>2, <3>3, <3>4
    <3>6. c + 1 \in Nat /\ (c + 1) + n = c + (n + 1)
      OBVIOUS
    <3> QED
      BY <2>1, <3>1, <3>3, <3>5, <3>6
  <2> QED
    BY <2>5, <2>6
<1>15. ASSUME NEW k \in 1..(m - 1)
       PROVE  b[k + 1] = b[k] + Len(parts[k]) + 1 /\ b[k + 1] <= l /\ t[b[k + 1]] = mark
  <2>1. k \in 1..m /\ k + 1 \in 1..m /\ k + 1 # 1 /\ (k + 1) - 1 = k /\ k \in 0..m /\ k + 1 \in 0..m
    BY <1>1
  <2>2. PICK c \in Nat : c = e[k]
    BY <1>11, <2>1
  <2>3. b[k + 1] = c + 1
    BY <1>13, <2>1, <2>2
  <2>4. b[k] + Len(parts[k]) = c
    BY <1>14, <2>1, <2>2
  <2>5. PICK n \in Nat : n = Len(parts[k + 1])
    BY <1>2, <2>1
  <2>6. Len(lists[k + 1]) = n + 1 /\ lists[k + 1][1] = mark
    BY <1>6, <2>1, <2>5
  <2>7. e[k + 1] = c + (n + 1) /\ e[k + 1] <= l
    BY <1>11, <2>1, <2>2, <2>6
  <2>8. t[c + 1] = mark
    <3>1. 1 \in 1..Len(lists[k + 1])
      BY <2>5, <2>6
    <3> QED
      BY <1>11, <2>1, <2>2, <2>6, <3>1
  <2>9. c + 1 <= l
    BY <2>7, <1>10, <2>2, <2>5
  <2> QED
    BY <2>3, <2>4, <2>8, <2>9, Zenon
<1>16. m \in 1..m /\ 1 \in 1..m
  BY <1>1
<1>17. b[1] = 0
  BY <1>13, <1>16
<1>18. \A k \in 1..m : b[k] + Len(parts[k]) <= l
  <2> TAKE k \in 1..m
  <2>1. k \in 0..m
    OBVIOUS
  <2>2. b[k] + Len(parts[k]) = e[k] /\ e[k] <= l
    BY <1>11, <1>14, <2>1
  <2> QED
    BY <2>2
<1>19. MarkedAt(t, parts, mark, b)
  <2>1. b[m] + Len(parts[m]) = l
    BY <1>11, <1>14, <1>16
  <2>2. \A k \in 1..m : b[k] \in Nat /\ \A j \in 1..Len(parts[k]) : t[b[k] + j] = parts[k][j]
    BY <1>14, Zenon
  <2>3. \A k \in 1..(m - 1) : b[k + 1] = b[k] + Len(parts[k]) + 1 /\ b[k + 1] <= l /\ t[b[k + 1]] = mark
    BY <1>15, Zenon
  <2> QED
    BY <1>1, <1>10, <1>17, <1>18, <2>1, <2>2, <2>3, Zenon DEF MarkedAt
<1> QED
  BY <1>3, <1>8, <1>19, Zenon

\* What the parts are once symbol j of part k is taken.
CutSoFar(p, parts, k, j) ==
  /\ Len(p) = k /\ Len(p[k]) = j
  /\ \A i \in 1..(k - 1) : p[i] = parts[i]
  /\ \A i \in 1..j : p[k][i] = parts[k][i]

(* Cutting at marks takes one more symbol of a part.                        *)
LEMMA SymbolCut ==
  ASSUME NEW X, NEW mark, NEW p \in Seq(Seq(X)), p # <<>>, NEW parts, NEW k \in Nat \ {0}, NEW j \in Nat,
         CutSoFar(p, parts, k, j), NEW c \in X, c # mark, parts[k][j + 1] = c
  PROVE  CutSoFar(AddSymbol(p, c, mark), parts, k, j + 1)
<1>1. PICK q : q = AddSymbol(p, c, mark)
  OBVIOUS
<1>2. q \in Seq(Seq(X)) /\ LongerBy(q, p, c, mark)
  BY <1>1, AddedSymbol
<1>3. /\ Len(p) = k /\ Len(p[k]) = j /\ p[k] \in Seq(X)
      /\ \A i \in 1..(k - 1) : p[i] = parts[i]
      /\ \A i \in 1..j : p[k][i] = parts[k][i]
  <2>1. Len(p) = k /\ Len(p[k]) = j
      /\ (\A i \in 1..(k - 1) : p[i] = parts[i])
      /\ \A i \in 1..j : p[k][i] = parts[k][i]
    BY Zenon DEF CutSoFar
  <2>2. p[k] \in Seq(X)
    BY <2>1
  <2> QED
    BY <2>1, <2>2, Zenon
<1>4. Len(q) = k /\ q[k] = Append(p[k], c) /\ \A i \in 1..(k - 1) : q[i] = p[i]
  BY <1>2, <1>3, Zenon DEF LongerBy
<1>5. PICK y \in Seq(X) : y = p[k]
  BY <1>3
<1>6. Len(Append(y, c)) = j + 1 /\ Append(y, c)[j + 1] = c /\ \A i \in 1..j : Append(y, c)[i] = y[i]
  <2>1. Len(y) = j
    BY <1>3, <1>5, Zenon
  <2> QED
    BY <2>1
<1>7. PICK z : z = Append(y, c)
  OBVIOUS
<1>8. \A i \in 1..(j + 1) : z[i] = parts[k][i]
  <2> TAKE i \in 1..(j + 1)
  <2>1. i \in 1..j \/ i = j + 1
    OBVIOUS
  <2> QED
    BY <1>3, <1>5, <1>6, <1>7, <2>1, Zenon
<1> QED
  BY <1>1, <1>3, <1>4, <1>5, <1>6, <1>7, <1>8, Zenon DEF CutSoFar

(* Cutting at marks starts the next part at the mark after one.             *)
LEMMA MarkCut ==
  ASSUME NEW X, NEW mark \in X, NEW p \in Seq(Seq(X)), p # <<>>, NEW parts, NEW k \in Nat \ {0},
         parts[k] \in Seq(X), CutSoFar(p, parts, k, Len(parts[k]))
  PROVE  CutSoFar(AddSymbol(p, mark, mark), parts, k + 1, 0)
<1>1. PICK q : q = AddSymbol(p, mark, mark)
  OBVIOUS
<1>2. q \in Seq(Seq(X)) /\ LongerBy(q, p, mark, mark)
  BY <1>1, AddedSymbol
<1>3. /\ Len(p) = k /\ Len(p[k]) = Len(parts[k])
      /\ \A i \in 1..(k - 1) : p[i] = parts[i]
      /\ \A i \in 1..Len(parts[k]) : p[k][i] = parts[k][i]
  BY Zenon DEF CutSoFar
<1>4. p[k] \in Seq(X)
  BY <1>3
<1>5. p[k] = parts[k]
  <2>1. PICK y \in Seq(X) : y = p[k]
    BY <1>4
  <2>2. PICK x \in Seq(X) : x = parts[k]
    OBVIOUS
  <2>3. Len(y) = Len(x) /\ \A i \in 1..Len(y) : y[i] = x[i]
    BY <1>3, <2>1, <2>2, Zenon
  <2>4. y = x
    BY <2>3, SeqEqual
  <2> QED
    BY <2>1, <2>2, <2>4
<1>6. Len(q) = k + 1 /\ q[k + 1] = <<>> /\ \A i \in 1..k : q[i] = p[i]
  BY <1>2, <1>3, Zenon DEF LongerBy
<1>7. \A i \in 1..((k + 1) - 1) : q[i] = parts[i]
  <2> TAKE i \in 1..((k + 1) - 1)
  <2>1. i \in 1..k /\ (i \in 1..(k - 1) \/ i = k)
    OBVIOUS
  <2> QED
    BY <1>3, <1>5, <1>6, <2>1, Zenon
<1>8. Len(<<>>) = 0 /\ \A i \in 1..0 : <<>>[i] = parts[k + 1][i]
  OBVIOUS
<1> QED
  BY <1>1, <1>6, <1>7, <1>8, Zenon DEF CutSoFar

(* Parts put together with a mark they do not hold are cut apart again.     *)
LEMMA SplitJoined ==
  ASSUME NEW X, NEW mark \in X, NEW parts \in Seq(Seq(X)), parts # <<>>,
         \A k \in 1..Len(parts) : \A j \in 1..Len(parts[k]) : parts[k][j] # mark
  PROVE  Split(Marked(parts, mark), mark) = parts
<1>1. PICK m \in Nat : m = Len(parts) /\ m # 0
  <2>1. Len(parts) \in Nat /\ Len(parts) # 0
    OBVIOUS
  <2> QED
    BY <2>1
<1>2. \A k \in 1..m : parts[k] \in Seq(X) /\ Len(parts[k]) \in Nat
  BY <1>1
<1>3. PICK t : t = Marked(parts, mark)
  OBVIOUS
<1>4. t \in Seq(X) /\ \E b : MarkedAt(t, parts, mark, b)
  BY <1>3, MarkedPlaces
<1>5. PICK b : MarkedAt(t, parts, mark, b)
  BY <1>4
<1>6. PICK l \in Nat : l = Len(t)
  BY <1>4
<1>7. /\ b[1] = 0 /\ b[m] + Len(parts[m]) = l
      /\ \A k \in 1..m : b[k] \in Nat /\ b[k] + Len(parts[k]) <= l
      /\ \A k \in 1..m : \A j \in 1..Len(parts[k]) : t[b[k] + j] = parts[k][j]
      /\ \A k \in 1..(m - 1) :
           b[k + 1] = b[k] + Len(parts[k]) + 1 /\ b[k + 1] <= l /\ t[b[k + 1]] = mark
  BY <1>1, <1>5, <1>6, Zenon DEF MarkedAt
<1>8. PICK f : SplitsTo(f, t, mark, X)
  BY <1>4, SplitSteps
<1>9. /\ f \in [0..l -> Seq(Seq(X)) \ {<<>>}] /\ f[0] = <<<<>>>>
      /\ \A n \in 1..l : f[n] = AddSymbol(f[n - 1], t[n], mark)
      /\ Split(t, mark) = f[l]
  BY <1>6, <1>8, Zenon DEF SplitsTo
<1>10. \A n \in 0..l : f[n] \in Seq(Seq(X)) /\ f[n] # <<>>
  BY <1>9
<1> DEFINE S == {n \in 0..l : \E k \in 1..m : \E j \in 0..Len(parts[k]) :
                                n = b[k] + j /\ CutSoFar(f[n], parts, k, j)}
<1>11. 0 \in S
  <2>1. 1 \in 1..m /\ 0 \in 0..l
    BY <1>1
  <2>2. 0 \in 0..Len(parts[1]) /\ 0 = b[1] + 0
    BY <1>2, <1>7, <2>1
  <2>3. PICK p : p = <<<<>>>>
    OBVIOUS
  <2>4. Len(p) = 1 /\ p[1] = <<>>
    BY <2>3
  <2>5. Len(<<>>) = 0 /\ (\A i \in 1..0 : <<>>[i] = parts[1][i]) /\ \A i \in 1..(1 - 1) : p[i] = parts[i]
    OBVIOUS
  <2>6. CutSoFar(p, parts, 1, 0)
    BY <2>4, <2>5 DEF CutSoFar
  <2> QED
    BY <1>9, <2>1, <2>2, <2>3, <2>6
<1>12. ASSUME NEW n \in 1..l, n - 1 \in S PROVE n \in S
  <2>1. PICK k \in 1..m : \E j \in 0..Len(parts[k]) : n - 1 = b[k] + j /\ CutSoFar(f[n - 1], parts, k, j)
    BY <1>12
  <2>2. PICK j \in 0..Len(parts[k]) : n - 1 = b[k] + j /\ CutSoFar(f[n - 1], parts, k, j)
    BY <2>1
  <2>3. PICK w \in Nat : w = Len(parts[k])
    BY <1>2
  <2>4. PICK c \in Nat : c = b[k]
    BY <1>7
  <2>5. PICK p : p = f[n - 1]
    OBVIOUS
  <2>6. p \in Seq(Seq(X)) /\ p # <<>> /\ CutSoFar(p, parts, k, j) /\ n \in 0..l /\ n = c + j + 1 /\ j \in 0..w
    <3>1. n - 1 \in 0..l /\ n \in 0..l
      BY <1>6
    <3> QED
      BY <1>10, <2>2, <2>3, <2>4, <2>5, <3>1
  <2>7. f[n] = AddSymbol(p, t[n], mark) /\ k \in Nat \ {0}
    BY <1>1, <1>9, <2>5
  <2>8. CASE j < w
    <3>1. j + 1 \in 1..w /\ j + 1 \in 0..w /\ j \in Nat /\ c + (j + 1) = n
      BY <2>3, <2>6, <2>8
    <3>2. t[n] = parts[k][j + 1]
      BY <1>7, <2>3, <2>4, <3>1
    <3>3. t[n] \in X /\ t[n] # mark
      <4>1. parts[k][j + 1] \in X
        BY <1>2, <2>3, <3>1
      <4>2. parts[k][j + 1] # mark
        BY <1>1, <2>3, <3>1
      <4> QED
        BY <3>2, <4>1, <4>2
    <3>4. CutSoFar(AddSymbol(p, t[n], mark), parts, k, j + 1)
      BY <2>6, <2>7, <3>1, <3>2, <3>3, SymbolCut
    <3> QED
      BY <2>3, <2>4, <2>6, <2>7, <3>1, <3>4
  <2>9. CASE ~(j < w)
    <3>1. j = w
      BY <2>6, <2>9
    <3>2. k # m
      <4> SUFFICES ASSUME k = m PROVE FALSE
        OBVIOUS
      <4>1. c + w = l
        BY <1>7, <2>3, <2>4
      <4> QED
        BY <2>6, <3>1, <4>1
    <3>3. k \in 1..(m - 1) /\ k + 1 \in 1..m
      BY <1>1, <3>2
    <3>4. b[k + 1] = c + w + 1 /\ t[b[k + 1]] = mark
      BY <1>7, <2>3, <2>4, <3>3
    <3>5. n = b[k + 1] + 0 /\ t[n] = mark
      BY <2>3, <2>4, <2>6, <3>1, <3>4
    <3>6. CutSoFar(p, parts, k, Len(parts[k])) /\ parts[k] \in Seq(X)
      BY <1>2, <2>3, <2>6, <3>1
    <3>7. CutSoFar(AddSymbol(p, mark, mark), parts, k + 1, 0)
      BY <2>6, <2>7, <3>6, MarkCut
    <3>8. 0 \in 0..Len(parts[k + 1])
      BY <1>2, <3>3
    <3>9. CutSoFar(f[n], parts, k + 1, 0)
      BY <2>7, <3>5, <3>7, Zenon
    <3> QED
      BY <2>6, <3>3, <3>5, <3>8, <3>9
  <2> QED
    BY <2>8, <2>9
<1> HIDE DEF S
<1>13. 0..l \subseteq S
  BY <1>6, <1>11, <1>12, InductionUpTo
<1>14. l \in S
  BY <1>6, <1>13
<1>15. PICK k \in 1..m : \E j \in 0..Len(parts[k]) : l = b[k] + j /\ CutSoFar(f[l], parts, k, j)
  BY <1>14 DEF S
<1>16. PICK j \in 0..Len(parts[k]) : l = b[k] + j /\ CutSoFar(f[l], parts, k, j)
  BY <1>15
<1>17. k = m
  <2> SUFFICES ASSUME k # m PROVE FALSE
    OBVIOUS
  <2>1. k \in 1..(m - 1)
    BY <1>1
  <2>2. PICK w \in Nat : w = Len(parts[k])
    BY <1>2
  <2>3. PICK c \in Nat : c = b[k]
    BY <1>7
  <2>4. c + w + 1 <= l
    BY <1>7, <2>1, <2>2, <2>3
  <2>5. l = c + j /\ j \in 0..w
    BY <1>16, <2>2, <2>3
  <2> QED
    BY <2>2, <2>3, <2>4, <2>5
<1>18. PICK w \in Nat : w = Len(parts[m])
  BY <1>1, <1>2
<1>19. PICK c \in Nat : c = b[m]
  BY <1>1, <1>7
<1>20. j = w
  <2>1. c + w = l /\ l = c + j /\ j \in 0..w
    BY <1>7, <1>16, <1>17, <1>18, <1>19
  <2> QED
    BY <1>18, <1>19, <2>1
<1>21. PICK p : p = f[l]
  OBVIOUS
<1>22. p \in Seq(Seq(X)) /\ CutSoFar(p, parts, m, w)
  <2>1. l \in 0..l
    BY <1>6
  <2> QED
    BY <1>10, <1>16, <1>17, <1>20, <1>21, <2>1
<1>23. /\ Len(p) = m /\ Len(p[m]) = w
       /\ \A i \in 1..(m - 1) : p[i] = parts[i]
       /\ \A i \in 1..w : p[m][i] = parts[m][i]
  BY <1>22, Zenon DEF CutSoFar
<1>24. p[m] = parts[m]
  <2>0. m \in 1..m
    BY <1>1
  <2>1. PICK y \in Seq(X) : y = p[m]
    BY <1>22, <1>23, <2>0
  <2>2. PICK x \in Seq(X) : x = parts[m]
    BY <1>2, <2>0
  <2>3. Len(y) = Len(x) /\ \A i \in 1..Len(y) : y[i] = x[i]
    BY <1>18, <1>23, <2>1, <2>2, Zenon
  <2>4. y = x
    BY <2>3, SeqEqual
  <2> QED
    BY <2>1, <2>2, <2>4
<1>25. \A i \in 1..m : p[i] = parts[i]
  <2> TAKE i \in 1..m
  <2>1. i \in 1..(m - 1) \/ i = m
    BY <1>1
  <2> QED
    BY <1>23, <1>24, <2>1
<1>26. p = parts
  BY <1>1, <1>22, <1>23, <1>25, SeqEqual
<1> QED
  BY <1>3, <1>9, <1>21, <1>26

\* One element of a set is set apart.
Chosen(s) == CHOOSE x \in s : TRUE

\* The sum of the values of a set, an element set apart at each turn.
AddTurn(g, val, s) == IF s = {} THEN 0 ELSE val[Chosen(s)] + g[s \ {Chosen(s)}]

\* What the values of the subsets of U add up to.
Adds(g, val, U) == g \in [SUBSET U -> Int] /\ \A s \in SUBSET U : g[s] = AddTurn(g, val, s)

(* An element can be set apart of a set that has any.                       *)
LEMMA ChosenIs ==
  ASSUME NEW s, s # {}
  PROVE  Chosen(s) \in s
  BY DEF Chosen

(* Setting an element apart leaves a smaller set.                           *)
LEMMA OneFewer ==
  ASSUME NEW U, IsFiniteSet(U), NEW s \in SUBSET U, NEW x \in s, NEW n \in Nat, Cardinality(s) <= n
  PROVE  s \ {x} \in SUBSET U /\ n # 0 /\ Cardinality(s \ {x}) <= n - 1
<1>1. IsFiniteSet(s)
  BY FS_Subset
<1>2. Cardinality(s) \in Nat
  BY <1>1, FS_CardinalityType
<1>3. Cardinality(s \ {x}) = Cardinality(s) - 1
  BY <1>1, FS_RemoveElement
<1>4. Cardinality(s) # 0
  BY <1>1, FS_EmptySet
<1>5. PICK c \in Nat : c = Cardinality(s) /\ c # 0
  BY <1>2, <1>4
<1>6. c <= n /\ Cardinality(s \ {x}) = c - 1
  BY <1>3, <1>5
<1>7. n # 0 /\ c - 1 <= n - 1
  BY <1>5, <1>6
<1> QED
  BY <1>6, <1>7

(* The values of the subsets of a finite set add up.                        *)
LEMMA AddsExist ==
  ASSUME NEW U, IsFiniteSet(U), NEW val \in [U -> Int]
  PROVE  \E g : Adds(g, val, U)
<1>1. PICK k \in Nat : k = Cardinality(U)
  BY FS_CardinalityType
<1> DEFINE Upto1(g, n) == \A s \in SUBSET U : Cardinality(s) <= n => g[s] = AddTurn(g, val, s)
           S == {n \in 0..k : \E g \in [SUBSET U -> Int] : Upto1(g, n)}
<1>2. 0 \in S
  <2> DEFINE g == [s \in SUBSET U |-> 0]
  <2>1. g \in [SUBSET U -> Int]
    OBVIOUS
  <2>2. ASSUME NEW s \in SUBSET U, Cardinality(s) <= 0 PROVE g[s] = AddTurn(g, val, s)
    <3>1. s = {}
      <4> SUFFICES ASSUME s # {} PROVE FALSE
        OBVIOUS
      <4>1. PICK x \in s : TRUE
        OBVIOUS
      <4> QED
        BY <2>2, <4>1, OneFewer
    <3>2. g[s] = 0
      OBVIOUS
    <3> QED
      BY <3>1, <3>2 DEF AddTurn
  <2>3. 0 \in 0..k
    BY <1>1
  <2> HIDE DEF g
  <2> QED
    BY <2>1, <2>2, <2>3
<1>3. ASSUME NEW n \in 1..k, n - 1 \in S PROVE n \in S
  <2>1. PICK g \in [SUBSET U -> Int] : Upto1(g, n - 1)
    BY <1>3
  <2>2. PICK h : h = [s \in SUBSET U |-> IF Cardinality(s) <= n - 1 THEN g[s] ELSE AddTurn(g, val, s)]
    OBVIOUS
  <2>3. ASSUME NEW s \in SUBSET U PROVE AddTurn(g, val, s) \in Int
    <3>1. CASE s = {}
      BY <3>1 DEF AddTurn
    <3>2. CASE s # {}
      <4>1. PICK x \in s : x = Chosen(s)
        BY <3>2, ChosenIs
      <4>2. val[x] \in Int /\ s \ {x} \in SUBSET U
        OBVIOUS
      <4>3. g[s \ {x}] \in Int
        BY <4>2
      <4>4. AddTurn(g, val, s) = val[x] + g[s \ {x}]
        BY <3>2, <4>1 DEF AddTurn
      <4> QED
        BY <4>2, <4>3, <4>4
    <3> QED
      BY <3>1, <3>2
  <2>4. h \in [SUBSET U -> Int]
    BY <2>2, <2>3
  <2>5. \A s \in SUBSET U : h[s] = IF Cardinality(s) <= n - 1 THEN g[s] ELSE AddTurn(g, val, s)
    BY <2>2
  <2>6. ASSUME NEW s \in SUBSET U PROVE Cardinality(s) <= n - 1 => h[s] = g[s] /\ g[s] = AddTurn(g, val, s)
    BY <2>1, <2>5
  <2>7. ASSUME NEW s \in SUBSET U, Cardinality(s) <= n PROVE h[s] = AddTurn(h, val, s)
    <3>1. h[s] = AddTurn(g, val, s)
      BY <2>5, <2>6
    <3>2. CASE s = {}
      BY <3>1, <3>2 DEF AddTurn
    <3>3. CASE s # {}
      <4>1. PICK x \in s : x = Chosen(s)
        BY <3>3, ChosenIs
      <4>2. s \ {x} \in SUBSET U /\ Cardinality(s \ {x}) <= n - 1
        BY <2>7, OneFewer
      <4>3. h[s \ {x}] = g[s \ {x}]
        BY <2>6, <4>2
      <4>4. AddTurn(h, val, s) = val[x] + h[s \ {x}] /\ AddTurn(g, val, s) = val[x] + g[s \ {x}]
        BY <3>3, <4>1 DEF AddTurn
      <4> QED
        BY <3>1, <4>3, <4>4
    <3> QED
      BY <3>2, <3>3
  <2>8. Upto1(h, n)
    BY <2>7
  <2>9. n \in 0..k
    OBVIOUS
  <2> HIDE DEF Upto1
  <2> QED
    BY <2>4, <2>8, <2>9
<1> HIDE DEF S
<1>4. 0..k \subseteq S
  BY <1>1, <1>2, <1>3, InductionUpTo
<1>5. k \in S
  BY <1>1, <1>4
<1>6. PICK g \in [SUBSET U -> Int] : Upto1(g, k)
  BY <1>5 DEF S
<1>7. \A s \in SUBSET U : Cardinality(s) <= k
  BY <1>1, FS_Subset
<1>8. Adds(g, val, U)
  BY <1>6, <1>7 DEF Adds
<1> QED
  BY <1>8

\* Whatever element is set apart.
AnyApart(g, val, U) == \A s \in SUBSET U : \A x \in s : g[s] = val[x] + g[s \ {x}]

(* In such a sum any element may be set apart.                              *)
LEMMA AddsAny ==
  ASSUME NEW U, IsFiniteSet(U), NEW val \in [U -> Int], NEW g, Adds(g, val, U)
  PROVE  AnyApart(g, val, U)
<1>1. PICK k \in Nat : k = Cardinality(U)
  BY FS_CardinalityType
<1>2. g \in [SUBSET U -> Int] /\ \A s \in SUBSET U : g[s] = AddTurn(g, val, s)
  BY DEF Adds
<1> DEFINE Apart(s) == \A x \in s : g[s] = val[x] + g[s \ {x}]
           S == {n \in 0..k : \A s \in SUBSET U : Cardinality(s) <= n => Apart(s)}
<1>3. 0 \in S
  <2>1. ASSUME NEW s \in SUBSET U, Cardinality(s) <= 0, NEW x \in s PROVE FALSE
    BY <2>1, OneFewer
  <2>2. 0 \in 0..k
    BY <1>1
  <2> QED
    BY <2>1, <2>2
<1>4. ASSUME NEW n \in 1..k, n - 1 \in S PROVE n \in S
  <2>1. ASSUME NEW s \in SUBSET U, Cardinality(s) <= n, NEW x \in s
        PROVE  g[s] = val[x] + g[s \ {x}]
    <3>1. PICK c \in s : c = Chosen(s)
      BY ChosenIs
    <3>2. g[s] = val[c] + g[s \ {c}]
      BY <1>2, <3>1 DEF AddTurn
    <3>3. CASE c = x
      BY <3>2, <3>3
    <3>4. CASE c # x
      <4>1. PICK a : a = s \ {c}
        OBVIOUS
      <4>2. PICK b : b = s \ {x}
        OBVIOUS
      <4>3. PICK d : d = a \ {x}
        OBVIOUS
      <4>4. d = b \ {c} /\ x \in a /\ c \in b
        BY <3>4, <4>1, <4>2, <4>3
      <4>5. /\ a \in SUBSET U /\ Cardinality(a) <= n - 1
            /\ b \in SUBSET U /\ Cardinality(b) <= n - 1
        BY <2>1, <4>1, <4>2, OneFewer
      <4>6. Apart(a) /\ Apart(b)
        BY <1>4, <4>5
      <4>7. g[a] = val[x] + g[d] /\ g[b] = val[c] + g[d]
        BY <4>3, <4>4, <4>6
      <4>8. d \in SUBSET U /\ x \in U /\ c \in U
        BY <4>1, <4>3
      <4>9. val[x] \in Int /\ val[c] \in Int /\ g[d] \in Int
        BY <1>2, <4>8
      <4>10. g[s] = val[c] + g[a]
        BY <3>2, <4>1
      <4>11. g[s] = val[x] + g[b]
        BY <4>7, <4>9, <4>10
      <4> QED
        BY <4>2, <4>11
    <3> QED
      BY <3>3, <3>4
  <2>2. n \in 0..k
    OBVIOUS
  <2> QED
    BY <2>1, <2>2
<1> HIDE DEF S
<1>5. 0..k \subseteq S
  BY <1>1, <1>3, <1>4, InductionUpTo
<1>6. k \in S
  BY <1>1, <1>5
<1>7. \A s \in SUBSET U : Cardinality(s) <= k
  BY <1>1, FS_Subset
<1> QED
  BY <1>6, <1>7 DEF S, AnyApart

\* Every turn of the subsets of T adds a value.
Turning(g, val, T) == \A s \in SUBSET T : g[s] = AddTurn(g, val, s)

(* Sums of the same values over a set are the same.                         *)
LEMMA AddsAgree ==
  ASSUME NEW U, IsFiniteSet(U), NEW T \in SUBSET U, NEW val, NEW g, NEW h,
         Turning(g, val, T), Turning(h, val, T)
  PROVE  g[T] = h[T]
<1>0. \A s \in SUBSET T : g[s] = AddTurn(g, val, s) /\ h[s] = AddTurn(h, val, s)
  BY DEF Turning
<1>1. IsFiniteSet(T)
  BY FS_Subset
<1>2. PICK k \in Nat : k = Cardinality(T)
  BY <1>1, FS_CardinalityType
<1> DEFINE S == {n \in 0..k : \A s \in SUBSET T : Cardinality(s) <= n => g[s] = h[s]}
<1>3. ASSUME NEW s \in SUBSET T, s = {} PROVE g[s] = h[s]
  BY <1>0, <1>3 DEF AddTurn
<1>4. 0 \in S
  <2>1. ASSUME NEW s \in SUBSET T, Cardinality(s) <= 0 PROVE g[s] = h[s]
    <3>1. CASE s = {}
      BY <1>3, <3>1
    <3>2. CASE s # {}
      <4>1. PICK x \in s : TRUE
        BY <3>2
      <4> QED
        BY <1>1, <2>1, <4>1, OneFewer
    <3> QED
      BY <3>1, <3>2
  <2>2. 0 \in 0..k
    BY <1>2
  <2> QED
    BY <2>1, <2>2
<1>5. ASSUME NEW n \in 1..k, n - 1 \in S PROVE n \in S
  <2>1. ASSUME NEW s \in SUBSET T, Cardinality(s) <= n PROVE g[s] = h[s]
    <3>1. CASE s = {}
      BY <1>3, <3>1
    <3>2. CASE s # {}
      <4>1. PICK x \in s : x = Chosen(s)
        BY <3>2, ChosenIs
      <4>2. s \ {x} \in SUBSET T /\ Cardinality(s \ {x}) <= n - 1
        BY <1>1, <2>1, OneFewer
      <4>3. g[s \ {x}] = h[s \ {x}]
        BY <1>5, <4>2
      <4>4. g[s] = val[x] + g[s \ {x}]
        <5>1. g[s] = AddTurn(g, val, s)
          BY <1>0
        <5> QED
          BY <3>2, <4>1, <5>1 DEF AddTurn
      <4>5. h[s] = val[x] + h[s \ {x}]
        <5>1. h[s] = AddTurn(h, val, s)
          BY <1>0
        <5> QED
          BY <3>2, <4>1, <5>1 DEF AddTurn
      <4> QED
        BY <4>3, <4>4, <4>5
    <3> QED
      BY <3>1, <3>2
  <2>2. n \in 0..k
    OBVIOUS
  <2> QED
    BY <2>1, <2>2
<1> HIDE DEF S
<1>6. 0..k \subseteq S
  BY <1>2, <1>4, <1>5, InductionUpTo
<1>7. k \in S
  BY <1>2, <1>6
<1>8. T \in SUBSET T /\ Cardinality(T) <= k
  BY <1>2
<1> QED
  BY <1>7, <1>8 DEF S

\* The places of the segments of some lines, and the values of a field there.
Points(deltas) == UNION {{<<i, j>> : j \in DOMAIN deltas[i]} : i \in DOMAIN deltas}
FieldOf(deltas, f) ==
  [p \in Points(deltas) |-> IF f <= Len(deltas[p[1]][p[2]]) THEN deltas[p[1]][p[2]][f] ELSE 0]

(* A place of the deltas is that of a segment of a line.                    *)
LEMMA PointIs ==
  ASSUME NEW X, NEW deltas \in Seq(Seq(X))
  PROVE  /\ \A i \in 1..Len(deltas) : \A j \in 1..Len(deltas[i]) : <<i, j>> \in Points(deltas)
         /\ \A p \in Points(deltas) : /\ p[1] \in 1..Len(deltas) /\ p[2] \in 1..Len(deltas[p[1]])
                                      /\ p[1] \in Nat /\ p[2] \in Nat /\ p = <<p[1], p[2]>>
<1>1. DOMAIN deltas = 1..Len(deltas) /\ Len(deltas) \in Nat
  OBVIOUS
<1>2. \A i \in 1..Len(deltas) : DOMAIN deltas[i] = 1..Len(deltas[i]) /\ Len(deltas[i]) \in Nat
  <2> TAKE i \in 1..Len(deltas)
  <2>1. deltas[i] \in Seq(X)
    OBVIOUS
  <2> QED
    BY <2>1
<1>3. \A i \in 1..Len(deltas) : \A j \in 1..Len(deltas[i]) : <<i, j>> \in Points(deltas)
  <2> TAKE i \in 1..Len(deltas)
  <2> TAKE j \in 1..Len(deltas[i])
  <2>1. PICK row : row = {<<i, n>> : n \in DOMAIN deltas[i]}
    OBVIOUS
  <2>2. j \in DOMAIN deltas[i] /\ i \in DOMAIN deltas
    BY <1>1, <1>2
  <2>3. <<i, j>> \in row
    BY <2>1, <2>2
  <2>4. row \in {{<<n, o>> : o \in DOMAIN deltas[n]} : n \in DOMAIN deltas}
    BY <2>1, <2>2, Zenon
  <2> QED
    BY <2>3, <2>4, Zenon DEF Points
<1>4. ASSUME NEW p \in Points(deltas)
      PROVE  /\ p[1] \in 1..Len(deltas) /\ p[2] \in 1..Len(deltas[p[1]])
             /\ p[1] \in Nat /\ p[2] \in Nat /\ p = <<p[1], p[2]>>
  <2>1. PICK i \in 1..Len(deltas) : \E j \in DOMAIN deltas[i] : p = <<i, j>>
    BY <1>1 DEF Points
  <2>2. PICK j \in 1..Len(deltas[i]) : p = <<i, j>>
    BY <1>2, <2>1
  <2>3. p[1] = i /\ p[2] = j
    BY <2>2
  <2>4. i \in Nat /\ j \in Nat
    BY <1>1, <1>2
  <2> QED
    BY <2>2, <2>3, <2>4, Zenon
<1> QED
  BY <1>3, <1>4

(* There are finitely many places in finitely many lines.                   *)
LEMMA PointsFinite ==
  ASSUME NEW X, NEW deltas \in Seq(Seq(X))
  PROVE  IsFiniteSet(Points(deltas))
<1>1. PICK m \in Nat : m = Len(deltas)
  OBVIOUS
<1> DEFINE Some(n) == {p \in Points(deltas) : p[1] <= n}
           S == {n \in 0..m : IsFiniteSet(Some(n))}
<1>2. \A p \in Points(deltas) : /\ p[1] \in 1..m /\ p[2] \in 1..Len(deltas[p[1]])
                                /\ p[1] \in Nat /\ p[2] \in Nat /\ p = <<p[1], p[2]>>
  BY <1>1, PointIs
<1>3. 0 \in S
  <2>1. \A p \in Points(deltas) : ~(p[1] <= 0)
    BY <1>2
  <2>2. Some(0) = {}
    BY <2>1
  <2>3. IsFiniteSet({})
    BY FS_EmptySet
  <2>4. 0 \in 0..m
    BY <1>1
  <2> HIDE DEF Some
  <2>5. IsFiniteSet(Some(0))
    BY <2>2, <2>3, Zenon
  <2> QED
    BY <2>4, <2>5
<1>4. ASSUME NEW n \in 1..m, n - 1 \in S PROVE n \in S
  <2>1. PICK w \in Nat : w = Len(deltas[n])
    <3>1. deltas[n] \in Seq(X)
      BY <1>1
    <3> QED
      BY <3>1
  <2>2. IsFiniteSet({n}) /\ IsFiniteSet(1..w) /\ IsFiniteSet(Some(n - 1))
    <3>1. IsFiniteSet({n})
      BY FS_Singleton
    <3>2. IsFiniteSet(1..w)
      BY FS_Interval
    <3> QED
      BY <1>4, <3>1, <3>2
  <2> DEFINE V == Some(n - 1) \cup ({n} \X (1..w))
  <2>3. IsFiniteSet(V)
    <3>1. IsFiniteSet({n} \X (1..w))
      BY <2>2, FS_Product
    <3> HIDE DEF Some
    <3> QED
      BY <2>2, <3>1, FS_Union
  <2>4. ASSUME NEW p \in Some(n) PROVE p \in V
    <3>1. p \in Points(deltas) /\ p[1] <= n
      OBVIOUS
    <3>2. p[1] \in Nat /\ p[2] \in 1..Len(deltas[p[1]]) /\ p = <<p[1], p[2]>>
      BY <1>2, <3>1
    <3>3. p[1] <= n - 1 \/ p[1] = n
      BY <3>1, <3>2
    <3>4. p[1] = n => p \in {n} \X (1..w)
      BY <2>1, <3>2
    <3> QED
      BY <3>1, <3>3, <3>4
  <2>5. Some(n) \in SUBSET V
    BY <2>4
  <2> HIDE DEF V, Some
  <2>6. IsFiniteSet(Some(n))
    BY <2>3, <2>5, FS_Subset
  <2> QED
    BY <1>1, <2>6
<1> HIDE DEF S
<1>5. 0..m \subseteq S
  BY <1>1, <1>3, <1>4, InductionUpTo
<1>6. m \in S
  BY <1>1, <1>5
<1>7. IsFiniteSet(Some(m))
  BY <1>6 DEF S
<1>8. Some(m) = Points(deltas)
  <2>1. \A p \in Points(deltas) : p[1] <= m
    BY <1>2
  <2> QED
    BY <2>1
<1> QED
  BY <1>7, <1>8

(* The values of a field are integers.                                      *)
LEMMA FieldIs ==
  ASSUME NEW deltas \in Seq(Seq(Segment)), NEW f \in 1..5
  PROVE  /\ FieldOf(deltas, f) \in [Points(deltas) -> Int]
         /\ \A l \in 1..Len(deltas) : \A k \in 1..Len(deltas[l]) :
              deltas[l][k] \in Segment /\ deltas[l][k] \in Seq(Int) /\ Len(deltas[l][k]) \in {1, 4, 5}
<1>1. ASSUME NEW l \in 1..Len(deltas), NEW k \in 1..Len(deltas[l])
      PROVE  deltas[l][k] \in Segment /\ deltas[l][k] \in Seq(Int) /\ Len(deltas[l][k]) \in {1, 4, 5}
  <2>1. deltas[l] \in Seq(Segment)
    OBVIOUS
  <2>2. PICK s \in Segment : s = deltas[l][k]
    BY <2>1
  <2>3. s \in Seq(Delta) /\ Len(s) \in {1, 4, 5}
    BY Zenon DEF Segment
  <2>4. s \in Seq(Int)
    BY <2>3, DeltasAre
  <2> QED
    BY <2>2, <2>3, <2>4
<1>2. ASSUME NEW p \in Points(deltas)
      PROVE  (IF f <= Len(deltas[p[1]][p[2]]) THEN deltas[p[1]][p[2]][f] ELSE 0) \in Int
  <2>1. p[1] \in 1..Len(deltas) /\ p[2] \in 1..Len(deltas[p[1]])
    BY PointIs
  <2>2. PICK s \in Seq(Int) : s = deltas[p[1]][p[2]]
    BY <1>1, <2>1
  <2>3. f <= Len(s) => s[f] \in Int
    OBVIOUS
  <2> QED
    BY <2>2, <2>3
<1>3. FieldOf(deltas, f) \in [Points(deltas) -> Int]
  BY <1>2 DEF FieldOf
<1> QED
  BY <1>1, <1>3

(* The places whose values a position adds up are finitely many places.     *)
LEMMA SoFarIs ==
  ASSUME NEW deltas, NEW l, NEW k, NEW f
  PROVE  SoFar(deltas, l, k, f) =
           {p \in Points(deltas) : /\ p[1] < l \/ (p[1] = l /\ p[2] <= k)
                                   /\ Len(deltas[p[1]][p[2]]) >= f
                                   /\ f = 1 => p[1] = l}
  BY Zenon DEF SoFar, Points

(* A sum is what its values add up to.                                      *)
LEMMA SumIs ==
  ASSUME NEW deltas \in Seq(Seq(Segment)), NEW f \in 1..5, NEW l, NEW k,
         NEW g, Adds(g, FieldOf(deltas, f), Points(deltas))
  PROVE  SumTo(deltas, l, k, f) = g[SoFar(deltas, l, k, f)]
<1> DEFINE T == SoFar(deltas, l, k, f)
           U == Points(deltas)
           val == FieldOf(deltas, f)
           Turn(h, s) == IF s = {} THEN 0
                         ELSE deltas[Chosen(s)[1]][Chosen(s)[2]][f] + h[s \ {Chosen(s)}]
           Fills(h) == h = [s \in SUBSET T |-> Turn(h, s)]
           iter == CHOOSE h : Fills(h)
<1>1. SumTo(deltas, l, k, f) = iter[T]
  BY DEF SumTo, MapThenSumSet, MapThenFoldSet, Chosen
<1>2. T \in SUBSET U /\ IsFiniteSet(U)
  BY SoFarIs, PointsFinite
<1>3. ASSUME NEW p \in T PROVE val[p] = deltas[p[1]][p[2]][f]
  <2>1. p \in U /\ Len(deltas[p[1]][p[2]]) >= f
    BY SoFarIs
  <2>2. PICK n \in {1, 4, 5} : n = Len(deltas[p[1]][p[2]])
    BY <2>1, PointIs, FieldIs
  <2>3. f <= Len(deltas[p[1]][p[2]])
    BY <2>1, <2>2
  <2> QED
    BY <2>1, <2>3 DEF FieldOf
<1> HIDE DEF T, U, val
<1>4. ASSUME NEW h, NEW s \in SUBSET T PROVE AddTurn(h, val, s) = Turn(h, s)
  <2>1. CASE s = {}
    BY <2>1 DEF AddTurn
  <2>2. CASE s # {}
    <3>1. Chosen(s) \in T
      BY <2>2, ChosenIs
    <3>2. val[Chosen(s)] = deltas[Chosen(s)[1]][Chosen(s)[2]][f]
      BY <1>3, <3>1
    <3> QED
      BY <2>2, <3>2, Zenon DEF AddTurn
  <2> QED
    BY <2>1, <2>2
<1>5. \A s \in SUBSET T : s \in SUBSET U /\ g[s] = AddTurn(g, val, s)
  BY <1>2 DEF Adds, U, val
<1>6. PICK h : h = [s \in SUBSET T |-> g[s]]
  OBVIOUS
<1>7. \A s \in SUBSET T : h[s] = g[s]
  BY <1>6
<1>8. ASSUME NEW s \in SUBSET T PROVE h[s] = Turn(h, s)
  <2>1. h[s] = Turn(g, s)
    BY <1>4, <1>5, <1>7, Zenon
  <2>2. s \ {Chosen(s)} \in SUBSET T
    OBVIOUS
  <2>3. h[s \ {Chosen(s)}] = g[s \ {Chosen(s)}]
    BY <1>7, <2>2
  <2> QED
    BY <2>1, <2>3, Zenon
<1>9. Fills(h)
  <2>1. h = [s \in SUBSET T |-> h[s]]
    BY <1>6
  <2> QED
    BY <1>8, <2>1, Zenon
<1>10. Fills(iter)
  BY <1>9, Zenon
<1> HIDE DEF iter
<1>11. \A s \in SUBSET T : iter[s] = Turn(iter, s)
  BY <1>10, Zenon
<1>12. \A s \in SUBSET T : iter[s] = AddTurn(iter, val, s)
  BY <1>4, <1>11, Zenon
<1> HIDE DEF Turn, Fills
<1>13. iter[T] = g[T]
  <2>1. Turning(g, val, T) /\ Turning(iter, val, T)
    BY <1>5, <1>12, Zenon DEF Turning
  <2> QED
    BY <1>2, <2>1, AddsAgree, Zenon
<1> QED
  BY <1>1, <1>13 DEF T

\* What a segment adds to a field.
Added(s, f) == IF f <= Len(s) THEN s[f] ELSE 0

\* Sums of a field: nothing before its first value, from line to line, and what
\* a segment adds.
SumsOf(deltas, f) ==
  \A l \in 1..Len(deltas) :
    /\ \A k \in 0..Len(deltas[l]) : SumTo(deltas, l, k, f) \in Int
    /\ f = 1 \/ l = 1 => SumTo(deltas, l, 0, f) = 0
    /\ f # 1 /\ l # 1 => SumTo(deltas, l, 0, f) = SumTo(deltas, l - 1, Len(deltas[l - 1]), f)
    /\ \A k \in 1..Len(deltas[l]) :
         SumTo(deltas, l, k, f) = SumTo(deltas, l, k - 1, f) + Added(deltas[l][k], f)

(* Before its first segment a line has what the line before it ended with.  *)
LEMMA SoFarStarts ==
  ASSUME NEW X, NEW deltas \in Seq(Seq(X)), NEW f, NEW l \in 1..Len(deltas)
  PROVE  /\ f = 1 \/ l = 1 => SoFar(deltas, l, 0, f) = {}
         /\ f # 1 /\ l # 1 => SoFar(deltas, l, 0, f) = SoFar(deltas, l - 1, Len(deltas[l - 1]), f)
<1>1. \A p \in Points(deltas) : /\ p[1] \in 1..Len(deltas) /\ p[2] \in 1..Len(deltas[p[1]])
                                /\ p[1] \in Nat /\ p[2] \in Nat
  BY PointIs
<1>2. SoFar(deltas, l, 0, f) = {p \in Points(deltas) : /\ p[1] < l
                                                       /\ Len(deltas[p[1]][p[2]]) >= f
                                                       /\ f = 1 => p[1] = l}
  <2>1. \A p \in Points(deltas) : ~(p[2] <= 0)
    BY <1>1
  <2> QED
    BY <2>1, SoFarIs, Zenon
<1>3. CASE f = 1 \/ l = 1
  <2>1. \A p \in Points(deltas) : ~(p[1] < l /\ (f = 1 => p[1] = l))
    <3> SUFFICES ASSUME NEW p \in Points(deltas), p[1] < l, f = 1 => p[1] = l PROVE FALSE
      OBVIOUS
    <3>1. p[1] \in Nat /\ p[1] >= 1
      BY <1>1
    <3> QED
      BY <1>3, <3>1
  <2>2. SoFar(deltas, l, 0, f) = {}
    BY <1>2, <2>1, Zenon
  <2> QED
    BY <1>3, <2>2
<1>4. CASE f # 1 /\ l # 1
  <2>1. ASSUME NEW p \in Points(deltas)
        PROVE  p[1] < l <=> p[1] < l - 1 \/ (p[1] = l - 1 /\ p[2] <= Len(deltas[l - 1]))
    <3>1. PICK i \in Nat : i = p[1]
      BY <1>1
    <3>2. i < l <=> i < l - 1 \/ i = l - 1
      OBVIOUS
    <3>3. p[1] = l - 1 => p[2] <= Len(deltas[l - 1])
      <4> SUFFICES ASSUME p[1] = l - 1 PROVE p[2] <= Len(deltas[l - 1])
        OBVIOUS
      <4>1. p[2] \in 1..Len(deltas[p[1]])
        BY <1>1
      <4>2. p[2] \in 1..Len(deltas[l - 1])
        BY <4>1
      <4> QED
        BY <4>2
    <3> QED
      BY <3>1, <3>2, <3>3, Zenon
  <2>2. SoFar(deltas, l - 1, Len(deltas[l - 1]), f) =
          {p \in Points(deltas) : /\ p[1] < l - 1 \/ (p[1] = l - 1 /\ p[2] <= Len(deltas[l - 1]))
                                  /\ Len(deltas[p[1]][p[2]]) >= f
                                  /\ f = 1 => p[1] = l - 1}
    BY SoFarIs, Zenon
  <2>3. SoFar(deltas, l, 0, f) = SoFar(deltas, l - 1, Len(deltas[l - 1]), f)
    BY <1>2, <1>4, <2>1, <2>2, Zenon
  <2> QED
    BY <1>4, <2>3
<1> QED
  BY <1>3, <1>4

(* A segment is added to those before it, if it has the field.              *)
LEMMA SoFarNext ==
  ASSUME NEW deltas \in Seq(Seq(Segment)), NEW f \in 1..5,
         NEW l \in 1..Len(deltas), NEW k \in 1..Len(deltas[l])
  PROVE  /\ f <= Len(deltas[l][k]) => /\ <<l, k>> \in SoFar(deltas, l, k, f)
                                      /\ SoFar(deltas, l, k, f) \ {<<l, k>>} = SoFar(deltas, l, k - 1, f)
         /\ ~(f <= Len(deltas[l][k])) => SoFar(deltas, l, k, f) = SoFar(deltas, l, k - 1, f)
<1>1. \A p \in Points(deltas) : p[1] \in Nat /\ p[2] \in Nat /\ p = <<p[1], p[2]>>
  BY PointIs
<1>2. <<l, k>> \in Points(deltas)
  BY PointIs
<1>3. PICK n \in Nat : n = Len(deltas[l][k])
  <2>1. Len(deltas[l][k]) \in {1, 4, 5}
    BY FieldIs
  <2> QED
    BY <2>1
<1>4. PICK q : q = <<l, k>>
  OBVIOUS
<1>5. q[1] = l /\ q[2] = k /\ q \in Points(deltas)
  BY <1>2, <1>4
<1> DEFINE In(p, n1) == /\ p[1] < l \/ (p[1] = l /\ p[2] <= n1)
                        /\ Len(deltas[p[1]][p[2]]) >= f
                        /\ f = 1 => p[1] = l
<1>6. ASSUME NEW n1 PROVE SoFar(deltas, l, n1, f) = {p \in Points(deltas) : In(p, n1)}
  BY SoFarIs, Zenon
<1>7. ASSUME NEW p \in Points(deltas), p # q PROVE In(p, k) <=> In(p, k - 1)
  <2>1. PICK i \in Nat : i = p[1]
    BY <1>1
  <2>2. PICK j \in Nat : j = p[2]
    BY <1>1
  <2>3. ~(i = l /\ j = k)
    BY <1>1, <1>4, <1>7, <2>1, <2>2
  <2>4. i < l \/ (i = l /\ j <= k) <=> i < l \/ (i = l /\ j <= k - 1)
    <3>1. k \in Nat
      OBVIOUS
    <3>2. j <= k <=> j <= k - 1 \/ j = k
      BY <3>1
    <3> QED
      BY <2>3, <3>2, Zenon
  <2> QED
    BY <2>1, <2>2, <2>4, Zenon
<1>8. ~In(q, k - 1)
  <2>1. ~(l < l) /\ ~(k <= k - 1)
    <3>1. k \in Nat /\ l \in Nat
      OBVIOUS
    <3> QED
      BY <3>1
  <2> QED
    BY <1>5, <2>1, Zenon
<1>9. f <= n <=> n >= f
  BY <1>3
<1>10. In(q, k) <=> f <= n
  <2>1. k <= k
    <3>1. k \in Nat
      OBVIOUS
    <3> QED
      BY <3>1
  <2> QED
    BY <1>3, <1>5, <1>9, <2>1, Zenon
<1> HIDE DEF In
<1>11. CASE f <= n
  <2>1. q \in SoFar(deltas, l, k, f)
    BY <1>5, <1>6, <1>10, <1>11, Zenon
  <2>2. SoFar(deltas, l, k, f) \ {q} = SoFar(deltas, l, k - 1, f)
    BY <1>6, <1>7, <1>8, Zenon
  <2> QED
    BY <1>3, <1>4, <1>11, <2>1, <2>2, Zenon
<1>12. CASE ~(f <= n)
  <2>1. SoFar(deltas, l, k, f) = SoFar(deltas, l, k - 1, f)
    BY <1>6, <1>7, <1>8, <1>10, <1>12, Zenon
  <2> QED
    BY <1>3, <1>12, <2>1, Zenon
<1> QED
  BY <1>11, <1>12

(* Sums are carried from segment to segment and from line to line.          *)
LEMMA SumsAre ==
  ASSUME NEW deltas \in Seq(Seq(Segment)), NEW f \in 1..5
  PROVE  SumsOf(deltas, f)
<1>1. PICK U : U = Points(deltas)
  OBVIOUS
<1>2. PICK val : val = FieldOf(deltas, f)
  OBVIOUS
<1>3. val \in [U -> Int] /\ IsFiniteSet(U)
  BY <1>1, <1>2, FieldIs, PointsFinite
<1>4. PICK g : Adds(g, val, U)
  BY <1>3, AddsExist
<1>5. g \in [SUBSET U -> Int] /\ \A s \in SUBSET U : g[s] = AddTurn(g, val, s)
  BY <1>4 DEF Adds
<1>6. ASSUME NEW l, NEW k
      PROVE  /\ SoFar(deltas, l, k, f) \in SUBSET U
             /\ SumTo(deltas, l, k, f) = g[SoFar(deltas, l, k, f)] /\ SumTo(deltas, l, k, f) \in Int
  <2>1. SoFar(deltas, l, k, f) \in SUBSET U
    BY <1>1, SoFarIs
  <2>2. SumTo(deltas, l, k, f) = g[SoFar(deltas, l, k, f)]
    BY <1>1, <1>2, <1>4, SumIs
  <2> QED
    BY <1>5, <2>1, <2>2
<1>7. g[{}] = 0
  BY <1>5 DEF AddTurn
<1>8. ASSUME NEW l \in 1..Len(deltas), NEW k \in 1..Len(deltas[l])
      PROVE  SumTo(deltas, l, k, f) = SumTo(deltas, l, k - 1, f) + Added(deltas[l][k], f)
  <2>1. PICK s : s = deltas[l][k]
    OBVIOUS
  <2>2. PICK T : T = SoFar(deltas, l, k, f)
    OBVIOUS
  <2>3. PICK R : R = SoFar(deltas, l, k - 1, f)
    OBVIOUS
  <2>4. T \in SUBSET U /\ SumTo(deltas, l, k, f) = g[T] /\ SumTo(deltas, l, k - 1, f) = g[R] /\ g[R] \in Int
    BY <1>6, <2>2, <2>3
  <2>5. CASE f <= Len(s)
    <3>1. PICK q : q = <<l, k>>
      OBVIOUS
    <3>2. q \in T /\ T \ {q} = R
      BY <2>1, <2>2, <2>3, <2>5, <3>1, SoFarNext, Zenon
    <3>3. g[T] = val[q] + g[R]
      <4>1. \A w \in SUBSET U : \A x \in w : g[w] = val[x] + g[w \ {x}]
        <5>1. AnyApart(g, val, U)
          BY <1>3, <1>4, AddsAny, Zenon
        <5> QED
          BY <5>1, Zenon DEF AnyApart
      <4> QED
        BY <2>4, <3>2, <4>1, Zenon
    <3>4. val[q] = s[f]
      <4>1. q \in Points(deltas) /\ q[1] = l /\ q[2] = k
        BY <1>1, <2>4, <3>1, <3>2
      <4> QED
        BY <1>2, <2>1, <2>5, <4>1 DEF FieldOf
    <3>5. val[q] \in Int
      BY <1>3, <2>4, <3>2
    <3> QED
      BY <2>1, <2>4, <2>5, <3>3, <3>4, <3>5 DEF Added
  <2>6. CASE ~(f <= Len(s))
    <3>1. T = R
      BY <2>1, <2>2, <2>3, <2>6, SoFarNext, Zenon
    <3> QED
      BY <2>1, <2>4, <2>6, <3>1 DEF Added
  <2> QED
    BY <2>5, <2>6
<1>9. ASSUME NEW l \in 1..Len(deltas)
      PROVE  /\ f = 1 \/ l = 1 => SumTo(deltas, l, 0, f) = 0
             /\ f # 1 /\ l # 1 => SumTo(deltas, l, 0, f) = SumTo(deltas, l - 1, Len(deltas[l - 1]), f)
  <2>1. /\ SumTo(deltas, l, 0, f) = g[SoFar(deltas, l, 0, f)]
        /\ SumTo(deltas, l - 1, Len(deltas[l - 1]), f) = g[SoFar(deltas, l - 1, Len(deltas[l - 1]), f)]
    BY <1>6, Zenon
  <2>2. /\ f = 1 \/ l = 1 => SoFar(deltas, l, 0, f) = {}
        /\ f # 1 /\ l # 1 => SoFar(deltas, l, 0, f) = SoFar(deltas, l - 1, Len(deltas[l - 1]), f)
    BY SoFarStarts
  <2> QED
    BY <1>7, <2>1, <2>2, Zenon
<1> QED
  BY <1>6, <1>8, <1>9, Zenon DEF SumsOf

\* The symbols lines are written with, and mappings.
LineSymbol == Digit \cup {Comma}
MapSymbol == Digit \cup {Comma, Semicolon}

(* No digit is a mark.                                                      *)
LEMMA SymbolsAre ==
  /\ Comma \notin Digit /\ Semicolon \notin Digit /\ Comma # Semicolon
  /\ Comma \in LineSymbol /\ Comma \in MapSymbol /\ Semicolon \in MapSymbol /\ Semicolon \notin LineSymbol
  /\ Digit \subseteq LineSymbol /\ LineSymbol \subseteq MapSymbol
<1>1. Comma \notin Digit /\ Semicolon \notin Digit /\ Comma # Semicolon
  BY DigitIs, SMT DEF Comma, Semicolon
<1> QED
  BY <1>1, Zenon DEF LineSymbol, MapSymbol

(* No parts give no text, and no text has one part, which is empty.         *)
LEMMA NothingMarked ==
  ASSUME NEW mark, NEW parts, parts = <<>>
  PROVE  Marked(parts, mark) = <<>> /\ Split(<<>>, mark) = <<<<>>>>
<1>1. PICK lists : lists = [k \in DOMAIN parts |-> (IF k = 1 THEN <<>> ELSE <<mark>>) \o parts[k]]
  OBVIOUS
<1>2. DOMAIN parts = 1..0
  OBVIOUS
<1>3. lists = [k \in 1..0 |-> lists[k]] /\ \A k \in 1..0 : lists[k] \in Seq({})
  BY <1>1, <1>2
<1>4. lists \in Seq(Seq({})) /\ Len(lists) = 0
  BY <1>3, ListFrom
<1>5. PICK f : Flattens(f, lists, {})
  BY <1>4, FlattenSteps
<1>6. FlattenSeq(lists) = <<>>
  BY <1>4, <1>5 DEF Flattens
<1>7. Marked(parts, mark) = <<>>
  BY <1>1, <1>6 DEF Marked
<1>8. <<>> \in Seq({}) /\ Len(<<>>) = 0
  OBVIOUS
<1>9. PICK g : SplitsTo(g, <<>>, mark, {})
  BY <1>8, SplitSteps
<1>10. Split(<<>>, mark) = <<<<>>>>
  BY <1>8, <1>9 DEF SplitsTo
<1> QED
  BY <1>7, <1>10

(* The lists of the texts of a list are a list.                             *)
LEMMA ListOfTexts ==
  ASSUME NEW X, NEW k \in Nat, NEW t, t = [i \in 1..k |-> t[i]], \A i \in 1..k : t[i] \in Seq(X)
  PROVE  t \in Seq(Seq(X)) /\ Len(t) = k
  BY ListFrom

\* A line is cut into the texts of its segments.
LineCutsTo(line) ==
  /\ line = <<>> => Split(LineText(line), Comma) = <<<<>>>>
  /\ line # <<>> => Split(LineText(line), Comma) = [k \in 1..Len(line) |-> SegmentText(line[k])]

(* A line is written without the mark of lines, and cut into its segments.  *)
LEMMA LineCut ==
  ASSUME NEW line \in Seq(Segment)
  PROVE  LineText(line) \in Seq(LineSymbol) /\ LineCutsTo(line)
<1>1. PICK n \in Nat : n = Len(line)
  OBVIOUS
<1>2. DOMAIN line = 1..n /\ \A k \in 1..n : line[k] \in Segment
  BY <1>1
<1>3. PICK parts : parts = [k \in 1..n |-> SegmentText(line[k])]
  OBVIOUS
<1>4. ASSUME NEW k \in 1..n
      PROVE  /\ parts[k] = SegmentText(line[k]) /\ parts[k] \in Seq(LineSymbol)
             /\ \A j \in 1..Len(parts[k]) : parts[k][j] # Comma
  <2>1. PICK s \in Segment : s = line[k]
    BY <1>2
  <2>2. PICK u : u = SegmentText(s)
    OBVIOUS
  <2>3. u \in Seq(Digit)
    BY <2>2, SegmentShape
  <2>4. u \in Seq(LineSymbol)
    BY <2>3, SymbolsAre, SeqMonotonic
  <2>5. \A j \in 1..Len(u) : u[j] \in Digit
    BY <2>3
  <2>6. \A j \in 1..Len(u) : u[j] # Comma
    BY <2>5, SymbolsAre, Zenon
  <2>7. parts[k] = u
    BY <1>3, <2>1, <2>2
  <2> QED
    BY <2>1, <2>2, <2>4, <2>6, <2>7, Zenon
<1>5. parts \in Seq(Seq(LineSymbol)) /\ Len(parts) = n
  <2>1. parts = [k \in 1..n |-> parts[k]]
    BY <1>3
  <2> QED
    BY <1>4, <2>1, ListOfTexts
<1>6. LineText(line) = Marked(parts, Comma)
  BY <1>2, <1>3, Zenon DEF LineText
<1>7. CASE line = <<>>
  <2>1. n = 0
    BY <1>1, <1>7
  <2>2. parts = <<>>
    BY <1>5, <2>1
  <2>3. LineText(line) = <<>> /\ Split(LineText(line), Comma) = <<<<>>>>
    BY <1>6, <2>2, NothingMarked
  <2>4. <<>> \in Seq(LineSymbol)
    OBVIOUS
  <2> QED
    BY <1>7, <2>3, <2>4, Zenon DEF LineCutsTo
<1>8. CASE line # <<>>
  <2>1. n # 0
    BY <1>1, <1>8
  <2>2. parts # <<>>
    BY <1>5, <2>1
  <2>3. LineText(line) \in Seq(LineSymbol)
    <3>1. Comma \in LineSymbol
      BY SymbolsAre
    <3> QED
      BY <1>5, <1>6, <2>2, <3>1, MarkedPlaces
  <2>4. Split(Marked(parts, Comma), Comma) = parts
    <3>1. Comma \in LineSymbol
      BY SymbolsAre
    <3>2. \A k \in 1..Len(parts) : \A j \in 1..Len(parts[k]) : parts[k][j] # Comma
      BY <1>4, <1>5
    <3> QED
      BY <1>5, <2>2, <3>1, <3>2, SplitJoined
  <2> QED
    BY <1>1, <1>3, <1>6, <1>8, <2>3, <2>4, Zenon DEF LineCutsTo
<1> QED
  BY <1>7, <1>8

\* Mappings are cut into the texts of their lines.
LinesCutTo(deltas) ==
  /\ deltas = <<>> => Split(Encoded(deltas), Semicolon) = <<<<>>>>
  /\ deltas # <<>> => Split(Encoded(deltas), Semicolon) = [l \in 1..Len(deltas) |-> LineText(deltas[l])]

(* Mappings are cut into their lines.                                       *)
LEMMA LinesCut ==
  ASSUME NEW deltas \in Seq(Seq(Segment))
  PROVE  Encoded(deltas) \in Seq(MapSymbol) /\ LinesCutTo(deltas)
<1>1. PICK n \in Nat : n = Len(deltas)
  OBVIOUS
<1>2. DOMAIN deltas = 1..n /\ \A l \in 1..n : deltas[l] \in Seq(Segment)
  BY <1>1
<1>3. PICK parts : parts = [l \in 1..n |-> LineText(deltas[l])]
  OBVIOUS
<1>4. ASSUME NEW l \in 1..n
      PROVE  /\ parts[l] \in Seq(MapSymbol) /\ \A j \in 1..Len(parts[l]) : parts[l][j] # Semicolon
  <2>1. PICK s \in Seq(Segment) : s = deltas[l]
    BY <1>2
  <2>2. PICK u : u = LineText(s)
    OBVIOUS
  <2>3. u \in Seq(LineSymbol)
    BY <2>2, LineCut
  <2>4. u \in Seq(MapSymbol)
    BY <2>3, SymbolsAre, SeqMonotonic
  <2>5. \A j \in 1..Len(u) : u[j] \in LineSymbol
    BY <2>3
  <2>6. \A j \in 1..Len(u) : u[j] # Semicolon
    BY <2>5, SymbolsAre, Zenon
  <2>7. parts[l] = u
    BY <1>3, <2>1, <2>2
  <2> QED
    BY <2>4, <2>6, <2>7, Zenon
<1>5. parts \in Seq(Seq(MapSymbol)) /\ Len(parts) = n
  <2>1. parts = [l \in 1..n |-> parts[l]]
    BY <1>3
  <2> QED
    BY <1>4, <2>1, ListOfTexts
<1>6. Encoded(deltas) = Marked(parts, Semicolon)
  BY <1>2, <1>3, Zenon DEF Encoded
<1>7. CASE deltas = <<>>
  <2>1. n = 0
    BY <1>1, <1>7
  <2>2. parts = <<>>
    BY <1>5, <2>1
  <2>3. Encoded(deltas) = <<>> /\ Split(Encoded(deltas), Semicolon) = <<<<>>>>
    BY <1>6, <2>2, NothingMarked
  <2>4. <<>> \in Seq(MapSymbol)
    OBVIOUS
  <2> QED
    BY <1>7, <2>3, <2>4, Zenon DEF LinesCutTo
<1>8. CASE deltas # <<>>
  <2>1. n # 0
    BY <1>1, <1>8
  <2>2. parts # <<>>
    BY <1>5, <2>1
  <2>0. Semicolon \in MapSymbol
    BY SymbolsAre
  <2>3. Encoded(deltas) \in Seq(MapSymbol)
    BY <1>5, <1>6, <2>0, <2>2, MarkedPlaces
  <2>4. Split(Marked(parts, Semicolon), Semicolon) = parts
    <3>2. \A k \in 1..Len(parts) : \A j \in 1..Len(parts[k]) : parts[k][j] # Semicolon
      BY <1>4, <1>5
    <3> QED
      BY <1>5, <2>0, <2>2, <3>2, SplitJoined
  <2> QED
    BY <1>1, <1>3, <1>6, <1>8, <2>3, <2>4, Zenon DEF LinesCutTo
<1> QED
  BY <1>7, <1>8

\* What is known after k segments of line l.
ReadUpTo(acc, deltas, l, k, before) ==
  /\ acc \in Reading /\ acc.line = l - 1 /\ acc.broken = FALSE
  /\ \A f \in 1..5 : acc.at[f] = SumTo(deltas, l, k, f)
  /\ Len(acc.entries) = Len(before) + k
  /\ \A i \in 1..Len(before) : acc.entries[i] = before[i]
  /\ \A i \in 1..k : acc.entries[Len(before) + i] = Meaning(deltas, l, i)

\* The fields with what a segment adds to them, and the entry they give.
AtAfter(acc, s) == [f \in 1..5 |-> acc.at[f] + Added(s, f)]
EntryAfter(acc, s, at) ==
  [line |-> acc.line, col |-> at[1],
   source |-> IF 2 <= Len(s) THEN at[2] ELSE -1,
   sourceLine |-> IF 3 <= Len(s) THEN at[3] ELSE -1,
   sourceCol |-> IF 4 <= Len(s) THEN at[4] ELSE -1,
   name |-> IF 5 <= Len(s) THEN at[5] ELSE -1]

\* Only the fields change, and an entry comes after the others.
AddedTo(r, acc, s) ==
  /\ r.line = acc.line /\ r.at = AtAfter(acc, s) /\ r.broken = FALSE
  /\ r.entries = Append(acc.entries, EntryAfter(acc, s, AtAfter(acc, s)))

(* A segment read as good adds an entry.                                    *)
LEMMA GoodAdded ==
  ASSUME NEW seg, seg # <<>>, NEW acc \in Reading, acc.broken = FALSE,
         NEW s \in Seq(Int), Len(s) \in {1, 4, 5}, Values(seg).values = s, Values(seg).bad = FALSE
  PROVE  AddedTo(ReadSegment(acc, seg), acc, s)
<1> DEFINE at == AtAfter(acc, s)
           entry == EntryAfter(acc, s, at)
<1>1. PICK n \in {1, 4, 5} : n = Len(s)
  OBVIOUS
<1>2. PICK v : v = Values(seg)
  OBVIOUS
<1>3. v.values = s /\ v.bad = FALSE
  BY <1>2
<1>4. (n >= 4 <=> 2 <= n) /\ (n >= 4 <=> 3 <= n) /\ (n >= 4 <=> 4 <= n) /\ (n = 5 <=> 5 <= n)
  BY <1>1
<1>5. ReadSegment(acc, seg) = AddValues(acc, v)
  BY <1>2 DEF ReadSegment
<1> DEFINE at1 == [k \in 1..5 |-> acc.at[k] + (IF k <= Len(v.values) THEN v.values[k] ELSE 0)]
           entry1 == [line |-> acc.line, col |-> at1[1],
                      source |-> IF Len(v.values) >= 4 THEN at1[2] ELSE -1,
                      sourceLine |-> IF Len(v.values) >= 4 THEN at1[3] ELSE -1,
                      sourceCol |-> IF Len(v.values) >= 4 THEN at1[4] ELSE -1,
                      name |-> IF Len(v.values) = 5 THEN at1[5] ELSE -1]
<1>6. AddValues(acc, v) = [acc EXCEPT !.at = at1, !.broken = v.bad,
                            !.entries = IF v.bad THEN @ ELSE Append(@, entry1)]
  BY DEF AddValues
<1>7. at1 = at
  BY <1>3, Zenon DEF Added, AtAfter
<1> HIDE DEF at, at1
<1>8. entry1 = entry
  BY <1>1, <1>3, <1>4, <1>7, Zenon DEF EntryAfter
<1> HIDE DEF entry, entry1
<1>9. acc \in [line : Nat, at : [1..5 -> Int], broken : BOOLEAN, entries : Seq(Entry)]
  BY DEF Reading
<1>10. PICK more : more = Append(acc.entries, entry)
  OBVIOUS
<1>11. ReadSegment(acc, seg) = [acc EXCEPT !.at = at, !.broken = FALSE, !.entries = more]
  BY <1>3, <1>5, <1>6, <1>7, <1>8, <1>10
<1>12. PICK r : r = ReadSegment(acc, seg)
  OBVIOUS
<1>13. r.line = acc.line /\ r.at = at /\ r.broken = FALSE /\ r.entries = more
  BY <1>9, <1>11, <1>12
<1> QED
  BY <1>10, <1>12, <1>13, Zenon DEF AddedTo, at, entry

(* A segment of a line adds what it means.                                  *)
LEMMA SegmentAdded ==
  ASSUME NEW deltas \in Seq(Seq(Segment)), \A f \in 1..5 : SumsOf(deltas, f),
         NEW l \in 1..Len(deltas), NEW k \in 1..Len(deltas[l]), NEW before, Len(before) \in Nat,
         NEW acc, ReadUpTo(acc, deltas, l, k - 1, before)
  PROVE  ReadUpTo(ReadSegment(acc, SegmentText(deltas[l][k])), deltas, l, k, before)
<1>1. PICK s \in Segment : s = deltas[l][k] /\ s \in Seq(Int) /\ Len(s) \in {1, 4, 5}
  BY FieldIs, 1 \in 1..5
<1>2. PICK seg : seg = SegmentText(s)
  OBVIOUS
<1>3. seg # <<>> /\ Values(seg).values = s /\ Values(seg).bad = FALSE
  BY <1>2, SegmentShape, ValuesReadBack
<1>4. seg \in Seq(Digit)
  BY <1>2, SegmentShape
<1>5. /\ acc \in Reading /\ acc.line = l - 1 /\ acc.broken = FALSE
      /\ \A f \in 1..5 : acc.at[f] = SumTo(deltas, l, k - 1, f)
      /\ Len(acc.entries) = Len(before) + (k - 1)
      /\ \A i \in 1..Len(before) : acc.entries[i] = before[i]
      /\ \A i \in 1..(k - 1) : acc.entries[Len(before) + i] = Meaning(deltas, l, i)
  BY Zenon DEF ReadUpTo
<1>6. PICK at : at = AtAfter(acc, s)
  OBVIOUS
<1>7. ASSUME NEW f \in 1..5 PROVE at[f] = SumTo(deltas, l, k, f)
  <2>1. at[f] = acc.at[f] + Added(s, f)
    BY <1>6 DEF AtAfter
  <2>2. SumTo(deltas, l, k, f) = SumTo(deltas, l, k - 1, f) + Added(s, f)
    <3>1. SumsOf(deltas, f)
      OBVIOUS
    <3> QED
      BY <1>1, <3>1, Zenon DEF SumsOf
  <2>3. acc.at[f] = SumTo(deltas, l, k - 1, f)
    BY <1>5
  <2> QED
    BY <2>1, <2>2, <2>3, Zenon
<1>8. PICK entry : entry = EntryAfter(acc, s, at)
  OBVIOUS
<1>9. entry = Meaning(deltas, l, k)
  <2>1. at[1] = SumTo(deltas, l, k, 1) /\ at[2] = SumTo(deltas, l, k, 2) /\ at[3] = SumTo(deltas, l, k, 3)
        /\ at[4] = SumTo(deltas, l, k, 4) /\ at[5] = SumTo(deltas, l, k, 5)
    <3>1. 1 \in 1..5 /\ 2 \in 1..5 /\ 3 \in 1..5 /\ 4 \in 1..5 /\ 5 \in 1..5
      OBVIOUS
    <3> QED
      BY <1>7, <3>1, Zenon
  <2> QED
    BY <1>1, <1>5, <1>8, <2>1, Zenon DEF Meaning, Field, EntryAfter
<1>10. PICK r : r = ReadSegment(acc, seg)
  OBVIOUS
<1>11. AddedTo(r, acc, s)
  BY <1>1, <1>3, <1>5, <1>10, GoodAdded, Zenon
<1>12. r \in Reading
  BY <1>4, <1>5, <1>10, SegmentRead
<1>13. PICK more : more = Append(acc.entries, entry)
  OBVIOUS
<1>14. PICK e \in Seq(Entry) : e = acc.entries
  BY <1>5 DEF Reading
<1>15. r.line = l - 1 /\ r.at = at /\ r.broken = FALSE /\ r.entries = more
  BY <1>5, <1>6, <1>8, <1>11, <1>13, Zenon DEF AddedTo
<1>16. PICK b \in Nat : b = Len(before)
  OBVIOUS
<1>17. Len(e) = b + (k - 1) /\ Len(e) + 1 = b + k /\ k \in Nat
  BY <1>5, <1>14, <1>16
<1>18. Len(more) = b + k /\ more[b + k] = entry /\ \A i \in 1..(b + (k - 1)) : more[i] = e[i]
  <2>1. more = Append(e, entry)
    BY <1>13, <1>14
  <2>2. entry \in Entry
    <3>1. r.entries \in Seq(Entry)
      BY <1>12 DEF Reading
    <3>2. Len(more) = Len(e) + 1 /\ more[Len(e) + 1] = entry
      BY <2>1
    <3>3. Len(e) + 1 \in 1..Len(more)
      BY <3>2
    <3> QED
      BY <1>15, <3>1, <3>2, <3>3
  <2>3. Len(more) = Len(e) + 1 /\ more[Len(e) + 1] = entry /\ \A i \in 1..Len(e) : more[i] = e[i]
    BY <2>1, <2>2
  <2> QED
    BY <1>17, <2>3, Zenon
<1>19. \A i \in 1..b : more[i] = before[i]
  <2> TAKE i \in 1..b
  <2>1. i \in 1..(b + (k - 1))
    BY <1>16, <1>17
  <2> QED
    BY <1>5, <1>14, <1>16, <1>18, <2>1, Zenon
<1>20. \A i \in 1..k : more[b + i] = Meaning(deltas, l, i)
  <2> TAKE i \in 1..k
  <2>1. i = k \/ (i \in 1..(k - 1) /\ b + i \in 1..(b + (k - 1)))
    BY <1>16, <1>17
  <2> QED
    BY <1>5, <1>9, <1>14, <1>16, <1>18, <2>1, Zenon
<1>21. ReadUpTo(r, deltas, l, k, before)
  BY <1>7, <1>12, <1>15, <1>16, <1>18, <1>19, <1>20, Zenon DEF ReadUpTo
<1> QED
  BY <1>1, <1>2, <1>10, <1>21, Zenon

\* What a line starts with: the column anew.
LineStarts(acc) == [acc EXCEPT !.at[1] = 0, !.broken = FALSE]

(* A line starts with the fields as they are, but for its column.           *)
LEMMA LineStart ==
  ASSUME NEW acc \in Reading
  PROVE  /\ LineStarts(acc) \in Reading /\ LineStarts(acc).line = acc.line
         /\ LineStarts(acc).broken = FALSE /\ LineStarts(acc).entries = acc.entries
         /\ \A f \in 1..5 : LineStarts(acc).at[f] = IF f = 1 THEN 0 ELSE acc.at[f]
<1>1. acc \in [line : Nat, at : [1..5 -> Int], broken : BOOLEAN, entries : Seq(Entry)]
  BY DEF Reading
<1>2. PICK at : at = [acc.at EXCEPT ![1] = 0]
  OBVIOUS
<1>3. at \in [1..5 -> Int] /\ \A f \in 1..5 : at[f] = IF f = 1 THEN 0 ELSE acc.at[f]
  <2>1. acc.at \in [1..5 -> Int]
    BY <1>1
  <2> QED
    BY <1>2, <2>1
<1>4. PICK r : r = LineStarts(acc)
  OBVIOUS
<1>5. r = [acc EXCEPT !.at = at, !.broken = FALSE]
  BY <1>2, <1>4 DEF LineStarts
<1>6. r \in [line : Nat, at : [1..5 -> Int], broken : BOOLEAN, entries : Seq(Entry)]
  BY <1>1, <1>3, <1>5
<1>7. r.line = acc.line /\ r.at = at /\ r.broken = FALSE /\ r.entries = acc.entries
  BY <1>1, <1>5
<1> QED
  BY <1>3, <1>4, <1>6, <1>7, Zenon DEF Reading

\* The end of a line, after a reading of its segments.
LineEnds(r, read) ==
  r.line = read.line + 1 /\ r.at = read.at /\ r.broken = read.broken /\ r.entries = read.entries

(* The next line starts with what was read, but for its number.             *)
LEMMA LineEnd ==
  ASSUME NEW read \in Reading
  PROVE  LineEnds([read EXCEPT !.line = @ + 1], read) /\ [read EXCEPT !.line = @ + 1] \in Reading
<1>1. read \in [line : Nat, at : [1..5 -> Int], broken : BOOLEAN, entries : Seq(Entry)]
  BY DEF Reading
<1>2. PICK n \in Nat : n = read.line + 1
  <2>1. read.line \in Nat
    BY <1>1
  <2> QED
    BY <2>1
<1>3. PICK r : r = [read EXCEPT !.line = @ + 1]
  OBVIOUS
<1>4. r = [read EXCEPT !.line = n]
  BY <1>2, <1>3
<1>5. r \in [line : Nat, at : [1..5 -> Int], broken : BOOLEAN, entries : Seq(Entry)]
  BY <1>1, <1>4
<1>6. r.line = n /\ r.at = read.at /\ r.broken = read.broken /\ r.entries = read.entries
  BY <1>1, <1>4
<1> QED
  BY <1>2, <1>3, <1>5, <1>6, Zenon DEF LineEnds, Reading

\* The segments of a text are read one by one.
ReadsSegments(g, k, acc, es, r) ==
  /\ g[0] = LineStarts(acc) /\ \A n \in 1..k : g[n] = ReadSegment(g[n - 1], es[n])
  /\ LineEnds(r, g[k]) /\ g[k] \in Reading /\ r \in Reading

(* Reading a line reads its segments, one after another.                    *)
LEMMA LineSteps ==
  ASSUME NEW X, NEW text \in Seq(X), NEW acc \in Reading
  PROVE  \E g : ReadsSegments(g, Len(Split(text, Comma)), acc, Split(text, Comma), ReadLine(acc, text))
<1> DEFINE A == Reading
<1>1. PICK es : es = Split(text, Comma)
  OBVIOUS
<1>2. PICK k : k = Len(es)
  OBVIOUS
<1>3. k \in Nat /\ DOMAIN es = 1..k /\ \A n \in 1..k : es[n] \in Seq(X)
  <2>1. es \in Seq(Seq(X)) /\ Len(es) \in Nat
    BY <1>1, SplitPieces
  <2> QED
    BY <1>2, <2>1
<1>4. PICK base \in A : base = LineStarts(acc)
  BY LineStart
<1>5. PICK step : step = [n \in 1..k |-> [a \in A |-> ReadSegment(a, es[n])]]
  OBVIOUS
<1>6. step \in [1..k -> [A -> A]] /\ \A n \in 1..k : \A a \in A : step[n][a] = ReadSegment(a, es[n])
  <2>1. \A n \in 1..k : \A a \in A : ReadSegment(a, es[n]) \in A
    BY <1>3, SegmentRead
  <2> HIDE DEF A
  <2> QED
    BY <1>5, <2>1
<1> HIDE DEF A
<1>7. PICK read : read = FoldLeft(ReadSegment, base, es)
  OBVIOUS
<1>8. Lead(read, k, A, base, step)
  BY <1>3, <1>6, <1>7, FoldReadSegment
<1>9. PICK g \in [0..k -> A] : Steps(g, k, base, step) /\ read = g[k]
  BY <1>8 DEF Lead
<1>10. g[0] = LineStarts(acc) /\ \A n \in 1..k : g[n] = ReadSegment(g[n - 1], es[n])
  <2>1. \A n \in 1..k : g[n - 1] \in A
    BY <1>3
  <2> QED
    BY <1>4, <1>6, <1>9, <2>1 DEF Steps
<1>11. read \in Reading
  <2>1. k \in 0..k
    BY <1>3
  <2> QED
    BY <1>9, <2>1 DEF A
<1>12. ReadLine(acc, text) = [read EXCEPT !.line = @ + 1]
  BY <1>1, <1>4, <1>7, Zenon DEF ReadLine, LineStarts
<1>13. LineEnds(ReadLine(acc, text), read) /\ ReadLine(acc, text) \in Reading
  BY <1>11, <1>12, LineEnd, Zenon
<1> QED
  BY <1>1, <1>2, <1>9, <1>10, <1>11, <1>13, Zenon DEF ReadsSegments

(* An empty line adds nothing.                                              *)
LEMMA EmptyLine ==
  ASSUME NEW acc \in Reading
  PROVE  LineEnds(ReadLine(acc, <<>>), LineStarts(acc)) /\ ReadLine(acc, <<>>) \in Reading
<1>1. <<>> \in Seq({})
  OBVIOUS
<1>2. PICK parts : parts = <<>>
  OBVIOUS
<1>3. Split(<<>>, Comma) = <<<<>>>>
  BY <1>2, NothingMarked
<1>4. PICK es : es = <<<<>>>>
  OBVIOUS
<1>5. Len(es) = 1 /\ es[1] = <<>>
  BY <1>4
<1>6. PICK g : ReadsSegments(g, 1, acc, es, ReadLine(acc, <<>>))
  BY <1>1, <1>3, <1>4, <1>5, LineSteps, Zenon
<1>7. 1 \in 1..1 /\ 1 - 1 = 0
  OBVIOUS
<1>8. g[1] = ReadSegment(LineStarts(acc), <<>>)
  BY <1>5, <1>6, <1>7 DEF ReadsSegments
<1>9. g[1] = LineStarts(acc)
  BY <1>8 DEF ReadSegment
<1> QED
  BY <1>6, <1>9, Zenon DEF ReadsSegments

(* A list with two others in it, one after the other, is the two together.  *)
LEMMA PutBehind ==
  ASSUME NEW X, NEW s \in Seq(X), NEW t \in Seq(X), NEW e \in Seq(X),
         Len(e) = Len(s) + Len(t), \A i \in 1..Len(s) : e[i] = s[i],
         \A i \in 1..Len(t) : e[Len(s) + i] = t[i]
  PROVE  e = s \o t
<1>1. PICK w \in Seq(X) : w = s \o t
  OBVIOUS
<1>2. PICK b \in Nat : b = Len(s)
  OBVIOUS
<1>3. PICK k \in Nat : k = Len(t)
  OBVIOUS
<1>4. Len(w) = b + k /\ (\A i \in 1..b : w[i] = s[i]) /\ \A i \in 1..k : w[b + i] = t[i]
  BY <1>1, <1>2, <1>3
<1>5. ASSUME NEW i \in 1..(b + k) PROVE e[i] = w[i]
  <2>1. CASE i <= b
    <3>1. i \in 1..b
      BY <2>1
    <3> QED
      BY <1>2, <1>4, <3>1
  <2>2. CASE ~(i <= b)
    <3>1. i - b \in 1..k /\ b + (i - b) = i
      BY <2>2
    <3>2. e[b + (i - b)] = t[i - b] /\ w[b + (i - b)] = t[i - b]
      BY <1>2, <1>3, <1>4, <3>1, Zenon
    <3> QED
      BY <3>1, <3>2
  <2> QED
    BY <2>1, <2>2
<1>6. Len(e) = b + k /\ Len(e) = Len(w)
  BY <1>2, <1>3, <1>4
<1>7. e = w
  BY <1>5, <1>6, SeqEqual
<1> QED
  BY <1>1, <1>7

\* What is known after line l: every field but the column, and the entries.
ReadAfter(acc, deltas, l, before) ==
  /\ acc \in Reading /\ acc.line = l
  /\ \A f \in 2..5 : acc.at[f] = SumTo(deltas, l, Len(deltas[l]), f)
  /\ acc.entries = before \o MeantOn(deltas, l)

(* What deltas mean are entries of a map.                                   *)
LEMMA MeantIs ==
  ASSUME NEW deltas \in Seq(Seq(Segment)), \A f \in 1..5 : SumsOf(deltas, f),
         NEW l \in 1..Len(deltas)
  PROVE  MeantOn(deltas, l) \in Seq(Entry) /\ Len(MeantOn(deltas, l)) = Len(deltas[l])
<1>1. PICK k \in Nat : k = Len(deltas[l]) /\ DOMAIN deltas[l] = 1..k
  <2>1. deltas[l] \in Seq(Segment)
    OBVIOUS
  <2> QED
    BY <2>1
<1>2. PICK meant : meant = MeantOn(deltas, l)
  OBVIOUS
<1>3. meant = [i \in 1..k |-> Meaning(deltas, l, i)]
  BY <1>1, <1>2 DEF MeantOn
<1>4. ASSUME NEW i \in 1..k PROVE meant[i] \in Entry
  <2>1. i \in 0..Len(deltas[l]) /\ l - 1 \in Nat /\ -1 \in Int
    BY <1>1
  <2>2. \A f \in 1..5 : SumTo(deltas, l, i, f) \in Int
    BY <2>1, Zenon DEF SumsOf
  <2>3. 1 \in 1..5 /\ 2 \in 1..5 /\ 3 \in 1..5 /\ 4 \in 1..5 /\ 5 \in 1..5
    OBVIOUS
  <2>4. SumTo(deltas, l, i, 1) \in Int /\ \A f \in {2, 3, 4, 5} : Field(deltas, l, i, f) \in Int
    BY <2>1, <2>2, <2>3 DEF Field
  <2>5. Field(deltas, l, i, 2) \in Int /\ Field(deltas, l, i, 3) \in Int /\ Field(deltas, l, i, 4) \in Int
        /\ Field(deltas, l, i, 5) \in Int
    BY <2>4
  <2>6. Meaning(deltas, l, i) \in Entry
    BY <2>1, <2>4, <2>5 DEF Meaning, Entry
  <2>7. meant[i] = Meaning(deltas, l, i)
    BY <1>3
  <2> QED
    BY <2>6, <2>7, Zenon
<1>5. meant = [i \in 1..k |-> meant[i]]
  BY <1>3
<1>6. meant \in Seq(Entry) /\ Len(meant) = k
  BY <1>4, <1>5, ListFrom
<1> QED
  BY <1>1, <1>2, <1>6

(* A line adds what its segments mean.                                      *)
LEMMA LineAdded ==
  ASSUME NEW deltas \in Seq(Seq(Segment)), \A f \in 1..5 : SumsOf(deltas, f),
         NEW l \in 1..Len(deltas), NEW acc \in Reading, acc.line = l - 1,
         \A f \in 2..5 : acc.at[f] = SumTo(deltas, l, 0, f)
  PROVE  ReadAfter(ReadLine(acc, LineText(deltas[l])), deltas, l, acc.entries)
<1>1. PICK line \in Seq(Segment) : line = deltas[l]
  OBVIOUS
<1>2. PICK k \in Nat : k = Len(line)
  OBVIOUS
<1>3. PICK r : r = ReadLine(acc, LineText(line))
  OBVIOUS
<1>4. LineText(line) \in Seq(LineSymbol) /\ LineCutsTo(line)
  BY LineCut
<1>5. PICK base : base = LineStarts(acc)
  OBVIOUS
<1>6. /\ base \in Reading /\ base.line = l - 1 /\ base.broken = FALSE /\ base.entries = acc.entries
      /\ \A f \in 1..5 : base.at[f] = IF f = 1 THEN 0 ELSE acc.at[f]
  BY <1>5, LineStart, Zenon
<1>7. PICK before \in Seq(Entry) : before = acc.entries
  BY DEF Reading
<1>8. ReadUpTo(base, deltas, l, 0, before)
  <2>1. ASSUME NEW f \in 1..5 PROVE base.at[f] = SumTo(deltas, l, 0, f)
    <3>1. CASE f = 1
      <4>1. SumsOf(deltas, f)
        OBVIOUS
      <4>2. SumTo(deltas, l, 0, f) = 0
        BY <3>1, <4>1, Zenon DEF SumsOf
      <4> QED
        BY <1>6, <3>1, <4>2, Zenon
    <3>2. CASE f # 1
      <4>1. f \in 2..5
        BY <3>2
      <4> QED
        BY <1>6, <3>2, <4>1, Zenon
    <3> QED
      BY <3>1, <3>2
  <2>2. Len(before) = Len(before) + 0 /\ \A i \in 1..0 : base.entries[Len(before) + i] = Meaning(deltas, l, i)
    OBVIOUS
  <2> QED
    BY <1>6, <1>7, <2>1, <2>2, Zenon DEF ReadUpTo
<1>9. \E read : LineEnds(r, read) /\ r \in Reading /\ ReadUpTo(read, deltas, l, k, before)
  <2>1. CASE line = <<>>
    <3>1. k = 0
      BY <1>2, <2>1
    <3>2. LineText(line) = <<>>
      <4>1. PICK parts : parts = [n \in DOMAIN line |-> SegmentText(line[n])]
        OBVIOUS
      <4>2. parts = <<>>
        BY <2>1, <4>1
      <4> QED
        BY <4>1, <4>2, NothingMarked, Zenon DEF LineText
    <3>3. LineEnds(r, base) /\ r \in Reading
      BY <1>3, <1>5, <3>2, EmptyLine
    <3> QED
      BY <1>8, <3>1, <3>3
  <2>2. CASE line # <<>>
    <3>1. PICK es : es = [n \in 1..k |-> SegmentText(line[n])]
      OBVIOUS
    <3>2. Split(LineText(line), Comma) = es
      BY <1>2, <1>4, <2>2, <3>1, Zenon DEF LineCutsTo
    <3>3. Len(es) = k
      <4>1. \A n \in 1..k : es[n] \in Seq(Digit)
        <5> TAKE n \in 1..k
        <5>1. line[n] \in Segment
          BY <1>2
        <5> QED
          BY <3>1, <5>1, SegmentShape
      <4>2. es = [n \in 1..k |-> es[n]]
        BY <3>1
      <4> QED
        BY <4>1, <4>2, ListFrom
    <3>4. PICK g : ReadsSegments(g, k, acc, es, r)
      BY <1>3, <1>4, <3>2, <3>3, LineSteps, Zenon
    <3>5. /\ g[0] = base /\ \A n \in 1..k : g[n] = ReadSegment(g[n - 1], es[n])
          /\ LineEnds(r, g[k]) /\ r \in Reading
      BY <1>5, <3>4, Zenon DEF ReadsSegments
    <3> DEFINE S == {n \in 0..k : ReadUpTo(g[n], deltas, l, n, before)}
    <3>6. 0 \in S
      BY <1>2, <1>8, <3>5
    <3>7. ASSUME NEW n \in 1..k, n - 1 \in S PROVE n \in S
      <4>1. ReadUpTo(g[n - 1], deltas, l, n - 1, before)
        BY <3>7
      <4>2. n \in 1..Len(deltas[l]) /\ es[n] = SegmentText(deltas[l][n]) /\ Len(before) \in Nat
        BY <1>1, <1>2, <3>1
      <4>3. ReadUpTo(ReadSegment(g[n - 1], SegmentText(deltas[l][n])), deltas, l, n, before)
        BY <4>1, <4>2, SegmentAdded
      <4>4. ReadUpTo(g[n], deltas, l, n, before)
        BY <3>5, <4>2, <4>3, Zenon
      <4> QED
        BY <4>4
    <3> HIDE DEF S
    <3>8. 0..k \subseteq S
      BY <1>2, <3>6, <3>7, InductionUpTo
    <3>9. k \in S
      BY <1>2, <3>8
    <3>10. ReadUpTo(g[k], deltas, l, k, before)
      BY <3>9 DEF S
    <3> QED
      BY <3>5, <3>10
  <2> QED
    BY <2>1, <2>2
<1>10. PICK read : LineEnds(r, read) /\ r \in Reading /\ ReadUpTo(read, deltas, l, k, before)
  BY <1>9
<1>11. /\ read \in Reading /\ read.line = l - 1
       /\ \A f \in 1..5 : read.at[f] = SumTo(deltas, l, k, f)
       /\ Len(read.entries) = Len(before) + k
       /\ \A i \in 1..Len(before) : read.entries[i] = before[i]
       /\ \A i \in 1..k : read.entries[Len(before) + i] = Meaning(deltas, l, i)
  BY <1>10, Zenon DEF ReadUpTo
<1>12. PICK e \in Seq(Entry) : e = read.entries
  BY <1>11 DEF Reading
<1>13. PICK b \in Nat : b = Len(before)
  OBVIOUS
<1>14. PICK meant : meant = MeantOn(deltas, l)
  OBVIOUS
<1>15. meant = [i \in 1..k |-> Meaning(deltas, l, i)]
  <2>1. DOMAIN deltas[l] = 1..k
    BY <1>1, <1>2
  <2> QED
    BY <1>14, <2>1 DEF MeantOn
<1>16. meant \in Seq(Entry) /\ Len(meant) = k
  BY <1>1, <1>2, <1>14, MeantIs
<1>17. e = before \o meant
  <2>1. Len(e) = Len(before) + Len(meant)
    BY <1>11, <1>12, <1>16, Zenon
  <2>2. \A i \in 1..Len(before) : e[i] = before[i]
    BY <1>11, <1>12, Zenon
  <2>3. \A i \in 1..Len(meant) : e[Len(before) + i] = meant[i]
    <3>1. \A i \in 1..k : meant[i] = Meaning(deltas, l, i)
      BY <1>15
    <3> QED
      BY <1>11, <1>12, <1>16, <3>1, Zenon
  <2> QED
    BY <1>16, <2>1, <2>2, <2>3, PutBehind
<1>18. r.line = read.line + 1 /\ r.at = read.at /\ r.entries = read.entries
  BY <1>10 DEF LineEnds
<1>19. r.line = l
  BY <1>11, <1>18
<1>20. \A f \in 2..5 : r.at[f] = SumTo(deltas, l, k, f)
  <2>1. \A f \in 2..5 : f \in 1..5
    OBVIOUS
  <2> QED
    BY <1>11, <1>18, <2>1, Zenon
<1>21. r.entries = acc.entries \o MeantOn(deltas, l)
  BY <1>7, <1>12, <1>14, <1>17, <1>18, Zenon
<1>22. ReadAfter(r, deltas, l, acc.entries)
  BY <1>1, <1>2, <1>10, <1>19, <1>20, <1>21, Zenon DEF ReadAfter
<1> QED
  BY <1>1, <1>3, <1>22, Zenon

\* Before the first line.
Nothing == [line |-> 0, at |-> [k \in 1..5 |-> 0], broken |-> FALSE, entries |-> <<>>]

\* The lines of mappings are read one by one.
ReadsLines(g, k, es, entries) ==
  /\ g[0] = Nothing /\ \A n \in 1..k : g[n] = ReadLine(g[n - 1], es[n])
  /\ g \in [0..k -> Reading] /\ entries = g[k].entries

(* Before the first line nothing is read.                                   *)
LEMMA NothingIs ==
  /\ Nothing \in Reading /\ Nothing.line = 0 /\ Nothing.entries = <<>>
  /\ \A f \in 1..5 : Nothing.at[f] = 0
<1>1. <<>> \in Seq(Entry) /\ [k \in 1..5 |-> 0] \in [1..5 -> Int]
  OBVIOUS
<1> QED
  BY <1>1 DEF Nothing, Reading

(* Reading mappings reads their lines, one after another.                   *)
LEMMA MappingSteps ==
  ASSUME NEW X, NEW text \in Seq(X)
  PROVE  \E g : ReadsLines(g, Len(Split(text, Semicolon)), Split(text, Semicolon), ParseMappings(text))
<1> DEFINE A == Reading
<1>1. PICK es : es = Split(text, Semicolon)
  OBVIOUS
<1>2. PICK k : k = Len(es)
  OBVIOUS
<1>3. k \in Nat /\ DOMAIN es = 1..k /\ \A n \in 1..k : es[n] \in Seq(X)
  <2>1. es \in Seq(Seq(X)) /\ Len(es) \in Nat
    BY <1>1, SplitPieces
  <2> QED
    BY <1>2, <2>1
<1>4. PICK base \in A : base = Nothing
  BY NothingIs
<1>5. PICK step : step = [n \in 1..k |-> [a \in A |-> ReadLine(a, es[n])]]
  OBVIOUS
<1>6. step \in [1..k -> [A -> A]] /\ \A n \in 1..k : \A a \in A : step[n][a] = ReadLine(a, es[n])
  <2>1. \A n \in 1..k : \A a \in A : ReadLine(a, es[n]) \in A
    BY <1>3, LineRead
  <2> HIDE DEF A
  <2> QED
    BY <1>5, <2>1
<1> HIDE DEF A
<1>7. PICK read : read = FoldLeft(ReadLine, base, es)
  OBVIOUS
<1>8. Lead(read, k, A, base, step)
  BY <1>3, <1>6, <1>7, FoldReadLine
<1>9. PICK g \in [0..k -> A] : Steps(g, k, base, step) /\ read = g[k]
  BY <1>8 DEF Lead
<1>10. g[0] = Nothing /\ \A n \in 1..k : g[n] = ReadLine(g[n - 1], es[n])
  <2>1. \A n \in 1..k : g[n - 1] \in A
    BY <1>3
  <2> QED
    BY <1>4, <1>6, <1>9, <2>1 DEF Steps
<1>11. ParseMappings(text) = read.entries
  BY <1>1, <1>4, <1>7, Zenon DEF ParseMappings, Nothing
<1> QED
  BY <1>1, <1>2, <1>9, <1>10, <1>11, Zenon DEF ReadsLines, A

(* Mappings written out are read back as what they mean.                    *)
LEMMA MappingsMeant ==
  ASSUME NEW deltas \in Seq(Seq(Segment))
  PROVE  ParseMappings(Encoded(deltas)) = Meant(deltas)
<1>1. PICK m \in Nat : m = Len(deltas) /\ DOMAIN deltas = 1..m
  OBVIOUS
<1>2. \A f \in 1..5 : SumsOf(deltas, f)
  BY SumsAre
<1>3. Encoded(deltas) \in Seq(MapSymbol) /\ LinesCutTo(deltas)
  BY LinesCut
<1>4. PICK entries : entries = ParseMappings(Encoded(deltas))
  OBVIOUS
<1>5. PICK lists : lists = [l \in 1..m |-> MeantOn(deltas, l)]
  OBVIOUS
<1>6. lists \in Seq(Seq(Entry)) /\ Len(lists) = m
  <2>1. \A l \in 1..m : lists[l] \in Seq(Entry)
    BY <1>1, <1>2, <1>5, MeantIs
  <2>2. lists = [l \in 1..m |-> lists[l]]
    BY <1>5
  <2> QED
    BY <2>1, <2>2, ListOfTexts
<1>7. Meant(deltas) = FlattenSeq(lists)
  BY <1>1, <1>5, Zenon DEF Meant
<1>8. PICK F : Flattens(F, lists, Entry)
  BY <1>6, FlattenSteps
<1>9. F[0] = <<>> /\ (\A l \in 1..m : F[l] = F[l - 1] \o lists[l]) /\ Meant(deltas) = F[m]
  BY <1>6, <1>7, <1>8 DEF Flattens
<1>10. CASE deltas = <<>>
  <2>1. m = 0
    BY <1>1, <1>10
  <2>2. PICK es : es = <<<<>>>>
    OBVIOUS
  <2>3. Len(es) = 1 /\ es[1] = <<>> /\ Split(Encoded(deltas), Semicolon) = es
    BY <1>3, <1>10, <2>2 DEF LinesCutTo
  <2>4. PICK g : ReadsLines(g, 1, es, entries)
    BY <1>3, <1>4, <2>3, MappingSteps, Zenon
  <2>5. 1 \in 1..1 /\ 1 - 1 = 0
    OBVIOUS
  <2>6. entries = ReadLine(Nothing, <<>>).entries
    BY <2>3, <2>4, <2>5 DEF ReadsLines
  <2>7. LineEnds(ReadLine(Nothing, <<>>), LineStarts(Nothing))
    BY NothingIs, EmptyLine
  <2>8. entries = <<>>
    BY <2>6, <2>7, NothingIs, LineStart, Zenon DEF LineEnds
  <2> QED
    BY <1>4, <1>9, <2>1, <2>8
<1>11. CASE deltas # <<>>
  <2>1. PICK es : es = [l \in 1..m |-> LineText(deltas[l])]
    OBVIOUS
  <2>2. Split(Encoded(deltas), Semicolon) = es
    BY <1>1, <1>3, <1>11, <2>1, Zenon DEF LinesCutTo
  <2>3. Len(es) = m
    <3>1. \A l \in 1..m : es[l] \in Seq(LineSymbol)
      <4> TAKE l \in 1..m
      <4>1. deltas[l] \in Seq(Segment)
        BY <1>1
      <4> QED
        BY <2>1, <4>1, LineCut
    <3>2. es = [l \in 1..m |-> es[l]]
      BY <2>1
    <3> QED
      BY <3>1, <3>2, ListFrom
  <2>4. PICK g : ReadsLines(g, m, es, entries)
    BY <1>3, <1>4, <2>2, <2>3, MappingSteps, Zenon
  <2>5. /\ g[0] = Nothing /\ \A n \in 1..m : g[n] = ReadLine(g[n - 1], es[n])
        /\ g \in [0..m -> Reading] /\ entries = g[m].entries
    BY <2>4, Zenon DEF ReadsLines
  <2> DEFINE Known(a, n) == /\ a.line = n /\ a.entries = F[n]
                            /\ n = 0 => \A f \in 2..5 : a.at[f] = 0
                            /\ n # 0 => \A f \in 2..5 : a.at[f] = SumTo(deltas, n, Len(deltas[n]), f)
             S == {n \in 0..m : Known(g[n], n)}
  <2>6. 0 \in S
    <3>1. \A f \in 2..5 : f \in 1..5
      OBVIOUS
    <3>2. Known(Nothing, 0)
      BY <1>9, <3>1, NothingIs
    <3> QED
      BY <1>1, <2>5, <3>2
  <2>7. ASSUME NEW n \in 1..m, n - 1 \in S PROVE n \in S
    <3>1. Known(g[n - 1], n - 1)
      BY <2>7
    <3>2. PICK acc : acc = g[n - 1]
      OBVIOUS
    <3>3. acc \in Reading /\ n \in 1..Len(deltas) /\ n \in 0..m /\ n # 0
      <4>1. n - 1 \in 0..m /\ n \in 0..m /\ n # 0 /\ n \in 1..Len(deltas)
        BY <1>1
      <4> QED
        BY <2>5, <3>2, <4>1
    <3>4. acc.line = n - 1 /\ acc.entries = F[n - 1]
      BY <3>1, <3>2
    <3>5. ASSUME NEW f \in 2..5 PROVE acc.at[f] = SumTo(deltas, n, 0, f)
      <4>1. f \in 1..5 /\ f # 1
        OBVIOUS
      <4>2. SumsOf(deltas, f)
        BY <1>2, <4>1
      <4>3. CASE n = 1
        <5>1. n - 1 = 0
          BY <4>3
        <5>2. acc.at[f] = 0
          BY <3>1, <3>2, <5>1
        <5>3. SumTo(deltas, n, 0, f) = 0
          BY <3>3, <4>2, <4>3, Zenon DEF SumsOf
        <5> QED
          BY <5>2, <5>3
      <4>4. CASE n # 1
        <5>1. n - 1 # 0
          BY <4>4
        <5>2. acc.at[f] = SumTo(deltas, n - 1, Len(deltas[n - 1]), f)
          BY <3>1, <3>2, <5>1
        <5>3. SumTo(deltas, n, 0, f) = SumTo(deltas, n - 1, Len(deltas[n - 1]), f)
          BY <3>3, <4>1, <4>2, <4>4, Zenon DEF SumsOf
        <5> QED
          BY <5>2, <5>3
      <4> QED
        BY <4>3, <4>4
    <3>6. ReadAfter(ReadLine(acc, LineText(deltas[n])), deltas, n, acc.entries)
      BY <1>2, <3>3, <3>4, <3>5, LineAdded
    <3>7. g[n] = ReadLine(acc, LineText(deltas[n]))
      BY <2>1, <2>5, <3>2
    <3>8. /\ g[n].line = n
          /\ \A f \in 2..5 : g[n].at[f] = SumTo(deltas, n, Len(deltas[n]), f)
          /\ g[n].entries = acc.entries \o MeantOn(deltas, n)
      BY <3>6, <3>7, Zenon DEF ReadAfter
    <3>9. g[n].entries = F[n]
      <4>1. lists[n] = MeantOn(deltas, n)
        BY <1>5
      <4>2. F[n] = F[n - 1] \o lists[n]
        BY <1>9
      <4> QED
        BY <3>4, <3>8, <4>1, <4>2, Zenon
    <3>10. Known(g[n], n)
      BY <3>3, <3>8, <3>9, Zenon
    <3> HIDE DEF Known
    <3> QED
      BY <3>3, <3>10
  <2> HIDE DEF S
  <2>8. 0..m \subseteq S
    BY <1>1, <2>6, <2>7, InductionUpTo
  <2>9. m \in S
    BY <1>1, <2>8
  <2>10. entries = F[m]
    BY <2>5, <2>9 DEF S
  <2> QED
    BY <1>4, <1>9, <2>10
<1> QED
  BY <1>10, <1>11

\* Only a map is read, and what is read of it is what it holds.
SummedInv ==
  /\ sm # Absent => part = "maps"
  /\ part = "maps" => raw \in RawMap
  /\ Loaded => sm = Parse(raw)

(* At the start no map is read.                                             *)
LEMMA SummedStarts == Init => SummedInv
<1> SUFFICES ASSUME Init PROVE SummedInv
  OBVIOUS
<1>1. sm = Absent /\ (part = "maps" => raw \in RawMap)
  <2>1. CASE part = "maps"
    BY <2>1 DEF Init, MapInit
  <2>2. CASE part # "maps"
    BY <2>2 DEF Init, Idle
  <2> QED
    BY <2>1, <2>2
<1> QED
  BY <1>1 DEF SummedInv, Loaded

(* A map is read once, as it was written, and stays as it is.               *)
LEMMA SummedStep == SummedInv /\ [Next]_vars => SummedInv'
<1> SUFFICES ASSUME SummedInv, [Next]_vars PROVE SummedInv'
  OBVIOUS
<1>1. CASE part = "maps" /\ ParseMap /\ UNCHANGED part
  <2>1. part = "maps" /\ raw \in RawMap /\ sm' = Parse(raw) /\ raw' = raw /\ part' = part
    BY <1>1 DEF SummedInv, ParseMap
  <2>2. Parse(raw)' = Parse(raw)
    BY <2>1
  <2> QED
    BY <2>1, <2>2, Zenon DEF SummedInv
<1>2. CASE part = "maps" /\ RestoreSources /\ UNCHANGED part
  <2>1. sm' = sm /\ raw' = raw /\ part' = part
    BY <1>2 DEF RestoreSources
  <2>2. Loaded' = Loaded /\ Parse(raw)' = Parse(raw)
    BY <2>1 DEF Loaded
  <2> QED
    BY <2>1, <2>2, Zenon DEF SummedInv
<1>3. CASE UNCHANGED <<part, mapVars>>
  <2>1. part' = part /\ raw' = raw /\ sm' = sm
    BY <1>3 DEF mapVars
  <2>2. Loaded' = Loaded /\ Parse(raw)' = Parse(raw)
    BY <2>1 DEF Loaded
  <2> QED
    BY <2>1, <2>2, Zenon DEF SummedInv
<1> QED
  BY <1>1, <1>2, <1>3 DEF Next, MapNext, vars

(* Mappings written the way the format says are read back as the positions  *)
(* they stand for: values of up to thirty bits and a sign, deltas carried   *)
(* over lines except the column's, segments of one, four and five values:   *)
(* for any maps, of any length.                                             *)
THEOREM MappingsAreSummed == Spec => []MappingsSummed
<1>1. SummedInv => MappingsSummed
  <2> SUFFICES ASSUME SummedInv, Loaded, raw.deltas # Absent
               PROVE  ParseMappings(sm.mappings) = Meant(raw.deltas)
    BY DEF MappingsSummed
  <2>1. sm # Absent /\ sm # Failed
    BY DEF Loaded
  <2>2. raw \in RawMap /\ sm = Parse(raw)
    BY <2>1, Zenon DEF SummedInv
  <2>3. raw.form = "object" /\ sm.mappings = IF raw.mappings = Absent THEN <<>> ELSE raw.mappings
    BY <2>1, <2>2 DEF Parse
  <2>4. /\ raw.deltas \in Seq(Seq(Segment))
        /\ raw.mappings = Encoded(raw.deltas) /\ raw.mappings # Absent
    BY <2>2, <2>3, MappingsAssumption, Zenon DEF MappingsAssumption
  <2>5. PICK d \in Seq(Seq(Segment)) : d = raw.deltas
    BY <2>4
  <2>6. ParseMappings(Encoded(d)) = Meant(d)
    BY MappingsMeant
  <2>7. sm.mappings = Encoded(d)
    BY <2>3, <2>4, <2>5, Zenon
  <2> QED
    BY <2>5, <2>6, <2>7, Zenon
<1> QED
  BY <1>1, SummedStarts, SummedStep, PTL DEF Spec
==============================================================================

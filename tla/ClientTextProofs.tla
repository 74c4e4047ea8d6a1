-------------------------- MODULE ClientTextProofs --------------------------
(***************************************************************************)
(* Proofs about what ClientTools does with texts, for texts of any length: *)
(* readTask's loop over the lines and what readTool makes of it, and the   *)
(* search and the copies of editTask.                                      *)
(*                                                                         *)
(* These are loops, FoldLeft in the model, and what they compute is proved *)
(* by induction: that a set of numbers has 0 in it, and with each number   *)
(* the next (Induction).  FoldLeft itself is a function chosen on sets of  *)
(* places, which must be shown to exist (FoldExists) before its values are *)
(* known step by step (FoldGoes); so is the recursion of EditOf            *)
(* (RestExists).                                                           *)
(***************************************************************************)
EXTENDS ClientTools, FiniteSetTheorems, WellFoundedInduction, TLAPS

-----------------------------------------------------------------------------
(* Numbers, and folds                                                      *)

\* A set of numbers with 0 in it, and with each number the next, has them all.
LEMMA Induction ==
  ASSUME NEW T, 0 \in T, \A n \in Nat : n \in T => n + 1 \in T
  PROVE  Nat \subseteq T
<1> DEFINE R == OpToRel(<, Nat)
           D == Nat \ T
<1> SUFFICES ASSUME D # {} PROVE FALSE OBVIOUS
<1>1. IsWellFoundedOn(R, Nat) BY NatLessThanWellFounded
<1>2. D \subseteq Nat OBVIOUS
<1> HIDE DEF D, R
<1>3. PICK x \in D : \A y \in D : ~(<<y, x>> \in R) BY <1>1, <1>2, WFMin
<1>4. x \in Nat /\ x \notin T BY DEF D
<1>5. x - 1 \in Nat BY <1>4
<1>6. x - 1 \in D BY <1>4, <1>5 DEF D
<1>7. <<x - 1, x>> \in R BY <1>4, <1>5 DEF R, OpToRel
<1> QED BY <1>3, <1>6, <1>7

\* The values a fold goes through, from b to v in N steps.
Goes(f, N, S, b, step, v) ==
  /\ f \in [0 .. N -> S] /\ f[0] = b /\ f[N] = v
  /\ \A n \in 1 .. N : f[n] = step[n][f[n - 1]]

\* FoldLeft is a function of the sets of places.
Folded(h, N, S, b, step) ==
  /\ h[{}] = b
  /\ \A s \in SUBSET (1 .. N) :
       s # {} /\ h[s \ {Max(s)}] \in S => h[s] = step[Max(s)][h[s \ {Max(s)}]]

\* The greatest of the numbers up to n.
LEMMA MaxOfRange ==
  ASSUME NEW n \in Nat \ {0}
  PROVE  Max(1 .. n) = n /\ (1 .. n) \ {n} = 1 .. n - 1
<1>1. Max(1 .. n) \in 1 .. n /\ \A y \in 1 .. n : Max(1 .. n) >= y
  <2>1. n \in 1 .. n /\ \A y \in 1 .. n : n >= y OBVIOUS
  <2> QED BY <2>1 DEF Max
<1> QED BY <1>1

\* Numbers that are bounded have a greatest.
LEMMA MaxOfSubset ==
  ASSUME NEW N \in Nat, NEW s \in SUBSET (1 .. N), s # {}
  PROVE  Max(s) \in s /\ \A x \in s : x <= Max(s)
<1> DEFINE T == {n \in Nat : \A t \in SUBSET (1 .. n) : t # {} => \E x \in t : \A y \in t : x >= y}
<1>1. 0 \in T
  <2>1. \A t \in SUBSET (1 .. 0) : t = {} OBVIOUS
  <2> QED BY <2>1
<1>2. ASSUME NEW n \in Nat, n \in T PROVE n + 1 \in T
  <2>1. ASSUME NEW t \in SUBSET (1 .. n + 1), t # {} PROVE \E x \in t : \A y \in t : x >= y
    <3>1. CASE n + 1 \in t BY <3>1
    <3>2. CASE n + 1 \notin t
      <4>1. t \in SUBSET (1 .. n) BY <2>1, <3>2
      <4> QED BY <1>2, <2>1, <4>1
    <3> QED BY <3>1, <3>2
  <2> QED BY <2>1
<1>3. Nat \subseteq T
  <2> HIDE DEF T
  <2> QED BY <1>1, <1>2, Induction
<1>4. \E x \in s : \A y \in s : x >= y BY <1>3
<1> QED BY <1>4 DEF Max

\* A fold goes step by step.
LEMMA FoldGoes ==
  ASSUME NEW N \in Nat, NEW S, NEW b \in S, NEW step \in [1 .. N -> [S -> S]],
         NEW h, Folded(h, N, S, b, step)
  PROVE  \E f : Goes(f, N, S, b, step, h[1 .. N])
<1> DEFINE OK(n) == /\ h[1 .. n] \in S
                    /\ n # 0 => h[1 .. n] = step[n][h[1 .. n - 1]]
           T == {n \in Nat : n <= N => OK(n)}
<1>1. 0 \in T
  <2>1. 1 .. 0 = {} OBVIOUS
  <2> QED BY <2>1 DEF Folded
<1>2. ASSUME NEW n \in Nat, n \in T PROVE n + 1 \in T
  <2> SUFFICES ASSUME n + 1 <= N PROVE OK(n + 1) OBVIOUS
  <2>1. h[1 .. n] \in S BY <1>2
  <2>2. Max(1 .. n + 1) = n + 1 /\ (1 .. n + 1) \ {n + 1} = 1 .. n
    BY MaxOfRange, n + 1 - 1 = n, n + 1 \in Nat \ {0}
  <2>3. 1 .. n + 1 \in SUBSET (1 .. N) /\ 1 .. n + 1 # {}  BY SMTT(30)
  <2>4. h[1 .. n + 1] = step[n + 1][h[1 .. n]] BY <2>1, <2>2, <2>3 DEF Folded
  <2>5. n + 1 \in 1 .. N /\ n + 1 - 1 = n OBVIOUS
  <2>6. step[n + 1] \in [S -> S] BY <2>5
  <2>7. h[1 .. n + 1] \in S BY <2>1, <2>4, <2>6
  <2> QED BY <2>4, <2>5, <2>7
<1>3. Nat \subseteq T
  <2> HIDE DEF T
  <2> QED BY <1>1, <1>2, Induction
<1>4. \A n \in 0 .. N : OK(n) BY <1>3
<1> DEFINE f == [n \in 0 .. N |-> h[1 .. n]]
<1>5. f \in [0 .. N -> S] BY <1>4
<1>6. f[0] = b
  <2>1. 1 .. 0 = {} OBVIOUS
  <2> QED BY <2>1 DEF Folded
<1>7. f[N] = h[1 .. N] OBVIOUS
<1>8. \A n \in 1 .. N : f[n] = step[n][f[n - 1]]
  <2> SUFFICES ASSUME NEW n \in 1 .. N PROVE f[n] = step[n][f[n - 1]] OBVIOUS
  <2>1. n \in 0 .. N /\ n - 1 \in 0 .. N /\ n # 0 OBVIOUS
  <2>2. f[n] = h[1 .. n] /\ f[n - 1] = h[1 .. n - 1] BY <2>1
  <2> QED BY <1>4, <2>1, <2>2
<1> QED BY <1>5, <1>6, <1>7, <1>8 DEF Goes

IsFold(h, N, S, b, step) ==
  /\ h \in [SUBSET (1 .. N) -> S]
  /\ h = [s \in SUBSET (1 .. N) |-> IF s = {} THEN b ELSE step[Max(s)][h[s \ {Max(s)}]]]

\* There is such a function: the one that FoldLeft chooses.
LEMMA FoldExists ==
  ASSUME NEW N \in Nat, NEW S, NEW b \in S, NEW step \in [1 .. N -> [S -> S]]
  PROVE  \E h : IsFold(h, N, S, b, step)
<1> DEFINE Body(h, s) == IF s = {} THEN b ELSE step[Max(s)][h[s \ {Max(s)}]]
           OK(n, h) == /\ h \in [SUBSET (1 .. N) -> S]
                       /\ \A s \in SUBSET (1 .. n) : h[s] = Body(h, s)
           T == {n \in Nat : n <= N => \E h : OK(n, h)}
<1>1. 0 \in T
  <2> DEFINE h == [s \in SUBSET (1 .. N) |-> b]
  <2>1. \A s \in SUBSET (1 .. 0) : s = {} OBVIOUS
  <2>2. OK(0, h) BY <2>1
  <2> QED BY <2>2
<1>2. ASSUME NEW n \in Nat, n \in T, n + 1 <= N PROVE \E h : OK(n + 1, h)
  <2>1. PICK g : OK(n, g)
    <3> HIDE DEF OK
    <3> QED BY <1>2
  <2> DEFINE h == [s \in SUBSET (1 .. N) |->
                     IF s \in SUBSET (1 .. n) \/ s \notin SUBSET (1 .. n + 1) THEN g[s] ELSE step[n + 1][g[s \ {n + 1}]]]
  <2>2. \A s \in SUBSET (1 .. n + 1) : s \notin SUBSET (1 .. n) =>
          n + 1 \in s /\ Max(s) = n + 1 /\ s # {}
    <3> SUFFICES ASSUME NEW s \in SUBSET (1 .. n + 1), s \notin SUBSET (1 .. n)
                 PROVE  n + 1 \in s /\ Max(s) = n + 1
      OBVIOUS
    <3>1. n + 1 \in s /\ \A y \in s : n + 1 >= y OBVIOUS
    <3>2. Max(s) \in s /\ \A y \in s : Max(s) >= y BY <3>1 DEF Max
    <3>3. Max(s) >= n + 1 /\ n + 1 >= Max(s) /\ Max(s) \in 1 .. n + 1 BY <3>1, <3>2
    <3> QED BY <3>1, <3>3
  <2>3. \A s \in SUBSET (1 .. n + 1) : s \ {n + 1} \in SUBSET (1 .. n) /\ s \in SUBSET (1 .. N)
    <3>1. 1 .. n + 1 \subseteq 1 .. N BY <1>2
    <3>2. \A x \in 1 .. n + 1 : x # n + 1 => x \in 1 .. n OBVIOUS
    <3>3. ASSUME NEW s \in SUBSET (1 .. n + 1)
          PROVE  s \ {n + 1} \subseteq 1 .. n /\ s \subseteq 1 .. N
      BY <3>1, <3>2
    <3> QED BY <3>3
  <2>4. n + 1 \in 1 .. N /\ SUBSET (1 .. n) \subseteq SUBSET (1 .. N) BY <1>2
  <2>5. step[n + 1] \in [S -> S] BY <2>4
  <2>6. h \in [SUBSET (1 .. N) -> S]
    BY <2>1, <2>3, <2>4, <2>5
  <2>7. \A s \in SUBSET (1 .. n) : h[s] = g[s] BY <2>4
  <2>8. \A s \in SUBSET (1 .. n) : s # {} => s \ {Max(s)} \in SUBSET (1 .. n) OBVIOUS
  <2>9. ASSUME NEW s \in SUBSET (1 .. n + 1) PROVE h[s] = Body(h, s)
    <3>1. CASE s \in SUBSET (1 .. n)
      <4>1. h[s] = g[s] /\ (s # {} => h[s \ {Max(s)}] = g[s \ {Max(s)}]) BY <2>7, <2>8, <3>1
      <4>2. g[s] = Body(g, s) BY <2>1, <3>1
      <4> QED BY <4>1, <4>2
    <3>2. CASE s \notin SUBSET (1 .. n)
      <4>1. h[s] = step[n + 1][g[s \ {n + 1}]] BY <2>3, <2>9, <3>2
      <4>2. h[s \ {n + 1}] = g[s \ {n + 1}] BY <2>3, <2>7
      <4> HIDE DEF h
      <4> QED BY <2>2, <3>2, <4>1, <4>2
    <3> QED BY <3>1, <3>2
  <2>10. OK(n + 1, h) BY <2>6, <2>9
  <2> HIDE DEF OK, h
  <2> QED BY <2>10
<1> HIDE DEF OK
<1>3. Nat \subseteq T
  <2>1. \A n \in Nat : n \in T => n + 1 \in T BY <1>2
  <2> HIDE DEF T
  <2> QED BY <1>1, <2>1, Induction
<1>4. PICK h : OK(N, h) BY <1>3
<1>5. h \in [SUBSET (1 .. N) -> S] /\ h = [s \in SUBSET (1 .. N) |-> Body(h, s)] BY <1>4 DEF OK
<1> QED BY <1>5 DEF IsFold

-----------------------------------------------------------------------------
(* Texts and their lines                                                   *)

Texts == Seq(STRING)

\* A character goes on with the last line, or begins one.
Put(lines, x) ==
  IF lines # <<>> /\ Last(Last(lines)) # NL
    THEN [lines EXCEPT ![Len(lines)] = Append(@, x)]
    ELSE Append(lines, <<x>>)

\* The last element of a sequence, replaced.
LEMMA LastSet ==
  ASSUME NEW X, NEW s \in Seq(X), s # <<>>
  PROVE  /\ Len(s) \in 1 .. Len(s) /\ s[Len(s)] \in X /\ Last(s) = s[Len(s)]
         /\ \A y \in X : /\ [s EXCEPT ![Len(s)] = y] \in Seq(X)
                         /\ Len([s EXCEPT ![Len(s)] = y]) = Len(s)
                         /\ Append(s, y) \in Seq(X)
<1>1. Len(s) \in 1 .. Len(s) /\ DOMAIN s = 1 .. Len(s) OBVIOUS
<1> QED BY <1>1 DEF Last

\* Sequences of no, one and one more element.
LEMMA Sequences ==
  ASSUME NEW X, NEW x \in X
  PROVE  /\ <<>> \in Seq(X) /\ <<x>> \in Seq(X)
         /\ \A s \in Seq(X) : Append(s, x) \in Seq(X)
OBVIOUS

\* A sequence has a length, and its elements are of its set.
LEMMA ElementOf ==
  ASSUME NEW X, NEW s \in Seq(X)
  PROVE  Len(s) \in Nat /\ DOMAIN s = 1 .. Len(s) /\ \A i \in 1 .. Len(s) : s[i] \in X
OBVIOUS

\* A text is a sequence of characters.
LEMMA TextElement ==
  ASSUME NEW text \in Texts
  PROVE  /\ Len(text) \in Nat /\ DOMAIN text = 1 .. Len(text)
         /\ \A i \in 1 .. Len(text) : text[i] \in STRING
BY ElementOf DEF Texts

\* A character more makes a text of a text.
LEMMA TextAppend ==
  ASSUME NEW s \in Texts, NEW x \in STRING
  PROVE  Append(s, x) \in Texts /\ <<x>> \in Texts /\ <<>> \in Seq(Texts)
BY Sequences DEF Texts

\* Lines of characters stay so.
LEMMA PutType ==
  ASSUME NEW lines \in Seq(Texts), NEW x \in STRING
  PROVE  Put(lines, x) \in Seq(Texts)
<1>1. CASE lines # <<>>
  <2>1. lines[Len(lines)] \in Texts BY <1>1, LastSet
  <2>2. Append(lines[Len(lines)], x) \in Texts /\ <<x>> \in Texts BY <2>1, TextAppend
  <2> QED BY <1>1, <2>2, LastSet DEF Put
<1>2. CASE lines = <<>>
  <2>1. <<x>> \in Texts BY Sequences DEF Texts
  <2>2. Put(lines, x) = Append(lines, <<x>>) BY <1>2 DEF Put
  <2> QED BY <2>1, <2>2, Sequences
<1> QED BY <1>1, <1>2

\* Lines, character by character.
LEMMA LinesGo ==
  ASSUME NEW text \in Seq(STRING)
  PROVE  \E f \in [0 .. Len(text) -> Seq(Texts)] :
           /\ f[0] = <<>> /\ f[Len(text)] = Lines(text)
           /\ \A n \in 1 .. Len(text) : f[n] = Put(f[n - 1], text[n])
<1> DEFINE N == Len(text)
           S == Seq(Texts)
           step == [n \in 1 .. N |-> [v \in S |-> Put(v, text[n])]]
           Eq(h) == h = [s \in SUBSET (1 .. N) |->
                           IF s = {} THEN <<>> ELSE Put(h[s \ {Max(s)}], text[Max(s)])]
           h == CHOOSE g : Eq(g)
<1>1. N \in Nat /\ <<>> \in S /\ DOMAIN text = 1 .. N OBVIOUS
<1>2. step \in [1 .. N -> [S -> S]]
  <2>1. \A n \in 1 .. N : text[n] \in STRING OBVIOUS
  <2> QED BY <2>1, PutType
<1>3. Lines(text) = h[1 .. N]
  BY <1>1 DEF Lines, FoldLeft, MapThenFoldSet, Put
<1>4. \A n \in 1 .. N : \A v \in S : step[n][v] = Put(v, text[n])
  OBVIOUS
<1> HIDE DEF step, S
<1>5. \E g : Eq(g)
  <2>0. PICK g : IsFold(g, N, S, <<>>, step)
    <3> HIDE DEF N, Eq
    <3> QED BY <1>1, <1>2, FoldExists
  <2>1. /\ g \in [SUBSET (1 .. N) -> S]
        /\ g = [s \in SUBSET (1 .. N) |-> IF s = {} THEN <<>> ELSE step[Max(s)][g[s \ {Max(s)}]]]
    BY <2>0 DEF IsFold
  <2>2. ASSUME NEW s \in SUBSET (1 .. N), s # {} PROVE Max(s) \in 1 .. N /\ s \ {Max(s)} \in SUBSET (1 .. N)
    BY <1>1, <2>2, MaxOfSubset
  <2>3. Eq(g)
    BY <1>4, <2>1, <2>2
  <2> QED BY <2>3
<1>6. Eq(h) BY <1>5
<1>7. Folded(h, N, S, <<>>, step)
  <2>1. ASSUME NEW s \in SUBSET (1 .. N), s # {}, h[s \ {Max(s)}] \in S
        PROVE  h[s] = step[Max(s)][h[s \ {Max(s)}]]
    <3>1. Max(s) \in 1 .. N BY <1>1, <2>1, MaxOfSubset
    <3>2. h[s] = Put(h[s \ {Max(s)}], text[Max(s)])
      <4> HIDE DEF h
      <4> QED BY <1>6, <2>1
    <3> HIDE DEF h, N
    <3> QED BY <1>4, <2>1, <3>1, <3>2
  <2>2. h[{}] = <<>>
    <3>1. {} \in SUBSET (1 .. N) OBVIOUS
    <3> HIDE DEF h
    <3> QED BY <1>6, <3>1
  <2> HIDE DEF h, N
  <2> QED BY <2>1, <2>2 DEF Folded
<1> HIDE DEF h, N
<1>8. PICK f : Goes(f, N, S, <<>>, step, h[1 .. N]) BY <1>1, <1>2, <1>7, FoldGoes
<1>9. ASSUME NEW n \in 1 .. N PROVE f[n] = Put(f[n - 1], text[n])
  <2>1. n - 1 \in 0 .. N BY <1>1
  <2> QED BY <1>4, <1>8, <2>1 DEF Goes
<1> QED BY <1>3, <1>8, <1>9 DEF Goes, N, S

\* A character is on the line of the one before it, or behind an NL on the next.
LEMMA LineOfNext ==
  ASSUME NEW text, NEW i \in Nat \ {0}
  PROVE  /\ LineOf(text, i) \in Nat \ {0} /\ LineOf(text, 1) = 1
         /\ LineOf(text, i + 1) = IF text[i] = NL THEN LineOf(text, i) + 1 ELSE LineOf(text, i)
<1> DEFINE Ends(m) == {j \in 1 .. m : text[j] = NL}
<1>1. \A m \in Nat : IsFiniteSet(Ends(m)) /\ Cardinality(Ends(m)) \in Nat
  <2> SUFFICES ASSUME NEW m \in Nat PROVE IsFiniteSet(Ends(m)) /\ Cardinality(Ends(m)) \in Nat
    OBVIOUS
  <2>1. IsFiniteSet(1 .. m) BY FS_Interval
  <2> QED BY <2>1, FS_Subset, FS_CardinalityType
<1>2. Ends(0) = {} /\ Cardinality({}) = 0 BY FS_EmptySet
<1>3. i - 1 \in Nat /\ i + 1 - 1 = i /\ 1 - 1 = 0 OBVIOUS
<1>4. Ends(i) = IF text[i] = NL THEN Ends(i - 1) \cup {i} ELSE Ends(i - 1) BY <1>3
<1>5. i \notin Ends(i - 1) OBVIOUS
<1>6. Cardinality(Ends(i - 1) \cup {i}) = Cardinality(Ends(i - 1)) + 1
  <2> HIDE DEF Ends
  <2> QED BY <1>1, <1>3, <1>5, FS_AddElement
<1>7. /\ LineOf(text, i) = 1 + Cardinality(Ends(i - 1))
      /\ LineOf(text, 1) = 1 + Cardinality(Ends(0))
      /\ LineOf(text, i + 1) = 1 + Cardinality(Ends(i))
  BY <1>3 DEF LineOf
<1> HIDE DEF Ends
<1> QED BY <1>1, <1>2, <1>3, <1>4, <1>6, <1>7

\* Where the lines of the first n characters begin: line k is behind place s[k].
Line(text, L, s, k) ==
  /\ s[k] < s[k + 1] /\ Len(L[k]) = s[k + 1] - s[k]
  /\ \A i \in 1 .. Len(L[k]) : L[k][i] = text[s[k] + i]
  /\ \A i \in s[k] + 1 .. s[k + 1] : LineOf(text, i) = k
  /\ \A i \in s[k] + 1 .. s[k + 1] - 1 : text[i] # NL
  /\ k < Len(L) => text[s[k + 1]] = NL

\* A character is in the line that LineOf says.
InLine(text, L, s, i) ==
  /\ LineOf(text, i) \in 1 .. Len(L)
  /\ s[LineOf(text, i)] < i /\ i <= s[LineOf(text, i) + 1]

\* The lines in L are the first n characters of text, cut behind each NL.
Cut(text, n, L, s) ==
  /\ s \in [1 .. Len(L) + 1 -> 0 .. n]
  /\ s[1] = 0 /\ s[Len(L) + 1] = n
  /\ \A k \in 1 .. Len(L) : Line(text, L, s, k)
  /\ \A i \in 1 .. n : InLine(text, L, s, i)

\* One more character leaves the lines cut behind each NL.
LEMMA CutPut ==
  ASSUME NEW text \in Texts, NEW n \in Nat, n < Len(text),
         NEW L \in Seq(Texts), NEW s, Cut(text, n, L, s)
  PROVE  \E t : Cut(text, n + 1, Put(L, text[n + 1]), t)
<1> DEFINE x == text[n + 1]
           M == Put(L, x)
           K == Len(L)
<1>0. x \in STRING BY TextElement
<1>1. K \in Nat /\ n + 1 \in Nat \ {0}
  OBVIOUS
<1>2. s \in [1 .. K + 1 -> 0 .. n] /\ s[1] = 0 /\ s[K + 1] = n BY DEF Cut
<1>3. CASE L = <<>>
  <2> DEFINE t == [k \in 1 .. 2 |-> IF k = 1 THEN 0 ELSE 1]
  <2>1. M = << <<x>> >> /\ n = 0 BY <1>2, <1>3 DEF Put
  <2>2. Len(M) = 1 /\ M[1] = <<x>> /\ Len(M[1]) = 1 /\ M[1][1] = x BY <2>1
  <2>3. LineOf(text, 1) = 1 BY <1>1, LineOfNext
  <2>4. t \in [1 .. Len(M) + 1 -> 0 .. n + 1] /\ t[1] = 0 /\ t[Len(M) + 1] = n + 1
    BY <2>1, <2>2
  <2>5. Line(text, M, t, 1)
    <3>1. t[1] = 0 /\ t[1 + 1] = 1 OBVIOUS
    <3> HIDE DEF t, M
    <3> QED BY <2>1, <2>2, <2>3, <3>1 DEF Line
  <2>6. \A k \in 1 .. Len(M) : k = 1 BY <2>2
  <2> HIDE DEF M, t
  <2>8. \A i \in 1 .. n + 1 : InLine(text, M, t, i) BY <2>1, <2>2, <2>3, <2>4 DEF InLine
  <2>7. Cut(text, n + 1, M, t) BY <2>4, <2>5, <2>6, <2>8 DEF Cut
  <2> QED BY <2>7 DEF M
<1>4. ASSUME L # <<>>
      PROVE  /\ K \in 1 .. K /\ L[K] \in Texts /\ Last(L) = L[K]
             /\ Line(text, L, s, K) /\ s[K] \in Nat
             /\ Last(Last(L)) = text[n] /\ LineOf(text, n) = K /\ n \in Nat \ {0}
             /\ Len(L[K]) = n - s[K]
  <2>1. K \in 1 .. K /\ L[K] \in Texts /\ Last(L) = L[K] BY <1>4, LastSet
  <2>2. Line(text, L, s, K) BY <2>1 DEF Cut
  <2>3. s[K] \in Nat /\ s[K] < n /\ Len(L[K]) = n - s[K] BY <1>2, <2>1, <2>2 DEF Line
  <2>4. n - s[K] \in 1 .. Len(L[K]) /\ n \in s[K] + 1 .. s[K + 1] BY <1>2, <2>3
  <2>5. L[K][n - s[K]] = text[s[K] + (n - s[K])] /\ LineOf(text, n) = K BY <2>2, <2>4 DEF Line
  <2>6. s[K] + (n - s[K]) = n BY <2>3
  <2>7. Last(L[K]) = L[K][n - s[K]] BY <2>3 DEF Last
  <2> QED BY <2>1, <2>2, <2>3, <2>5, <2>6, <2>7
<1>5. CASE L # <<>> /\ text[n] # NL
  <2> DEFINE t == [s EXCEPT ![K + 1] = n + 1]
  <2>1. M = [L EXCEPT ![K] = Append(L[K], x)] BY <1>4, <1>5 DEF Put
  <2>2. Append(L[K], x) \in Texts BY <1>0, <1>4, <1>5, TextAppend
  <2>3. Len(M) = K BY <1>5, <2>1, <2>2, LastSet
  <2>4. /\ Len(Append(L[K], x)) = Len(L[K]) + 1 /\ Append(L[K], x)[Len(L[K]) + 1] = x
        /\ \A i \in 1 .. Len(L[K]) : Append(L[K], x)[i] = L[K][i]
    BY <1>4, <1>5 DEF Texts
  <2>5. M[K] = Append(L[K], x) /\ \A k \in 1 .. K - 1 : M[k] = L[k] BY <1>4, <1>5, <2>1
  <2>6. /\ t \in [1 .. K + 1 -> 0 .. n + 1] /\ t[K + 1] = n + 1
        /\ \A k \in 1 .. K : t[k] = s[k]
    BY <1>1, <1>2
  <2>7. LineOf(text, n + 1) = K BY <1>4, <1>5, LineOfNext
  <2> HIDE DEF M, t
  <2>8. ASSUME NEW k \in 1 .. K - 1 PROVE Line(text, M, t, k)
    <3>1. k \in 1 .. K /\ k + 1 \in 1 .. K /\ k < K BY <1>1
    <3>2. t[k] = s[k] /\ t[k + 1] = s[k + 1] /\ M[k] = L[k] BY <2>5, <2>6, <3>1
    <3>3. Line(text, L, s, k) BY <3>1 DEF Cut
    <3> QED BY <2>3, <3>2, <3>3 DEF Line
  <2>9. Line(text, M, t, K)
    <3>1. t[K] = s[K] /\ t[K + 1] = n + 1 /\ s[K + 1] = n BY <1>2, <1>4, <1>5, <2>6
    <3>2. /\ s[K] < n /\ Len(L[K]) = n - s[K] /\ s[K] \in Nat
          /\ \A i \in 1 .. Len(L[K]) : L[K][i] = text[s[K] + i]
          /\ \A i \in s[K] + 1 .. n : LineOf(text, i) = K
          /\ \A i \in s[K] + 1 .. n - 1 : text[i] # NL
      BY <1>4, <1>5, <3>1 DEF Line
    <3>3. Len(M[K]) = n + 1 - s[K] BY <2>4, <2>5, <3>2
    <3>4. ASSUME NEW i \in 1 .. Len(M[K]) PROVE M[K][i] = text[s[K] + i]
      <4>1. CASE i \in 1 .. Len(L[K]) BY <2>4, <2>5, <3>2, <4>1
      <4>2. CASE i = Len(L[K]) + 1
        <5>1. s[K] + i = n + 1 BY <3>2, <4>2
        <5> QED BY <2>4, <2>5, <4>2, <5>1
      <4> QED BY <3>2, <3>3, <4>1, <4>2
    <3>5. \A i \in s[K] + 1 .. n + 1 : LineOf(text, i) = K BY <2>7, <3>2
    <3>6. \A i \in s[K] + 1 .. n + 1 - 1 : text[i] # NL BY <1>5, <3>2
    <3> HIDE DEF K
    <3> QED BY <2>3, <3>1, <3>2, <3>3, <3>4, <3>5, <3>6, SMTT(30) DEF Line
  <2>10. t[1] = 0 BY <1>2, <1>4, <1>5, <2>6
  <2>11. \A k \in 1 .. K : Line(text, M, t, k) BY <1>1, <2>8, <2>9
  <2>12. ASSUME NEW i \in 1 .. n + 1 PROVE InLine(text, M, t, i)
    <3>1. CASE i \in 1 .. n
      <4> DEFINE k == LineOf(text, i)
      <4>1. k \in 1 .. K /\ s[k] < i /\ i <= s[k + 1] BY <3>1 DEF Cut, InLine
      <4>2. t[k] = s[k] BY <2>6, <4>1
      <4>3. i <= t[k + 1]
        <5>1. CASE k = K BY <2>6, <5>1
        <5>2. CASE k + 1 \in 1 .. K BY <2>6, <4>1, <5>2
        <5> QED BY <1>1, <4>1, <5>1, <5>2
      <4> HIDE DEF k
      <4>4. k \in 1 .. Len(M) /\ t[k] < i /\ i <= t[k + 1] BY <2>3, <4>1, <4>2, <4>3
      <4> QED BY <4>4 DEF InLine, k
    <3>2. CASE i = n + 1
      <4>1. K \in 1 .. K /\ t[K] = s[K] /\ s[K] < n /\ s[K] \in Nat
        BY <1>2, <1>4, <1>5, <2>6 DEF Line
      <4> HIDE DEF K
      <4> QED BY <2>3, <2>6, <2>7, <3>2, <4>1 DEF InLine
    <3> QED BY <3>1, <3>2
  <2>13. Cut(text, n + 1, M, t) BY <2>3, <2>6, <2>10, <2>11, <2>12 DEF Cut
  <2> QED BY <2>13 DEF M
<1>6. CASE L # <<>> /\ text[n] = NL
  <2> DEFINE t == [k \in 1 .. K + 2 |-> IF k = K + 2 THEN n + 1 ELSE s[k]]
  <2>1. M = Append(L, <<x>>) BY <1>4, <1>6 DEF Put
  <2>2. /\ Len(M) = K + 1 /\ M[K + 1] = <<x>> /\ \A k \in 1 .. K : M[k] = L[k]
    BY <2>1
  <2>3. Len(M[K + 1]) = 1 /\ M[K + 1][1] = x BY <2>2
  <2>4. /\ t \in [1 .. Len(M) + 1 -> 0 .. n + 1] /\ t[K + 2] = n + 1
        /\ \A k \in 1 .. K + 1 : t[k] = s[k]
    BY <1>1, <1>2, <2>2
  <2>5. LineOf(text, n + 1) = K + 1 BY <1>4, <1>6, LineOfNext
  <2> HIDE DEF M, t
  <2>6. ASSUME NEW k \in 1 .. K PROVE Line(text, M, t, k)
    <3>1. k \in 1 .. K + 1 /\ k + 1 \in 1 .. K + 1 BY <1>1
    <3>2. t[k] = s[k] /\ t[k + 1] = s[k + 1] /\ M[k] = L[k] BY <2>2, <2>4, <3>1
    <3>3. Line(text, L, s, k) BY DEF Cut
    <3>4. text[s[k + 1]] = NL
      <4>1. CASE k < K BY <3>3, <4>1 DEF Line
      <4>2. CASE k = K BY <1>2, <1>6, <4>2
      <4> QED BY <1>1, <4>1, <4>2
    <3> QED BY <2>2, <3>2, <3>3, <3>4 DEF Line
  <2>7. Line(text, M, t, K + 1)
    <3>1. t[K + 1] = n /\ t[K + 1 + 1] = n + 1 BY <1>1, <1>2, <2>4
    <3> HIDE DEF K
    <3> QED BY <1>1, <2>2, <2>3, <2>5, <3>1 DEF Line
  <2>8. t[1] = 0 /\ Len(M) + 1 = K + 2 BY <1>1, <1>2, <2>2, <2>4
  <2>9. \A k \in 1 .. Len(M) : Line(text, M, t, k) BY <1>1, <2>2, <2>6, <2>7
  <2>10. ASSUME NEW i \in 1 .. n + 1 PROVE InLine(text, M, t, i)
    <3>1. CASE i \in 1 .. n
      <4> DEFINE k == LineOf(text, i)
      <4>1. k \in 1 .. K /\ s[k] < i /\ i <= s[k + 1] BY <3>1 DEF Cut, InLine
      <4>2. k \in 1 .. K + 1 /\ k + 1 \in 1 .. K + 1 BY <1>1, <4>1
      <4> HIDE DEF k
      <4>4. k \in 1 .. Len(M) /\ t[k] < i /\ i <= t[k + 1] BY <2>2, <2>4, <4>1, <4>2
      <4> QED BY <4>4 DEF InLine, k
    <3>2. CASE i = n + 1
      <4>1. t[K + 1] = n /\ t[K + 1 + 1] = n + 1 /\ K + 1 \in 1 .. K + 1 BY <1>1, <1>2, <2>4
      <4> HIDE DEF K
      <4> QED BY <2>2, <2>5, <3>2, <4>1 DEF InLine
    <3> QED BY <3>1, <3>2
  <2>11. Cut(text, n + 1, M, t) BY <2>4, <2>8, <2>9, <2>10 DEF Cut
  <2> QED BY <2>11 DEF M
<1> QED BY <1>3, <1>5, <1>6

\* What Lines returns is the text, cut behind each NL.
LEMMA LinesCut ==
  ASSUME NEW text \in Texts
  PROVE  Lines(text) \in Seq(Texts) /\ \E s : Cut(text, Len(text), Lines(text), s)
<1> DEFINE N == Len(text)
<1>1. N \in Nat /\ text \in Seq(STRING) BY DEF Texts
<1>2. PICK f \in [0 .. N -> Seq(Texts)] :
        /\ f[0] = <<>> /\ f[N] = Lines(text)
        /\ \A n \in 1 .. N : f[n] = Put(f[n - 1], text[n])
  BY <1>1, LinesGo
<1> DEFINE T == {n \in Nat : n <= N => \E s : Cut(text, n, f[n], s)}
<1>3. 0 \in T
  <2> DEFINE s == [k \in 1 .. 1 |-> 0]
  <2>1. f[0] = <<>> /\ Len(<<>>) = 0 BY <1>2
  <2>2. s \in [1 .. 1 -> 0 .. 0] /\ s[1] = 0 OBVIOUS
  <2> HIDE DEF s
  <2>3. Cut(text, 0, <<>>, s) BY <2>1, <2>2 DEF Cut
  <2> QED BY <2>1, <2>3
<1>4. ASSUME NEW n \in Nat, n \in T PROVE n + 1 \in T
  <2>1. ASSUME n + 1 <= N PROVE \E s : Cut(text, n + 1, f[n + 1], s)
    <3>1. n <= N /\ n < N /\ n + 1 \in 1 .. N /\ n \in 0 .. N /\ n + 1 - 1 = n BY <1>1, <2>1
    <3>2. PICK s : Cut(text, n, f[n], s) BY <1>4, <3>1
    <3>3. f[n] \in Seq(Texts) /\ f[n + 1] = Put(f[n], text[n + 1]) BY <1>2, <3>1
    <3> QED BY <3>1, <3>2, <3>3, CutPut
  <2> QED BY <2>1
<1>5. Nat \subseteq T
  <2> HIDE DEF T
  <2> QED BY <1>3, <1>4, Induction
<1> QED BY <1>1, <1>2, <1>5

-----------------------------------------------------------------------------
(* Parts of texts, and their lines                                         *)

\* Sequences with the same elements are the same.
LEMMA SameText ==
  ASSUME NEW X, NEW a \in Seq(X), NEW b \in Seq(X), Len(a) = Len(b),
         \A i \in 1 .. Len(a) : a[i] = b[i]
  PROVE  a = b
OBVIOUS

\* A part of a sequence.
LEMMA PartOf ==
  ASSUME NEW X, NEW a \in Seq(X), NEW m \in Nat, NEW n \in m .. Len(a)
  PROVE  /\ SubSeq(a, m + 1, n) \in Seq(X) /\ Len(SubSeq(a, m + 1, n)) = n - m
         /\ \A i \in 1 .. n - m : SubSeq(a, m + 1, n)[i] = a[m + i]
<1>1. \A i \in m + 1 .. n : a[i] \in X OBVIOUS
<1> QED BY <1>1

\* A part of a text.
LEMMA TextPart ==
  ASSUME NEW a \in Texts, NEW m \in Nat, NEW n \in m .. Len(a)
  PROVE  /\ SubSeq(a, m + 1, n) \in Texts /\ Len(SubSeq(a, m + 1, n)) = n - m
         /\ \A i \in 1 .. n - m : SubSeq(a, m + 1, n)[i] = a[m + i]
BY PartOf DEF Texts

\* out is what text has behind place p.
PartAt(out, text, p, m) == \A i \in 1 .. m : out[i] = text[p + i]

\* The line of a character in a part of a text, and in the text.
LEMMA LineOfPart ==
  ASSUME NEW text, NEW out, NEW p \in Nat, NEW m \in Nat, PartAt(out, text, p, m), NEW i \in 1 .. m
  PROVE  /\ LineOf(out, i) = LineOf(text, p + i) - LineOf(text, p + 1) + 1
         /\ LineOf(out, i) \in Nat /\ LineOf(text, p + i) \in Nat /\ LineOf(text, p + 1) \in Nat
<1> DEFINE T == {n \in Nat : n + 1 <= m =>
                    LineOf(out, n + 1) = LineOf(text, p + (n + 1)) - LineOf(text, p + 1) + 1}
<1>0. \A n \in Nat \ {0} : LineOf(text, n) \in Nat /\ LineOf(out, n) \in Nat
  BY LineOfNext
<1>1. 0 \in T
  <2>1. LineOf(out, 1) = 1
    <3>1. 1 \in Nat \ {0} OBVIOUS
    <3> QED BY <3>1, LineOfNext
  <2>2. LineOf(text, p + 1) \in Nat BY <1>0
  <2> QED BY <2>1, <2>2
<1>2. ASSUME NEW n \in Nat, n \in T PROVE n + 1 \in T
  <2>1. ASSUME n + 1 + 1 <= m
        PROVE  LineOf(out, n + 1 + 1) = LineOf(text, p + (n + 1 + 1)) - LineOf(text, p + 1) + 1
    <3>1. LineOf(out, n + 1) = LineOf(text, p + (n + 1)) - LineOf(text, p + 1) + 1
      BY <1>2, <2>1
    <3>2. n + 1 \in Nat \ {0} /\ p + (n + 1) \in Nat \ {0} /\ p + (n + 1) + 1 = p + (n + 1 + 1)
      OBVIOUS
    <3>3. out[n + 1] = text[p + (n + 1)] BY <2>1 DEF PartAt
    <3>4. LineOf(out, n + 1 + 1) = IF out[n + 1] = NL THEN LineOf(out, n + 1) + 1 ELSE LineOf(out, n + 1)
      BY <3>2, LineOfNext
    <3>5. /\ LineOf(text, p + (n + 1)) \in Nat
          /\ LineOf(text, p + (n + 1 + 1)) =
               IF text[p + (n + 1)] = NL THEN LineOf(text, p + (n + 1)) + 1 ELSE LineOf(text, p + (n + 1))
      BY <3>2, LineOfNext
    <3>6. LineOf(text, p + 1) \in Nat BY <1>0
    <3> QED BY <3>1, <3>3, <3>4, <3>5, <3>6
  <2> QED BY <2>1
<1>3. Nat \subseteq T
  <2> HIDE DEF T
  <2> QED BY <1>1, <1>2, Induction
<1>4. i - 1 \in T /\ i - 1 + 1 = i BY <1>3
<1>5. LineOf(out, i) = LineOf(text, p + i) - LineOf(text, p + 1) + 1 BY <1>4
<1>6. i \in Nat \ {0} /\ p + i \in Nat \ {0} /\ p + 1 \in Nat \ {0} OBVIOUS
<1> QED BY <1>0, <1>5, <1>6

\* out is the D characters of text from its line o on, which begins behind place p.
Piece(text, N, L, K, s, o, p, D, out, P, Q, t) ==
  /\ N \in Nat /\ K \in Nat /\ K = Len(L) /\ o \in 1 .. K /\ p \in Nat /\ p = s[o]
  /\ D \in Nat /\ D > 0 /\ p + D <= N
  /\ Q \in Nat /\ Q = Len(P)
  /\ Cut(text, N, L, s) /\ PartAt(out, text, p, D) /\ Cut(out, D, P, t)

\* Line k of the piece, from place a to b, is in line j of the text, from u to v.
Bounds(K, o, p, D, k, j, u, v, a, b) ==
  /\ j \in o .. K /\ j = o + k - 1 /\ u \in Nat /\ v \in Nat /\ a \in Nat /\ b \in Nat
  /\ a < b /\ b <= D /\ u < p + b /\ p + b <= v /\ u <= p + a

\* Each line of a piece is in a line of the text.
LEMMA PieceBounds ==
  ASSUME NEW text, NEW N, NEW L, NEW K, NEW s, NEW o, NEW p, NEW D, NEW out, NEW P, NEW Q, NEW t,
         Piece(text, N, L, K, s, o, p, D, out, P, Q, t), NEW k \in 1 .. Q
  PROVE  Bounds(K, o, p, D, k, o + k - 1, s[o + k - 1], s[o + k], t[k], t[k + 1])
<1>0. /\ N \in Nat /\ K \in Nat /\ o \in 1 .. K /\ p \in Nat /\ p = s[o]
      /\ D \in Nat /\ D > 0 /\ p + D <= N /\ Q \in Nat
  BY DEF Piece
<1>1. s \in [1 .. K + 1 -> 0 .. N] BY DEF Piece, Cut
<1>2. \A i \in 1 .. N : LineOf(text, i) \in 1 .. K /\ s[LineOf(text, i)] < i /\ i <= s[LineOf(text, i) + 1]
  BY DEF Piece, Cut, InLine
<1>3. t \in [1 .. Q + 1 -> 0 .. D] BY DEF Piece, Cut
<1>4. t[k] < t[k + 1] /\ \A i \in t[k] + 1 .. t[k + 1] : LineOf(out, i) = k
  BY DEF Piece, Cut, Line
<1>5. LineOf(text, p + 1) = o
  <2>2. s[o] < s[o + 1] /\ \A i \in s[o] + 1 .. s[o + 1] : LineOf(text, i) = o
    BY DEF Piece, Cut, Line
  <2>3. o + 1 \in 1 .. K + 1 BY <1>0
  <2>4. s[o + 1] \in Nat BY <1>0, <1>1, <2>3
  <2>5. p + 1 \in s[o] + 1 .. s[o + 1] BY <1>0, <2>2, <2>4
  <2> QED BY <2>2, <2>5
<1>6. \A x \in 1 .. D : LineOf(out, x) = LineOf(text, p + x) - o + 1 /\ LineOf(text, p + x) \in Nat
  <2> SUFFICES ASSUME NEW x \in 1 .. D
               PROVE  LineOf(out, x) = LineOf(text, p + x) - o + 1 /\ LineOf(text, p + x) \in Nat
    OBVIOUS
  <2>1. PartAt(out, text, p, D) BY DEF Piece
  <2> QED BY <1>0, <1>5, <2>1, LineOfPart
<1> SUFFICES ASSUME NEW j \in Int, j = o + k - 1, NEW a \in 0 .. D, a = t[k], NEW b \in 0 .. D, b = t[k + 1]
             PROVE  Bounds(K, o, p, D, k, j, s[j], s[j + 1], a, b)
  <2>1. k \in 1 .. Q + 1 /\ k + 1 \in 1 .. Q + 1 BY <1>0
  <2>2. t[k] \in 0 .. D /\ t[k + 1] \in 0 .. D BY <1>3, <2>1
  <2>3. o + k - 1 \in Int /\ o + k - 1 + 1 = o + k BY <1>0
  <2>4. \A j \in Int : j = o + k - 1 => s[j] = s[o + k - 1] /\ s[j + 1] = s[o + k] BY <2>3
  <2> QED BY <2>2, <2>3, <2>4
<1>7. a < b /\ \A i \in a + 1 .. b : LineOf(out, i) = k BY <1>4
<1>8. ASSUME NEW x \in a + 1 .. b
      PROVE  j \in 1 .. K /\ s[j] < p + x /\ p + x <= s[j + 1]
  <2>1. x \in 1 .. D BY <1>0
  <2>2. LineOf(text, p + x) = j BY <1>0, <1>6, <1>7, <2>1
  <2>3. p + x \in 1 .. N BY <1>0, <2>1
  <2> QED BY <1>2, <2>2, <2>3
<1>9. b \in a + 1 .. b /\ a + 1 \in a + 1 .. b BY <1>7
<1>10. s[j] < p + b /\ p + b <= s[j + 1] /\ s[j] < p + (a + 1) /\ j \in 1 .. K BY <1>8, <1>9
<1>11. s[j] \in Nat /\ s[j + 1] \in Nat
  <2>1. j \in 1 .. K + 1 /\ j + 1 \in 1 .. K + 1 BY <1>0, <1>10
  <2> QED BY <1>0, <1>1, <2>1, SMTT(30)
<1>12. s[j] <= p + a /\ j \in o .. K BY <1>0, <1>10, <1>11
<1> QED BY <1>0, <1>7, <1>10, <1>11, <1>12 DEF Bounds

\* The lines of a piece begin where those of the text do, and end there but for the last.
LEMMA PieceCut ==
  ASSUME NEW text, NEW N, NEW L, NEW K, NEW s, NEW o, NEW p, NEW D, NEW out, NEW P, NEW Q, NEW t,
         Piece(text, N, L, K, s, o, p, D, out, P, Q, t), NEW k \in 1 .. Q
  PROVE  /\ s[o + k - 1] = p + t[k]
         /\ k < Q => s[o + k] = p + t[k + 1]
         /\ k = Q => t[k + 1] = D
<1>0. o \in Nat /\ p \in Nat /\ Q \in Nat /\ p = s[o] /\ D \in Nat BY DEF Piece
<1>1. \A i \in 1 .. Q : Bounds(K, o, p, D, i, o + i - 1, s[o + i - 1], s[o + i], t[i], t[i + 1])
  BY PieceBounds
<1>2. s[o + k - 1] = p + t[k]
  <2>1. CASE k = 1
    <3>1. o + k - 1 = o /\ t[k] = 0 BY <1>0, <2>1 DEF Piece, Cut
    <3> QED BY <1>0, <3>1
  <2>2. CASE k # 1
    <3>1. PICK h \in 1 .. Q : h = k - 1 /\ h + 1 = k /\ o + h = o + k - 1 BY <1>0, <2>2
    <3>2. p + t[h + 1] <= s[o + h] BY <1>1 DEF Bounds
    <3>3. s[o + k - 1] <= p + t[k] /\ s[o + k - 1] \in Nat /\ t[k] \in Nat BY <1>1 DEF Bounds
    <3> QED BY <1>0, <3>1, <3>2, <3>3
  <2> QED BY <2>1, <2>2
<1>3. ASSUME k < Q PROVE s[o + k] = p + t[k + 1]
  <2>1. PICK h \in 1 .. Q : h = k + 1 /\ o + h - 1 = o + k BY <1>0, <1>3
  <2>2. s[o + h - 1] <= p + t[h] BY <1>1 DEF Bounds
  <2>3. p + t[k + 1] <= s[o + k] /\ s[o + k] \in Nat /\ t[k + 1] \in Nat BY <1>1 DEF Bounds
  <2> QED BY <1>0, <2>1, <2>2, <2>3
<1>4. k = Q => t[k + 1] = D BY DEF Piece, Cut
<1> QED BY <1>2, <1>3, <1>4

\* Lines are texts.
LEMMA TypedLines ==
  ASSUME NEW L \in Seq(Texts)
  PROVE  Len(L) \in Nat /\ \A k \in 1 .. Len(L) : L[k] \in Texts /\ Len(L[k]) \in Nat
<1>1. Len(L) \in Nat /\ \A k \in 1 .. Len(L) : L[k] \in Texts BY ElementOf
<1> QED BY <1>1, TextElement

\* The beginning of a text, of one of its elements each.
LEMMA Beginning ==
  ASSUME NEW a \in Texts, NEW b \in Texts, Len(a) <= Len(b), \A i \in 1 .. Len(a) : a[i] = b[i]
  PROVE  a = SubSeq(b, 1, Len(a)) /\ (Len(a) = Len(b) => a = b)
<1>1. Len(a) \in Nat /\ Len(b) \in Nat BY TextElement
<1> DEFINE z == SubSeq(b, 0 + 1, Len(a))
<1>2. z \in Texts /\ Len(z) = Len(a) - 0 /\ \A i \in 1 .. Len(a) - 0 : z[i] = b[0 + i]
  <2>1. 0 \in Nat /\ Len(a) \in 0 .. Len(b) BY <1>1
  <2> QED BY <2>1, TextPart
<1> HIDE DEF z
<1>3. Len(a) = Len(z) /\ \A i \in 1 .. Len(a) : a[i] = z[i] BY <1>1, <1>2
<1>4. a = z BY <1>2, <1>3, SameText DEF Texts
<1>5. Len(a) = Len(b) => a = b BY SameText DEF Texts
<1> QED BY <1>4, <1>5 DEF z

\* Two texts have the same first m characters.
Agree(x, y, m) == \A i \in 1 .. m : x[i] = y[i]

\* Line k of the piece is the beginning of one of the text.
PartLine(L, K, s, o, p, D, P, Q, t, k) ==
  /\ o + k - 1 \in 1 .. K /\ P[k] \in Texts /\ L[o + k - 1] \in Texts
  /\ Len(P[k]) <= Len(L[o + k - 1])
  /\ Agree(P[k], L[o + k - 1], Len(P[k]))
  /\ k < Q => Len(P[k]) = Len(L[o + k - 1])
  /\ k = Q => Len(P[k]) = p + D - s[o + k - 1]
  /\ s[o + k - 1] < p + t[k + 1] /\ p + t[k + 1] <= s[o + k]

\* What two texts have of a third at the same place is the same.
LEMMA SameCharacters ==
  ASSUME NEW text, NEW out, NEW p \in Nat, NEW D \in Nat, PartAt(out, text, p, D),
         NEW x, NEW a \in Nat, NEW m \in Nat, PartAt(x, out, a, m), a + m <= D,
         NEW y, NEW q \in Nat, q = p + a, NEW n \in Nat, PartAt(y, text, q, n), m <= n
  PROVE  Agree(x, y, m)
<1>2. ASSUME NEW i \in 1 .. m PROVE x[i] = y[i]
  <2>1. a + i \in 1 .. D /\ i \in 1 .. n OBVIOUS
  <2>2. out[a + i] = text[p + (a + i)] BY <2>1 DEF PartAt
  <2>3. p + (a + i) = q + i OBVIOUS
  <2> QED BY <2>1, <2>2, <2>3 DEF PartAt
<1> QED BY <1>2 DEF Agree

\* A line x of a piece, to place e, begins as the line y of the text does, from place u
\* to v, is all of it if they end together, and as long as the piece goes if it is the last.
Fits(x, y, m, n, u, e, v, b, d, pp) ==
  /\ m <= n /\ Agree(x, y, m) /\ u < e
  /\ v = e => m = n
  /\ b = d => m = pp + d - u

\* What is between two places of a piece fits the line of the text that begins there.
LEMMA FitsPart ==
  ASSUME NEW text, NEW out, NEW pp \in Nat, NEW d \in Nat, PartAt(out, text, pp, d),
         NEW x, NEW y, NEW a \in Nat, NEW b \in Nat, a < b, b <= d,
         NEW u \in Nat, u = pp + a, NEW e \in Nat, e = pp + b, NEW v \in Nat, e <= v,
         NEW m \in Nat, m = b - a, PartAt(x, out, a, m),
         NEW n \in Nat, n = v - u, PartAt(y, text, u, n)
  PROVE  Fits(x, y, m, n, u, e, v, b, d, pp)
<1>1. m <= n /\ a + m <= d /\ u < e /\ (v = e => m = n) /\ (b = d => m = pp + d - u) OBVIOUS
<1>2. Agree(x, y, m) BY <1>1, SameCharacters
<1> QED BY <1>1, <1>2 DEF Fits

\* Each line of a piece is the beginning of one of the text.
LEMMA PieceLine ==
  ASSUME NEW text, NEW N, NEW L \in Seq(Texts), NEW K, NEW s, NEW o, NEW p, NEW D, NEW out,
         NEW P \in Seq(Texts), NEW Q, NEW t,
         Piece(text, N, L, K, s, o, p, D, out, P, Q, t), NEW k \in 1 .. Q
  PROVE  PartLine(L, K, s, o, p, D, P, Q, t, k)
<1>0. /\ o \in Nat /\ o >= 1 /\ p \in Nat /\ Q \in Nat /\ D \in Nat /\ N \in Nat /\ K \in Nat
      /\ K = Len(L) /\ Q = Len(P)
  BY DEF Piece
<1>1. Bounds(K, o, p, D, k, o + k - 1, s[o + k - 1], s[o + k], t[k], t[k + 1]) BY PieceBounds
<1>2. /\ s[o + k - 1] = p + t[k]
      /\ k < Q => s[o + k] = p + t[k + 1]
      /\ k = Q => t[k + 1] = D
  BY PieceCut
<1>3. /\ o + k - 1 \in 1 .. K /\ o + k - 1 + 1 = o + k
      /\ t[k] \in Nat /\ t[k + 1] \in Nat /\ t[k] < t[k + 1] /\ t[k + 1] <= D
      /\ s[o + k - 1] \in Nat /\ s[o + k] \in Nat /\ p + t[k + 1] <= s[o + k]
  BY <1>0, <1>1 DEF Bounds
<1>4. P[k] \in Texts /\ L[o + k - 1] \in Texts /\ Len(P[k]) \in Nat /\ Len(L[o + k - 1]) \in Nat
  BY <1>0, <1>3, TypedLines
<1>5. Len(P[k]) = t[k + 1] - t[k] /\ PartAt(P[k], out, t[k], Len(P[k]))
  <2>1. Line(out, P, t, k) BY DEF Piece, Cut
  <2> QED BY <2>1 DEF Line, PartAt
<1>6. Len(L[o + k - 1]) = s[o + k] - s[o + k - 1] /\ PartAt(L[o + k - 1], text, s[o + k - 1], Len(L[o + k - 1]))
  <2>1. Line(text, L, s, o + k - 1) BY <1>3 DEF Piece, Cut
  <2> QED BY <1>3, <2>1 DEF Line, PartAt
<1>7. PartAt(out, text, p, D) BY DEF Piece
<1>8. /\ Len(P[k]) \in Nat /\ Len(P[k]) = t[k + 1] - t[k]
      /\ Len(L[o + k - 1]) \in Nat /\ Len(L[o + k - 1]) = s[o + k] - s[o + k - 1]
      /\ p + t[k + 1] \in Nat
  <2>1. Len(P[k]) \in Nat /\ Len(P[k]) = t[k + 1] - t[k] BY <1>4, <1>5
  <2>2. Len(L[o + k - 1]) \in Nat /\ Len(L[o + k - 1]) = s[o + k] - s[o + k - 1] BY <1>4, <1>6
  <2>3. \A e \in Nat : p + e \in Nat BY <1>0
  <2>4. p + t[k + 1] \in Nat BY <1>3, <2>3
  <2> QED BY <2>1, <2>2, <2>4
<1>9. Fits(P[k], L[o + k - 1], Len(P[k]), Len(L[o + k - 1]), s[o + k - 1], p + t[k + 1], s[o + k],
           t[k + 1], D, p)
  <2> SUFFICES ASSUME NEW a, a = t[k], NEW b, b = t[k + 1], NEW u, u = s[o + k - 1],
                      NEW v, v = s[o + k], NEW m, m = Len(P[k]), NEW n, n = Len(L[o + k - 1]),
                      NEW e, e = p + t[k + 1], NEW x, x = P[k], NEW y, y = L[o + k - 1]
               PROVE  Fits(x, y, m, n, u, e, v, b, D, p)
    OBVIOUS
  <2>1. /\ a \in Nat /\ b \in Nat /\ u \in Nat /\ v \in Nat /\ m \in Nat /\ n \in Nat /\ e \in Nat
        /\ a < b /\ b <= D /\ e <= v
    BY <1>3, <1>8
  <2>2. u = p + a /\ m = b - a /\ n = v - u /\ e = p + b
    BY <1>2, <1>8
  <2>3. PartAt(x, out, a, m) /\ PartAt(y, text, u, n) BY <1>5, <1>6
  <2> QED BY <1>0, <1>7, <2>1, <2>2, <2>3, FitsPart
<1>10.
      /\ Len(P[k]) <= Len(L[o + k - 1])
      /\ Agree(P[k], L[o + k - 1], Len(P[k]))
      /\ s[o + k - 1] < p + t[k + 1]
      /\ s[o + k] = p + t[k + 1] => Len(P[k]) = Len(L[o + k - 1])
      /\ t[k + 1] = D => Len(P[k]) = p + D - s[o + k - 1]
  BY <1>9 DEF Fits
<1>11. k < Q => Len(P[k]) = Len(L[o + k - 1]) BY <1>2, <1>10
<1>12. k = Q => Len(P[k]) = p + D - s[o + k - 1] BY <1>2, <1>10
<1>13. p + t[k + 1] <= s[o + k] BY <1>3
<1>14. o + k - 1 \in 1 .. K /\ P[k] \in Texts /\ L[o + k - 1] \in Texts BY <1>3, <1>4
<1> QED BY <1>10, <1>11, <1>12, <1>13, <1>14 DEF PartLine

\* The Q lines in P are those of L from line o on, but for the last, cut at place e.
SameLines(L, K, s, o, e, P, Q) ==
  /\ Q \in 1 .. Q /\ o + Q - 1 \in o .. K
  /\ s[o + Q - 1] < e /\ e <= s[o + Q]
  /\ \A k \in 1 .. Q - 1 : P[k] = L[o + k - 1]
  /\ P[Q] = SubSeq(L[o + Q - 1], 1, e - s[o + Q - 1])

\* The lines of a piece are those of the text, but for the last, which may be cut.
LEMMA PieceLines ==
  ASSUME NEW text, NEW N, NEW L \in Seq(Texts), NEW K, NEW s, NEW o, NEW p, NEW D, NEW out,
         NEW P \in Seq(Texts), NEW Q, NEW t,
         Piece(text, N, L, K, s, o, p, D, out, P, Q, t)
  PROVE  SameLines(L, K, s, o, p + D, P, Q)
<1> SUFFICES ASSUME NEW e, e = p + D PROVE SameLines(L, K, s, o, e, P, Q) OBVIOUS
<1>0. /\ o \in Nat /\ o >= 1 /\ p \in Nat /\ Q \in Nat /\ D \in Nat /\ D > 0 /\ K \in Nat
      /\ Q = Len(P)
  BY DEF Piece
<1>1. Q \in 1 .. Q
  <2>1. 1 \in 1 .. D BY <1>0
  <2>2. LineOf(out, 1) \in 1 .. Q BY <2>1 DEF Piece, Cut, InLine
  <2> QED BY <1>0, <2>2
<1>2. ASSUME NEW k \in 1 .. Q - 1 PROVE P[k] = L[o + k - 1]
  <2>1. k \in 1 .. Q /\ k < Q BY <1>0
  <2>2. /\ P[k] \in Texts /\ L[o + k - 1] \in Texts /\ Len(P[k]) = Len(L[o + k - 1])
        /\ \A i \in 1 .. Len(P[k]) : P[k][i] = L[o + k - 1][i]
    <3>1. PartLine(L, K, s, o, p, D, P, Q, t, k) BY <2>1, PieceLine
    <3> QED BY <2>1, <3>1 DEF PartLine, Agree
  <2> QED BY <2>2, SameText DEF Texts
<1>3. /\ o + Q - 1 \in 1 .. K /\ P[Q] \in Texts /\ L[o + Q - 1] \in Texts
      /\ Len(P[Q]) <= Len(L[o + Q - 1])
      /\ \A i \in 1 .. Len(P[Q]) : P[Q][i] = L[o + Q - 1][i]
      /\ Len(P[Q]) = p + D - s[o + Q - 1]
      /\ s[o + Q - 1] < p + t[Q + 1] /\ p + t[Q + 1] <= s[o + Q]
  <2>1. PartLine(L, K, s, o, p, D, P, Q, t, Q) BY <1>1, PieceLine
  <2> QED BY <2>1 DEF PartLine, Agree
<1>4. t[Q + 1] = D BY DEF Piece, Cut
<1>5. P[Q] = SubSeq(L[o + Q - 1], 1, Len(P[Q])) BY <1>3, Beginning
<1>6. P[Q] = SubSeq(L[o + Q - 1], 1, e - s[o + Q - 1])
  <2>1. s[o + Q - 1] \in Nat BY <1>1, PieceBounds DEF Bounds
  <2>2. Len(P[Q]) = e - s[o + Q - 1] BY <1>0, <1>3, <2>1
  <2> QED BY <1>5, <2>2
<1>7. Q \in 1 .. Q /\ o + Q - 1 \in o .. K BY <1>0, <1>1, <1>3
<1>8. s[o + Q - 1] < e /\ e <= s[o + Q] BY <1>3, <1>4
<1> QED BY <1>2, <1>6, <1>7, <1>8 DEF SameLines

\* A line without its NL.
Strip(line) == IF Last(line) = NL THEN Front(line) ELSE line

\* What a line is without its NL, by the places of its characters.
LEMMA LineTextIs ==
  ASSUME NEW text \in Texts, NEW L \in Seq(Texts), NEW s, Cut(text, Len(text), L, s),
         NEW k \in 1 .. Len(L)
  PROVE  LineText(text, k) = Strip(L[k]) /\ L[k] \in Texts /\ Len(L[k]) > 0
<1> SUFFICES ASSUME NEW N \in Nat, N = Len(text), NEW K \in Nat, K = Len(L), k \in 1 .. K,
                    NEW l \in Texts, l = L[k], NEW m \in Nat, m = Len(l)
             PROVE  LineText(text, k) = Strip(l) /\ m > 0
  BY TypedLines, TextElement
<1>1. s \in [1 .. K + 1 -> 0 .. N] /\ Line(text, L, s, k) BY DEF Cut
<1>2. k \in 1 .. K + 1 /\ k + 1 \in 1 .. K + 1 OBVIOUS
<1>3. PICK u, v : u \in 0 .. N /\ v \in 0 .. N /\ u = s[k] /\ v = s[k + 1] BY <1>1, <1>2
<1>4. /\ u < v /\ m = v - u /\ \A i \in 1 .. m : l[i] = text[u + i]
      /\ \A i \in u + 1 .. v : LineOf(text, i) = k
      /\ \A i \in u + 1 .. v - 1 : text[i] # NL
  BY <1>1, <1>3 DEF Line
<1>5. \A i \in 1 .. N : LineOf(text, i) = k => i \in u + 1 .. v
  <2> SUFFICES ASSUME NEW i \in 1 .. N, LineOf(text, i) = k PROVE i \in u + 1 .. v
    OBVIOUS
  <2>1. InLine(text, L, s, i) BY DEF Cut
  <2>2. u < i /\ i <= v BY <1>3, <2>1 DEF InLine
  <2> QED BY <1>3, <2>2
<1> DEFINE on == {i \in DOMAIN text : LineOf(text, i) = k /\ text[i] # NL}
           w == IF text[v] = NL THEN v - 1 ELSE v
<1>6. DOMAIN text = 1 .. N BY TextElement
<1>7. on = u + 1 .. w
  <2>1. v \in u + 1 .. v BY <1>3, <1>4
  <2>2. ASSUME NEW i \in on PROVE i \in u + 1 .. w
    <3>1. i \in u + 1 .. v /\ text[i] # NL BY <1>5, <1>6
    <3> QED BY <1>3, <3>1
  <2>3. ASSUME NEW i \in u + 1 .. w PROVE i \in on
    <3>1. i \in u + 1 .. v /\ i \in 1 .. N BY <1>3
    <3>2. LineOf(text, i) = k BY <1>4, <3>1
    <3>3. text[i] # NL
      <4>1. CASE i = v BY <1>3, <4>1
      <4>2. CASE i # v
        <5>1. i \in u + 1 .. v - 1 BY <1>3, <3>1, <4>2
        <5> QED BY <1>4, <5>1
      <4> QED BY <4>1, <4>2
    <3> QED BY <1>6, <3>1, <3>2, <3>3
  <2> QED BY <2>2, <2>3
<1>8. Strip(l) = IF text[v] = NL THEN SubSeq(l, 1, m - 1) ELSE l
  <2>1. m \in 1 .. m /\ u + m = v BY <1>3, <1>4
  <2>2. l[m] = text[v] BY <1>4, <2>1
  <2> QED BY <2>2 DEF Strip, Last, Front
<1>9. LineText(text, k) = IF on = {} THEN <<>> ELSE SubSeq(text, Min(on), Max(on))
  BY DEF LineText
<1> HIDE DEF on
<1>10. w \in Nat /\ w <= N /\ u <= w BY <1>3, <1>4, SMTT(30)
<1> DEFINE x == SubSeq(text, u + 1, w)
           y == SubSeq(l, 1, w - u)
<1>11. x = y
  <2> HIDE DEF w
  <2>1. w \in u .. N /\ w - u \in 0 .. m /\ u \in Nat
    BY <1>3, <1>4, <1>10, SMTT(30) DEF w
  <2>2. /\ x \in Texts /\ Len(x) = w - u /\ \A i \in 1 .. w - u : x[i] = text[u + i]
    BY <2>1, TextPart
  <2> DEFINE z == SubSeq(l, 0 + 1, w - u)
  <2>3. z \in Texts /\ Len(z) = w - u - 0 /\ \A i \in 1 .. w - u - 0 : z[i] = l[0 + i]
    <3> SUFFICES ASSUME NEW n \in 0 .. Len(l), n = w - u
                 PROVE  LET q == SubSeq(l, 0 + 1, n)
                        IN q \in Texts /\ Len(q) = n - 0 /\ \A i \in 1 .. n - 0 : q[i] = l[0 + i]
      BY <2>1
    <3> QED BY TextPart, 0 \in Nat, ZenonT(30)
  <2> HIDE DEF x, z
  <2>4. Len(x) = Len(z) /\ \A i \in 1 .. Len(x) : x[i] = z[i] BY <1>4, <2>1, <2>2, <2>3
  <2>5. x = z BY <2>2, <2>3, <2>4, SameText DEF Texts
  <2> QED BY <2>5 DEF z
<1>12. LineText(text, k) = x
  <2>1. CASE u < w
    <3>1. on # {} /\ Min(on) = u + 1 /\ Max(on) = w
      <4> HIDE DEF w
      <4>1. u + 1 \in on /\ w \in on /\ \A i \in on : u + 1 <= i /\ w >= i
        BY <1>3, <1>7, <1>10, <2>1
      <4>2. \A i \in on : i \in Int BY <1>7
      <4> QED BY <4>1, <4>2 DEF Min, Max
    <3> QED BY <1>9, <3>1
  <2>2. CASE u = w
    <3>1. on = {} BY <1>3, <1>7, <2>2, SMTT(30)
    <3>2. x = <<>>
      <4> HIDE DEF w
      <4> QED BY <1>3, <2>2
    <3> QED BY <1>9, <3>1, <3>2
  <2> QED BY <1>3, <1>10, <2>1, <2>2
<1>13. Strip(l) = y
  <2>1. CASE text[v] = NL
    <3>1. w - u = m - 1 BY <1>3, <1>4, <2>1, SMTT(30)
    <3> QED BY <1>8, <2>1, <3>1
  <2>2. CASE text[v] # NL
    <3>1. w - u = m BY <1>3, <1>4, <2>2
    <3>2. l = SubSeq(l, 1, m) BY Beginning
    <3> QED BY <1>8, <2>2, <3>1, <3>2
  <2> QED BY <2>1, <2>2
<1> HIDE DEF x, y
<1>14. m > 0 BY <1>3, <1>4
<1> QED BY <1>11, <1>12, <1>13, <1>14

-----------------------------------------------------------------------------
(* Reading: a window of lines                                              *)

\* What readTask's loop keeps.
Windows == [out : Texts, lines : Nat, total : Nat, truncated : BOOLEAN]
NoWindow == [out |-> <<>>, lines |-> 0, total |-> 0, truncated |-> FALSE]

\* What readTask's loop does with a line.
Take(w, line, offset, limit) ==
  LET on   == [w EXCEPT !.total = @ + 1]
      room == ReadMaxBytes - Len(w.out)
  IN IF on.total < offset \/ (limit > 0 /\ w.lines >= limit)
       THEN on
       ELSE IF ReadMaxBytes > 0 /\ Len(line) > room
         THEN [on EXCEPT !.out = @ \o SubSeq(line, 1, room), !.truncated = TRUE]
         ELSE [on EXCEPT !.out = @ \o line, !.lines = @ + 1]

\* Two sequences, one behind the other.
LEMMA Joined ==
  ASSUME NEW X, NEW a \in Seq(X), NEW b \in Seq(X)
  PROVE  /\ a \o b \in Seq(X) /\ Len(a \o b) = Len(a) + Len(b)
         /\ \A i \in 1 .. Len(a) : (a \o b)[i] = a[i]
         /\ \A i \in 1 .. Len(b) : (a \o b)[Len(a) + i] = b[i]
OBVIOUS

\* Two texts, one behind the other.
LEMMA TextJoined ==
  ASSUME NEW a \in Texts, NEW b \in Texts
  PROVE  /\ a \o b \in Texts /\ Len(a \o b) = Len(a) + Len(b)
         /\ \A i \in 1 .. Len(a) : (a \o b)[i] = a[i]
         /\ \A i \in 1 .. Len(b) : (a \o b)[Len(a) + i] = b[i]
BY Joined DEF Texts

\* The first characters of a line that does not fit.
LEMMA Start ==
  ASSUME NEW line \in Texts, NEW n \in Int, n < Len(line)
  PROVE  /\ SubSeq(line, 1, n) \in Texts
         /\ n >= 0 => /\ Len(SubSeq(line, 1, n)) = n
                      /\ \A i \in 1 .. n : SubSeq(line, 1, n)[i] = line[i]
<1>1. CASE n >= 0
  <2>1. n \in 0 .. Len(line) /\ 0 \in Nat /\ 0 + 1 = 1 /\ n - 0 = n /\ \A i \in 1 .. n : 0 + i = i
    BY <1>1, TextElement
  <2> QED BY <1>1, <2>1, TextPart
<1>2. CASE n < 0
  <2>1. SubSeq(line, 1, n) = <<>> BY <1>2
  <2> QED BY <1>2, <2>1, TextAppend DEF Texts
<1> QED BY <1>1, <1>2

\* The loop keeps what it should.
LEMMA TakeType ==
  ASSUME NEW w \in Windows, NEW line \in Texts, NEW offset, NEW limit
  PROVE  Take(w, line, offset, limit) \in Windows
<1> DEFINE room == ReadMaxBytes - Len(w.out)
<1>1. /\ w.out \in Texts /\ w.lines \in Nat /\ w.total \in Nat /\ w.truncated \in BOOLEAN
  BY DEF Windows
<1>2. room \in Int BY <1>1, TextElement, LimitsAssumption
<1>3. [w EXCEPT !.total = @ + 1] \in Windows BY DEF Windows
<1> DEFINE on == [w EXCEPT !.total = @ + 1]
<1>4. on.out = w.out /\ on.lines = w.lines BY DEF Windows
<1>5. ASSUME Len(line) > room
      PROVE  [on EXCEPT !.out = @ \o SubSeq(line, 1, room), !.truncated = TRUE] \in Windows
  <2>1. SubSeq(line, 1, room) \in Texts
    <3> HIDE DEF room
    <3>1. room < Len(line) BY <1>2, <1>5, TextElement
    <3> QED BY <1>2, <3>1, Start
  <2>2. w.out \o SubSeq(line, 1, room) \in Texts BY <1>1, <2>1, TextJoined
  <2>3. \A v \in Windows : \A x \in Texts : [v EXCEPT !.out = x, !.truncated = TRUE] \in Windows
    BY DEF Windows
  <2> HIDE DEF room, on
  <2> QED BY <1>3, <1>4, <2>2, <2>3 DEF on
<1>6. [on EXCEPT !.out = @ \o line, !.lines = @ + 1] \in Windows
  <2>1. w.out \o line \in Texts BY <1>1, TextJoined
  <2>2. \A v \in Windows : \A x \in Texts : \A n \in Nat : [v EXCEPT !.out = x, !.lines = n] \in Windows
    BY DEF Windows
  <2>3. w.lines + 1 \in Nat BY <1>1
  <2> HIDE DEF on
  <2> QED BY <1>3, <1>4, <2>1, <2>2, <2>3 DEF on
<1> QED BY <1>3, <1>5, <1>6 DEF Take

\* readTask's loop, line by line.
LEMMA WindowGoes ==
  ASSUME NEW text \in Texts, NEW offset, NEW limit
  PROVE  \E f \in [0 .. Len(Lines(text)) -> Windows] :
           /\ f[0] = NoWindow /\ f[Len(Lines(text))] = ReadWindow(text, offset, limit)
           /\ \A n \in 1 .. Len(Lines(text)) : f[n] = Take(f[n - 1], Lines(text)[n], offset, limit)
<1> DEFINE L == Lines(text)
           N == Len(L)
           S == Windows
           step == [n \in 1 .. N |-> [v \in S |-> Take(v, L[n], offset, limit)]]
           Eq(h) == h = [s \in SUBSET (1 .. N) |->
                           IF s = {} THEN NoWindow
                           ELSE Take(h[s \ {Max(s)}], L[Max(s)], offset, limit)]
           h == CHOOSE g : Eq(g)
<1>0. L \in Seq(Texts) BY LinesCut
<1>1. N \in Nat /\ DOMAIN L = 1 .. N /\ \A n \in 1 .. N : L[n] \in Texts
  <2> HIDE DEF L
  <2> QED BY <1>0, ElementOf
<1>2. step \in [1 .. N -> [S -> S]]
  <2> HIDE DEF L
  <2> QED BY <1>1, TakeType
<1>3. ReadWindow(text, offset, limit) = h[1 .. N]
  <2> HIDE DEF L
  <2> QED BY <1>1 DEF ReadWindow, FoldLeft, MapThenFoldSet, Take, NoWindow, L
<1>4. \A n \in 1 .. N : \A v \in S : step[n][v] = Take(v, L[n], offset, limit)
  OBVIOUS
<1>5. NoWindow \in S
  <2>1. <<>> \in Texts BY DEF Texts
  <2> QED BY <2>1 DEF NoWindow, Windows
<1> HIDE DEF step, S, L
<1>6. \E g : Eq(g)
  <2>0. PICK g : IsFold(g, N, S, NoWindow, step)
    <3> HIDE DEF N, Eq
    <3> QED BY <1>1, <1>2, <1>5, FoldExists
  <2>1. /\ g \in [SUBSET (1 .. N) -> S]
        /\ g = [s \in SUBSET (1 .. N) |-> IF s = {} THEN NoWindow ELSE step[Max(s)][g[s \ {Max(s)}]]]
    BY <2>0 DEF IsFold
  <2>2. ASSUME NEW s \in SUBSET (1 .. N), s # {} PROVE Max(s) \in 1 .. N /\ s \ {Max(s)} \in SUBSET (1 .. N)
    BY <1>1, <2>2, MaxOfSubset
  <2>3. Eq(g)
    BY <1>4, <2>1, <2>2
  <2> QED BY <2>3
<1>7. Eq(h) BY <1>6
<1>8. Folded(h, N, S, NoWindow, step)
  <2>1. ASSUME NEW s \in SUBSET (1 .. N), s # {}, h[s \ {Max(s)}] \in S
        PROVE  h[s] = step[Max(s)][h[s \ {Max(s)}]]
    <3>1. Max(s) \in 1 .. N BY <1>1, <2>1, MaxOfSubset
    <3>2. h[s] = Take(h[s \ {Max(s)}], L[Max(s)], offset, limit)
      <4> HIDE DEF h
      <4> QED BY <1>7, <2>1
    <3> HIDE DEF h, N
    <3> QED BY <1>4, <2>1, <3>1, <3>2
  <2>2. h[{}] = NoWindow
    <3>1. {} \in SUBSET (1 .. N) OBVIOUS
    <3> HIDE DEF h
    <3> QED BY <1>7, <3>1
  <2> HIDE DEF h, N
  <2> QED BY <2>1, <2>2 DEF Folded
<1> HIDE DEF h, N
<1>9. PICK f : Goes(f, N, S, NoWindow, step, h[1 .. N]) BY <1>1, <1>2, <1>5, <1>8, FoldGoes
<1>10. ASSUME NEW n \in 1 .. N PROVE f[n] = Take(f[n - 1], L[n], offset, limit)
  <2>1. n - 1 \in 0 .. N BY <1>1
  <2> QED BY <1>4, <1>9, <2>1 DEF Goes
<1> QED BY <1>3, <1>9, <1>10 DEF Goes, N, S, L

\* Two parts of a text, one behind the other, are a part of it.
LEMMA PartJoined ==
  ASSUME NEW text, NEW a \in Texts, NEW b \in Texts, NEW p \in Nat, NEW q \in Nat, q = p + Len(a),
         PartAt(a, text, p, Len(a)), PartAt(b, text, q, Len(b))
  PROVE  PartAt(a \o b, text, p, Len(a \o b))
<1>1. Len(a) \in Nat /\ Len(b) \in Nat /\ Len(a \o b) = Len(a) + Len(b) BY TextElement, TextJoined
<1>2. ASSUME NEW i \in 1 .. Len(a \o b) PROVE (a \o b)[i] = text[p + i]
  <2>1. CASE i \in 1 .. Len(a) BY <2>1, TextJoined DEF PartAt
  <2>2. CASE i \notin 1 .. Len(a)
    <3>1. PICK j \in 1 .. Len(b) : i = Len(a) + j
      <4>1. i - Len(a) \in 1 .. Len(b) /\ i = Len(a) + (i - Len(a)) BY <1>1, <1>2, <2>2
      <4> QED BY <4>1
    <3>2. (a \o b)[i] = b[j] BY <3>1, TextJoined
    <3>3. b[j] = text[q + j] /\ q + j = p + i BY <1>1, <3>1 DEF PartAt
    <3> QED BY <3>2, <3>3
  <2> QED BY <2>1, <2>2
<1> QED BY <1>2 DEF PartAt

\* The window of limit lines from line o, behind place p, when the first n are read.
Whole(s, o, p, limit, n, end, lines) ==
  p + end = s[o + lines] /\ lines = IF n - o + 1 < limit THEN n - o + 1 ELSE limit

\* The byte limit has cut the window, in the line behind the last whole one.
Truncated(s, o, p, limit, n, end, lines) ==
  /\ lines < limit /\ o + lines <= n /\ ReadMaxBytes > 0 /\ end = ReadMaxBytes
  /\ s[o + lines] <= p + end /\ p + end < s[o + lines + 1]

\* What the window holds is in the text behind place p: whole lines, or cut at the limit.
Window(text, s, o, p, limit, n, w) ==
  /\ PartAt(w.out, text, p, Len(w.out))
  /\ ReadMaxBytes > 0 => Len(w.out) <= ReadMaxBytes
  /\ ~w.truncated => Whole(s, o, p, limit, n, Len(w.out), w.lines)
  /\ w.truncated => Truncated(s, o, p, limit, n, Len(w.out), w.lines)

\* What the loop has when the first n lines are read.
WindowAt(text, s, o, limit, n, w) ==
  /\ w.total = n
  /\ n + 1 < o => w.out = <<>> /\ w.lines = 0 /\ ~w.truncated
  /\ n + 1 >= o => Window(text, s, o, s[o], limit, n, w)

\* A window begins empty.
LEMMA WindowBegins ==
  ASSUME NEW text, NEW s, NEW o \in Nat, NEW p \in Nat, p = s[o], NEW limit \in Nat \ {0},
         NEW n \in Int, n + 1 = o, NEW w, w.out = <<>>, w.lines = 0, ~w.truncated
  PROVE  Window(text, s, o, p, limit, n, w)
<1>1. PartAt(w.out, text, p, Len(w.out)) BY DEF PartAt
<1>2. Len(w.out) = 0 /\ p + 0 = p /\ o + 0 = o /\ n - o + 1 = 0 OBVIOUS
<1>3. Whole(s, o, p, limit, n, Len(w.out), w.lines) BY <1>2 DEF Whole
<1>4. ReadMaxBytes > 0 => Len(w.out) <= ReadMaxBytes BY <1>2, LimitsAssumption
<1> QED BY <1>1, <1>3, <1>4 DEF Window

\* A line before a window, or behind it.
LEMMA WindowStays ==
  ASSUME NEW text, NEW s, NEW o \in Nat, NEW p, NEW limit \in Nat,
         NEW n \in Int, n + 1 >= o, NEW w \in Windows, w.lines >= limit,
         Window(text, s, o, p, limit, n, w),
         NEW x, x.out = w.out, x.lines = w.lines, x.truncated <=> w.truncated
  PROVE  Window(text, s, o, p, limit, n + 1, x)
<1>1. w.lines \in Nat BY DEF Windows
<1>2. ~w.truncated BY <1>1 DEF Window, Truncated
<1>3. Whole(s, o, p, limit, n, Len(w.out), w.lines) BY <1>2 DEF Window
<1>4. w.lines = IF n + 1 - o + 1 < limit THEN n + 1 - o + 1 ELSE limit BY <1>1, <1>3 DEF Whole
<1>5. Whole(s, o, p, limit, n + 1, Len(w.out), w.lines) BY <1>3, <1>4 DEF Whole
<1> QED BY <1>2, <1>5 DEF Window

\* A line, from place u to v, for a window that has begun and is not full.
Growing(text, s, o, p, limit, n, w, u, v, line, x) ==
  /\ o \in Nat /\ p \in Nat /\ limit \in Nat /\ n + 1 >= o
  /\ w.total = n /\ w.lines < limit /\ Window(text, s, o, p, limit, n, w)
  /\ u \in Nat /\ u = s[n + 1] /\ v \in Nat /\ v = s[n + 2] /\ v > u
  /\ line \in Texts /\ Len(line) = v - u /\ PartAt(line, text, u, Len(line))
  /\ x = Take(w, line, o, limit)

\* A line in the window, whole or cut.
LEMMA WindowGrows ==
  ASSUME NEW text, NEW s, NEW o, NEW p, NEW limit, NEW n \in Nat, NEW w \in Windows,
         NEW u, NEW v, NEW line, NEW x, Growing(text, s, o, p, limit, n, w, u, v, line, x)
  PROVE  x.total = n + 1 /\ Window(text, s, o, p, limit, n + 1, x)
<1> SUFFICES
      ASSUME o \in Nat, p \in Nat, limit \in Nat, n + 1 >= o, w.total = n, w.lines < limit,
             Window(text, s, o, p, limit, n, w),
             u \in Nat, u = s[n + 1], v \in Nat, v = s[n + 2], v > u,
             line \in Texts, Len(line) = v - u, PartAt(line, text, u, Len(line)),
             x = Take(w, line, o, limit)
      PROVE  x.total = n + 1 /\ Window(text, s, o, p, limit, n + 1, x)
  BY DEF Growing
<1> DEFINE room == ReadMaxBytes - Len(w.out)
           D == Len(w.out)
<1>0. /\ w.out \in Texts /\ w.lines \in Nat /\ w.truncated \in BOOLEAN
      /\ DOMAIN w = {"out", "lines", "total", "truncated"}
  BY DEF Windows
<1>1. D \in Nat /\ Len(line) \in Nat /\ ReadMaxBytes \in Nat /\ room \in Int
  BY <1>0, TextElement, LimitsAssumption
<1>2. x = IF ReadMaxBytes > 0 /\ Len(line) > room
            THEN [[w EXCEPT !.total = @ + 1] EXCEPT !.out = @ \o SubSeq(line, 1, room), !.truncated = TRUE]
            ELSE [[w EXCEPT !.total = @ + 1] EXCEPT !.out = @ \o line, !.lines = @ + 1]
  <2>1. [w EXCEPT !.total = @ + 1].total = n + 1 BY <1>0
  <2> QED BY <1>0, <2>1 DEF Take
<1>3. x.total = n + 1 BY <1>0, <1>2
<1>4. CASE w.truncated
  <2>1. /\ ReadMaxBytes > 0 /\ D = ReadMaxBytes /\ o + w.lines <= n
        /\ s[o + w.lines] <= p + D /\ p + D < s[o + w.lines + 1]
    BY <1>4 DEF Window, Truncated
  <2>2. room = 0 /\ Len(line) > room BY <1>1, <2>1
  <2>3. x.out = w.out /\ x.lines = w.lines /\ x.truncated
    <3>1. x.out = w.out \o SubSeq(line, 1, 0) /\ x.lines = w.lines /\ x.truncated
      BY <1>0, <1>2, <2>1, <2>2
    <3>2. SubSeq(line, 1, 0) = <<>> OBVIOUS
    <3>3. w.out \o <<>> = w.out BY <1>0 DEF Texts
    <3> QED BY <3>1, <3>2, <3>3
  <2>4. o + w.lines <= n + 1 BY <1>0, <2>1
  <2>5. Truncated(s, o, p, limit, n + 1, Len(x.out), x.lines) BY <2>1, <2>3, <2>4 DEF Truncated
  <2>6. PartAt(x.out, text, p, Len(x.out)) /\ Len(x.out) <= ReadMaxBytes BY <1>1, <2>1, <2>3 DEF Window
  <2> QED BY <1>3, <2>3, <2>5, <2>6 DEF Window
<1>5. CASE ~w.truncated
  <2>1. /\ p + D = s[o + w.lines]
        /\ w.lines = IF n - o + 1 < limit THEN n - o + 1 ELSE limit
    BY <1>5 DEF Window, Whole
  <2>2. w.lines = n - o + 1 BY <2>1
  <2>3. o + w.lines = n + 1 /\ o + w.lines + 1 = n + 2 /\ p + D = u /\ D \in Nat BY <1>1, <2>1, <2>2
  <2>4. PartAt(w.out, text, p, Len(w.out)) BY DEF Window
  <2>5. CASE ReadMaxBytes > 0 /\ Len(line) > room
    <3> DEFINE y == SubSeq(line, 1, room)
    <3>1. room >= 0 BY <1>1, <2>5 DEF Window
    <3>2. y \in Texts /\ Len(y) = room /\ \A i \in 1 .. room : y[i] = line[i]
      <4> HIDE DEF room
      <4>1. room < Len(line) BY <1>1, <2>5
      <4> QED BY <1>1, <3>1, <4>1, Start
    <3>3. x.out = w.out \o y /\ x.lines = w.lines /\ x.truncated BY <1>0, <1>2, <2>5
    <3>4. room = ReadMaxBytes - D /\ room < Len(line) BY <1>1, <2>5
    <3> HIDE DEF y, room, D
    <3>5. PartAt(y, text, u, Len(y))
      <4> SUFFICES ASSUME NEW i \in 1 .. room PROVE y[i] = text[u + i] BY <3>2 DEF PartAt
      <4>1. i \in 1 .. Len(line) BY <1>1, <3>4
      <4>2. line[i] = text[u + i] BY <4>1 DEF PartAt
      <4> QED BY <3>2, <4>2
    <3>6. PartAt(x.out, text, p, Len(x.out)) BY <1>0, <2>3, <2>4, <3>2, <3>3, <3>5, PartJoined DEF D
    <3>7. Len(x.out) = ReadMaxBytes
      <4>1. Len(x.out) = D + room BY <1>0, <3>2, <3>3, TextJoined, SMTT(30) DEF D
      <4> QED BY <1>1, <3>4, <4>1
    <3>8. u <= p + ReadMaxBytes /\ p + ReadMaxBytes < v BY <1>1, <2>3, <3>1, <3>4, SMTT(30)
    <3>9. Truncated(s, o, p, limit, n + 1, Len(x.out), x.lines)
      <4>1. o + w.lines <= n + 1 BY <2>3
      <4> QED BY <2>3, <2>5, <3>3, <3>7, <3>8, <4>1 DEF Truncated
    <3> QED BY <1>1, <1>3, <3>3, <3>6, <3>7, <3>9 DEF Window
  <2>6. CASE ~(ReadMaxBytes > 0 /\ Len(line) > room)
    <3>1. x.out = w.out \o line /\ x.lines = w.lines + 1 /\ ~x.truncated BY <1>0, <1>2, <1>5, <2>6
    <3>2. PartAt(x.out, text, p, Len(x.out)) BY <1>0, <2>3, <2>4, <3>1, PartJoined
    <3>3. Len(x.out) = D + Len(line) BY <1>0, <3>1, TextJoined, ZenonT(30)
    <3>4. ReadMaxBytes > 0 => Len(x.out) <= ReadMaxBytes BY <1>1, <2>6, <3>3
    <3> HIDE DEF D
    <3>5. p + Len(x.out) = s[o + x.lines]
      <4>1. o + x.lines = n + 2 BY <1>0, <2>3, <3>1
      <4>2. p + Len(x.out) = v BY <1>1, <2>3, <3>3, SMTT(30)
      <4> QED BY <4>1, <4>2
    <3>6. x.lines = IF n + 1 - o + 1 < limit THEN n + 1 - o + 1 ELSE limit
      BY <1>0, <2>2, <3>1, SMTT(30)
    <3>7. Whole(s, o, p, limit, n + 1, Len(x.out), x.lines) BY <3>5, <3>6 DEF Whole
    <3> QED BY <1>3, <3>1, <3>2, <3>4, <3>7 DEF Window
  <2> QED BY <2>5, <2>6
<1> QED BY <1>0, <1>4, <1>5

\* Each line leaves the window right.
LEMMA WindowTake ==
  ASSUME NEW text \in Texts, NEW L \in Seq(Texts), NEW s, Cut(text, Len(text), L, s),
         NEW o \in Nat \ {0}, NEW limit \in Nat \ {0}, NEW n \in Nat, n < Len(L), NEW w \in Windows,
         WindowAt(text, s, o, limit, n, w)
  PROVE  WindowAt(text, s, o, limit, n + 1, Take(w, L[n + 1], o, limit))
<1> SUFFICES ASSUME NEW m \in Nat, m = n + 1, NEW line, line = L[n + 1],
                    NEW x, x = Take(w, line, o, limit)
             PROVE  WindowAt(text, s, o, limit, m, x)
  OBVIOUS
<1> DEFINE K == Len(L)
<1>0. K \in Nat /\ Len(text) \in Nat BY ElementOf, TextElement
<1>1. n + 1 \in 1 .. K /\ n + 2 \in 1 .. K + 1 /\ n + 1 \in 1 .. K + 1 BY <1>0
<1>2. line \in Texts /\ Len(line) \in Nat BY <1>1, TypedLines
<1>3. s \in [1 .. K + 1 -> 0 .. Len(text)] BY DEF Cut
<1>4. s[n + 1] \in Nat /\ s[n + 2] \in Nat BY <1>0, <1>1, <1>3
<1>5. /\ s[n + 1] < s[n + 2] /\ Len(line) = s[n + 2] - s[n + 1]
      /\ PartAt(line, text, s[n + 1], Len(line))
  <2>1. Line(text, L, s, n + 1) BY <1>1 DEF Cut
  <2>2. n + 1 + 1 = n + 2 OBVIOUS
  <2> QED BY <2>1, <2>2 DEF Line, PartAt
<1>6. /\ w.out \in Texts /\ w.lines \in Nat /\ w.truncated \in BOOLEAN /\ w.total = n
      /\ DOMAIN w = {"out", "lines", "total", "truncated"}
  BY DEF Windows, WindowAt
<1>7. o \in Nat /\ limit \in Nat OBVIOUS
<1>8. CASE m < o \/ w.lines >= limit
  <2>1. x.total = m /\ x.out = w.out /\ x.lines = w.lines /\ (x.truncated <=> w.truncated)
    <3>1. [w EXCEPT !.total = @ + 1].total = m BY <1>6
    <3>2. x = [w EXCEPT !.total = @ + 1] BY <1>8, <3>1 DEF Take
    <3> QED BY <1>6, <3>2
  <2>2. CASE m < o
    <3>1. x.out = <<>> /\ x.lines = 0 /\ ~x.truncated BY <2>1, <2>2 DEF WindowAt
    <3>2. ASSUME m + 1 >= o PROVE Window(text, s, o, s[o], limit, m, x)
      <4>1. m + 1 = o /\ n + 2 = o BY <2>2, <3>2
      <4>2. s[o] \in Nat BY <1>4, <4>1
      <4>3. m \in Int OBVIOUS
      <4> QED BY <1>7, <3>1, <4>1, <4>2, <4>3, WindowBegins
    <3> QED BY <2>1, <3>1, <3>2 DEF WindowAt
  <2>3. CASE ~(m < o) /\ w.lines >= limit
    <3>1. m >= o /\ n + 1 >= o /\ n \in Int BY <2>3
    <3>2. Window(text, s, o, s[o], limit, n, w) BY <3>1 DEF WindowAt
    <3>3. Window(text, s, o, s[o], limit, n + 1, x) BY <1>7, <2>1, <2>3, <3>1, <3>2, WindowStays
    <3>4. Window(text, s, o, s[o], limit, m, x) BY <3>3
    <3>5. ~(m + 1 < o) BY <3>1
    <3> QED BY <2>1, <3>4, <3>5 DEF WindowAt
  <2> QED BY <1>8, <2>2, <2>3
<1>9. CASE ~(m < o) /\ ~(w.lines >= limit)
  <2>1. o \in 1 .. K + 1 /\ n + 1 >= o /\ ~(m + 1 < o) BY <1>0, <1>1, <1>9
  <2>2. s[o] \in Nat BY <1>0, <1>3, <2>1
  <2>3. Window(text, s, o, s[o], limit, n, w) BY <2>1 DEF WindowAt
  <2>4. w.lines < limit BY <1>6, <1>9
  <2>5. PICK p \in Nat : p = s[o] BY <2>2
  <2>6. PICK u \in Nat : u = s[n + 1] BY <1>4
  <2>7. PICK v \in Nat : v = s[n + 2] BY <1>4
  <2>8. Window(text, s, o, p, limit, n, w) BY <2>3, <2>5
  <2>9. v > u /\ Len(line) = v - u /\ PartAt(line, text, u, Len(line)) BY <1>5, <2>6, <2>7
  <2>10. x.total = n + 1 /\ Window(text, s, o, p, limit, n + 1, x)
    <3>1. line \in Texts BY <1>2
    <3>2. w.total = n BY <1>6
    <3>3. n + 1 >= o BY <2>1
    <3>4. Growing(text, s, o, p, limit, n, w, u, v, line, x)
      BY <1>7, <2>4, <2>5, <2>6, <2>7, <2>8, <2>9, <3>1, <3>2, <3>3 DEF Growing
    <3> QED BY <3>4, WindowGrows
  <2>11. x.total = m /\ Window(text, s, o, s[o], limit, m, x) BY <2>5, <2>10
  <2> QED BY <2>1, <2>11 DEF WindowAt
<1> QED BY <1>8, <1>9

\* The window at the end.
LEMMA WindowRead ==
  ASSUME NEW text \in Texts, NEW s, Cut(text, Len(text), Lines(text), s),
         NEW o \in Nat \ {0}, NEW limit \in Nat \ {0}
  PROVE  /\ ReadWindow(text, o, limit) \in Windows
         /\ WindowAt(text, s, o, limit, Len(Lines(text)), ReadWindow(text, o, limit))
<1> DEFINE L == Lines(text)
           N == Len(L)
<1>1. L \in Seq(Texts) BY LinesCut
<1>2. N \in Nat
  <2> HIDE DEF L
  <2> QED BY <1>1, ElementOf
<1>3. PICK f \in [0 .. N -> Windows] :
        /\ f[0] = NoWindow /\ f[N] = ReadWindow(text, o, limit)
        /\ \A n \in 1 .. N : f[n] = Take(f[n - 1], L[n], o, limit)
  BY WindowGoes
<1> HIDE DEF L
<1> DEFINE T == {n \in Nat : n <= N => WindowAt(text, s, o, limit, n, f[n])}
<1>4. 0 \in T
  <2> DEFINE w == f[0]
  <2>1. w.out = <<>> /\ w.lines = 0 /\ ~w.truncated /\ w.total = 0 BY <1>3 DEF NoWindow
  <2> HIDE DEF w
  <2>2. ASSUME 0 + 1 >= o PROVE Window(text, s, o, s[o], limit, 0, w)
    <3>1. o = 1 /\ s[1] = 0 /\ 0 \in Nat BY <2>2 DEF Cut
    <3>2. o \in Nat /\ 0 \in Int /\ 0 + 1 = o BY <3>1
    <3> QED BY <2>1, <3>1, <3>2, WindowBegins
  <2>3. WindowAt(text, s, o, limit, 0, w) BY <2>1, <2>2 DEF WindowAt
  <2> QED BY <2>3 DEF w
<1>5. ASSUME NEW n \in Nat, n \in T PROVE n + 1 \in T
  <2>1. ASSUME n + 1 <= N PROVE WindowAt(text, s, o, limit, n + 1, f[n + 1])
    <3>1. n <= N /\ n < N /\ n + 1 \in 1 .. N /\ n \in 0 .. N /\ n + 1 - 1 = n BY <1>2, <2>1
    <3>2. WindowAt(text, s, o, limit, n, f[n]) /\ f[n] \in Windows BY <1>3, <1>5, <3>1
    <3>3. f[n + 1] = Take(f[n], L[n + 1], o, limit) BY <1>3, <3>1
    <3>4. Cut(text, Len(text), L, s) BY DEF L
    <3> QED BY <1>1, <3>1, <3>2, <3>3, <3>4, WindowTake
  <2> QED BY <2>1
<1>6. Nat \subseteq T
  <2> HIDE DEF T
  <2> QED BY <1>4, <1>5, Induction
<1>7. N \in 0 .. N /\ N \in T BY <1>2, <1>6
<1> QED BY <1>2, <1>3, <1>7 DEF L

\* The line of a character, from where the lines begin.
LEMMA LineFrom ==
  ASSUME NEW text, NEW N, NEW L, NEW s, Cut(text, N, L, s), NEW j \in 1 .. Len(L), NEW e \in Int,
         s[j] \in Int, s[j + 1] \in Int, s[j] < e, e <= s[j + 1]
  PROVE  LineOf(text, e) = j
<1>1. Line(text, L, s, j) BY DEF Cut
<1> QED BY <1>1 DEF Line

\* The places where lines begin and end.
LEMMA LinePlaces ==
  ASSUME NEW text \in Texts, NEW L \in Seq(Texts), NEW s, Cut(text, Len(text), L, s),
         NEW j \in 1 .. Len(L)
  PROVE  /\ Len(text) \in Nat /\ s[j] \in Nat /\ s[j + 1] \in Nat
         /\ s[j] < s[j + 1] /\ s[j + 1] <= Len(text) /\ LineOf(text, s[j + 1]) = j
<1>1. Len(L) \in Nat /\ Len(text) \in Nat BY ElementOf, TextElement
<1>2. s \in [1 .. Len(L) + 1 -> 0 .. Len(text)] /\ Line(text, L, s, j) BY DEF Cut
<1>3. j \in 1 .. Len(L) + 1 /\ j + 1 \in 1 .. Len(L) + 1 BY <1>1
<1>4. s[j] \in Nat /\ s[j + 1] \in Nat /\ s[j + 1] <= Len(text) BY <1>1, <1>2, <1>3
<1>5. s[j] < s[j + 1] BY <1>2 DEF Line
<1>6. s[j] \in Int /\ s[j + 1] \in Int /\ s[j + 1] <= s[j + 1] BY <1>4
<1> QED BY <1>1, <1>4, <1>5, <1>6, LineFrom

\* The lines of a text, counted by its NLs.
LEMMA CountOfLines ==
  ASSUME NEW text \in Texts, NEW L \in Seq(Texts), NEW s, Cut(text, Len(text), L, s)
  PROVE  LineCount(text) = Len(L)
<1>1. Len(L) \in Nat /\ Len(text) \in Nat /\ s[1] = 0 /\ s[Len(L) + 1] = Len(text)
  BY ElementOf, TextElement DEF Cut
<1>2. CASE Len(L) = 0
  <2>1. Len(text) = 0 BY <1>1, <1>2
  <2>2. text = <<>> BY <2>1 DEF Texts
  <2> QED BY <1>2, <2>2 DEF LineCount
<1>3. CASE Len(L) > 0
  <2>1. Len(L) \in 1 .. Len(L) BY <1>1, <1>3
  <2>2. s[Len(L)] \in Nat /\ s[Len(L)] < Len(text) /\ LineOf(text, Len(text)) = Len(L)
    BY <1>1, <2>1, LinePlaces
  <2>3. text # <<>> BY <1>1, <2>2
  <2> QED BY <2>2, <2>3 DEF LineCount
<1> QED BY <1>1, <1>2, <1>3

\* What a window shows when all is read: Q lines from line o on, to place e.
Shows(text, N, K, s, o, p, limit, e, Q, cut) ==
  /\ Q \in 1 .. limit /\ o + Q - 1 \in o .. K /\ p < e /\ e <= N
  /\ LineOf(text, e) = o + Q - 1
  /\ ~cut => e = s[o + Q] /\ (Q = limit \/ o + Q - 1 = K)

\* A window that has begun shows a line, and without a cut all that was asked for.
LEMMA WindowEnds ==
  ASSUME NEW text \in Texts, NEW L \in Seq(Texts), NEW s, Cut(text, Len(text), L, s),
         NEW K \in Nat, K = Len(L), NEW N \in Nat, N = Len(text),
         NEW o \in 1 .. K, NEW limit \in Nat \ {0}, NEW p \in Nat, p = s[o],
         NEW w \in Windows, Window(text, s, o, p, limit, K, w), NEW e \in Nat, e = p + Len(w.out)
  PROVE  \E Q : Shows(text, N, K, s, o, p, limit, e, Q, w.truncated)
<1> DEFINE l == w.lines
<1>0. l \in Nat /\ w.out \in Texts /\ Len(w.out) \in Nat
  <2>1. l \in Nat /\ w.out \in Texts BY DEF Windows
  <2> QED BY <2>1, TextElement
<1>1. CASE ~w.truncated
  <2>1. e = s[o + l] /\ l = IF K - o + 1 < limit THEN K - o + 1 ELSE limit
    BY <1>1 DEF Window, Whole
  <2>2. l \in 1 .. limit /\ (l = limit \/ o + l - 1 = K) /\ o + l - 1 \in o .. K /\ o + l - 1 + 1 = o + l
    BY <2>1
  <2> HIDE DEF l
  <2> DEFINE j == o + l - 1
  <2>3. j \in 1 .. K /\ j >= o /\ j + 1 = o + l BY <2>2
  <2>4. s[j] \in Nat /\ s[j] < e /\ e <= N /\ LineOf(text, e) = j
    <3> HIDE DEF j
    <3>1. j \in 1 .. Len(L) /\ s[j + 1] = e BY <2>1, <2>3
    <3> QED BY <3>1, LinePlaces
  <2>5. p < e
    <3> SUFFICES ASSUME p = e PROVE FALSE BY <1>0
    <3>1. CASE o = 1
      <4>1. p = 0 BY <3>1 DEF Cut
      <4> QED BY <2>4, <4>1
    <3>2. CASE o # 1
      <4>1. PICK h \in 1 .. Len(L) : h = o - 1 /\ h + 1 = o BY <3>2
      <4>2. LineOf(text, s[h + 1]) = h BY LinePlaces
      <4>3. LineOf(text, p) = h BY <4>1, <4>2
      <4> HIDE DEF j
      <4> QED BY <2>3, <2>4, <4>1, <4>3
    <3> QED BY <3>1, <3>2
  <2>6. Shows(text, N, K, s, o, p, limit, e, l, w.truncated)
    BY <1>1, <2>1, <2>2, <2>4, <2>5 DEF Shows
  <2> QED BY <2>6
<1>2. CASE w.truncated
  <2>1. /\ l < limit /\ o + l <= K /\ ReadMaxBytes > 0 /\ Len(w.out) = ReadMaxBytes
        /\ s[o + l] <= e /\ e < s[o + l + 1]
    BY <1>2 DEF Window, Truncated
  <2> HIDE DEF l
  <2>2. p < e BY <1>0, <2>1, LimitsAssumption
  <2> DEFINE j == o + l
  <2>3. j \in 1 .. Len(L) /\ j + 1 = o + l + 1 BY <1>0, <2>1
  <2>4. s[j] \in Nat /\ s[j + 1] \in Nat /\ s[j + 1] <= N
    <3> HIDE DEF j
    <3> QED BY <2>3, LinePlaces
  <2>5. s[j] <= e /\ e < s[j + 1] /\ e <= N BY <2>1, <2>3, <2>4
  <2>6. CASE s[j] < e
    <3>1. LineOf(text, e) = j
      <4> HIDE DEF j
      <4>1. e \in Int /\ e <= s[j + 1] /\ s[j] \in Int /\ s[j + 1] \in Int BY <2>4, <2>5
      <4> QED BY <2>3, <2>6, <4>1, LineFrom
    <3>2. l + 1 \in 1 .. limit /\ o + (l + 1) - 1 = j /\ j \in o .. K BY <1>0, <2>1
    <3>3. Shows(text, N, K, s, o, p, limit, e, l + 1, w.truncated)
      BY <1>2, <2>2, <2>5, <3>1, <3>2 DEF Shows
    <3> QED BY <3>3
  <2>7. CASE s[j] = e
    <3>1. l # 0
      <4>1. ASSUME l = 0 PROVE FALSE
        <5>1. j = o BY <4>1
        <5> QED BY <2>2, <2>7, <5>1
      <4> QED BY <4>1
    <3>2. PICK h \in 1 .. Len(L) : h = o + l - 1 /\ h + 1 = j BY <1>0, <2>1, <3>1
    <3>3. LineOf(text, s[h + 1]) = h BY LinePlaces
    <3>4. LineOf(text, e) = h BY <2>7, <3>2, <3>3
    <3>5. l \in 1 .. limit /\ h = o + l - 1 /\ h \in o .. K BY <1>0, <2>1, <3>1, <3>2
    <3>6. Shows(text, N, K, s, o, p, limit, e, l, w.truncated)
      BY <1>2, <2>2, <2>5, <3>4, <3>5 DEF Shows
    <3> QED BY <3>6
  <2> HIDE DEF j
  <2> QED BY <2>4, <2>5, <2>6, <2>7
<1> QED BY <1>1, <1>2

\* The beginning of a sequence.
LEMMA StartOf ==
  ASSUME NEW X, NEW a \in Seq(X), NEW n \in Nat, n <= Len(a)
  PROVE  /\ SubSeq(a, 1, n) \in Seq(X) /\ Len(SubSeq(a, 1, n)) = n
         /\ \A i \in 1 .. n : SubSeq(a, 1, n)[i] = a[i]
<1>1. \A i \in 1 .. n : a[i] \in X OBVIOUS
<1> QED BY <1>1

\* The beginning of a text.
LEMMA TextStart ==
  ASSUME NEW a \in Texts, NEW n \in Nat, n <= Len(a)
  PROVE  /\ SubSeq(a, 1, n) \in Texts /\ Len(SubSeq(a, 1, n)) = n
         /\ \A i \in 1 .. n : SubSeq(a, 1, n)[i] = a[i]
BY StartOf DEF Texts

\* Of the beginning of a line the part without NL is the beginning of the line's.
LEMMA StripPrefix ==
  ASSUME NEW line \in Texts, NEW m \in 1 .. Len(line),
         \A i \in 1 .. Len(line) - 1 : line[i] # NL
  PROVE  IsPrefix(Strip(SubSeq(line, 1, m)), Strip(line))
<1> DEFINE a == SubSeq(line, 1, m)
           n == Len(line)
<1>1. n \in Nat /\ m \in Nat /\ m >= 1 /\ m <= n BY TextElement
<1>2. a \in Texts /\ Len(a) = m /\ \A i \in 1 .. m : a[i] = line[i]
  BY <1>1, TextStart
<1>3. \A x \in Texts : IsPrefix(x, x)
  <2>1. \A x \in Texts : Len(x) \in Nat BY TextElement
  <2> QED BY <2>1 DEF IsPrefix
<1>4. CASE m = n
  <2>1. a = line
    <3>1. Len(a) = Len(line) /\ \A i \in 1 .. Len(a) : a[i] = line[i] BY <1>2, <1>4
    <3> HIDE DEF a
    <3> QED BY <1>2, <3>1, SameText DEF Texts
  <2>2. Strip(line) \in Texts
    <3>1. Front(line) \in Texts
      <4>1. n - 1 \in Nat /\ n - 1 <= Len(line) BY <1>1
      <4> QED BY <4>1, TextStart DEF Front
    <3> QED BY <3>1 DEF Strip
  <2> QED BY <1>3, <2>1, <2>2
<1>5. CASE m < n
  <2>1. Strip(a) = a
    <3>1. Last(a) = line[m] /\ line[m] # NL BY <1>1, <1>2, <1>5 DEF Last
    <3> QED BY <3>1 DEF Strip
  <2> DEFINE b == SubSeq(line, 1, n - 1)
  <2>2. b \in Texts /\ Len(b) = n - 1 /\ \A i \in 1 .. n - 1 : b[i] = line[i]
    <3>1. n - 1 \in Nat /\ n - 1 <= Len(line) BY <1>1
    <3> QED BY <3>1, TextStart
  <2>3. Strip(line) = b \/ Strip(line) = line BY DEF Strip, Front
  <2> DEFINE c == Strip(line)
  <2>4. c \in Texts /\ Len(c) \in Nat /\ m <= Len(c) /\ \A i \in 1 .. m : c[i] = line[i]
    <3> HIDE DEF b
    <3>1. CASE c = b BY <1>1, <1>5, <2>2, <3>1
    <3>2. CASE c = line BY <1>1, <3>2
    <3> HIDE DEF c
    <3> QED BY <2>3, <3>1, <3>2 DEF c
  <2> HIDE DEF a, b, c
  <2>5. SubSeq(a, 1, m) = SubSeq(c, 1, m)
    <3>1. \A x \in Texts : m <= Len(x) =>
            /\ SubSeq(x, 1, m) \in Texts /\ Len(SubSeq(x, 1, m)) = m
            /\ \A i \in 1 .. m : SubSeq(x, 1, m)[i] = x[i]
      BY <1>1, TextStart
    <3> DEFINE x == SubSeq(a, 1, m)
               y == SubSeq(c, 1, m)
    <3>2. x \in Texts /\ y \in Texts /\ Len(x) = m /\ Len(y) = m /\ \A i \in 1 .. m : x[i] = y[i]
      BY <1>1, <1>2, <2>4, <3>1
    <3> HIDE DEF x, y
    <3>3. x = y BY <3>2, SameText DEF Texts
    <3> QED BY <3>3 DEF x, y
  <2> QED BY <1>2, <2>1, <2>4, <2>5 DEF IsPrefix, a, c
<1> QED BY <1>1, <1>4, <1>5

\* Line k of what is shown, P, of which there are Q, and line o + k - 1 of the text.
ShownLine(text, P, o, Q, cut, k) ==
  IF k = Q /\ cut THEN IsPrefix(Strip(P[k]), LineText(text, o + k - 1))
  ELSE Strip(P[k]) = LineText(text, o + k - 1)

\* A text of no characters.
LEMMA EmptyText ==
  ASSUME NEW a \in Texts, Len(a) = 0
  PROVE  a = <<>>
BY DEF Texts

\* The Q lines in P are those asked for, from line o on.
ShownLines(text, K, P, o, limit, Q, cut) ==
  /\ Q \in 1 .. limit /\ o + Q - 1 \in o .. K
  /\ ~cut => Q = limit \/ o + Q - 1 = K
  /\ \A k \in 1 .. Q : ShownLine(text, P, o, Q, cut, k)

\* The lines of the window.
LEMMA WindowLines ==
  ASSUME NEW text \in Texts, NEW L \in Seq(Texts), NEW s, Cut(text, Len(text), L, s),
         NEW K \in Nat, K = Len(L), NEW N \in Nat, N = Len(text),
         NEW o \in 1 .. K, NEW limit \in Nat \ {0},
         NEW w \in Windows, Window(text, s, o, s[o], limit, K, w),
         NEW P, P = Lines(w.out), NEW Q, Q = Len(P)
  PROVE  ShownLines(text, K, P, o, limit, Q, w.truncated)
<1>0. w.out \in Texts /\ Len(w.out) \in Nat
  <2>1. w.out \in Texts BY DEF Windows
  <2> QED BY <2>1, TextElement
<1>1. PICK p \in Nat : p = s[o] BY LinePlaces
<1>2. PICK e \in Nat : e = p + Len(w.out) BY <1>0, <1>1
<1>3. Window(text, s, o, p, limit, K, w) BY <1>1
<1>4. PICK R : Shows(text, N, K, s, o, p, limit, e, R, w.truncated)
  BY <1>1, <1>2, <1>3, WindowEnds
<1>5. P \in Seq(Texts) /\ \E t : Cut(w.out, Len(w.out), P, t) BY <1>0, LinesCut
<1>6. PICK t : Cut(w.out, Len(w.out), P, t) BY <1>5
<1>7. Q \in Nat BY <1>5, ElementOf
<1>8. PICK D \in Nat : D = Len(w.out) BY <1>0
<1>9. p < e /\ e <= N /\ D > 0 /\ p + D = e BY <1>1, <1>2, <1>4, <1>8 DEF Shows
<1>10. PartAt(w.out, text, p, D) BY <1>3, <1>8 DEF Window
<1>11. Piece(text, N, L, K, s, o, p, D, w.out, P, Q, t)
  BY <1>1, <1>6, <1>7, <1>8, <1>9, <1>10 DEF Piece
<1>12. SameLines(L, K, s, o, e, P, Q) BY <1>5, <1>9, <1>11, PieceLines
<1>13. PICK j \in 1 .. Len(L) : j = o + Q - 1 /\ j + 1 = o + Q BY <1>7, <1>12 DEF SameLines
<1>14. s[j] \in Nat /\ s[j + 1] \in Nat /\ s[j] < e /\ e <= s[j + 1]
  BY <1>12, <1>13, LinePlaces DEF SameLines
<1>15. LineOf(text, e) = j BY <1>2, <1>14, LineFrom
<1>16. R \in 1 .. limit /\ LineOf(text, e) = o + R - 1 BY <1>4 DEF Shows
<1>17. Q = R BY <1>7, <1>13, <1>15, <1>16
<1>18. /\ Q \in 1 .. limit /\ o + Q - 1 \in o .. K
       /\ ~w.truncated => e = s[o + Q] /\ (Q = limit \/ o + Q - 1 = K)
  BY <1>4, <1>17 DEF Shows
<1>19. \A k \in 1 .. Len(L) : LineText(text, k) = Strip(L[k]) /\ L[k] \in Texts /\ Len(L[k]) > 0
  BY LineTextIs
<1>20. ASSUME NEW k \in 1 .. Q, k # Q PROVE ShownLine(text, P, o, Q, w.truncated, k)
  <2>1. k \in 1 .. Q - 1 BY <1>7, <1>20
  <2>2. PICK i \in 1 .. Len(L) : i = o + k - 1 BY <1>7, <1>13, <2>1
  <2>3. P[k] = L[i] BY <1>12, <2>1, <2>2 DEF SameLines
  <2>4. Strip(P[k]) = LineText(text, o + k - 1) BY <1>19, <2>2, <2>3
  <2> QED BY <1>20, <2>4 DEF ShownLine
<1>21. ShownLine(text, P, o, Q, w.truncated, Q)
  <2> SUFFICES ASSUME NEW line, line = L[j], NEW m, m = e - s[j]
               PROVE  ShownLine(text, P, o, Q, w.truncated, Q)
    OBVIOUS
  <2>1. line \in Texts /\ LineText(text, o + Q - 1) = Strip(line) BY <1>13, <1>19
  <2>2. Line(text, L, s, j) BY DEF Cut
  <2>3. Len(line) = s[j + 1] - s[j] /\ Len(line) \in Nat BY <2>1, <2>2, TextElement DEF Line
  <2>4. m \in 1 .. Len(line) BY <1>14, <2>3, SMTT(30)
  <2>5. P[Q] = SubSeq(line, 1, m) BY <1>12, <1>13 DEF SameLines
  <2>6. CASE w.truncated
    <3>1. \A i \in 1 .. Len(line) - 1 : line[i] # NL
      <4> SUFFICES ASSUME NEW i \in 1 .. Len(line) - 1 PROVE line[i] # NL OBVIOUS
      <4>1. PICK u \in Nat, v \in Nat : u = s[j] /\ v = s[j + 1] BY <1>14
      <4>0. Len(line) = v - u BY <2>3, <4>1
      <4>2. i \in 1 .. Len(line) /\ u + i \in u + 1 .. v - 1 BY <4>0
      <4>3. line[i] = text[u + i] /\ \A k \in u + 1 .. v - 1 : text[k] # NL
        BY <2>2, <4>1, <4>2 DEF Line
      <4> QED BY <4>2, <4>3
    <3>2. IsPrefix(Strip(P[Q]), Strip(line)) BY <2>1, <2>4, <2>5, <3>1, StripPrefix
    <3> QED BY <2>1, <2>6, <3>2 DEF ShownLine
  <2>7. CASE ~w.truncated
    <3>1. m = Len(line) BY <1>13, <1>18, <2>3, <2>7
    <3>2. SubSeq(line, 1, Len(line)) = line BY <2>1, Beginning
    <3> QED BY <2>1, <2>5, <2>7, <3>1, <3>2 DEF ShownLine
  <2> QED BY <2>6, <2>7
<1> QED BY <1>18, <1>20, <1>21 DEF ShownLines

\* The answer that readTool makes of what readTask returned shows the window.
LEMMA WindowShown ==
  ASSUME NEW text \in Texts, NEW o \in Nat \ {0}, NEW limit \in Nat \ {0},
         NEW w, w = ReadWindow(text, o, limit),
         NEW res, res.stdout = w.out, res.total = w.total, res.truncated <=> w.truncated
  PROVE  ShowsWindow(ReadAnswer(o, limit, res), text, o, limit)
<1> DEFINE a == ReadAnswer(o, limit, res)
           P == Lines(w.out)
           shown == SplitLines(w.out)
<1> SUFFICES ASSUME NEW L, L = Lines(text), NEW K, K = Len(L), NEW N, N = Len(text), NEW Q, Q = Len(P)
             PROVE  ShowsWindow(a, text, o, limit)
  OBVIOUS
<1>1. L \in Seq(Texts) BY LinesCut
<1>2. K \in Nat /\ N \in Nat BY <1>1, ElementOf, TextElement
<1>3. PICK s : Cut(text, N, L, s) BY LinesCut
<1>4. w \in Windows /\ WindowAt(text, s, o, limit, K, w) BY <1>3, WindowRead
<1>5. w.total = K BY <1>4 DEF WindowAt
<1>6. LineCount(text) = K BY <1>1, <1>3, CountOfLines
<1>7. w.out \in Texts BY <1>4 DEF Windows
<1>8. P \in Seq(Texts) /\ \E t : Cut(w.out, Len(w.out), P, t) BY <1>7, LinesCut
<1>9. Q \in Nat /\ DOMAIN P = 1 .. Q
  <2> HIDE DEF P
  <2> QED BY <1>8, ElementOf
<1>10. DOMAIN shown = 1 .. Q /\ Len(shown) = Q /\ \A k \in 1 .. Q : shown[k] = Strip(P[k])
  <2>1. shown = [k \in 1 .. Q |-> Strip(P[k])] BY <1>9 DEF SplitLines, Strip
  <2> HIDE DEF shown, P
  <2> QED BY <1>9, <2>1
<1>11. a = IF K > 0 /\ o > K THEN [kind |-> "beyond", total |-> K]
           ELSE IF shown = <<>> THEN [kind |-> "empty"]
           ELSE [kind |-> "lines", first |-> o, lines |-> shown, last |-> o + Len(shown) - 1,
                 footer |-> Len(shown) < limit \/ o > 1 \/ res.truncated,
                 total |-> K, truncated |-> res.truncated]
  BY <1>5 DEF ReadAnswer
<1> HIDE DEF a, shown, P
<1>12. CASE K > 0 /\ o > K
  <2>1. a.kind = "beyond" /\ a.total = K BY <1>11, <1>12
  <2>2. {k \in o .. K : k < o + limit} = {} BY <1>2, <1>12
  <2> QED BY <1>6, <2>1, <2>2 DEF ShowsWindow
<1>13. CASE K = 0
  <2>1. Len(text) = 0 BY <1>3, <1>13 DEF Cut
  <2>2. text = <<>> BY <2>1, EmptyText
  <2>3. w.out = <<>>
    <3>1. CASE 0 + 1 < o BY <1>4, <1>13, <3>1 DEF WindowAt
    <3>2. CASE ~(0 + 1 < o)
      <4>1. o = 1 /\ s[1] = 0 BY <1>3, <3>2 DEF Cut
      <4>2. Window(text, s, o, s[o], limit, 0, w) BY <1>4, <1>13, <4>1 DEF WindowAt
      <4>3. w.lines \in Nat BY <1>4 DEF Windows
      <4>4. ~w.truncated BY <4>1, <4>2, <4>3 DEF Window, Truncated
      <4>5. w.lines = 0 /\ s[o] + Len(w.out) = s[o + w.lines]
        BY <4>1, <4>2, <4>4 DEF Window, Whole
      <4>6. o + 0 = 1 /\ Len(w.out) \in Nat BY <1>7, <4>1, TextElement
      <4>7. Len(w.out) = 0 BY <4>1, <4>5, <4>6
      <4> QED BY <1>7, <4>7, EmptyText
    <3> QED BY <3>1, <3>2
  <2>4. Q = 0
    <3> SUFFICES ASSUME Q # 0 PROVE FALSE OBVIOUS
    <3>1. PICK t : Cut(w.out, Len(w.out), P, t) BY <1>8
    <3>2. 1 \in 1 .. Len(P) BY <1>9
    <3>3. t[1] \in Nat /\ t[1] < t[1 + 1] /\ t[1 + 1] <= Len(w.out) /\ t[1 + 1] \in Nat
      BY <1>7, <1>8, <3>1, <3>2, LinePlaces
    <3>4. Len(w.out) = 0 BY <2>3
    <3> QED BY <3>3, <3>4
  <2>5. a.kind = "empty"
    <3>1. shown = <<>> BY <1>10, <2>4
    <3> QED BY <1>11, <1>13, <3>1
  <2> QED BY <2>2, <2>5 DEF ShowsWindow
<1>14. CASE K > 0 /\ o <= K
  <2>1. o \in 1 .. K /\ ~(K + 1 < o) /\ K + 1 >= o BY <1>2, <1>14
  <2>2. Window(text, s, o, s[o], limit, K, w) BY <1>4, <2>1 DEF WindowAt
  <2>3. /\ Q \in 1 .. limit /\ o + Q - 1 \in o .. K
        /\ ~w.truncated => Q = limit \/ o + Q - 1 = K
        /\ \A k \in 1 .. Q : ShownLine(text, P, o, Q, w.truncated, k)
    <3>1. ShownLines(text, K, P, o, limit, Q, w.truncated)
      BY <1>1, <1>2, <1>3, <1>4, <2>1, <2>2, WindowLines DEF P
    <3> QED BY <3>1 DEF ShownLines
  <2>4. shown # <<>> BY <1>10, <2>3
  <2>5. /\ a.kind = "lines" /\ a.first = o /\ a.last = o + Q - 1 /\ a.total = K
        /\ a.lines = shown /\ (a.truncated <=> w.truncated)
    BY <1>10, <1>11, <1>14, <2>4
  <2> DEFINE v == [k \in a.first .. a.last |-> a.lines[k - a.first + 1]]
             wanted == {k \in o .. K : k < o + limit}
  <2>6. DOMAIN v = o .. o + Q - 1 /\ \A k \in o .. o + Q - 1 : v[k] = shown[k - o + 1]
    BY <2>5
  <2>7. DOMAIN v \subseteq wanted
    <3>1. Q \in 1 .. limit /\ o + Q - 1 \in o .. K BY <2>3
    <3>2. o .. o + Q - 1 \subseteq wanted BY <1>2, <3>1
    <3> HIDE DEF v, wanted
    <3> QED BY <2>6, <3>2
  <2>8. ~w.truncated => DOMAIN v = wanted
    <3> SUFFICES ASSUME ~w.truncated PROVE o .. o + Q - 1 = wanted BY <2>6
    <3>1. Q \in 1 .. limit /\ o + Q - 1 \in o .. K /\ (Q = limit \/ o + Q - 1 = K) BY <2>3
    <3>2. CASE Q = limit BY <1>2, <3>1, <3>2
    <3>3. CASE o + Q - 1 = K BY <1>2, <3>1, <3>3
    <3> QED BY <3>1, <3>2, <3>3
  <2> HIDE DEF v
  <2>9. ASSUME NEW k \in o .. o + Q - 1
        PROVE  IF k = o + Q - 1 /\ w.truncated THEN IsPrefix(v[k], LineText(text, k))
               ELSE v[k] = LineText(text, k)
    <3>0. k - o + 1 \in 1 .. Q /\ o + (k - o + 1) - 1 = k BY <2>3, SMTT(30)
    <3>1. PICK i \in 1 .. Q : i = k - o + 1 /\ o + i - 1 = k BY <3>0, Zenon
    <3>2. v[k] = Strip(P[i]) BY <1>10, <2>6, <3>1
    <3>3. ShownLine(text, P, o, Q, w.truncated, i) BY <2>3
    <3>4. k = o + Q - 1 <=> i = Q BY <2>3, <3>1
    <3>5. LineText(text, o + i - 1) = LineText(text, k) BY <3>1
    <3> QED BY <3>2, <3>3, <3>4, <3>5 DEF ShownLine
  <2>10. o + Q - 1 \in o .. o + Q - 1 BY <2>3
  <2>11. \A k \in DOMAIN v : k < a.last => v[k] = LineText(text, k)
    BY <2>3, <2>5, <2>6, <2>9
  <2>12. IF a.truncated THEN IsPrefix(v[a.last], LineText(text, a.last))
         ELSE DOMAIN v = wanted /\ v[a.last] = LineText(text, a.last)
    BY <2>5, <2>8, <2>9, <2>10
  <2> HIDE DEF wanted
  <2> QED BY <1>6, <2>5, <2>7, <2>11, <2>12 DEF ShowsWindow, v, wanted
<1> QED BY <1>2, <1>12, <1>13, <1>14 DEF a

-----------------------------------------------------------------------------
(* Editing: occurrences and copies                                         *)

Places == Seq(Nat)

\* A place where old begins, behind the last one found.
Scan(at, i, text, old) ==
  IF StartsAt(text, old, i) /\ (at = <<>> \/ Last(at) + Len(old) <= i)
    THEN Append(at, i) ELSE at

\* The last place old can begin at, 0 if there is none.
LastPlace(text, old) == IF Len(text) - Len(old) + 1 < 0 THEN 0 ELSE Len(text) - Len(old) + 1

\* Found, place by place.
LEMMA FoundGoes ==
  ASSUME NEW text \in Texts, NEW old \in Texts, NEW N, N = LastPlace(text, old)
  PROVE  /\ N \in Nat
         /\ \E f \in [0 .. N -> Places] :
              /\ f[0] = <<>> /\ f[N] = Found(text, old)
              /\ \A n \in 1 .. N : f[n] = Scan(f[n - 1], n, text, old)
<1> DEFINE S == Places
           step == [n \in 1 .. N |-> [v \in S |-> Scan(v, n, text, old)]]
           q == [i \in 1 .. Len(text) - Len(old) + 1 |-> i]
           Eq(h) == h = [s \in SUBSET (1 .. N) |->
                           IF s = {} THEN <<>> ELSE Scan(h[s \ {Max(s)}], q[Max(s)], text, old)]
           h == CHOOSE g : Eq(g)
<1>1. N \in Nat /\ 1 .. N = 1 .. Len(text) - Len(old) + 1
  <2>1. Len(text) \in Nat /\ Len(old) \in Nat BY TextElement
  <2> QED BY <2>1 DEF LastPlace
<1>2. step \in [1 .. N -> [S -> S]]
  <2>1. \A n \in 1 .. N : n \in Nat BY <1>1
  <2>2. \A n \in Nat : \A v \in S : Append(v, n) \in S BY DEF Places
  <2> QED BY <2>1, <2>2 DEF Scan
<1>3. Found(text, old) = h[1 .. N]
  BY <1>1 DEF Found, FoldLeft, MapThenFoldSet, Scan
<1>4. \A n \in 1 .. N : \A v \in S : step[n][v] = Scan(v, n, text, old)
  OBVIOUS
<1>5. <<>> \in S BY DEF Places
<1>6. \A n \in 1 .. N : q[n] = n BY <1>1
<1> HIDE DEF step, S, q
<1>7. \E g : Eq(g)
  <2>0. PICK g : IsFold(g, N, S, <<>>, step)
    <3> HIDE DEF Eq
    <3> QED BY <1>1, <1>2, <1>5, FoldExists
  <2>1. /\ g \in [SUBSET (1 .. N) -> S]
        /\ g = [s \in SUBSET (1 .. N) |-> IF s = {} THEN <<>> ELSE step[Max(s)][g[s \ {Max(s)}]]]
    BY <2>0 DEF IsFold
  <2>2. ASSUME NEW s \in SUBSET (1 .. N), s # {} PROVE Max(s) \in 1 .. N /\ s \ {Max(s)} \in SUBSET (1 .. N)
    BY <1>1, <2>2, MaxOfSubset
  <2>3. ASSUME NEW s \in SUBSET (1 .. N), s # {}
        PROVE  step[Max(s)][g[s \ {Max(s)}]] = Scan(g[s \ {Max(s)}], q[Max(s)], text, old)
    <3>1. Max(s) \in 1 .. N /\ g[s \ {Max(s)}] \in S BY <2>1, <2>2, <2>3
    <3>2. q[Max(s)] = Max(s) BY <1>6, <3>1
    <3> QED BY <1>4, <3>1, <3>2
  <2>4. Eq(g)
    BY <2>1, <2>3
  <2> QED BY <2>4
<1>8. Eq(h) BY <1>7
<1>9. Folded(h, N, S, <<>>, step)
  <2>1. ASSUME NEW s \in SUBSET (1 .. N), s # {}, h[s \ {Max(s)}] \in S
        PROVE  h[s] = step[Max(s)][h[s \ {Max(s)}]]
    <3>1. Max(s) \in 1 .. N BY <1>1, <2>1, MaxOfSubset
    <3>2. h[s] = Scan(h[s \ {Max(s)}], q[Max(s)], text, old)
      <4> HIDE DEF h
      <4> QED BY <1>8, <2>1
    <3> HIDE DEF h
    <3> QED BY <1>4, <1>6, <2>1, <3>1, <3>2
  <2>2. h[{}] = <<>>
    <3>1. {} \in SUBSET (1 .. N) OBVIOUS
    <3> HIDE DEF h
    <3> QED BY <1>8, <3>1
  <2> HIDE DEF h
  <2> QED BY <2>1, <2>2 DEF Folded
<1> HIDE DEF h
<1>10. PICK f : Goes(f, N, S, <<>>, step, h[1 .. N]) BY <1>1, <1>2, <1>5, <1>9, FoldGoes
<1>11. ASSUME NEW n \in 1 .. N PROVE f[n] = Scan(f[n - 1], n, text, old)
  <2>1. n - 1 \in 0 .. N BY <1>1
  <2> QED BY <1>4, <1>10, <2>1 DEF Goes
<1> QED BY <1>1, <1>3, <1>10, <1>11 DEF Goes, S

Copies == [done : Texts, next : Nat \ {0}]

\* A copy goes on with new and behind old, at place i.
Copy(out, i, text, old, new) ==
  [done |-> out.done \o SubSeq(text, out.next, i - 1) \o new, next |-> i + Len(old)]

\* What is between two places of a text is a text, even if nothing is.
LEMMA TextBetween ==
  ASSUME NEW text \in Texts, NEW a \in Nat \ {0}, NEW b \in Int, b <= Len(text)
  PROVE  /\ SubSeq(text, a, b) \in Texts
         /\ Len(SubSeq(text, a, b)) = IF a <= b + 1 THEN b - a + 1 ELSE 0
<1>1. Len(text) \in Nat BY TextElement
<1>2. CASE a <= b + 1
  <2>1. PICK m \in Nat : m + 1 = a
    <3>1. a - 1 \in Nat /\ a - 1 + 1 = a OBVIOUS
    <3> QED BY <3>1
  <2>2. b \in m .. Len(text) BY <1>2, <2>1
  <2>3. SubSeq(text, m + 1, b) \in Texts /\ Len(SubSeq(text, m + 1, b)) = b - m BY <2>2, TextPart
  <2> QED BY <1>2, <2>1, <2>3
<1>3. CASE ~(a <= b + 1)
  <2>1. SubSeq(text, a, b) = <<>> BY <1>3
  <2> QED BY <1>3, <2>1, TextAppend DEF Texts
<1> QED BY <1>2, <1>3

\* Replaced, occurrence by occurrence.
LEMMA ReplacedGoes ==
  ASSUME NEW text \in Texts, NEW old \in Texts, NEW new \in Texts, NEW at \in Places,
         \A k \in 1 .. Len(at) : at[k] \in 1 .. Len(text) + 1
  PROVE  \E f \in [0 .. Len(at) -> Copies] :
           /\ f[0] = [done |-> <<>>, next |-> 1]
           /\ Replaced(text, old, new, at) =
                f[Len(at)].done \o SubSeq(text, f[Len(at)].next, Len(text))
           /\ \A k \in 1 .. Len(at) : f[k] = Copy(f[k - 1], at[k], text, old, new)
<1> DEFINE S == Copies
           N == Len(at)
           b == [done |-> <<>>, next |-> 1]
           step == [n \in 1 .. N |-> [v \in S |-> Copy(v, at[n], text, old, new)]]
           Eq(h) == h = [s \in SUBSET (1 .. N) |->
                           IF s = {} THEN b ELSE Copy(h[s \ {Max(s)}], at[Max(s)], text, old, new)]
           h == CHOOSE g : Eq(g)
<1>1. N \in Nat /\ DOMAIN at = 1 .. N BY DEF Places
<1>2. step \in [1 .. N -> [S -> S]]
  <2> SUFFICES ASSUME NEW n \in 1 .. N, NEW v \in S PROVE Copy(v, at[n], text, old, new) \in S
    OBVIOUS
  <2>1. v.done \in Texts /\ v.next \in Nat \ {0} BY DEF Copies
  <2>2. /\ at[n] \in Nat /\ at[n] - 1 \in Int /\ at[n] - 1 <= Len(text)
        /\ at[n] + Len(old) \in Nat \ {0}
    BY <1>1, TextElement
  <2>3. SubSeq(text, v.next, at[n] - 1) \in Texts BY <2>1, <2>2, TextBetween
  <2>4. v.done \o SubSeq(text, v.next, at[n] - 1) \o new \in Texts
    <3> SUFFICES ASSUME NEW x \in Texts PROVE v.done \o x \o new \in Texts BY <2>3
    <3>1. v.done \o x \in Texts BY <2>1, TextJoined
    <3> QED BY <3>1, TextJoined
  <2> QED BY <2>2, <2>4 DEF Copies, Copy
<1>3. Replaced(text, old, new, at) = h[1 .. N].done \o SubSeq(text, h[1 .. N].next, Len(text))
  BY <1>1 DEF Replaced, FoldLeft, MapThenFoldSet, Copy
<1>4. \A n \in 1 .. N : \A v \in S : step[n][v] = Copy(v, at[n], text, old, new)
  OBVIOUS
<1>5. b \in S
  <2>1. <<>> \in Texts /\ 1 \in Nat \ {0} BY DEF Texts
  <2> QED BY <2>1 DEF Copies
<1> HIDE DEF step, S, b
<1>7. \E g : Eq(g)
  <2>0. PICK g : IsFold(g, N, S, b, step)
    <3> HIDE DEF N, Eq
    <3> QED BY <1>1, <1>2, <1>5, FoldExists
  <2>1. /\ g \in [SUBSET (1 .. N) -> S]
        /\ g = [s \in SUBSET (1 .. N) |-> IF s = {} THEN b ELSE step[Max(s)][g[s \ {Max(s)}]]]
    BY <2>0 DEF IsFold
  <2>2. ASSUME NEW s \in SUBSET (1 .. N), s # {} PROVE Max(s) \in 1 .. N /\ s \ {Max(s)} \in SUBSET (1 .. N)
    BY <1>1, <2>2, MaxOfSubset
  <2>3. Eq(g)
    BY <1>4, <2>1, <2>2
  <2> QED BY <2>3
<1>8. Eq(h) BY <1>7
<1>9. Folded(h, N, S, b, step)
  <2>1. ASSUME NEW s \in SUBSET (1 .. N), s # {}, h[s \ {Max(s)}] \in S
        PROVE  h[s] = step[Max(s)][h[s \ {Max(s)}]]
    <3>1. Max(s) \in 1 .. N BY <1>1, <2>1, MaxOfSubset
    <3>2. h[s] = Copy(h[s \ {Max(s)}], at[Max(s)], text, old, new)
      <4> HIDE DEF h
      <4> QED BY <1>8, <2>1
    <3> HIDE DEF h, N
    <3> QED BY <1>4, <2>1, <3>1, <3>2
  <2>2. h[{}] = b
    <3>1. {} \in SUBSET (1 .. N) OBVIOUS
    <3> HIDE DEF h
    <3> QED BY <1>8, <3>1
  <2> HIDE DEF h, N
  <2> QED BY <2>1, <2>2 DEF Folded
<1> HIDE DEF h, N
<1>10. PICK f : Goes(f, N, S, b, step, h[1 .. N]) BY <1>1, <1>2, <1>5, <1>9, FoldGoes
<1>11. ASSUME NEW n \in 1 .. N PROVE f[n] = Copy(f[n - 1], at[n], text, old, new)
  <2>1. n - 1 \in 0 .. N BY <1>1
  <2> QED BY <1>4, <1>10, <2>1 DEF Goes
<1> QED BY <1>3, <1>10, <1>11 DEF Goes, S, N, b

\* Where the search for the next occurrence begins.
From(at, old, k) == IF k = 0 THEN 1 ELSE at[k] + Len(old)

\* Occurrence k is the first there.
FirstFrom(text, old, a, j) ==
  /\ a <= j /\ StartsAt(text, old, j)
  /\ \A i \in a .. j - 1 : ~StartsAt(text, old, i)

\* The places in at are all there are up to n.
FoundAt(text, old, n, at) ==
  /\ at \in Places
  /\ \A k \in 1 .. Len(at) : at[k] \in 1 .. n /\ FirstFrom(text, old, From(at, old, k - 1), at[k])
  /\ \A j \in 1 .. n : j >= From(at, old, Len(at)) => ~StartsAt(text, old, j)

\* The search goes on to the next place.
LEMMA ScanFinds ==
  ASSUME NEW text \in Texts, NEW old \in Texts, old # <<>>, NEW n \in Nat, NEW m \in Nat, m = n + 1,
         NEW at, FoundAt(text, old, n, at)
  PROVE  FoundAt(text, old, m, Scan(at, m, text, old))
<1> DEFINE N == Len(at)
           d == Len(old)
           a == From(at, old, N)
<1>0. at \in Places /\ N \in Nat /\ d \in Nat /\ d > 0
  <2>1. at \in Places BY DEF FoundAt
  <2>2. d # 0 BY EmptyText
  <2> QED BY <2>1, <2>2, TextElement DEF Places
<1>1. /\ \A k \in 1 .. N : at[k] \in 1 .. n /\ FirstFrom(text, old, From(at, old, k - 1), at[k])
      /\ \A j \in 1 .. n : j >= a => ~StartsAt(text, old, j)
  BY DEF FoundAt
<1>2. N # 0 => N \in 1 .. N /\ at[N] \in Nat /\ Last(at) = at[N] BY <1>0, <1>1 DEF Last
<1>3. a \in Nat /\ (at = <<>> <=> N = 0) /\ ((at = <<>> \/ Last(at) + d <= m) <=> a <= m)
  <2>1. at = <<>> <=> N = 0 BY <1>0 DEF Places
  <2>2. CASE N = 0 BY <2>1, <2>2 DEF From
  <2>3. CASE N # 0 BY <1>0, <1>2, <2>1, <2>3 DEF From
  <2> QED BY <2>1, <2>2, <2>3
<1>4. CASE StartsAt(text, old, m) /\ a <= m
  <2> DEFINE b == Append(at, m)
  <2>1. Scan(at, m, text, old) = b BY <1>3, <1>4 DEF Scan
  <2>2. b \in Places /\ Len(b) = N + 1 /\ b[N + 1] = m /\ \A k \in 1 .. N : b[k] = at[k]
    BY <1>0 DEF Places
  <2> HIDE DEF b
  <2>3. \A k \in 0 .. N : From(b, old, k) = From(at, old, k) BY <1>0, <2>2 DEF From
  <2>4. ASSUME NEW k \in 1 .. N
        PROVE  b[k] \in 1 .. m /\ FirstFrom(text, old, From(b, old, k - 1), b[k])
    <3>1. k - 1 \in 0 .. N BY <1>0
    <3>2. From(b, old, k - 1) = From(at, old, k - 1) /\ b[k] = at[k] BY <2>2, <2>3, <3>1
    <3> QED BY <1>1, <3>2
  <2>5. b[N + 1] \in 1 .. m /\ FirstFrom(text, old, From(b, old, N + 1 - 1), b[N + 1])
    <3>1. N + 1 - 1 = N /\ N \in 0 .. N BY <1>0
    <3>2. From(b, old, N + 1 - 1) = a BY <2>3, <3>1
    <3>3. \A i \in a .. m - 1 : ~StartsAt(text, old, i)
      <4> SUFFICES ASSUME NEW i \in a .. m - 1 PROVE ~StartsAt(text, old, i) OBVIOUS
      <4>0. a >= 1
        <5>1. CASE N = 0 BY <5>1 DEF From
        <5>2. CASE N # 0 BY <1>0, <1>2, <5>2 DEF From
        <5> QED BY <5>1, <5>2
      <4> HIDE DEF a
      <4>1. i \in 1 .. n /\ i >= a BY <1>3, <4>0
      <4> QED BY <1>1, <4>1
    <3> HIDE DEF a
    <3>4. FirstFrom(text, old, a, m) BY <1>4, <3>3 DEF FirstFrom
    <3>5. m \in 1 .. m OBVIOUS
    <3> QED BY <2>2, <3>2, <3>4, <3>5
  <2>6. \A j \in 1 .. m : ~(j >= From(b, old, N + 1))
    <3>1. N + 1 # 0 BY <1>0
    <3>2. From(b, old, N + 1) = m + d BY <2>2, <3>1 DEF From
    <3> QED BY <1>0, <3>2
  <2>7. \A k \in 1 .. N + 1 : b[k] \in 1 .. m /\ FirstFrom(text, old, From(b, old, k - 1), b[k])
    <3> SUFFICES ASSUME NEW k \in 1 .. N + 1
                 PROVE  b[k] \in 1 .. m /\ FirstFrom(text, old, From(b, old, k - 1), b[k])
      OBVIOUS
    <3>1. k \in 1 .. N \/ k = N + 1 BY <1>0
    <3> QED BY <2>4, <2>5, <3>1
  <2>8. FoundAt(text, old, m, b) BY <2>2, <2>6, <2>7 DEF FoundAt
  <2> QED BY <2>1, <2>8
<1>5. CASE ~(StartsAt(text, old, m) /\ a <= m)
  <2>1. Scan(at, m, text, old) = at BY <1>3, <1>5 DEF Scan
  <2>2. \A k \in 1 .. N : at[k] \in 1 .. m BY <1>1
  <2>3. ASSUME NEW j \in 1 .. m, j >= a PROVE ~StartsAt(text, old, j)
    <3> HIDE DEF a
    <3>1. j \in 1 .. n \/ j = m OBVIOUS
    <3>2. CASE j \in 1 .. n BY <1>1, <2>3, <3>2
    <3>3. CASE j = m BY <1>3, <1>5, <2>3, <3>3
    <3> QED BY <3>1, <3>2, <3>3
  <2>4. FoundAt(text, old, m, at) BY <1>0, <1>1, <2>2, <2>3 DEF FoundAt
  <2> QED BY <2>1, <2>4
<1> QED BY <1>4, <1>5

\* Found finds them all.
LEMMA FoundFinds ==
  ASSUME NEW text \in Texts, NEW old \in Texts, old # <<>>
  PROVE  FoundAt(text, old, LastPlace(text, old), Found(text, old))
<1> DEFINE N == LastPlace(text, old)
<1>1. PICK f \in [0 .. N -> Places] :
        /\ f[0] = <<>> /\ f[N] = Found(text, old)
        /\ \A n \in 1 .. N : f[n] = Scan(f[n - 1], n, text, old)
  BY FoundGoes
<1>2. N \in Nat BY FoundGoes
<1> HIDE DEF N
<1> DEFINE T == {n \in Nat : n <= N => FoundAt(text, old, n, f[n])}
<1>3. 0 \in T
  <2>1. f[0] = <<>> /\ Len(<<>>) = 0 /\ <<>> \in Places BY <1>1 DEF Places
  <2>2. FoundAt(text, old, 0, <<>>) BY <2>1 DEF FoundAt
  <2> QED BY <2>1, <2>2
<1>4. ASSUME NEW n \in Nat, n \in T PROVE n + 1 \in T
  <2>1. ASSUME NEW m \in Nat, m = n + 1, m <= N PROVE FoundAt(text, old, m, f[m])
    <3>1. n <= N /\ m \in 1 .. N /\ m - 1 = n BY <1>2, <2>1
    <3>2. FoundAt(text, old, n, f[n]) /\ f[m] = Scan(f[n], m, text, old) BY <1>1, <1>4, <3>1
    <3> QED BY <2>1, <3>2, ScanFinds
  <2> QED BY <2>1
<1>5. Nat \subseteq T
  <2> HIDE DEF T
  <2> QED BY <1>3, <1>4, Induction
<1> QED BY <1>1, <1>2, <1>5 DEF N

\* What Found returns are places in the text.
LEMMA FoundType ==
  ASSUME NEW text \in Texts, NEW old \in Texts, old # <<>>
  PROVE  /\ Found(text, old) \in Places
         /\ \A k \in 1 .. Len(Found(text, old)) : Found(text, old)[k] \in 1 .. LastPlace(text, old)
         /\ LastPlace(text, old) \in Nat /\ LastPlace(text, old) <= Len(text)
<1>1. Len(text) \in Nat /\ Len(old) \in Nat /\ Len(old) # 0 BY TextElement, EmptyText
<1>2. LastPlace(text, old) \in Nat /\ LastPlace(text, old) <= Len(text) BY <1>1 DEF LastPlace
<1> QED BY <1>2, FoundFinds DEF FoundAt

\* An edit makes a text of a text.
LEMMA ReplacedType ==
  ASSUME NEW text \in Texts, NEW old \in Texts, NEW new \in Texts, old # <<>>
  PROVE  Replaced(text, old, new, Found(text, old)) \in Texts
<1> DEFINE at == Found(text, old)
           N == Len(at)
<1>1. at \in Places /\ \A k \in 1 .. N : at[k] \in 1 .. Len(text) + 1
  <2> SUFFICES ASSUME NEW k \in 1 .. N PROVE at[k] \in 1 .. Len(text) + 1 BY FoundType
  <2>1. at[k] \in 1 .. LastPlace(text, old) BY FoundType
  <2>2. LastPlace(text, old) \in Nat /\ LastPlace(text, old) <= Len(text) BY FoundType
  <2> QED BY <2>1, <2>2, TextElement
<1> HIDE DEF at
<1>2. PICK f \in [0 .. N -> Copies] :
        Replaced(text, old, new, at) = f[N].done \o SubSeq(text, f[N].next, Len(text))
  BY <1>1, ReplacedGoes, ZenonT(30)
<1>3. N \in Nat
  <2>1. at \in Seq(Nat) BY <1>1 DEF Places
  <2> QED BY <2>1, ElementOf
<1>4. f[N].done \in Texts /\ f[N].next \in Nat \ {0}
  <2>1. N \in 0 .. N BY <1>3
  <2>2. f[N] \in Copies
    <3> HIDE DEF N
    <3> QED BY <1>2, <2>1
  <2>3. \A v \in Copies : v.done \in Texts /\ v.next \in Nat \ {0} BY DEF Copies
  <2> HIDE DEF N
  <2> QED BY <2>2, <2>3
<1>5. \A a \in Nat \ {0} : SubSeq(text, a, Len(text)) \in Texts
  <2>1. Len(text) \in Int /\ Len(text) <= Len(text) BY TextElement
  <2> QED BY <2>1, TextBetween
<1> QED BY <1>2, <1>4, <1>5, TextJoined DEF at

\* Putting texts together is associative.
LEMMA JoinedTwice ==
  ASSUME NEW a \in Texts, NEW b \in Texts, NEW c \in Texts
  PROVE  (a \o b) \o c = a \o (b \o c)
<1>1. Len(a) \in Nat /\ Len(b) \in Nat /\ Len(c) \in Nat BY TextElement
<1> DEFINE l == (a \o b) \o c
           r == a \o (b \o c)
<1>2. a \o b \in Texts /\ b \o c \in Texts BY TextJoined
<1>3. l \in Texts /\ r \in Texts /\ Len(l) = Len(a) + Len(b) + Len(c) /\ Len(r) = Len(l)
  BY <1>1, <1>2, TextJoined
<1>4. ASSUME NEW i \in 1 .. Len(l) PROVE l[i] = r[i]
  <2>1. CASE i \in 1 .. Len(a)
    <3>1. i \in 1 .. Len(a \o b) BY <1>1, <2>1, TextJoined
    <3>2. l[i] = (a \o b)[i] /\ r[i] = a[i] BY <1>2, <2>1, <3>1, TextJoined
    <3> QED BY <2>1, <3>2, TextJoined
  <2>2. ASSUME NEW k \in 1 .. Len(b), i = Len(a) + k PROVE l[i] = r[i]
    <3>1. i \in 1 .. Len(a \o b) /\ k \in 1 .. Len(b \o c) BY <1>1, <2>2, TextJoined
    <3>2. l[i] = (a \o b)[i] /\ r[i] = (b \o c)[k] BY <1>2, <2>2, <3>1, TextJoined
    <3> QED BY <2>2, <3>2, TextJoined
  <2>3. ASSUME NEW k \in 1 .. Len(c), i = Len(a) + Len(b) + k PROVE l[i] = r[i]
    <3>1. i = Len(a \o b) + k BY <1>1, <2>3, TextJoined
    <3>2. l[i] = c[k] BY <1>2, <3>1, TextJoined
    <3>3. PICK m \in Nat : m = Len(b) + k BY <1>1
    <3>4. i = Len(a) + m /\ m \in 1 .. Len(b \o c) BY <1>1, <2>3, <3>3, TextJoined
    <3>5. r[i] = (b \o c)[m] BY <1>2, <3>4, TextJoined
    <3> QED BY <3>2, <3>3, <3>5, TextJoined
  <2>4. \/ i \in 1 .. Len(a)
        \/ \E k \in 1 .. Len(b) : i = Len(a) + k
        \/ \E k \in 1 .. Len(c) : i = Len(a) + Len(b) + k
    <3> HIDE DEF l, r
    <3>1. i \in Nat /\ i >= 1 /\ i <= Len(a) + Len(b) + Len(c) BY <1>1, <1>3
    <3>2. CASE i > Len(a) /\ i <= Len(a) + Len(b)
      <4>1. i - Len(a) \in 1 .. Len(b) /\ i = Len(a) + (i - Len(a)) BY <1>1, <3>1, <3>2
      <4> QED BY <4>1
    <3>3. CASE i > Len(a) + Len(b)
      <4>1. i - (Len(a) + Len(b)) \in 1 .. Len(c) /\ i = Len(a) + Len(b) + (i - (Len(a) + Len(b)))
        BY <1>1, <3>1, <3>3
      <4> QED BY <4>1
    <3> QED BY <1>1, <3>1, <3>2, <3>3
  <2> HIDE DEF l, r
  <2> QED BY <2>1, <2>2, <2>3, <2>4
<1> HIDE DEF l, r
<1>5. l = r BY <1>3, <1>4, SameText DEF Texts
<1> QED BY <1>5 DEF l, r

\* Nothing and a text, put together.
LEMMA JoinedNothing ==
  ASSUME NEW a \in Texts
  PROVE  <<>> \o a = a
BY DEF Texts

\* What the recursion of an edit is: go on behind each stop, or end.
Restful(g, M, next, pre) ==
  g = [i \in 1 .. M |-> IF next[i] = 0 THEN pre[i] ELSE pre[i] \o g[next[i]]]

\* There is such a function: the one that EditOf chooses.
LEMMA RestExists ==
  ASSUME NEW M \in Nat, NEW next \in [1 .. M -> Nat], NEW pre,
         \A i \in 1 .. M : next[i] # 0 => next[i] \in i + 1 .. M
  PROVE  \E g : Restful(g, M, next, pre)
<1> DEFINE Body(g, i) == IF next[i] = 0 THEN pre[i] ELSE pre[i] \o g[next[i]]
           OK(n, g) == /\ g = [i \in 1 .. M |-> g[i]]
                       /\ \A i \in 1 .. M : M - n < i => g[i] = Body(g, i)
           T == {n \in Nat : n <= M => \E g : OK(n, g)}
<1>1. 0 \in T
  <2> DEFINE g == [i \in 1 .. M |-> 0]
  <2>1. \A i \in 1 .. M : ~(M - 0 < i) OBVIOUS
  <2>2. g = [i \in 1 .. M |-> g[i]] OBVIOUS
  <2> HIDE DEF g
  <2>3. OK(0, g) BY <2>1, <2>2
  <2> HIDE DEF OK
  <2> QED BY <2>3
<1>2. ASSUME NEW n \in Nat, n \in T, n + 1 <= M PROVE \E g : OK(n + 1, g)
  <2>1. PICK g : OK(n, g)
    <3> HIDE DEF OK
    <3> QED BY <1>2
  <2>2. PICK m \in 1 .. M : m = M - n
    <3>1. M - n \in 1 .. M BY <1>2
    <3> QED BY <3>1
  <2> DEFINE h == [i \in 1 .. M |-> IF i = m THEN Body(g, m) ELSE g[i]]
  <2>3. \A i \in 1 .. M : i # m => h[i] = g[i] OBVIOUS
  <2>4. ASSUME NEW i \in 1 .. M, M - (n + 1) < i PROVE h[i] = Body(h, i)
    <3>1. i >= m BY <1>2, <2>2, <2>4
    <3>2. CASE next[i] = 0
      <4>1. CASE i = m BY <3>2, <4>1
      <4>2. CASE i # m
        <5>1. M - n < i BY <2>2, <3>1, <4>2
        <5>2. g[i] = pre[i] BY <2>1, <3>2, <5>1
        <5> QED BY <2>3, <3>2, <4>2, <5>2
      <4> QED BY <4>1, <4>2
    <3>3. CASE next[i] # 0
      <4>1. next[i] \in 1 .. M /\ next[i] # m BY <3>1, <3>3
      <4>2. h[next[i]] = g[next[i]] BY <2>3, <4>1
      <4>3. CASE i = m BY <3>3, <4>2, <4>3
      <4>4. CASE i # m
        <5>1. M - n < i BY <2>2, <3>1, <4>4
        <5>2. g[i] = pre[i] \o g[next[i]] BY <2>1, <3>3, <5>1
        <5> QED BY <2>3, <3>3, <4>2, <4>4, <5>2
      <4> QED BY <4>3, <4>4
    <3> QED BY <3>2, <3>3
  <2>5. h = [i \in 1 .. M |-> h[i]] OBVIOUS
  <2>6. OK(n + 1, h) BY <2>4, <2>5
  <2> HIDE DEF OK, h
  <2> QED BY <2>6
<1> HIDE DEF OK
<1>3. Nat \subseteq T
  <2>1. \A n \in Nat : n \in T => n + 1 \in T BY <1>2
  <2> HIDE DEF T
  <2> QED BY <1>1, <2>1, Induction
<1>4. PICK g : OK(M, g) BY <1>3
<1>5. g = [i \in 1 .. M |-> g[i]] /\ \A i \in 1 .. M : g[i] = Body(g, i)
  <2>1. \A i \in 1 .. M : M - M < i OBVIOUS
  <2> QED BY <1>4, <2>1 DEF OK
<1>6. g = [i \in 1 .. M |-> Body(g, i)] BY <1>5
<1> QED BY <1>6 DEF Restful

\* The occurrences of old from i on, and the first of them.
Occurs(text, old, i) == {j \in i .. Len(text) - Len(old) + 1 : StartsAt(text, old, j)}
First(text, old, i) == CHOOSE j \in Occurs(text, old, i) : \A k \in Occurs(text, old, i) : j <= k

\* What an edit makes of the text from i on, with g what it makes of the rest.
EditBody(text, old, new, all, g, i) ==
  IF Occurs(text, old, i) = {} THEN SubSeq(text, i, Len(text))
  ELSE SubSeq(text, i, First(text, old, i) - 1) \o new \o
       (IF all THEN g[First(text, old, i) + Len(old)]
        ELSE SubSeq(text, First(text, old, i) + Len(old), Len(text)))

\* Some numbers have a least.
LEMMA LeastNumber ==
  ASSUME NEW D \in SUBSET Nat, D # {}
  PROVE  \E x \in D : \A y \in D : x <= y
<1> DEFINE R == OpToRel(<, Nat)
<1>1. IsWellFoundedOn(R, Nat) BY NatLessThanWellFounded
<1> HIDE DEF R
<1>2. PICK x \in D : \A y \in D : ~(<<y, x>> \in R) BY <1>1, WFMin
<1>3. ASSUME NEW y \in D PROVE x <= y
  <2>1. x \in Nat /\ y \in Nat /\ ~(<<y, x>> \in R) BY <1>2
  <2>2. y < x => <<y, x>> \in R BY <2>1 DEF R, OpToRel
  <2> QED BY <2>1, <2>2
<1> QED BY <1>3

\* Where old occurs, it has a first occurrence.
LEMMA FirstOccurs ==
  ASSUME NEW text \in Texts, NEW old \in Texts, NEW i \in Nat, Occurs(text, old, i) # {}
  PROVE  /\ First(text, old, i) \in Occurs(text, old, i)
         /\ \A k \in Occurs(text, old, i) : First(text, old, i) <= k
<1> DEFINE D == Occurs(text, old, i)
<1>1. D \in SUBSET Nat
  <2>1. Len(text) \in Nat /\ Len(old) \in Nat BY TextElement
  <2> QED BY <2>1 DEF Occurs
<1> HIDE DEF D
<1>2. \E x \in D : \A y \in D : x <= y
  <2>1. D # {} BY DEF D
  <2> QED BY <1>1, <2>1, LeastNumber
<1> QED BY <1>2 DEF First, D

\* An occurrence that none precedes is the first.
LEMMA FirstIs ==
  ASSUME NEW text \in Texts, NEW old \in Texts, NEW i \in Nat, NEW j \in Nat,
         FirstFrom(text, old, i, j), j <= LastPlace(text, old), j # 0
  PROVE  Occurs(text, old, i) # {} /\ First(text, old, i) = j
<1>1. Len(text) \in Nat /\ Len(old) \in Nat BY TextElement
<1>2. j \in Occurs(text, old, i) BY <1>1 DEF FirstFrom, LastPlace, Occurs
<1> DEFINE f == First(text, old, i)
<1>3. f \in Occurs(text, old, i) /\ f <= j BY <1>2, FirstOccurs
<1>4. f \in Nat /\ f >= i /\ StartsAt(text, old, f) BY <1>1, <1>3 DEF Occurs
<1> HIDE DEF f
<1>5. f \notin i .. j - 1 BY <1>4 DEF FirstFrom
<1>6. f = j BY <1>3, <1>4, <1>5
<1> QED BY <1>2, <1>6 DEF f

\* EditOf, occurrence by occurrence.
LEMMA EditUnfolds ==
  ASSUME NEW text \in Texts, NEW old \in Texts, NEW new \in Texts, NEW all \in BOOLEAN, old # <<>>
  PROVE  \E rest : /\ EditOf(text, old, new, all) = rest[1]
                   /\ \A i \in 1 .. Len(text) + 1 :
                        rest[i] = EditBody(text, old, new, all, rest, i)
<1> DEFINE M == Len(text) + 1
           Eq(g) == g = [i \in 1 .. M |-> EditBody(text, old, new, all, g, i)]
           rest == CHOOSE g : Eq(g)
<1>1. Len(text) \in Nat /\ Len(old) \in Nat /\ Len(old) # 0 BY TextElement, EmptyText
<1>2. EditOf(text, old, new, all) = rest[1]
  BY DEF EditOf, EditBody, Occurs, First
<1>3. \E g : Eq(g)
  <2>1. CASE all
    <3> DEFINE next == [i \in 1 .. M |-> IF Occurs(text, old, i) = {} THEN 0
                                         ELSE First(text, old, i) + Len(old)]
               pre == [i \in 1 .. M |-> IF Occurs(text, old, i) = {} THEN SubSeq(text, i, Len(text))
                                        ELSE SubSeq(text, i, First(text, old, i) - 1) \o new]
    <3>1. ASSUME NEW i \in 1 .. M, Occurs(text, old, i) # {}
          PROVE  First(text, old, i) + Len(old) \in i + 1 .. M
      <4>1. First(text, old, i) \in i .. Len(text) - Len(old) + 1
        BY <1>1, <3>1, FirstOccurs DEF Occurs
      <4> QED BY <1>1, <4>1
    <3>2. next \in [1 .. M -> Nat] /\ \A i \in 1 .. M : next[i] # 0 => next[i] \in i + 1 .. M
      BY <1>1, <3>1
    <3>3. M \in Nat BY <1>1
    <3>4. PICK g : Restful(g, M, next, pre)
      <4> HIDE DEF M, next, pre
      <4> QED BY <3>2, <3>3, RestExists
    <3>5. g = [i \in 1 .. M |-> IF next[i] = 0 THEN pre[i] ELSE pre[i] \o g[next[i]]]
      BY <3>4 DEF Restful
    <3>6. ASSUME NEW i \in 1 .. M
          PROVE  (IF next[i] = 0 THEN pre[i] ELSE pre[i] \o g[next[i]])
                   = EditBody(text, old, new, all, g, i)
      <4>1. CASE Occurs(text, old, i) = {} BY <4>1 DEF EditBody
      <4>2. CASE Occurs(text, old, i) # {}
        <5>1. First(text, old, i) + Len(old) # 0 BY <1>1, <3>1, <4>2
        <5> QED BY <2>1, <4>2, <5>1 DEF EditBody
      <4> QED BY <4>1, <4>2
    <3> HIDE DEF next, pre, M
    <3>7. Eq(g) BY <3>5, <3>6
    <3> QED BY <3>7
  <2>2. CASE ~all
    <3> DEFINE g == [i \in 1 .. M |-> EditBody(text, old, new, all, <<>>, i)]
    <3>1. \A i \in 1 .. M : \A h : EditBody(text, old, new, all, <<>>, i) = EditBody(text, old, new, all, h, i)
      BY <2>2 DEF EditBody
    <3>2. Eq(g) BY <3>1
    <3> QED BY <3>2
  <2> QED BY <2>1, <2>2
<1>4. Eq(rest)
  <2> HIDE DEF Eq
  <2> QED BY <1>3
<1> HIDE DEF rest
<1>5. \A i \in 1 .. M : rest[i] = EditBody(text, old, new, all, rest, i) BY <1>4
<1> HIDE DEF Eq
<1> QED BY <1>2, <1>5

\* Four texts, put together.
LEMMA JoinedFour ==
  ASSUME NEW x \in Texts, NEW s \in Texts, NEW y \in Texts, NEW r \in Texts
  PROVE  /\ (x \o s \o y) \o r = x \o (s \o y \o r)
         /\ s \o y \o r \in Texts /\ <<>> \o s \o y = s \o y
<1>0. x \o s \in Texts /\ s \o y \in Texts /\ y \o r \in Texts BY TextJoined
<1>1. s \o y \o r \in Texts BY <1>0, TextJoined
<1>2. (x \o s \o y) \o r = (x \o s) \o (y \o r)
  <2> SUFFICES ASSUME NEW a \in Texts PROVE (a \o y) \o r = a \o (y \o r) BY <1>0, Zenon
  <2> QED BY JoinedTwice
<1>3. (x \o s) \o (y \o r) = x \o (s \o (y \o r))
  <2> SUFFICES ASSUME NEW a \in Texts PROVE (x \o s) \o a = x \o (s \o a) BY <1>0, Zenon
  <2> QED BY JoinedTwice, ZenonT(30)
<1>4. s \o (y \o r) = s \o y \o r BY JoinedTwice, ZenonT(30)
<1>5. <<>> \o s = s BY JoinedNothing
<1> QED BY <1>1, <1>2, <1>3, <1>4, <1>5

\* Three texts and two, put together.
IsJoin(d, a, b, c) == d = a \o b \o c
IsPair(d, a, b) == d = a \o b

\* A copy up to an occurrence, with what an edit makes of the rest.
LEMMA JoinStep ==
  ASSUME NEW x \in Texts, NEW s \in Texts, NEW y \in Texts, NEW r \in Texts,
         NEW d, IsJoin(d, x, s, y), NEW t, IsJoin(t, s, y, r), NEW z, IsPair(z, d, r)
  PROVE  t \in Texts /\ IsPair(z, x, t)
<1>1. d = x \o s \o y /\ t = s \o y \o r /\ z = d \o r BY DEF IsJoin, IsPair
<1>2. s \o y \o r \in Texts BY JoinedFour, Zenon
<1>3. (x \o s \o y) \o r = x \o (s \o y \o r)
  <2>1. x \o s \in Texts /\ y \o r \in Texts BY TextJoined
  <2>2. (x \o s \o y) \o r = (x \o s) \o (y \o r)
    <3> SUFFICES ASSUME NEW a \in Texts PROVE (a \o y) \o r = a \o (y \o r) BY <2>1, Zenon
    <3> QED BY JoinedTwice
  <2>3. (x \o s) \o (y \o r) = x \o (s \o (y \o r))
    <3> SUFFICES ASSUME NEW a \in Texts PROVE (x \o s) \o a = x \o (s \o a) BY <2>1, Zenon
    <3> QED BY JoinedTwice, ZenonT(30)
  <2>4. s \o (y \o r) = s \o y \o r BY JoinedTwice, ZenonT(30)
  <2> QED BY <2>2, <2>3, <2>4, Zenon
<1> QED BY <1>1, <1>2, <1>3, Zenon DEF IsPair

\* The copies that bytes.Replace goes through.
CopiesGo(f, text, old, new, at) ==
  /\ f \in [0 .. Len(at) -> Copies]
  /\ f[0] = [done |-> <<>>, next |-> 1]
  /\ Replaced(text, old, new, at) = f[Len(at)].done \o SubSeq(text, f[Len(at)].next, Len(text))
  /\ \A k \in 1 .. Len(at) : f[k] = Copy(f[k - 1], at[k], text, old, new)

\* Replaced goes through such copies.
LEMMA CopiesExist ==
  ASSUME NEW text \in Texts, NEW old \in Texts, NEW new \in Texts, NEW at \in Places,
         \A k \in 1 .. Len(at) : at[k] \in 1 .. Len(text) + 1
  PROVE  \E f : CopiesGo(f, text, old, new, at)
<1>1. PICK f \in [0 .. Len(at) -> Copies] :
        /\ f[0] = [done |-> <<>>, next |-> 1]
        /\ Replaced(text, old, new, at) = f[Len(at)].done \o SubSeq(text, f[Len(at)].next, Len(text))
        /\ \A k \in 1 .. Len(at) : f[k] = Copy(f[k - 1], at[k], text, old, new)
  BY ReplacedGoes, ZenonT(30)
<1> QED BY <1>1 DEF CopiesGo

\* What a copy has, and where it goes on.
LEMMA CopyFields ==
  ASSUME NEW out, NEW i, NEW text, NEW old, NEW new, NEW copy, copy = Copy(out, i, text, old, new)
  PROVE  /\ copy.next = i + Len(old)
         /\ IsJoin(copy.done, out.done, SubSeq(text, out.next, i - 1), new)
BY DEF Copy, IsJoin

\* A search begins in the text or at its end.
LEMMA FromType ==
  ASSUME NEW text \in Texts, NEW old \in Texts, old # <<>>, NEW at, at = Found(text, old),
         NEW k \in 0 .. Len(at)
  PROVE  /\ From(at, old, k) \in 1 .. Len(text) + 1
         /\ k # 0 => From(at, old, k) = at[k] + Len(old)
<1>1. /\ at \in Places /\ \A n \in 1 .. Len(at) : at[n] \in 1 .. LastPlace(text, old)
      /\ Len(text) \in Nat /\ Len(old) \in Nat
  BY FoundType, TextElement
<1>2. CASE k = 0 BY <1>1, <1>2 DEF From
<1>3. CASE k # 0
  <2>1. Len(at) \in Nat BY <1>1, ElementOf DEF Places
  <2>2. k \in 1 .. Len(at) BY <1>3, <2>1
  <2>3. at[k] \in 1 .. LastPlace(text, old) BY <1>1, <2>2
  <2> QED BY <1>1, <1>3, <2>3 DEF From, LastPlace
<1> QED BY <1>2, <1>3

\* What an edit looks for next is what Found has next, and in the end nothing.
LEMMA FoundInOrder ==
  ASSUME NEW text \in Texts, NEW old \in Texts, old # <<>>, NEW at, at = Found(text, old)
  PROVE  /\ \A k \in 1 .. Len(at) : /\ Occurs(text, old, From(at, old, k - 1)) # {}
                                    /\ First(text, old, From(at, old, k - 1)) = at[k]
         /\ Occurs(text, old, From(at, old, Len(at))) = {}
<1>1. FoundAt(text, old, LastPlace(text, old), at) BY FoundFinds
<1>2. /\ at \in Places /\ Len(at) \in Nat
      /\ Len(text) \in Nat /\ Len(old) \in Nat
  BY <1>1, TextElement, ElementOf DEF FoundAt, Places
<1>3. ASSUME NEW k \in 1 .. Len(at)
      PROVE  /\ Occurs(text, old, From(at, old, k - 1)) # {}
             /\ First(text, old, From(at, old, k - 1)) = at[k]
  <2>1. k - 1 \in 0 .. Len(at) BY <1>2
  <2>2. From(at, old, k - 1) \in Nat BY <1>2, <2>1, FromType
  <2>3. at[k] \in 1 .. LastPlace(text, old) /\ FirstFrom(text, old, From(at, old, k - 1), at[k])
    BY <1>1 DEF FoundAt
  <2>4. LastPlace(text, old) \in Nat BY FoundType
  <2>5. at[k] \in Nat /\ at[k] # 0 /\ at[k] <= LastPlace(text, old) BY <2>3, <2>4
  <2> QED BY <2>2, <2>3, <2>5, FirstIs
<1>4. Occurs(text, old, From(at, old, Len(at))) = {}
  <2> DEFINE a == From(at, old, Len(at))
  <2>1. a \in 1 .. Len(text) + 1 /\ Len(at) \in 0 .. Len(at) BY <1>2, FromType
  <2>2. \A j \in 1 .. LastPlace(text, old) : j >= a => ~StartsAt(text, old, j) BY <1>1 DEF FoundAt
  <2> HIDE DEF a
  <2>3. ASSUME NEW j \in a .. Len(text) - Len(old) + 1 PROVE ~StartsAt(text, old, j)
    <3>1. j \in 1 .. LastPlace(text, old) /\ j >= a BY <1>2, <2>1 DEF LastPlace
    <3> QED BY <2>2, <3>1
  <2>4. Occurs(text, old, a) = {} BY <2>3 DEF Occurs
  <2> QED BY <2>4 DEF a
<1> QED BY <1>3, <1>4

\* editTask writes the text an edit should make.
LEMMA EditIsReplaced ==
  ASSUME NEW text \in Texts, NEW old \in Texts, NEW new \in Texts, NEW all \in BOOLEAN,
         old # <<>>, all \/ Len(Found(text, old)) = 1
  PROVE  Replaced(text, old, new, Found(text, old)) = EditOf(text, old, new, all)
<1> SUFFICES ASSUME NEW at, at = Found(text, old), NEW N, N = Len(at), NEW L, L = Len(text)
             PROVE  Replaced(text, old, new, at) = EditOf(text, old, new, all)
  OBVIOUS
<1> DEFINE F(k) == From(at, old, k)
<1>1. /\ at \in Places /\ N \in Nat /\ L \in Nat
      /\ \A k \in 1 .. N : at[k] \in 1 .. LastPlace(text, old)
      /\ LastPlace(text, old) \in Nat /\ LastPlace(text, old) <= L
  BY FoundType, TextElement, ElementOf DEF Places
<1>2. \A k \in 0 .. N : F(k) \in 1 .. L + 1 /\ (k # 0 => F(k) = at[k] + Len(old))
  BY FromType
<1>3. /\ \A k \in 1 .. N : Occurs(text, old, F(k - 1)) # {} /\ First(text, old, F(k - 1)) = at[k]
      /\ Occurs(text, old, F(N)) = {}
  BY FoundInOrder
<1>4. F(0) = 1 BY DEF From
<1>5. PICK f \in [0 .. N -> Copies] :
        /\ f[0] = [done |-> <<>>, next |-> 1]
        /\ Replaced(text, old, new, at) = f[N].done \o SubSeq(text, f[N].next, L)
        /\ \A k \in 1 .. N : f[k] = Copy(f[k - 1], at[k], text, old, new)
  <2>1. \A k \in 1 .. Len(at) : at[k] \in 1 .. Len(text) + 1 BY <1>1
  <2>2. at \in Places BY <1>1
  <2>3. PICK f : CopiesGo(f, text, old, new, at) BY <2>1, <2>2, CopiesExist
  <2> QED BY <2>3 DEF CopiesGo
<1>6. \A k \in 0 .. N : f[k].done \in Texts
  BY <1>5 DEF Copies
<1> HIDE DEF F
<1>7. ASSUME NEW k \in 0 .. N PROVE f[k].next = F(k)
  <2>1. CASE k = 0 BY <1>4, <1>5, <2>1
  <2>2. CASE k # 0
    <3>1. k \in 1 .. N BY <1>1, <2>2
    <3>2. f[k] = Copy(f[k - 1], at[k], text, old, new) BY <1>5, <3>1
    <3>3. f[k].next = at[k] + Len(old) BY <3>2, CopyFields
    <3> QED BY <1>2, <2>2, <3>3
  <2> QED BY <2>1, <2>2
<1>8. PICK rest : /\ EditOf(text, old, new, all) = rest[1]
                  /\ \A i \in 1 .. L + 1 : rest[i] = EditBody(text, old, new, all, rest, i)
  BY EditUnfolds
<1> DEFINE S(k) == SubSeq(text, F(k - 1), at[k] - 1)
           Remainder(k) == SubSeq(text, F(k), L)
<1>9. ASSUME NEW k \in 1 .. N
      PROVE  /\ S(k) \in Texts /\ IsJoin(f[k].done, f[k - 1].done, S(k), new)
             /\ rest[F(k - 1)] = S(k) \o new \o (IF all THEN rest[F(k)] ELSE Remainder(k))
             /\ k - 1 \in 0 .. N
  <2>1. k - 1 \in 0 .. N /\ k \in 0 .. N /\ k # 0 BY <1>1
  <2>2. f[k - 1].next = F(k - 1) BY <1>7, <2>1
  <2>3. IsJoin(f[k].done, f[k - 1].done, S(k), new)
    <3>1. f[k] = Copy(f[k - 1], at[k], text, old, new) BY <1>5
    <3>2. IsJoin(f[k].done, f[k - 1].done, SubSeq(text, f[k - 1].next, at[k] - 1), new)
      BY <3>1, CopyFields
    <3> QED BY <2>2, <3>2
  <2>4. F(k - 1) \in Nat \ {0} /\ F(k - 1) \in 1 .. L + 1 BY <1>1, <1>2, <2>1
  <2>5. at[k] - 1 \in Int /\ at[k] - 1 <= L BY <1>1
  <2>6. S(k) \in Texts BY <2>4, <2>5, TextBetween
  <2>7. F(k) = at[k] + Len(old) BY <1>2, <2>1
  <2>8. rest[F(k - 1)] = S(k) \o new \o (IF all THEN rest[F(k)] ELSE Remainder(k))
    BY <1>3, <1>8, <2>4, <2>7, ZenonT(30) DEF EditBody
  <2> HIDE DEF S, Remainder
  <2> QED BY <2>1, <2>3, <2>6, <2>8
<1>10. ASSUME NEW k \in 0 .. N PROVE Remainder(k) \in Texts
  <2>1. F(k) \in Nat \ {0} /\ L \in Int /\ L <= Len(text) BY <1>1, <1>2
  <2> QED BY <2>1, TextBetween
<1>11. Replaced(text, old, new, at) = f[N].done \o Remainder(N)
  <2>1. N \in 0 .. N BY <1>1
  <2>2. f[N].next = F(N) BY <1>7, <2>1
  <2> QED BY <1>5, <2>2
<1>12. rest[F(N)] = Remainder(N)
  <2>1. F(N) \in 1 .. L + 1 BY <1>1, <1>2
  <2> QED BY <1>3, <1>8, <2>1 DEF EditBody
<1> HIDE DEF S, Remainder
<1>13. CASE all
  <2> DEFINE T == {n \in Nat : \A k \in 0 .. N : k = N - n =>
                     rest[F(k)] \in Texts /\ IsPair(Replaced(text, old, new, at), f[k].done, rest[F(k)])}
  <2>1. 0 \in T
    <3>1. \A k \in 0 .. N : k = N - 0 => k = N BY <1>1
    <3> QED BY <1>1, <1>10, <1>11, <1>12, <3>1 DEF IsPair
  <2>2. ASSUME NEW n \in Nat, n \in T, NEW m \in 0 .. N, m = N - (n + 1)
        PROVE  rest[F(m)] \in Texts /\ IsPair(Replaced(text, old, new, at), f[m].done, rest[F(m)])
    <3>1. PICK k \in 1 .. N : k = N - n /\ k - 1 = m
      <4>1. N - n \in 1 .. N /\ N - n - 1 = m BY <1>1, <2>2
      <4> QED BY <4>1
    <3>2. rest[F(k)] \in Texts /\ IsPair(Replaced(text, old, new, at), f[k].done, rest[F(k)])
      <4>1. k \in 0 .. N BY <1>1
      <4> QED BY <2>2, <3>1, <4>1
    <3>3. /\ S(k) \in Texts /\ IsJoin(f[k].done, f[m].done, S(k), new)
      BY <1>9, <3>1
    <3>4. f[m].done \in Texts BY <1>6
    <3>5. IsJoin(rest[F(m)], S(k), new, rest[F(k)]) BY <1>9, <1>13, <3>1 DEF IsJoin
    <3> QED BY <3>2, <3>3, <3>4, <3>5, JoinStep
  <2>3. Nat \subseteq T
    <3>1. ASSUME NEW n \in Nat, n \in T PROVE n + 1 \in T
      <4>1. ASSUME NEW k \in 0 .. N, k = N - (n + 1)
            PROVE  rest[F(k)] \in Texts /\ IsPair(Replaced(text, old, new, at), f[k].done, rest[F(k)])
        <5> HIDE DEF T
        <5> QED BY <2>2, <3>1, <4>1
      <4> QED BY <4>1
    <3> HIDE DEF T
    <3> QED BY <2>1, <3>1, Induction
  <2>4. 0 \in 0 .. N /\ 0 = N - N BY <1>1
  <2>5. rest[F(0)] \in Texts /\ IsPair(Replaced(text, old, new, at), f[0].done, rest[F(0)])
    BY <1>1, <2>3, <2>4
  <2>6. f[0].done = <<>> BY <1>5
  <2> QED BY <1>4, <1>8, <2>5, <2>6, JoinedNothing DEF IsPair
<1>14. CASE ~all
  <2>1. N = 1 /\ 1 \in 1 .. N /\ 1 - 1 = 0 BY <1>14
  <2>2. IsJoin(f[1].done, f[0].done, S(1), new) /\ S(1) \in Texts BY <1>9, <2>1
  <2>3. rest[F(0)] = S(1) \o new \o Remainder(1) BY <1>9, <1>14, <2>1
  <2>4. f[1].done = <<>> \o S(1) \o new BY <1>5, <2>2 DEF IsJoin
  <2>5. f[1].done = S(1) \o new BY <2>2, <2>4, JoinedFour
  <2> QED BY <1>4, <1>8, <1>11, <2>1, <2>3, <2>5
<1> QED BY <1>13, <1>14

=============================================================================

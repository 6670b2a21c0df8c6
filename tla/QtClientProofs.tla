---------------------------- MODULE QtClientProofs ----------------------------
(***************************************************************************)
(* What QtClient shows is what the server answered, for every set of lines *)
(* and any number of them.                                                 *)
(*                                                                         *)
(* The argument follows the stream: what was shown, then what has arrived, *)
(* then what is under way.  A server that serves has said exactly what     *)
(* belongs to the lines it read, and the lines it did not read are those   *)
(* on their way; afterwards the stream can only lose its end.              *)
(*                                                                         *)
(* The first part is about FlattenSeq, for any sequences.                  *)
(***************************************************************************)
EXTENDS QtClient, SequenceTheorems, WellFoundedInduction, TLAPS

-------------------------------------------------------------------------------
(* A nonempty set of naturals has a least element.                         *)
LEMMA LeastOf ==
    ASSUME NEW S \in SUBSET Nat, S # {}
    PROVE  \E n \in S : \A k \in S : n <= k
  <1>. DEFINE Less == {ss \in Nat \X Nat : ss[1] < ss[2]}
  <1>1. IsWellFoundedOn(Less, Nat)
    BY NatLessThanWellFounded DEF OpToRel
  <1>2. PICK x \in S : \A y \in S : ~ (<<y, x>> \in Less)
    <2>. HIDE DEF Less
    <2>. QED
      BY <1>1, WFMin
  <1>3. \A y \in S : x <= y
    <2>. SUFFICES ASSUME NEW y \in S PROVE x <= y
      OBVIOUS
    <2>1. <<y, x>> \in Nat \X Nat /\ <<y, x>>[1] = y /\ <<y, x>>[2] = x
      OBVIOUS
    <2>2. ~ (y < x)
      BY <1>2, <2>1
    <2>. QED
      BY <2>2
  <1>. QED
    BY <1>3

(* The beginnings of ss, joined: what FlattenSeq computes on its way.      *)
Joins(f, ss, n) ==
    /\ f = [i \in 1..n |-> f[i]]
    /\ \A i \in 1..n : f[i] = IF i = 1 THEN ss[i] ELSE f[i - 1] \o ss[i]

LEMMA JoinsExist ==
    ASSUME NEW ss, NEW n \in Nat
    PROVE  \E f : Joins(f, ss, n)
  <1>. DEFINE Without == {k \in Nat : ~ \E f : Joins(f, ss, k)}
  <1>. SUFFICES ASSUME Without # {} PROVE FALSE
    OBVIOUS
  <1>1. PICK k \in Without : \A j \in Without : k <= j
    <2>1. Without \in SUBSET Nat
      OBVIOUS
    <2>. HIDE DEF Without
    <2>. QED
      BY <2>1, LeastOf
  <1>2. CASE k = 0
    <2>. DEFINE f == [i \in 1..0 |-> ss]
    <2>1. Joins(f, ss, 0)
      BY DEF Joins
    <2>. QED
      BY <1>2, <2>1
  <1>3. CASE k # 0
    <2>1. k - 1 \in Nat /\ k - 1 \notin Without
      BY <1>1, <1>3
    <2>2. PICK f : Joins(f, ss, k - 1)
      BY <2>1
    <2>. DEFINE g == [i \in 1..k |-> IF i < k THEN f[i]
                                     ELSE IF k = 1 THEN ss[k] ELSE f[k - 1] \o ss[k]]
    <2>3. ASSUME NEW i \in 1..k
          PROVE  g[i] = IF i = 1 THEN ss[i] ELSE g[i - 1] \o ss[i]
      <3>1. CASE i < k
        <4>1. i \in 1 .. k - 1 /\ g[i] = f[i]
          BY <3>1
        <4>2. i # 1 => g[i - 1] = f[i - 1]
          BY <3>1
        <4>. HIDE DEF g
        <4>. QED
          BY <2>2, <4>1, <4>2 DEF Joins
      <3>2. CASE i = k
        <4>1. k # 1 => g[k - 1] = f[k - 1]
          BY <1>3
        <4>2. g[k] = IF k = 1 THEN ss[k] ELSE f[k - 1] \o ss[k]
          BY <1>3
        <4>. HIDE DEF g
        <4>. QED
          BY <3>2, <4>1, <4>2
      <3>. QED
        BY <3>1, <3>2
    <2>4. g = [i \in 1..k |-> g[i]]
      OBVIOUS
    <2>5. Joins(g, ss, k)
      <3>. HIDE DEF g
      <3>. QED
        BY <2>3, <2>4 DEF Joins
    <2>. QED
      BY <2>5
  <1>. QED
    BY <1>2, <1>3

(* FlattenSeq joins all of them.                                           *)
LEMMA FlattenJoins ==
    ASSUME NEW T, NEW ss \in Seq(Seq(T)), ss # <<>>
    PROVE  \E f \in [1..Len(ss) -> Seq(T)] :
              Joins(f, ss, Len(ss)) /\ FlattenSeq(ss) = f[Len(ss)]
  <1>. DEFINE n == Len(ss)
              f == CHOOSE f : f = [i \in 1..n |-> IF i = 1 THEN ss[i] ELSE f[i - 1] \o ss[i]]
  <1>1. n \in Nat /\ n # 0
    BY EmptySeq, LenProperties
  <1>2. FlattenSeq(ss) = f[n]
    BY <1>1 DEF FlattenSeq
  <1>3. PICK g : Joins(g, ss, n)
    BY <1>1, JoinsExist
  <1>4. g = [i \in 1..n |-> IF i = 1 THEN ss[i] ELSE g[i - 1] \o ss[i]]
    BY <1>3 DEF Joins
  <1>5. f = [i \in 1..n |-> IF i = 1 THEN ss[i] ELSE f[i - 1] \o ss[i]]
    <2>. HIDE DEF n
    <2>. QED
      BY <1>4
  <1>. HIDE DEF f
  <1>6. Joins(f, ss, n)
    BY <1>5 DEF Joins
  <1>7. \A i \in 1..n : f[i] \in Seq(T)
    <2>. DEFINE Bad == {i \in 1..n : f[i] \notin Seq(T)}
    <2>. SUFFICES ASSUME Bad # {} PROVE FALSE
      OBVIOUS
    <2>1. PICK k \in Bad : \A j \in Bad : k <= j
      <3>1. Bad \in SUBSET Nat
        BY <1>1
      <3>. HIDE DEF Bad
      <3>. QED
        BY <3>1, LeastOf
    <2>2. ss[k] \in Seq(T)
      BY <1>1, ElementOfSeq
    <2>3. CASE k = 1
      BY <1>6, <2>1, <2>2, <2>3 DEF Joins
    <2>4. CASE k # 1
      <3>1. k - 1 \in 1..n /\ k - 1 \notin Bad
        BY <1>1, <2>1, <2>4
      <3>2. f[k - 1] \in Seq(T)
        BY <3>1
      <3>3. f[k] = f[k - 1] \o ss[k]
        BY <1>6, <2>1, <2>4 DEF Joins
      <3>. QED
        BY ZenonT(40), <2>1, <2>2, <3>2, <3>3, ConcatProperties
    <2>. QED
      BY <2>3, <2>4
  <1>8. f \in [1..n -> Seq(T)]
    BY <1>5, <1>7
  <1>. QED
    BY <1>2, <1>6, <1>8

LEMMA FlattenEmpty == FlattenSeq(<<>>) = <<>>
  BY DEF FlattenSeq

(* One more sequence is joined to what there was. *)
LEMMA FlattenAppend ==
    ASSUME NEW T, NEW ss \in Seq(Seq(T)), NEW e \in Seq(T)
    PROVE  /\ FlattenSeq(ss) \in Seq(T)
           /\ FlattenSeq(Append(ss, e)) = FlattenSeq(ss) \o e
  <1>. DEFINE tt == Append(ss, e)
              n == Len(ss)
  <1>1. /\ n \in Nat
        /\ tt \in Seq(Seq(T)) /\ tt # <<>> /\ Len(tt) = n + 1
        /\ \A i \in 1..n : tt[i] = ss[i]
        /\ tt[n + 1] = e
    BY AppendProperties, LenProperties
  <1>. HIDE DEF tt
  <1>2. PICK g \in [1 .. n + 1 -> Seq(T)] :
            Joins(g, tt, n + 1) /\ FlattenSeq(tt) = g[n + 1]
    BY <1>1, FlattenJoins
  <1>3. CASE ss = <<>>
    <2>1. FlattenSeq(tt) = e
      BY <1>1, <1>2, <1>3 DEF Joins
    <2>. QED
      BY <1>3, <2>1, FlattenEmpty, EmptySeq, ConcatEmptySeq DEF tt
  <1>4. CASE ss # <<>>
    <2>0. n # 0
      BY <1>4, EmptySeq
    <2>1. PICK f \in [1..n -> Seq(T)] : Joins(f, ss, n) /\ FlattenSeq(ss) = f[n]
      BY <1>4, FlattenJoins
    <2>2. \A i \in 1..n : f[i] = g[i]
      <3>. DEFINE Bad == {i \in 1..n : f[i] # g[i]}
      <3>. SUFFICES ASSUME Bad # {} PROVE FALSE
        OBVIOUS
      <3>1. PICK k \in Bad : \A j \in Bad : k <= j
        <4>1. Bad \in SUBSET Nat
          BY <1>1
        <4>. HIDE DEF Bad
        <4>. QED
          BY <4>1, LeastOf
      <3>2. k \in 1..n /\ k \in 1 .. n + 1 /\ f[k] # g[k]
        BY <1>1
      <3>3. k # 1 => f[k - 1] = g[k - 1]
        <4>1. k # 1 => k - 1 \in 1..n /\ ~(k <= k - 1)
          BY <1>1, <3>2
        <4>. QED
          BY <3>1, <4>1
      <3>4. f[k] = IF k = 1 THEN ss[k] ELSE f[k - 1] \o ss[k]
        BY <2>1, <3>2 DEF Joins
      <3>5. g[k] = IF k = 1 THEN tt[k] ELSE g[k - 1] \o tt[k]
        BY <1>2, <3>2 DEF Joins
      <3>6. ss[k] = tt[k]
        BY <1>1, <3>2
      <3>. QED
        BY <3>2, <3>3, <3>4, <3>5, <3>6
    <2>3. g[n + 1] = g[n] \o e
      <3>1. n + 1 \in 1 .. n + 1 /\ n + 1 # 1 /\ (n + 1) - 1 = n
        BY <1>1, <2>0
      <3>2. g[n + 1] = g[(n + 1) - 1] \o tt[n + 1]
        BY <1>2, <3>1 DEF Joins
      <3>. QED
        BY <1>1, <3>1, <3>2
    <2>4. f[n] = g[n] /\ f[n] \in Seq(T)
      BY <1>1, <2>0, <2>1, <2>2
    <2>. QED
      BY <1>2, <2>1, <2>3, <2>4 DEF tt
  <1>. QED
    BY <1>3, <1>4

LEMMA Regroup ==
    ASSUME NEW T, NEW x \in Seq(T), NEW y \in Seq(T), NEW z \in Seq(T)
    PROVE  (x \o y) \o z = x \o (y \o z) /\ y \o z \in Seq(T)
  <1>1. (x \o y) \o z = x \o (y \o z)
    BY ConcatAssociative
  <1>2. y \o z \in Seq(T)
    BY ConcatProperties
  <1>. QED
    BY <1>1, <1>2

LEMMA JoinAppend ==
    ASSUME NEW T, NEW x \in Seq(T), NEW y \in Seq(T), NEW e \in T
    PROVE  x \o Append(y, e) = Append(x \o y, e) /\ x \o y \in Seq(T)
  <1>1. x \o y \in Seq(T)
    BY ConcatProperties
  <1>2. Append(y, e) = y \o <<e>> /\ <<e>> \in Seq(T)
    BY AppendIsConcat
  <1>3. Append(x \o y, e) = (x \o y) \o <<e>>
    BY <1>1, AppendIsConcat
  <1>. QED
    BY <1>1, <1>2, <1>3, Regroup

(* What is joined first is at the beginning. *)
LEMMA FlattenExtends ==
    ASSUME NEW T, NEW ss \in Seq(Seq(T)), NEW tt \in Seq(Seq(T))
    PROVE  \E z \in Seq(T) : FlattenSeq(ss \o tt) = FlattenSeq(ss) \o z
  <1>. DEFINE Fails(t) == ~ \E z \in Seq(T) : FlattenSeq(ss \o t) = FlattenSeq(ss) \o z
              Bad == {n \in Nat : \E t \in Seq(Seq(T)) : Len(t) = n /\ Fails(t)}
  <1>. SUFFICES ASSUME Bad # {} PROVE FALSE
    BY LenProperties
  <1>1. PICK k \in Bad : \A j \in Bad : k <= j
    <2>1. Bad \in SUBSET Nat
      OBVIOUS
    <2>. HIDE DEF Bad
    <2>. QED
      BY <2>1, LeastOf
  <1>2. PICK t \in Seq(Seq(T)) : Len(t) = k /\ Fails(t)
    OBVIOUS
  <1>3. FlattenSeq(ss) \in Seq(T) /\ <<>> \in Seq(T)
    BY FlattenAppend, EmptySeq
  <1>4. t # <<>>
    <2>1. ss \o <<>> = ss /\ FlattenSeq(ss) \o <<>> = FlattenSeq(ss)
      BY <1>3, ConcatEmptySeq
    <2>. QED
      BY <1>2, <1>3, <2>1
  <1>5. PICK u \in Seq(Seq(T)), e \in Seq(T) : t = Append(u, e)
    BY <1>4, SequenceEmptyOrAppend
  <1>6. Len(u) \in Nat /\ Len(u) < k
    BY <1>2, <1>5, LenProperties, AppendProperties
  <1>7. ~Fails(u)
    <2>1. Len(u) \notin Bad
      <3>1. k \in Nat /\ ~(k <= Len(u))
        BY <1>6
      <3>. HIDE DEF Bad
      <3>. QED
        BY <1>1, <3>1
    <2>. QED
      BY <1>6, <2>1
  <1>8. PICK z \in Seq(T) : FlattenSeq(ss \o u) = FlattenSeq(ss) \o z
    BY <1>7
  <1>9. ss \o t = Append(ss \o u, e) /\ ss \o u \in Seq(Seq(T))
    <2>. DEFINE Elts == Seq(T)
    <2>1. ss \in Seq(Elts) /\ u \in Seq(Elts) /\ e \in Elts
      OBVIOUS
    <2>. HIDE DEF Elts
    <2>2. ss \o Append(u, e) = Append(ss \o u, e) /\ ss \o u \in Seq(Elts)
      BY <2>1, JoinAppend, Zenon
    <2>. QED
      BY <1>5, <2>2 DEF Elts
  <1>10. FlattenSeq(ss \o t) = (FlattenSeq(ss) \o z) \o e
    BY <1>8, <1>9, FlattenAppend
  <1>11. FlattenSeq(ss \o t) = FlattenSeq(ss) \o (z \o e) /\ z \o e \in Seq(T)
    <2>. DEFINE joined == FlattenSeq(ss)
    <2>1. joined \in Seq(T)
      BY <1>3
    <2>. HIDE DEF joined
    <2>2. (joined \o z) \o e = joined \o (z \o e) /\ z \o e \in Seq(T)
      BY <2>1, Regroup, Zenon
    <2>. QED
      BY <1>10, <2>2 DEF joined
  <1>. QED
    BY <1>2, <1>11
-------------------------------------------------------------------------------
(* The words of this client's lines, and what the server says to them.     *)
Sendable == Line \cup {"quit"}

Piece == [of : Sendable \cup {"welcome", "thanks", "good-bye"}, ends : BOOLEAN]

PiecesOf(w) == [i \in DOMAIN w |-> Pieces(w[i])]

(* The greeting, and every line of w sent back. *)
Told(w) == <<Said("welcome")>> \o FlattenSeq(PiecesOf(w))

LEMMA PiecesType ==
    ASSUME NEW l \in Sendable
    PROVE  Pieces(l) \in Seq(Piece)
  <1>1. [of |-> l, ends |-> TRUE] \in Piece /\ [of |-> l, ends |-> FALSE] \in Piece
    BY DEF Piece
  <1>. QED
    BY <1>1 DEF Pieces

LEMMA SaidType ==
    /\ Said("welcome") \in Piece
    /\ \A x \in Farewell : x \in Piece
  BY DEF Said, Piece, Farewell

LEMMA JoinPieces ==
    ASSUME NEW x \in Seq(Piece), NEW y \in Seq(Piece)
    PROVE  x \o y \in Seq(Piece)
  BY ConcatProperties

LEMMA RegroupPieces ==
    ASSUME NEW x \in Seq(Piece), NEW y \in Seq(Piece), NEW z \in Seq(Piece)
    PROVE  (x \o y) \o z = x \o (y \o z)
  BY ConcatAssociative

LEMMA PiecesOfType ==
    ASSUME NEW w \in Seq(Sendable)
    PROVE  /\ PiecesOf(w) \in Seq(Seq(Piece))
           /\ Len(PiecesOf(w)) = Len(w)
           /\ \A i \in 1..Len(w) : PiecesOf(w)[i] = Pieces(w[i])
  <1>1. Len(w) \in Nat /\ DOMAIN w = 1..Len(w)
    BY LenProperties
  <1>2. \A i \in 1..Len(w) : Pieces(w[i]) \in Seq(Piece)
    BY ElementOfSeq, PiecesType
  <1>3. PiecesOf(w) = [i \in 1..Len(w) |-> Pieces(w[i])]
    BY <1>1 DEF PiecesOf
  <1>. QED
    BY <1>1, <1>2, <1>3

LEMMA ToldEmpty == Told(<<>>) = <<Said("welcome")>>
  <1>1. PiecesOf(<<>>) = <<>>
    BY DEF PiecesOf
  <1>2. <<Said("welcome")>> \in Seq(Piece)
    BY SaidType
  <1>. QED
    BY <1>1, <1>2, FlattenEmpty, ConcatEmptySeq DEF Told

LEMMA ToldAppend ==
    ASSUME NEW w \in Seq(Sendable), NEW l \in Sendable
    PROVE  /\ Told(w) \in Seq(Piece)
           /\ Told(Append(w, l)) = Told(w) \o Pieces(l)
  <1>1. PiecesOf(w) \in Seq(Seq(Piece)) /\ Pieces(l) \in Seq(Piece)
    BY PiecesOfType, PiecesType
  <1>2. Append(w, l) \in Seq(Sendable) /\ Len(Append(w, l)) = Len(w) + 1
    BY AppendProperties
  <1>3. PiecesOf(Append(w, l)) = Append(PiecesOf(w), Pieces(l))
    <2>. DEFINE a == PiecesOf(Append(w, l))
                b == Append(PiecesOf(w), Pieces(l))
    <2>1. a \in Seq(Seq(Piece)) /\ Len(a) = Len(w) + 1
          /\ \A i \in 1 .. Len(w) + 1 : a[i] = Pieces(Append(w, l)[i])
      BY <1>2, PiecesOfType
    <2>2. /\ b \in Seq(Seq(Piece)) /\ Len(b) = Len(w) + 1
          /\ \A i \in 1 .. Len(w) : b[i] = PiecesOf(w)[i]
          /\ b[Len(w) + 1] = Pieces(l)
      BY <1>1, PiecesOfType, AppendProperties
    <2>3. \A i \in 1 .. Len(w) : b[i] = Pieces(w[i]) /\ Append(w, l)[i] = w[i]
      BY <2>2, PiecesOfType, AppendProperties
    <2>4. Append(w, l)[Len(w) + 1] = l /\ Len(w) \in Nat
      BY AppendProperties, LenProperties
    <2>. HIDE DEF a, b
    <2>5. \A i \in 1 .. Len(w) + 1 : a[i] = b[i]
      <3>. SUFFICES ASSUME NEW i \in 1 .. Len(w) + 1 PROVE a[i] = b[i]
        OBVIOUS
      <3>1. a[i] = Pieces(Append(w, l)[i])
        BY <2>1
      <3>2. CASE i = Len(w) + 1
        <4>1. Append(w, l)[i] = l /\ b[i] = Pieces(l)
          BY <2>2, <2>4, <3>2
        <4>. QED
          BY <3>1, <4>1
      <3>3. CASE i # Len(w) + 1
        <4>1. i \in 1 .. Len(w)
          BY <2>4, <3>3
        <4>2. b[i] = Pieces(w[i]) /\ Append(w, l)[i] = w[i]
          BY <2>3, <4>1
        <4>. QED
          BY <3>1, <4>2
      <3>. QED
        BY <3>2, <3>3
    <2>6. a = b
      BY <2>1, <2>2, <2>5, SeqEqual
    <2>. QED
      BY <2>6 DEF a, b
  <1>4. FlattenSeq(PiecesOf(w)) \in Seq(Piece)
        /\ FlattenSeq(PiecesOf(Append(w, l))) = FlattenSeq(PiecesOf(w)) \o Pieces(l)
    BY <1>1, <1>3, FlattenAppend
  <1>5. <<Said("welcome")>> \in Seq(Piece)
    BY SaidType
  <1>. DEFINE hi == <<Said("welcome")>>
              joined == FlattenSeq(PiecesOf(w))
              more == Pieces(l)
  <1>6. hi \in Seq(Piece) /\ joined \in Seq(Piece) /\ more \in Seq(Piece)
    BY <1>1, <1>4, <1>5
  <1>7. Told(w) = hi \o joined /\ Told(Append(w, l)) = hi \o (joined \o more)
    BY <1>4 DEF Told
  <1>. HIDE DEF hi, joined, more
  <1>8. (hi \o joined) \o more = hi \o (joined \o more)
    BY <1>6, RegroupPieces
  <1>9. hi \o joined \in Seq(Piece)
    BY <1>6, JoinPieces
  <1>. QED
    BY <1>7, <1>8, <1>9 DEF more

LEMMA ToldExtends ==
    ASSUME NEW w \in Seq(Sendable), NEW r \in Seq(Sendable)
    PROVE  \E z \in Seq(Piece) : Told(w \o r) = Told(w) \o z
  <1>1. PiecesOf(w) \in Seq(Seq(Piece)) /\ PiecesOf(r) \in Seq(Seq(Piece))
    BY PiecesOfType
  <1>2. w \o r \in Seq(Sendable) /\ Len(w \o r) = Len(w) + Len(r)
    BY ConcatProperties
  <1>3. PiecesOf(w \o r) = PiecesOf(w) \o PiecesOf(r)
    <2>. DEFINE a == PiecesOf(w \o r)
                b == PiecesOf(w) \o PiecesOf(r)
    <2>0. Len(w) \in Nat /\ Len(r) \in Nat
      BY LenProperties
    <2>1. a \in Seq(Seq(Piece)) /\ Len(a) = Len(w) + Len(r)
          /\ \A i \in 1 .. Len(w) + Len(r) : a[i] = Pieces((w \o r)[i])
      BY <1>2, PiecesOfType
    <2>2. b \in Seq(Seq(Piece)) /\ Len(b) = Len(w) + Len(r)
          /\ \A i \in 1 .. Len(w) + Len(r) :
                b[i] = IF i <= Len(w) THEN PiecesOf(w)[i] ELSE PiecesOf(r)[i - Len(w)]
      <3>. DEFINE c == PiecesOf(w)
                  d == PiecesOf(r)
      <3>1. c \in Seq(Seq(Piece)) /\ d \in Seq(Seq(Piece))
        BY <1>1
      <3>2. Len(c) = Len(w) /\ Len(d) = Len(r)
        BY PiecesOfType
      <3>. HIDE DEF c, d
      <3>3. c \o d \in Seq(Seq(Piece)) /\ Len(c \o d) = Len(c) + Len(d)
            /\ \A i \in 1 .. Len(c) + Len(d) :
                  (c \o d)[i] = IF i <= Len(c) THEN c[i] ELSE d[i - Len(c)]
        BY <3>1, ConcatProperties, Zenon
      <3>. QED
        BY <3>2, <3>3 DEF c, d
    <2>3. \A i \in 1 .. Len(w) + Len(r) :
            (w \o r)[i] = IF i <= Len(w) THEN w[i] ELSE r[i - Len(w)]
      BY ConcatProperties
    <2>4. /\ \A i \in 1..Len(w) : PiecesOf(w)[i] = Pieces(w[i])
          /\ \A i \in 1..Len(r) : PiecesOf(r)[i] = Pieces(r[i])
      BY PiecesOfType
    <2>. HIDE DEF a, b
    <2>5. \A i \in 1 .. Len(w) + Len(r) : a[i] = b[i]
      <3>. SUFFICES ASSUME NEW i \in 1 .. Len(w) + Len(r) PROVE a[i] = b[i]
        OBVIOUS
      <3>0. a[i] = Pieces((w \o r)[i])
        BY <2>1
      <3>1. CASE i <= Len(w)
        <4>1. i \in 1..Len(w)
          BY <2>0, <3>1
        <4>2. (w \o r)[i] = w[i] /\ b[i] = PiecesOf(w)[i]
          BY <2>2, <2>3, <3>1
        <4>3. PiecesOf(w)[i] = Pieces(w[i])
          BY <2>4, <4>1
        <4>. QED
          BY <3>0, <4>2, <4>3
      <3>2. CASE ~ (i <= Len(w))
        <4>1. i - Len(w) \in 1..Len(r)
          BY <2>0, <3>2
        <4>2. (w \o r)[i] = r[i - Len(w)] /\ b[i] = PiecesOf(r)[i - Len(w)]
          BY <2>2, <2>3, <3>2
        <4>3. PiecesOf(r)[i - Len(w)] = Pieces(r[i - Len(w)])
          BY <2>4, <4>1
        <4>. QED
          BY <3>0, <4>2, <4>3
      <3>. QED
        BY <3>1, <3>2
    <2>6. a = b
      BY <2>1, <2>2, <2>5, SeqEqual
    <2>. QED
      BY <2>6 DEF a, b
  <1>4. PICK z \in Seq(Piece) :
            FlattenSeq(PiecesOf(w \o r)) = FlattenSeq(PiecesOf(w)) \o z
    <2>1. \E z \in Seq(Piece) :
            FlattenSeq(PiecesOf(w) \o PiecesOf(r)) = FlattenSeq(PiecesOf(w)) \o z
      BY <1>1, FlattenExtends, Zenon
    <2>. QED
      BY <1>3, <2>1
  <1>. DEFINE hi == <<Said("welcome")>>
              joined == FlattenSeq(PiecesOf(w))
  <1>5. hi \in Seq(Piece) /\ joined \in Seq(Piece)
    <2>1. <<>> \in Seq(Piece)
      BY EmptySeq
    <2>. QED
      BY <1>1, <2>1, SaidType, FlattenAppend
  <1>6. Told(w) = hi \o joined /\ Told(w \o r) = hi \o (joined \o z)
    BY <1>4 DEF Told
  <1>. HIDE DEF hi, joined
  <1>7. (hi \o joined) \o z = hi \o (joined \o z)
    BY <1>5, RegroupPieces
  <1>. QED
    BY <1>6, <1>7

-------------------------------------------------------------------------------
(* What the server said is right for the lines wr that were written, of    *)
(* which ts are under way: while it serves the stream s is exactly what    *)
(* the lines it read call for, and later a beginning of that and of at     *)
(* most one farewell.                                                      *)
Farewells == {<<>>} \cup {<<x>> : x \in Farewell}

SaidRightly(wr, ts, sv, s) ==
    \E w \in Seq(Sendable), rest \in Seq(Sendable) :
        /\ wr = w \o rest
        /\ sv = "serving" => ts = rest /\ s = Told(w)
        /\ \E f \in Farewells, u \in Seq(Piece) : s \o u = Told(w) \o f

LEMMA FarewellsType == ASSUME NEW f \in Farewells PROVE f \in Seq(Piece)
  <1>1. <<>> \in Seq(Piece)
    BY EmptySeq
  <1>2. \A x \in Farewell : <<x>> \in Seq(Piece)
    BY SaidType
  <1>. QED
    BY <1>1, <1>2 DEF Farewells

LEMMA ToldType == ASSUME NEW w \in Seq(Sendable) PROVE Told(w) \in Seq(Piece)
  <1>1. "quit" \in Sendable
    BY DEF Sendable
  <1>. QED
    BY <1>1, ToldAppend

(* Nobody has said more than what is still to come. *)
LEMMA SilenceIsRight ==
    ASSUME NEW wr \in Seq(Sendable), NEW ts, NEW sv, sv # "serving"
    PROVE  SaidRightly(wr, ts, sv, <<>>)
  <1>1. <<>> \in Seq(Sendable) /\ wr = <<>> \o wr
    BY EmptySeq, ConcatEmptySeq
  <1>2. Told(<<>>) \in Seq(Piece)
    BY <1>1, ToldType
  <1>3. <<>> \o Told(<<>>) = Told(<<>>) \o <<>>
    BY <1>2, ConcatEmptySeq
  <1>4. <<>> \in Farewells
    BY DEF Farewells
  <1>. QED
    BY <1>1, <1>2, <1>3, <1>4 DEF SaidRightly

LEMMA GreetingIsRight ==
    ASSUME NEW wr \in Seq(Sendable)
    PROVE  SaidRightly(wr, wr, "serving", <<Said("welcome")>>)
  <1>1. <<>> \in Seq(Sendable) /\ wr = <<>> \o wr
    BY EmptySeq, ConcatEmptySeq
  <1>2. Told(<<>>) = <<Said("welcome")>>
    BY ToldEmpty
  <1>3. <<>> \in Farewells /\ <<>> \in Seq(Piece)
    BY EmptySeq DEF Farewells
  <1>. QED
    BY <1>1, <1>2, <1>3 DEF SaidRightly

LEMMA SendingIsRight ==
    ASSUME NEW wr, NEW ts, NEW sv, NEW s, NEW l \in Sendable,
           SaidRightly(wr, ts, sv, s)
    PROVE  SaidRightly(Append(wr, l), Append(ts, l), sv, s)
  <1>1. PICK w \in Seq(Sendable), rest \in Seq(Sendable) :
            /\ wr = w \o rest
            /\ sv = "serving" => ts = rest /\ s = Told(w)
            /\ \E f \in Farewells, u \in Seq(Piece) : s \o u = Told(w) \o f
    BY DEF SaidRightly
  <1>2. Append(rest, l) \in Seq(Sendable)
    BY AppendProperties
  <1>3. Append(wr, l) = w \o Append(rest, l)
    <2>1. <<l>> \in Seq(Sendable) /\ w \o rest \in Seq(Sendable)
      BY ConcatProperties
    <2>2. Append(rest, l) = rest \o <<l>>
      BY AppendIsConcat
    <2>3. Append(w \o rest, l) = (w \o rest) \o <<l>>
      BY <2>1, AppendIsConcat
    <2>4. (w \o rest) \o <<l>> = w \o (rest \o <<l>>)
      BY <2>1, ConcatAssociative
    <2>. QED
      BY <1>1, <2>2, <2>3, <2>4
  <1>4. sv = "serving" => Append(ts, l) = Append(rest, l) /\ s = Told(w)
    BY <1>1
  <1>. QED
    BY <1>1, <1>2, <1>3, <1>4 DEF SaidRightly

(* A line that is served moves from what is under way to what was read.    *)
LEMMA ServingIsRight ==
    ASSUME NEW wr, NEW ts, NEW s, ts # <<>>,
           SaidRightly(wr, ts, "serving", s)
    PROVE  SaidRightly(wr, Tail(ts), "serving", s \o Pieces(Head(ts)))
  <1>1. PICK w \in Seq(Sendable), rest \in Seq(Sendable) :
            wr = w \o rest /\ ts = rest /\ s = Told(w)
    BY DEF SaidRightly
  <1>. DEFINE l == Head(rest)
              t == Tail(rest)
  <1>2. l \in Sendable /\ t \in Seq(Sendable) /\ rest = <<l>> \o t
    BY <1>1, HeadTailProperties
  <1>. HIDE DEF l, t
  <1>3. Append(w, l) \in Seq(Sendable) /\ Append(w, l) = w \o <<l>> /\ <<l>> \in Seq(Sendable)
    BY <1>2, AppendProperties, AppendIsConcat
  <1>4. wr = Append(w, l) \o t
    <2>1. (w \o <<l>>) \o t = w \o (<<l>> \o t)
      BY <1>2, <1>3, ConcatAssociative
    <2>. QED
      BY <1>1, <1>2, <1>3, <2>1
  <1>5. Told(Append(w, l)) = s \o Pieces(l)
    BY <1>1, <1>2, ToldAppend
  <1>6. <<>> \in Farewells /\ <<>> \in Seq(Piece)
    BY EmptySeq DEF Farewells
  <1>7. SaidRightly(wr, t, "serving", s \o Pieces(l))
    BY <1>3, <1>4, <1>5, <1>6, <1>2 DEF SaidRightly
  <1>. QED
    BY <1>1, <1>7 DEF l, t

LEMMA FarewellIsRight ==
    ASSUME NEW wr, NEW ts, NEW after, NEW s, NEW x \in Farewell,
           SaidRightly(wr, ts, "serving", s)
    PROVE  SaidRightly(wr, after, "closed", s \o <<x>>)
  <1>1. PICK w \in Seq(Sendable), rest \in Seq(Sendable) :
            wr = w \o rest /\ s = Told(w)
    BY DEF SaidRightly
  <1>2. <<x>> \in Farewells /\ <<x>> \in Seq(Piece) /\ <<>> \in Seq(Piece)
    BY SaidType, EmptySeq DEF Farewells
  <1>3. Told(w) \o <<x>> \in Seq(Piece)
    BY <1>2, ToldType, JoinPieces
  <1>4. (s \o <<x>>) \o <<>> = Told(w) \o <<x>>
    BY <1>1, <1>3, ConcatEmptySeq
  <1>. QED
    BY <1>1, <1>2, <1>4 DEF SaidRightly

(* What is lost is the end of the stream. *)
LEMMA LosingIsRight ==
    ASSUME NEW wr, NEW ts, NEW after, NEW sv, NEW s \in Seq(Piece), NEW t \in Seq(Piece),
           SaidRightly(wr, ts, sv, s \o t)
    PROVE  SaidRightly(wr, after, "none", s)
  <1>1. PICK w \in Seq(Sendable), rest \in Seq(Sendable), f \in Farewells, u \in Seq(Piece) :
            wr = w \o rest /\ (s \o t) \o u = Told(w) \o f
    BY DEF SaidRightly
  <1>2. (s \o t) \o u = s \o (t \o u)
    BY RegroupPieces
  <1>3. t \o u \in Seq(Piece)
    BY JoinPieces
  <1>. QED
    BY <1>1, <1>2, <1>3 DEF SaidRightly

-------------------------------------------------------------------------------
(* The invariant. *)
ClientTypes ==
    /\ TypeOK
    /\ shown \in Seq(Piece) /\ buffer \in Seq(Piece) /\ toClient \in Seq(Piece)

(* Nothing is left of a connection that is closed, and nothing was said on *)
(* one that is not open yet. *)
NothingLeft ==
    socket = "unconnected" =>
        server = "none" /\ toServer = <<>> /\ toClient = <<>> /\ buffer = <<>>

NothingSaid ==
    socket = "connecting" =>
        /\ server = "none" /\ toServer = written
        /\ toClient = <<>> /\ buffer = <<>> /\ shown = <<>>

Stream == shown \o (buffer \o toClient)

StreamIsRight == SaidRightly(written, toServer, server, Stream)

ClientInv == ClientTypes /\ NothingLeft /\ NothingSaid /\ StreamIsRight

LEMMA InitClientInv == Init => ClientInv
  <1>. SUFFICES ASSUME Init PROVE ClientInv
    OBVIOUS
  <1>. USE DEF Init
  <1>1. ClientTypes
    BY EmptySeq DEF ClientTypes, TypeOK
  <1>2. NothingLeft /\ NothingSaid
    BY DEF NothingLeft, NothingSaid
  <1>3. StreamIsRight
    <2>1. Stream = <<>> /\ <<>> \in Seq(Sendable)
      BY EmptySeq, ConcatEmptySeq DEF Stream
    <2>. QED
      BY <2>1, SilenceIsRight DEF StreamIsRight
  <1>. QED
    BY <1>1, <1>2, <1>3 DEF ClientInv

(* A line that is written joins those under way. *)
LEMMA SendKeepsClientInv ==
    ASSUME ClientInv, NEW l \in Sendable, Send(l),
           UNCHANGED <<socket, server, toClient, buffer, shown>>
    PROVE  /\ toServer' \in Seq(Sendable) /\ written' \in Seq(Sendable)
           /\ NothingLeft' /\ NothingSaid' /\ StreamIsRight'
  <1>1. toServer \in Seq(Sendable) /\ written \in Seq(Sendable)
    BY DEF ClientInv, ClientTypes, TypeOK, Sendable
  <1>2. Stream' = Stream /\ SaidRightly(written, toServer, server, Stream)
    BY DEF ClientInv, StreamIsRight, Stream
  <1>3. CASE socket = "unconnected"
    <2>1. UNCHANGED <<toServer, written>>
      BY <1>3 DEF Send
    <2>2. NothingLeft' /\ NothingSaid'
      BY <1>3, <2>1 DEF ClientInv, NothingLeft, NothingSaid
    <2>. QED
      BY <1>1, <1>2, <2>1, <2>2 DEF StreamIsRight
  <1>4. CASE socket # "unconnected"
    <2>1. toServer' = Append(toServer, l) /\ written' = Append(written, l)
      BY <1>4 DEF Send
    <2>2. toServer' \in Seq(Sendable) /\ written' \in Seq(Sendable)
      BY <1>1, <2>1, AppendProperties
    <2>3. SaidRightly(written', toServer', server, Stream)
      BY <1>2, <2>1, SendingIsRight
    <2>4. NothingLeft' /\ NothingSaid'
      BY <1>4, <2>1 DEF ClientInv, NothingLeft, NothingSaid
    <2>. QED
      BY <1>2, <2>2, <2>3, <2>4 DEF StreamIsRight
  <1>. QED
    BY <1>3, <1>4

(* What was shown of it remains of a connection that is closed. *)
LEMMA ClosingKeepsClientInv ==
    ASSUME ClientInv, SocketClosed, UNCHANGED <<written, shown>>
    PROVE  /\ toServer' = <<>> /\ shown' \in Seq(Piece)
           /\ buffer' = <<>> /\ toClient' = <<>>
           /\ NothingLeft' /\ NothingSaid' /\ StreamIsRight'
  <1>. USE DEF SocketClosed
  <1>1. shown \in Seq(Piece) /\ buffer \in Seq(Piece) /\ toClient \in Seq(Piece)
    BY DEF ClientInv, ClientTypes
  <1>2. buffer \o toClient \in Seq(Piece)
    BY <1>1, JoinPieces
  <1>3. SaidRightly(written, toServer, server, shown \o (buffer \o toClient))
    BY DEF ClientInv, StreamIsRight, Stream
  <1>4. SaidRightly(written, toServer', "none", shown)
    BY <1>1, <1>2, <1>3, LosingIsRight
  <1>5. Stream' = shown
    BY <1>1, EmptySeq, ConcatEmptySeq DEF Stream
  <1>6. NothingLeft' /\ NothingSaid'
    BY DEF NothingLeft, NothingSaid
  <1>7. StreamIsRight'
    BY <1>4, <1>5 DEF StreamIsRight
  <1>. QED
    BY <1>1, <1>6, <1>7

(* Reading and showing move the boundary in the stream, and nothing else.  *)
LEMMA ReadingKeepsClientInv ==
    ASSUME ClientInv, ReadyRead
    PROVE  /\ shown' \in Seq(Piece) /\ buffer' \in Seq(Piece) /\ toClient' \in Seq(Piece)
           /\ Stream' = Stream
  <1>1. shown \in Seq(Piece) /\ buffer \in Seq(Piece) /\ toClient \in Seq(Piece)
    BY DEF ClientInv, ClientTypes
  <1>2. PICK n \in 0 .. Len(toClient), part \in BOOLEAN :
            /\ toClient' = SubSeq(toClient, n + 1, Len(toClient))
            /\ Show(buffer \o SubSeq(toClient, 1, n), part)
    BY DEF ReadyRead
  <1>. DEFINE early == SubSeq(toClient, 1, n)
              late == SubSeq(toClient, n + 1, Len(toClient))
  <1>3. /\ early \in Seq(Piece) /\ late \in Seq(Piece)
        /\ toClient = early \o late
    <2>1. Len(toClient) \in Nat /\ n \in Nat
      BY <1>1, LenProperties
    <2>2. early \in Seq(Piece) /\ Len(early) = n
          /\ \A i \in 1..n : early[i] = toClient[i]
      BY <1>1, <2>1
    <2>3. late \in Seq(Piece) /\ Len(late) = Len(toClient) - n
          /\ \A i \in 1 .. Len(toClient) - n : late[i] = toClient[n + i]
      BY <1>1, <2>1
    <2>. HIDE DEF early, late
    <2>4. /\ early \o late \in Seq(Piece) /\ Len(early \o late) = Len(toClient)
          /\ \A i \in 1 .. Len(toClient) :
                (early \o late)[i] = IF i <= n THEN early[i] ELSE late[i - n]
      BY <2>1, <2>2, <2>3, ConcatProperties
    <2>5. \A i \in 1 .. Len(toClient) : (early \o late)[i] = toClient[i]
      <3>. SUFFICES ASSUME NEW i \in 1 .. Len(toClient)
                    PROVE  (early \o late)[i] = toClient[i]
        OBVIOUS
      <3>1. CASE i <= n
        BY <2>1, <2>2, <2>4, <3>1
      <3>2. CASE ~ (i <= n)
        <4>1. i - n \in 1 .. Len(toClient) - n /\ n + (i - n) = i
          BY <2>1, <3>2
        <4>2. late[i - n] = toClient[i]
          BY <2>3, <4>1
        <4>. QED
          BY <2>4, <3>2, <4>2
      <3>. QED
        BY <3>1, <3>2
    <2>. QED
      BY <1>1, <2>2, <2>3, <2>4, <2>5, SeqEqual
  <1>. HIDE DEF early, late
  <1>. DEFINE arrived == buffer \o early
  <1>4. arrived \in Seq(Piece)
    BY <1>1, <1>3, JoinPieces
  <1>5. arrived \o late = buffer \o toClient
    BY SMTT(30), <1>1, <1>3, RegroupPieces
  <1>6. toClient' = late /\ Show(arrived, part)
    BY <1>2 DEF early, late
  <1>. HIDE DEF arrived
  <1>7. CASE buffer' = arrived /\ UNCHANGED shown
    BY <1>1, <1>3, <1>4, <1>5, <1>6, <1>7 DEF Stream
  <1>8. CASE /\ CanReadLine(arrived)
             /\ shown' = Append(shown, Head(arrived)) /\ buffer' = Tail(arrived)
    <2>. DEFINE h == Head(arrived)
                t == Tail(arrived)
    <2>1. arrived # <<>>
      BY <1>4, <1>8, LenProperties, EmptySeq DEF CanReadLine
    <2>2. h \in Piece /\ t \in Seq(Piece) /\ arrived = <<h>> \o t
      BY <1>4, <2>1, HeadTailProperties
    <2>. HIDE DEF h, t
    <2>3. <<h>> \in Seq(Piece) /\ Append(shown, h) = shown \o <<h>>
          /\ Append(shown, h) \in Seq(Piece)
      BY <1>1, <2>2, AppendProperties, AppendIsConcat
    <2>4. /\ (<<h>> \o t) \o late = <<h>> \o (t \o late)
          /\ t \o late \in Seq(Piece)
      <3>. DEFINE one == <<h>>
      <3>1. one \in Seq(Piece)
        BY <2>3
      <3>. HIDE DEF one
      <3>2. (one \o t) \o late = one \o (t \o late)
        BY <1>3, <2>2, <3>1, RegroupPieces
      <3>3. t \o late \in Seq(Piece)
        BY <1>3, <2>2, JoinPieces
      <3>. QED
        BY <3>2, <3>3 DEF one
    <2>5. (shown \o <<h>>) \o (t \o late) = shown \o (<<h>> \o (t \o late))
      <3>. DEFINE one == <<h>>
                  more == t \o late
      <3>1. one \in Seq(Piece) /\ more \in Seq(Piece)
        BY <2>3, <2>4
      <3>. HIDE DEF one, more
      <3>2. (shown \o one) \o more = shown \o (one \o more)
        BY SMTT(30), <1>1, <3>1, RegroupPieces
      <3>. QED
        BY <3>2 DEF one, more
    <2>6. Append(shown, h) \o (t \o late) = shown \o (buffer \o toClient)
      <3>1. <<h>> \o (t \o late) = buffer \o toClient
        BY <1>5, <2>2, <2>4, Zenon
      <3>2. shown \o (<<h>> \o (t \o late)) = shown \o (buffer \o toClient)
        BY <3>1
      <3>3. Append(shown, h) \o (t \o late) = (shown \o <<h>>) \o (t \o late)
        BY <2>3
      <3>. QED
        BY <2>5, <3>2, <3>3
    <2>7. shown' = Append(shown, h) /\ buffer' = t
      BY <1>8 DEF h, t
    <2>. QED
      BY <1>3, <1>6, <2>2, <2>3, <2>6, <2>7 DEF Stream
  <1>. QED
    BY <1>6, <1>7, <1>8 DEF Show

(* What is said joins the end of the stream. *)
LEMMA SayingJoins ==
    ASSUME ClientInv, NEW more \in Seq(Piece),
           toClient' = toClient \o more, UNCHANGED <<shown, buffer>>
    PROVE  toClient' \in Seq(Piece) /\ Stream' = Stream \o more
  <1>1. shown \in Seq(Piece) /\ buffer \in Seq(Piece) /\ toClient \in Seq(Piece)
    BY DEF ClientInv, ClientTypes
  <1>2. toClient \o more \in Seq(Piece)
    BY <1>1, JoinPieces
  <1>3. (buffer \o toClient) \o more = buffer \o (toClient \o more)
    BY <1>1, RegroupPieces, ZenonT(60)
  <1>. DEFINE unread == buffer \o toClient
  <1>4. unread \in Seq(Piece)
    BY <1>1, JoinPieces
  <1>. HIDE DEF unread
  <1>5. (shown \o unread) \o more = shown \o (unread \o more)
    <2>1. \A u \in Seq(Piece) : (shown \o u) \o more = shown \o (u \o more)
      BY <1>1, RegroupPieces, ZenonT(60)
    <2>. QED
      BY <1>4, <2>1, Zenon
  <1>. QED
    BY <1>2, <1>3, <1>5 DEF Stream, unread

LEMMA ServeKeepsClientInv ==
    ASSUME ClientInv, Serve
    PROVE  ClientInv'
  <1>. USE DEF Serve
  <1>1. /\ shown \in Seq(Piece) /\ buffer \in Seq(Piece) /\ toClient \in Seq(Piece)
        /\ toServer \in Seq(Sendable)
    BY DEF ClientInv, ClientTypes, TypeOK, Sendable
  <1>2. Head(toServer) \in Sendable /\ Tail(toServer) \in Seq(Sendable)
    BY <1>1, HeadTailProperties
  <1>3. NothingLeft' /\ NothingSaid'
    BY DEF NothingLeft, NothingSaid
  <1>4. SaidRightly(written, toServer, "serving", Stream)
    BY DEF ClientInv, StreamIsRight
  <1>5. CASE Head(toServer) = "quit"
    <2>. DEFINE thanks == <<Said("thanks")>>
    <2>1. Said("thanks") \in Piece /\ Said("thanks") \in Farewell
      BY SaidType DEF Farewell
    <2>2. /\ thanks \in Seq(Piece)
          /\ Append(toClient, Said("thanks")) = toClient \o thanks
      BY <1>1, <2>1, AppendIsConcat
    <2>3. server' = "closed" /\ toClient' = toClient \o thanks
      BY <1>5, <2>2
    <2>. HIDE DEF thanks
    <2>4. toClient' \in Seq(Piece) /\ Stream' = Stream \o thanks
      BY <2>2, <2>3, SayingJoins
    <2>5. SaidRightly(written, toServer', "closed", Stream \o thanks)
      BY <1>4, <2>1, FarewellIsRight DEF thanks
    <2>6. StreamIsRight'
      BY <2>3, <2>4, <2>5 DEF StreamIsRight
    <2>7. ClientTypes'
      BY <1>1, <1>2, <2>3, <2>4 DEF ClientInv, ClientTypes, TypeOK, Sendable, bounds
    <2>. QED
      BY <1>3, <2>6, <2>7 DEF ClientInv
  <1>6. CASE Head(toServer) # "quit"
    <2>. DEFINE back == Pieces(Head(toServer))
    <2>1. server' = server /\ toClient' = toClient \o back /\ back \in Seq(Piece)
      BY <1>2, <1>6, PiecesType
    <2>. HIDE DEF back
    <2>2. toClient' \in Seq(Piece) /\ Stream' = Stream \o back
      BY <2>1, SayingJoins
    <2>3. SaidRightly(written, Tail(toServer), "serving", Stream \o back)
      BY <1>4, ServingIsRight DEF back
    <2>4. StreamIsRight'
      BY <2>1, <2>2, <2>3 DEF StreamIsRight
    <2>5. ClientTypes'
      BY <1>1, <1>2, <2>1, <2>2 DEF ClientInv, ClientTypes, TypeOK, Sendable, bounds
    <2>. QED
      BY <1>3, <2>4, <2>5 DEF ClientInv
  <1>. QED
    BY <1>5, <1>6

LEMMA DismissKeepsClientInv ==
    ASSUME ClientInv, Dismiss
    PROVE  ClientInv'
  <1>. USE DEF Dismiss
  <1>. DEFINE bye == <<Said("good-bye")>>
  <1>1. Said("good-bye") \in Piece /\ Said("good-bye") \in Farewell
    BY SaidType DEF Farewell
  <1>2. bye \in Seq(Piece) /\ toClient' = toClient \o bye
    BY <1>1, AppendIsConcat DEF ClientInv, ClientTypes
  <1>. HIDE DEF bye
  <1>3. toClient' \in Seq(Piece) /\ Stream' = Stream \o bye
    BY <1>2, SayingJoins
  <1>4. SaidRightly(written, toServer, "serving", Stream)
    BY DEF ClientInv, StreamIsRight
  <1>5. SaidRightly(written, toServer', "closed", Stream \o bye)
    BY <1>1, <1>4, FarewellIsRight DEF bye
  <1>6. StreamIsRight'
    BY <1>3, <1>5 DEF StreamIsRight
  <1>7. ClientTypes' /\ NothingLeft' /\ NothingSaid'
    BY <1>3 DEF ClientInv, ClientTypes, TypeOK, NothingLeft, NothingSaid, bounds
  <1>. QED
    BY <1>6, <1>7 DEF ClientInv

LEMMA ConnectKeepsClientInv ==
    ASSUME ClientInv, NEW s \in BOOLEAN, EnterConnect(s)
    PROVE  ClientInv'
  <1>. USE DEF EnterConnect, network
  <1>1. CASE state = "Disconnected" /\ socket = "unconnected"
    <2>1. /\ socket' = "connecting" /\ written' = <<>> /\ shown' = <<>>
          /\ server' = "none" /\ toServer' = <<>> /\ toClient' = <<>> /\ buffer' = <<>>
      BY <1>1 DEF ClientInv, NothingLeft
    <2>2. NothingLeft' /\ NothingSaid'
      BY <2>1 DEF NothingLeft, NothingSaid
    <2>3. Stream' = <<>> /\ <<>> \in Seq(Sendable)
      BY <2>1, EmptySeq, ConcatEmptySeq DEF Stream
    <2>4. StreamIsRight'
      BY <2>1, <2>3, SilenceIsRight DEF StreamIsRight
    <2>5. ssl' \in [initialized : BOOLEAN, loaded : BOOLEAN, errors : BOOLEAN]
      BY DEF ClientInv, ClientTypes, TypeOK, InitializeSsl
    <2>6. ClientTypes'
      BY <1>1, <2>1, <2>5, EmptySeq DEF ClientInv, ClientTypes, TypeOK
    <2>. QED
      BY <2>2, <2>4, <2>6 DEF ClientInv
  <1>2. CASE ~ (state = "Disconnected" /\ socket = "unconnected")
    <2>1. UNCHANGED <<socket, written, shown, network>>
      BY <1>2
    <2>2. NothingLeft' /\ NothingSaid' /\ StreamIsRight'
      BY <2>1 DEF ClientInv, NothingLeft, NothingSaid, StreamIsRight, Stream
    <2>3. ssl' \in [initialized : BOOLEAN, loaded : BOOLEAN, errors : BOOLEAN]
      BY DEF ClientInv, ClientTypes, TypeOK, InitializeSsl
    <2>4. ClientTypes'
      BY <2>1, <2>3 DEF ClientInv, ClientTypes, TypeOK
    <2>. QED
      BY <2>2, <2>4 DEF ClientInv
  <1>. QED
    BY <1>1, <1>2

LEMMA ConnectedKeepsClientInv ==
    ASSUME ClientInv, Connected
    PROVE  ClientInv'
  <1>. USE DEF Connected
  <1>1. /\ server = "none" /\ toServer = written
        /\ toClient = <<>> /\ buffer = <<>> /\ shown = <<>>
    BY DEF ClientInv, NothingSaid
  <1>2. written \in Seq(Sendable)
    BY DEF ClientInv, ClientTypes, TypeOK, Sendable
  <1>3. <<Said("welcome")>> \in Seq(Piece) /\ <<>> \in Seq(Piece)
    BY SaidType, EmptySeq
  <1>4. toClient' \in Seq(Piece) /\ Stream' = toClient'
    BY <1>1, <1>3, ConcatEmptySeq DEF Stream
  <1>5. StreamIsRight'
    <2>1. CASE server' = "serving" /\ toClient' = <<Said("welcome")>>
      BY <1>1, <1>2, <1>4, <2>1, GreetingIsRight DEF StreamIsRight
    <2>2. CASE server' = "closed" /\ toClient' = <<>>
      BY <1>2, <1>4, <2>2, SilenceIsRight DEF StreamIsRight
    <2>. QED
      BY <2>1, <2>2
  <1>6. NothingLeft' /\ NothingSaid'
    BY DEF NothingLeft, NothingSaid
  <1>7. ClientTypes'
    BY <1>4 DEF ClientInv, ClientTypes, TypeOK, bounds
  <1>. QED
    BY <1>5, <1>6, <1>7 DEF ClientInv

LEMMA NextClientInv ==
    ASSUME ClientInv, [Next]_vars
    PROVE  ClientInv'
  <1>. USE DEF ClientInv, ClientTypes, TypeOK
  <1>1. ASSUME NEW s \in BOOLEAN, EnterConnect(s) PROVE ClientInv'
    BY <1>1, ConnectKeepsClientInv
  <1>2. ASSUME EnterQuit PROVE ClientInv'
    <2>. USE DEF EnterQuit
    <2>1. state' \in {"Disconnected", "AboutToConnect", "Connected", "AboutToDisconnect"}
          /\ ssl' \in [initialized : BOOLEAN, loaded : BOOLEAN, errors : BOOLEAN]
      BY <1>2
    <2>2. UNCHANGED <<secure, socket, server, toClient, buffer, cut, shown, bounds>>
      BY <1>2
    <2>3. CASE Send("quit")
      BY <2>1, <2>2, <2>3, SendKeepsClientInv DEF Sendable, bounds
    <2>4. CASE UNCHANGED <<toServer, written>>
      BY <2>1, <2>2, <2>4 DEF NothingLeft, NothingSaid, StreamIsRight, Stream, bounds
    <2>. QED
      BY <1>2, <2>3, <2>4
  <1>3. ASSUME NEW l \in Line, EnterLine(l) PROVE ClientInv'
    <2>1. l \in Sendable /\ Send(l)
          /\ UNCHANGED <<state, secure, ssl, socket, server, toClient, buffer, cut,
                         shown, connects>>
          /\ lines' \in Nat
      BY <1>3 DEF EnterLine, Sendable
    <2>. QED
      BY <2>1, SendKeepsClientInv DEF Sendable
  <1>4. ASSUME Connected PROVE ClientInv'
    BY <1>4, ConnectedKeepsClientInv
  <1>5. ASSUME Encrypted PROVE ClientInv'
    BY <1>5 DEF Encrypted, network, bounds, NothingLeft, NothingSaid, StreamIsRight, Stream
  <1>6. ASSUME Breaks PROVE ClientInv'
    <2>1. SocketClosed /\ UNCHANGED <<secure, ssl, written, shown, bounds>>
          /\ state' \in {state, "Disconnected"}
      BY <1>6 DEF Breaks
    <2>. QED
      BY <2>1, ClosingKeepsClientInv, EmptySeq DEF SocketClosed, bounds
  <1>7. ASSUME RemoteHostClosed PROVE ClientInv'
    <2>1. SocketClosed /\ UNCHANGED <<secure, ssl, written, shown, bounds>>
          /\ state' \in {state, "Disconnected"}
      BY <1>7 DEF RemoteHostClosed
    <2>. QED
      BY <2>1, ClosingKeepsClientInv, EmptySeq DEF SocketClosed, bounds
  <1>8. ASSUME ReadyRead PROVE ClientInv'
    <2>1. /\ shown' \in Seq(Piece) /\ buffer' \in Seq(Piece) /\ toClient' \in Seq(Piece)
          /\ Stream' = Stream
      BY <1>8, ReadingKeepsClientInv
    <2>2. /\ UNCHANGED <<state, secure, ssl, socket, toServer, server, written, bounds>>
          /\ socket = "connected" /\ cut' \in BOOLEAN
      BY <1>8 DEF ReadyRead
    <2>. QED
      BY <2>1, <2>2 DEF NothingLeft, NothingSaid, StreamIsRight, bounds
  <1>9. ASSUME Serve PROVE ClientInv'
    BY <1>9, ServeKeepsClientInv
  <1>10. ASSUME Dismiss PROVE ClientInv'
    BY <1>10, DismissKeepsClientInv
  <1>11. ASSUME UNCHANGED vars PROVE ClientInv'
    BY <1>11 DEF vars, network, bounds, NothingLeft, NothingSaid, StreamIsRight, Stream
  <1>. QED
    BY <1>1, <1>2, <1>3, <1>4, <1>5, <1>6, <1>7, <1>8, <1>9, <1>10, <1>11 DEF Next

-------------------------------------------------------------------------------
(* The client keeps its invariant. *)
LEMMA ClientInvariant == Spec => []ClientInv
  BY InitClientInv, NextClientInv, PTL DEF Spec

(* Every variable keeps its type. *)
THEOREM ClientTypeCorrect == Spec => []TypeOK
  <1>1. ClientInv => TypeOK
    BY DEF ClientInv, ClientTypes
  <1>. QED
    BY <1>1, ClientInvariant, PTL

LEMMA ShownIsInOrder == ClientInv => AnswersInOrder
  <1>. SUFFICES ASSUME ClientInv PROVE AnswersInOrder
    OBVIOUS
  <1>1. shown \in Seq(Piece) /\ buffer \in Seq(Piece) /\ toClient \in Seq(Piece)
    BY DEF ClientInv, ClientTypes
  <1>2. PICK w \in Seq(Sendable), rest \in Seq(Sendable), f \in Farewells, u \in Seq(Piece) :
            written = w \o rest /\ Stream \o u = Told(w) \o f
    BY DEF ClientInv, StreamIsRight, SaidRightly
  <1>3. PICK z \in Seq(Piece) : Told(written) = Told(w) \o z
    BY <1>2, ToldExtends
  <1>4. <<Said("welcome")>> \o Answers = Told(written)
    BY DEF Answers, Told, PiecesOf
  <1>. DEFINE W == Told(w)
              all == Told(written)
  <1>5. W \in Seq(Piece) /\ f \in Seq(Piece)
    BY ToldType, FarewellsType
  <1>6. PICK r \in Seq(Piece) : shown \o r = W \o f
    <2>. DEFINE unread == buffer \o toClient
    <2>1. unread \in Seq(Piece)
      BY <1>1, JoinPieces
    <2>2. (shown \o unread) \o u = W \o f
      BY <1>2 DEF Stream
    <2>. HIDE DEF unread, W
    <2>3. (shown \o unread) \o u = shown \o (unread \o u)
      BY SMTT(30), <1>1, <2>1, RegroupPieces
    <2>4. unread \o u \in Seq(Piece)
      BY <2>1, JoinPieces
    <2>. QED
      BY <2>2, <2>3, <2>4
  <1>7. all = W \o z
    BY <1>3
  <1>8. /\ Len(shown) \in Nat /\ Len(W) \in Nat /\ Len(f) \in Nat
        /\ Len(r) \in Nat /\ Len(z) \in Nat
    BY <1>1, <1>5, LenProperties
  <1>. HIDE DEF W, all
  <1>9. /\ Len(shown) + Len(r) = Len(W) + Len(f)
        /\ \A i \in 1 .. Len(shown) :
              shown[i] = IF i <= Len(W) THEN W[i] ELSE f[i - Len(W)]
    <2>. DEFINE x == shown \o r
                y == W \o f
    <2>1. /\ Len(x) = Len(shown) + Len(r)
          /\ \A i \in 1 .. Len(shown) + Len(r) :
                x[i] = IF i <= Len(shown) THEN shown[i] ELSE r[i - Len(shown)]
      BY <1>1, ConcatProperties
    <2>2. /\ Len(y) = Len(W) + Len(f)
          /\ \A i \in 1 .. Len(W) + Len(f) :
                y[i] = IF i <= Len(W) THEN W[i] ELSE f[i - Len(W)]
      BY <1>5, ConcatProperties
    <2>3. x = y
      BY <1>6
    <2>. HIDE DEF x, y
    <2>4. Len(shown) + Len(r) = Len(W) + Len(f)
      BY <2>1, <2>2, <2>3
    <2>5. ASSUME NEW i \in 1 .. Len(shown)
          PROVE  shown[i] = IF i <= Len(W) THEN W[i] ELSE f[i - Len(W)]
      <3>1. i \in 1 .. Len(shown) + Len(r) /\ i \in 1 .. Len(W) + Len(f) /\ i <= Len(shown)
        BY <1>8, <2>4
      <3>2. x[i] = shown[i]
        BY <2>1, <3>1
      <3>3. y[i] = IF i <= Len(W) THEN W[i] ELSE f[i - Len(W)]
        BY <2>2, <3>1
      <3>. QED
        BY <2>3, <3>2, <3>3
    <2>. QED
      BY <2>4, <2>5
  <1>10. /\ Len(all) = Len(W) + Len(z)
         /\ \A i \in 1 .. Len(W) : all[i] = W[i]
    BY <1>5, <1>7, <1>8, ConcatProperties
  <1>11. Len(f) <= 1 /\ (Len(f) = 1 => f[1] \in Farewell)
    <2>1. CASE f = <<>>
      BY <2>1
    <2>2. CASE f # <<>>
      <3>1. PICK x \in Farewell : f = <<x>>
        BY <2>2 DEF Farewells
      <3>2. Len(f) = 1 /\ f[1] = x
        BY <3>1
      <3>. QED
        BY <3>2
    <2>. QED
      BY <2>1, <2>2
  <1>12. ASSUME NEW k \in 0 .. Len(shown), k <= Len(W)
         PROVE  IsPrefix(SubSeq(shown, 1, k), all)
    <2>. DEFINE part == SubSeq(shown, 1, k)
    <2>1. /\ part \in Seq(Piece) /\ Len(part) = k
          /\ \A i \in 1..k : part[i] = shown[i]
      BY <1>1, <1>8
    <2>2. all \in Seq(Piece)
      BY <1>5, <1>7, ConcatProperties
    <2>. HIDE DEF part
    <2>3. ASSUME NEW i \in 1..k PROVE part[i] = all[i]
      <3>1. i \in 1 .. Len(shown) /\ i \in 1 .. Len(W) /\ i <= Len(W)
        BY <1>8, <1>12
      <3>2. shown[i] = W[i]
        BY <1>9, <3>1
      <3>3. all[i] = W[i]
        BY <1>10, <3>1
      <3>. QED
        BY <2>1, <3>2, <3>3
    <2>4. k <= Len(all)
      BY <1>8, <1>10, <1>12
    <2>5. SubSeq(part, 1, k) = SubSeq(all, 1, k)
      BY <2>1, <2>2, <2>3, <2>4
    <2>. QED
      BY <2>1, <2>4, <2>5 DEF IsPrefix, part
  <1>13. CASE Len(shown) <= Len(W)
    <2>1. Len(shown) \in 0 .. Len(shown) /\ Len(shown) # Len(shown) + 1
      BY <1>8
    <2>2. IsPrefix(SubSeq(shown, 1, Len(shown)), all)
      BY <1>12, <1>13, <2>1
    <2>3. all = <<Said("welcome")>> \o Answers
      BY <1>4 DEF all
    <2>. HIDE DEF all
    <2>. QED
      BY <2>1, <2>2, <2>3 DEF AnswersInOrder
  <1>14. CASE ~ (Len(shown) <= Len(W))
    <2>0. Len(shown) + Len(r) = Len(W) + Len(f) /\ Len(f) <= 1
      BY <1>9, <1>11
    <2>1. Len(shown) = Len(W) + 1 /\ Len(f) = 1
      <3>. DEFINE ls == Len(shown)
                  lr == Len(r)
                  lw == Len(W)
                  lf == Len(f)
      <3>1. /\ ls \in Nat /\ lr \in Nat /\ lw \in Nat /\ lf \in Nat
            /\ ls + lr = lw + lf /\ lf <= 1 /\ ~ (ls <= lw)
        BY <1>8, <1>14, <2>0
      <3>. HIDE DEF ls, lr, lw, lf
      <3>2. ls = lw + 1 /\ lf = 1
        BY <3>1
      <3>. QED
        BY <3>2 DEF ls, lw, lf
    <2>2. IsPrefix(SubSeq(shown, 1, Len(W)), all)
      <3>1. Len(W) \in 0 .. Len(shown) /\ Len(W) <= Len(W)
        BY <1>8, <2>1
      <3>. QED
        BY <1>12, <3>1
    <2>3. shown[Len(W) + 1] = f[1]
      BY SMTT(30), <1>8, <1>9, <2>1
    <2>4. shown[Len(W) + 1] \in Farewell
      BY <1>11, <2>1, <2>3
    <2>5. all = <<Said("welcome")>> \o Answers
      BY <1>4 DEF all
    <2>6. Len(W) \in 0 .. Len(shown)
      BY <1>8, <2>1
    <2>. HIDE DEF all
    <2>. QED
      BY <2>1, <2>2, <2>4, <2>5, <2>6 DEF AnswersInOrder
  <1>. QED
    BY <1>13, <1>14

(* What the user sees of a connection is the greeting, then the answers to *)
(* the lines entered for it, whole and in order, and at most one farewell, *)
(* whatever was left in the socket by dataAvailable().                     *)
THEOREM ClientAnswersInOrder == Spec => []AnswersInOrder
  BY ClientInvariant, ShownIsInOrder, PTL

===============================================================================

-------------------------- MODULE RpcCommandsProofs --------------------------
(***************************************************************************)
(* Proofs about RpcCommands, for any threads, fingers and requests.        *)
(*                                                                         *)
(* The first half is about text: Joined() and Positions() are what their   *)
(* recursions say, a text that is written and read again is the same text, *)
(* and so is a name that goes through both buffers of the firmware.  The   *)
(* second half is about numbers and lists: how long they are, and what a   *)
(* scan of the ids finds while other threads change what it scans.  The    *)
(* inductive invariant and the four theorems follow.                       *)
(***************************************************************************)
EXTENDS RpcCommands, SequenceTheorems, FiniteSetTheorems,
        WellFoundedInduction, TLAPS

(* What holds of 0, and of n + 1 where it holds of n, holds of all.        *)
LEMMA SetInduction ==
    ASSUME NEW S \in SUBSET Nat, 0 \in S, \A n \in S : n + 1 \in S
    PROVE  S = Nat
<1>. SUFFICES ASSUME Nat \ S # {}
              PROVE  FALSE
    OBVIOUS
<1>. DEFINE R == OpToRel(<, Nat)
<1>1. IsWellFoundedOn(R, Nat)
    BY NatLessThanWellFounded
<1>. HIDE DEF R
<1>2. PICK x \in Nat \ S : \A y \in Nat \ S : ~ (<<y, x>> \in R)
    BY <1>1, WFMin
<1>3. x # 0
    OBVIOUS
<1>4. x - 1 \in Nat
    BY <1>3
<1>5. <<x - 1, x>> \in R
    BY <1>4 DEF R, OpToRel
<1>6. x - 1 \in S
    BY <1>2, <1>4, <1>5
<1>. QED
    BY <1>4, <1>6

\* f has the value v0 at lo, and each later value is a step from the one
\* before.
Recurs(f, V, v0, lo, hi, step) ==
    /\ f \in [lo .. hi -> V]
    /\ f[lo] = v0
    /\ \A n \in lo .. hi : n # lo => f[n] = step[n][f[n - 1]]

(* There is such a function.                                               *)
LEMMA PrimitiveRecursion ==
    ASSUME NEW V, NEW v0 \in V, NEW lo \in Nat, NEW hi \in Nat, lo <= hi,
           NEW step \in [lo .. hi -> [V -> V]]
    PROVE  \E f : Recurs(f, V, v0, lo, hi, step)
<1>. DEFINE Solves(f, m) == Recurs(f, V, v0, lo, lo + m, step)
            S == {m \in Nat : lo + m <= hi => \E f : Solves(f, m)}
<1>1. 0 \in S
    <2>. DEFINE f == [n \in lo .. lo + 0 |-> v0]
    <2>1. Solves(f, 0)
        BY DEF Recurs
    <2>. QED
        BY <2>1
<1>2. ASSUME NEW m \in S
      PROVE  m + 1 \in S
    <2>0. m \in Nat /\ m + 1 \in Nat
        OBVIOUS
    <2>. SUFFICES ASSUME lo + (m + 1) <= hi
                  PROVE  \E f : Solves(f, m + 1)
        BY <2>0
    <2>1. m \in Nat /\ lo + m <= hi /\ lo + m \in lo .. lo + m
        BY <2>0
    <2>2. PICK f : Solves(f, m)
        BY <2>1
    <2>. DEFINE last == lo + (m + 1)
                v == step[last][f[lo + m]]
                g == [n \in lo .. lo + (m + 1) |-> IF n = last THEN v ELSE f[n]]
    <2>3. v \in V
        <3>1. f[lo + m] \in V
            BY <2>1, <2>2 DEF Recurs
        <3>2. last \in lo .. hi
            BY <2>1
        <3>3. step[last] \in [V -> V]
            BY <3>2
        <3>. QED
            BY <3>1, <3>3
    <2>. HIDE DEF v
    <2>4. g \in [lo .. lo + (m + 1) -> V]
        <3>1. \A n \in lo .. lo + (m + 1) : n # last => n \in lo .. lo + m
            BY <2>1
        <3>. QED
            BY <2>2, <2>3, <3>1 DEF Recurs
    <2>5. g[lo] = v0
        BY <2>1, <2>2 DEF Recurs
    <2>6. ASSUME NEW n \in lo .. lo + (m + 1), n # lo
          PROVE  g[n] = step[n][g[n - 1]]
        <3>1. CASE n = last
            <4>1. n - 1 = lo + m /\ n - 1 \in lo .. lo + (m + 1) /\ n - 1 # last
                BY <2>1, <3>1
            <4>2. g[n] = v /\ g[n - 1] = f[lo + m]
                BY <3>1, <4>1
            <4>. QED
                BY <3>1, <4>2 DEF v
        <3>2. CASE n # last
            <4>1. /\ n \in lo .. lo + m
                  /\ n \in lo .. lo + (m + 1) /\ n - 1 \in lo .. lo + (m + 1)
                  /\ n - 1 # last
                BY <2>1, <2>6, <3>2
            <4>2. g[n] = f[n] /\ g[n - 1] = f[n - 1]
                BY <3>2, <4>1
            <4>. QED
                BY <2>2, <2>6, <4>1, <4>2 DEF Recurs
        <3>. QED
            BY <3>1, <3>2
    <2>7. Solves(g, m + 1)
        BY <2>4, <2>5, <2>6 DEF Recurs
    <2>. QED
        BY <2>7
<1>3. S = Nat
    <2>. HIDE DEF S
    <2>1. S \in SUBSET Nat
        BY DEF S
    <2>. QED
        BY <1>1, <1>2, <2>1, SetInduction
<1>. DEFINE m == hi - lo
<1>4. m \in Nat /\ lo + m = hi /\ lo + m <= hi
    OBVIOUS
<1>. HIDE DEF m
<1>5. m \in S
    <2>. HIDE DEF S
    <2>. QED
        BY <1>3, <1>4
<1>6. \E f : Solves(f, m)
    BY <1>4, <1>5
<1>. QED
    BY <1>4, <1>6

(* A non-empty set of numbers has a least one, and Min() is it.            *)
LEMMA LeastNumber ==
    ASSUME NEW S \in SUBSET Nat, S # {}
    PROVE  Min(S) \in S /\ \A n \in S : Min(S) <= n
<1>. DEFINE R == OpToRel(<, Nat)
<1>1. IsWellFoundedOn(R, Nat)
    BY NatLessThanWellFounded
<1>. HIDE DEF R
<1>2. PICK x \in S : \A y \in S : ~ (<<y, x>> \in R)
    BY <1>1, WFMin
<1>3. \A y \in S : x <= y
    <2>. SUFFICES ASSUME NEW y \in S, y < x
                  PROVE  FALSE
        OBVIOUS
    <2>1. <<y, x>> \in R
        BY DEF R, OpToRel
    <2>. QED
        BY <1>2, <2>1
<1>. QED
    BY <1>2, <1>3 DEF Min

-----------------------------------------------------------------------------
(* Texts.                                                                  *)

Texts == Seq(Chars)

(* Two texts, one after the other.                                         *)
LEMMA Concatenation ==
    ASSUME NEW s \in Texts, NEW u \in Texts
    PROVE  /\ s \o u \in Texts
           /\ Len(s) \in Nat /\ Len(u) \in Nat
           /\ Len(s \o u) = Len(s) + Len(u)
           /\ \A i \in 1 .. Len(s) : (s \o u)[i] = s[i]
           /\ \A i \in 1 .. Len(u) : (s \o u)[Len(s) + i] = u[i]
<1>1. /\ s \o u \in Texts
      /\ Len(s \o u) = Len(s) + Len(u)
      /\ \A i \in 1 .. Len(s) + Len(u) :
            (s \o u)[i] = IF i <= Len(s) THEN s[i] ELSE u[i - Len(s)]
    BY ConcatProperties DEF Texts
<1>2. Len(s) \in Nat /\ Len(u) \in Nat
    BY LenProperties DEF Texts
<1>3. ASSUME NEW i \in 1 .. Len(s)
      PROVE  (s \o u)[i] = s[i]
    BY <1>1, <1>2
<1>4. ASSUME NEW i \in 1 .. Len(u)
      PROVE  (s \o u)[Len(s) + i] = u[i]
    <2>1. /\ Len(s) + i \in 1 .. Len(s) + Len(u)
          /\ ~(Len(s) + i <= Len(s)) /\ (Len(s) + i) - Len(s) = i
        BY <1>2
    <2>. QED
        BY <1>1, <2>1
<1>. QED
    BY <1>1, <1>2, <1>3, <1>4

(* Joined() is what its recursion says.                                    *)
LEMMA JoinedFollows ==
    ASSUME NEW pieces \in Seq(Texts)
    PROVE  /\ Joined(pieces) \in [0 .. Len(pieces) -> Texts]
           /\ Joined(pieces)[0] = <<>>
           /\ \A n \in 1 .. Len(pieces) :
                 Joined(pieces)[n] = Joined(pieces)[n - 1] \o pieces[n]
<1>. DEFINE L == Len(pieces)
            Body(f) == [n \in 0 .. L |-> IF n = 0 THEN <<>>
                                         ELSE f[n - 1] \o pieces[n]]
            step == [n \in 0 .. L |->
                        [v \in Texts |-> IF n = 0 THEN v ELSE v \o pieces[n]]]
<1>1. L \in Nat /\ \A n \in 1 .. L : pieces[n] \in Texts
    BY LenProperties, ElementOfSeq
<1>. HIDE DEF L
<1>2. \E f : Recurs(f, Texts, <<>>, 0, L, step)
    <2>1. step \in [0 .. L -> [Texts -> Texts]]
        <3>1. ASSUME NEW n \in 0 .. L, NEW v \in Texts, n # 0
              PROVE  v \o pieces[n] \in Texts
            BY <1>1, <3>1, ConcatProperties DEF Texts
        <3>. QED
            BY <3>1
    <2>2. <<>> \in Texts /\ 0 \in Nat /\ 0 <= L
        BY <1>1 DEF Texts
    <2>. HIDE DEF step
    <2>. QED
        BY <1>1, <2>1, <2>2, PrimitiveRecursion
<1>3. PICK g \in [0 .. L -> Texts] :
         /\ g[0] = <<>>
         /\ \A n \in 1 .. L : g[n] = g[n - 1] \o pieces[n]
    <2>1. PICK g \in [0 .. L -> Texts] :
             /\ g[0] = <<>>
             /\ \A n \in 0 .. L : n # 0 => g[n] = step[n][g[n - 1]]
        BY <1>2 DEF Recurs
    <2>2. ASSUME NEW n \in 1 .. L
          PROVE  g[n] = g[n - 1] \o pieces[n]
        <3>1. n \in 0 .. L /\ n # 0 /\ n - 1 \in 0 .. L
            BY <1>1
        <3>2. g[n - 1] \in Texts
            BY <2>1, <3>1
        <3>3. step[n][g[n - 1]] = g[n - 1] \o pieces[n]
            BY <3>1, <3>2
        <3>. QED
            BY <2>1, <3>1, <3>3
    <2>. QED
        BY <2>1, <2>2
<1>4. g = Body(g)
    BY <1>1, <1>3
<1>. DEFINE j == Joined(pieces)
<1>5. j = CHOOSE f : f = Body(f)
    BY DEF Joined, L
<1>6. j = Body(j)
    <2>. HIDE DEF Body, j
    <2>. QED
        BY <1>4, <1>5
<1>. HIDE DEF j
<1>7. j[0] = <<>> /\ \A n \in 1 .. L : j[n] = j[n - 1] \o pieces[n]
    BY <1>1, <1>6
<1>8. j \in [0 .. L -> Texts]
    <2>. DEFINE S == {n \in Nat : n <= L => j[n] \in Texts}
    <2>1. 0 \in S
        <3>1. <<>> \in Texts
            BY DEF Texts
        <3>. QED
            BY <1>7, <3>1
    <2>2. ASSUME NEW n \in S
          PROVE  n + 1 \in S
        <3>. SUFFICES ASSUME n + 1 <= L
                      PROVE  j[n + 1] \in Texts
            OBVIOUS
        <3>1. n + 1 \in 1 .. L /\ (n + 1) - 1 = n /\ n <= L
            BY <1>1
        <3>2. j[n + 1] = j[n] \o pieces[n + 1]
            BY <1>7, <3>1
        <3>. QED
            BY <1>1, <3>1, <3>2, ConcatProperties DEF Texts
    <2>3. S = Nat
        <3>. HIDE DEF S
        <3>1. S \in SUBSET Nat
            BY DEF S
        <3>. QED
            BY <2>1, <2>2, <3>1, SetInduction
    <2>4. \A n \in 0 .. L : j[n] \in Texts
        BY <1>1, <2>3
    <2>5. j = [n \in 0 .. L |-> j[n]]
        BY <1>6
    <2>. QED
        BY <2>4, <2>5
<1>. QED
    BY <1>7, <1>8 DEF j, L

(* Each value of Joined() begins with the ones before it.                  *)
LEMMA JoinedGrows ==
    ASSUME NEW pieces \in Seq(Texts),
           NEW m \in 0 .. Len(pieces), NEW n \in 0 .. m
    PROVE  /\ Len(Joined(pieces)[n]) <= Len(Joined(pieces)[m])
           /\ \A i \in 1 .. Len(Joined(pieces)[n]) :
                 Joined(pieces)[m][i] = Joined(pieces)[n][i]
<1>. DEFINE j == Joined(pieces)
            L == Len(pieces)
            Begins(k) == /\ Len(j[n]) <= Len(j[k])
                         /\ \A i \in 1 .. Len(j[n]) : j[k][i] = j[n][i]
            S == {d \in Nat : n + d <= L => Begins(n + d)}
<1>1. L \in Nat /\ \A k \in 1 .. L : pieces[k] \in Texts
    BY LenProperties, ElementOfSeq
<1>2. /\ j \in [0 .. L -> Texts]
      /\ \A k \in 1 .. L : j[k] = j[k - 1] \o pieces[k]
    BY JoinedFollows
<1>. HIDE DEF j, L
<1>3. n \in Nat /\ m \in Nat /\ n <= m /\ m <= L
    BY <1>1 DEF L
<1>4. \A k \in 0 .. L : j[k] \in Texts /\ Len(j[k]) \in Nat
    BY <1>2, LenProperties DEF Texts
<1>5. 0 \in S
    BY <1>1, <1>3, <1>4
<1>6. ASSUME NEW d \in S
      PROVE  d + 1 \in S
    <2>0. d \in Nat /\ d + 1 \in Nat
        OBVIOUS
    <2>. SUFFICES ASSUME n + (d + 1) <= L
                  PROVE  Begins(n + (d + 1))
        BY <2>0
    <2>1. /\ n + d <= L /\ (n + (d + 1)) - 1 = n + d
          /\ n + d \in 0 .. L /\ n + (d + 1) \in 1 .. L
          /\ n + (d + 1) \in 0 .. L /\ n \in 0 .. L
        BY <1>1, <1>3, <2>0
    <2>2. Begins(n + d)
        BY <2>0, <2>1
    <2>. HIDE DEF S
    <2>. DEFINE k == n + (d + 1)
                before == j[n + d]
    <2>3. j[k] = before \o pieces[k]
        BY <1>2, <2>1
    <2>4. before \in Texts /\ pieces[k] \in Texts
        BY <1>1, <1>4, <2>1
    <2>5. /\ Len(j[n]) \in Nat /\ Len(j[n]) <= Len(before)
          /\ \A i \in 1 .. Len(j[n]) : before[i] = j[n][i]
        BY <1>4, <2>1, <2>2
    <2>. HIDE DEF k, before
    <2>6. /\ Len(before) \in Nat /\ Len(pieces[k]) \in Nat
          /\ Len(j[k]) = Len(before) + Len(pieces[k])
          /\ \A i \in 1 .. Len(before) : j[k][i] = before[i]
        BY <2>3, <2>4, Concatenation
    <2>7. Len(j[n]) <= Len(j[k])
        BY <2>5, <2>6
    <2>8. ASSUME NEW i \in 1 .. Len(j[n])
          PROVE  j[k][i] = j[n][i]
        <3>1. i \in 1 .. Len(before)
            BY <2>5, <2>6
        <3>. QED
            BY <2>5, <2>6, <3>1
    <2>. QED
        BY <2>7, <2>8 DEF k
<1>7. S = Nat
    <2>. HIDE DEF S
    <2>1. S \in SUBSET Nat
        BY DEF S
    <2>. QED
        BY <1>5, <1>6, <2>1, SetInduction
<1>. DEFINE d == m - n
<1>8. d \in Nat /\ n + d = m /\ n + d <= L
    BY <1>3
<1>. HIDE DEF d
<1>9. d \in S
    <2>. HIDE DEF S
    <2>. QED
        BY <1>7, <1>8
<1>10. Begins(m)
    BY <1>8, <1>9
<1>. QED
    BY <1>10 DEF j

\* Where a reader at p stands after one character more.
Onward(wire, p) == IF p > Len(wire) THEN p
                   ELSE IF wire[p] = "b" /\ p < Len(wire) THEN p + 2
                   ELSE p + 1

(* Positions() is what its recursion says.                                 *)
LEMMA PositionsFollow ==
    ASSUME NEW wire \in Texts
    PROVE  /\ Positions(wire) \in [0 .. Len(wire) -> Nat]
           /\ Positions(wire)[0] = 1
           /\ \A n \in 1 .. Len(wire) :
                 Positions(wire)[n] = Onward(wire, Positions(wire)[n - 1])
<1>. DEFINE L == Len(wire)
            Body(f) == [n \in 0 .. L |->
                          IF n = 0 THEN 1
                          ELSE IF f[n - 1] > Len(wire) THEN f[n - 1]
                          ELSE IF wire[f[n - 1]] = "b" /\ f[n - 1] < Len(wire)
                               THEN f[n - 1] + 2
                          ELSE f[n - 1] + 1]
            step == [n \in 0 .. L |-> [v \in Nat |-> Onward(wire, v)]]
<1>1. L \in Nat
    BY LenProperties DEF Texts
<1>2. \A v \in Nat : Onward(wire, v) \in Nat
    BY DEF Onward
<1>3. \E f : Recurs(f, Nat, 1, 0, L, step)
    <2>1. step \in [0 .. L -> [Nat -> Nat]]
        BY <1>2
    <2>2. 1 \in Nat /\ 0 \in Nat /\ 0 <= L
        BY <1>1
    <2>. HIDE DEF step, L
    <2>. QED
        BY <1>1, <2>1, <2>2, PrimitiveRecursion
<1>4. PICK g \in [0 .. L -> Nat] :
         /\ g[0] = 1
         /\ \A n \in 0 .. L : n # 0 => g[n] = Onward(wire, g[n - 1])
    <2>. HIDE DEF L
    <2>1. PICK g \in [0 .. L -> Nat] :
             /\ g[0] = 1
             /\ \A n \in 0 .. L : n # 0 => g[n] = step[n][g[n - 1]]
        BY <1>3 DEF Recurs
    <2>2. ASSUME NEW n \in 0 .. L, n # 0
          PROVE  g[n] = Onward(wire, g[n - 1])
        <3>1. n - 1 \in 0 .. L
            BY <1>1, <2>2
        <3>2. g[n - 1] \in Nat
            BY <2>1, <3>1
        <3>. QED
            BY <2>1, <2>2, <3>2
    <2>. QED
        BY <2>1, <2>2
<1>5. g = Body(g)
    BY <1>4 DEF Onward
<1>. DEFINE at == Positions(wire)
<1>6. at = CHOOSE f : f = Body(f)
    BY DEF Positions
<1>7. at = Body(at)
    <2>. HIDE DEF Body, at
    <2>. QED
        BY <1>5, <1>6
<1>. HIDE DEF at
<1>8. at[0] = 1 /\ \A n \in 1 .. L : at[n] = Onward(wire, at[n - 1])
    <2>1. at[0] = 1
        BY <1>1, <1>7
    <2>2. ASSUME NEW n \in 1 .. L
          PROVE  at[n] = Onward(wire, at[n - 1])
        <3>1. n \in 0 .. L /\ n # 0
            BY <1>1
        <3>2. at[n] = Body(at)[n]
            BY <1>7
        <3>. QED
            BY <3>1, <3>2 DEF Onward
    <2>. QED
        BY <2>1, <2>2
<1>9. at \in [0 .. L -> Nat]
    <2>. DEFINE S == {n \in Nat : n <= L => at[n] \in Nat}
    <2>. HIDE DEF L
    <2>1. 0 \in S
        BY <1>8
    <2>2. ASSUME NEW n \in S
          PROVE  n + 1 \in S
        <3>0. n \in Nat /\ n + 1 \in Nat
            OBVIOUS
        <3>. SUFFICES ASSUME n + 1 <= L
                      PROVE  at[n + 1] \in Nat
            BY <3>0
        <3>1. n + 1 \in 1 .. L /\ (n + 1) - 1 = n /\ n <= L
            BY <1>1, <3>0
        <3>2. at[n + 1] = Onward(wire, at[n]) /\ at[n] \in Nat
            BY <1>8, <3>1
        <3>. QED
            BY <1>2, <3>2
    <2>3. S = Nat
        <3>. HIDE DEF S
        <3>1. S \in SUBSET Nat
            BY DEF S
        <3>. QED
            BY <2>1, <2>2, <3>1, SetInduction
    <2>4. \A n \in 0 .. L : at[n] \in Nat
        BY <1>1, <2>3
    <2>5. at = [n \in 0 .. L |-> at[n]]
        BY <1>7 DEF L
    <2>. QED
        BY <2>4, <2>5
<1>. QED
    BY <1>8, <1>9 DEF at

-----------------------------------------------------------------------------
(* What is escaped is read back.                                           *)

EscapedPieces(text) == [i \in 1 .. Len(text) |-> Escaped(text[i])]

(* A character is escaped by a backslash or not at all.                    *)
LEMMA EscapedType ==
    ASSUME NEW ch \in Chars
    PROVE  /\ Escaped(ch) \in Texts
           /\ ch \in {"q", "b"} => /\ Len(Escaped(ch)) = 2
                                   /\ Escaped(ch)[1] = "b"
                                   /\ Escaped(ch)[2] = ch
           /\ ch \notin {"q", "b"} =>
                  Len(Escaped(ch)) = 1 /\ Escaped(ch)[1] = ch
<1>1. CASE ch \in {"q", "b"}
    <2>1. Escaped(ch) = <<"b", ch>>
        BY <1>1 DEF Escaped
    <2>2. "b" \in Chars
        BY DEF Chars
    <2>. QED
        BY <1>1, <2>1, <2>2 DEF Texts
<1>2. CASE ch \notin {"q", "b"}
    <2>1. Escaped(ch) = <<ch>>
        BY <1>2 DEF Escaped
    <2>. QED
        BY <1>2, <2>1 DEF Texts
<1>. QED
    BY <1>1, <1>2

(* The pieces of an escaped text, and what they make.                      *)
LEMMA EscapedFollows ==
    ASSUME NEW text \in Texts
    PROVE  LET e == Joined(EscapedPieces(text)) IN
           /\ EscapedPieces(text) \in Seq(Texts)
           /\ Len(EscapedPieces(text)) = Len(text)
           /\ e \in [0 .. Len(text) -> Texts]
           /\ e[0] = <<>>
           /\ \A n \in 1 .. Len(text) : e[n] = e[n - 1] \o Escaped(text[n])
<1>. DEFINE pieces == EscapedPieces(text)
<1>1. Len(text) \in Nat /\ \A i \in 1 .. Len(text) : text[i] \in Chars
    BY LenProperties, ElementOfSeq DEF Texts
<1>2. \A i \in 1 .. Len(text) : Escaped(text[i]) \in Texts
    BY <1>1, EscapedType
<1>3. /\ pieces \in Seq(Texts) /\ Len(pieces) = Len(text)
      /\ \A i \in 1 .. Len(text) : pieces[i] = Escaped(text[i])
    BY <1>1, <1>2 DEF EscapedPieces
<1>. HIDE DEF pieces
<1>4. /\ Joined(pieces) \in [0 .. Len(pieces) -> Texts]
      /\ Joined(pieces)[0] = <<>>
      /\ \A n \in 1 .. Len(pieces) :
            Joined(pieces)[n] = Joined(pieces)[n - 1] \o pieces[n]
    BY <1>3, JoinedFollows
<1>. QED
    BY <1>3, <1>4 DEF pieces

(* A reader of an escaped text stands behind the n-th piece after n        *)
(* characters, has read the n-th character there, and before the end of it *)
(* does not see a closing mark.                                            *)
LEMMA ReadBack ==
    ASSUME NEW text \in Texts, NEW tail \in Texts
    PROVE  LET e    == Joined(EscapedPieces(text))
               wire == e[Len(text)] \o tail
               at   == Positions(wire)
           IN  /\ wire \in Texts
               /\ Len(wire) = Len(e[Len(text)]) + Len(tail)
               /\ Len(text) <= Len(e[Len(text)])
               /\ \A n \in 0 .. Len(text) : at[n] = Len(e[n]) + 1
               /\ \A n \in 1 .. Len(text) : wire[at[n] - 1] = text[n]
               /\ \A n \in 0 .. Len(text) : n < Len(text) =>
                      at[n] <= Len(e[Len(text)]) /\ wire[at[n]] # "q"
<1>. DEFINE L    == Len(text)
            e    == Joined(EscapedPieces(text))
            wire == e[L] \o tail
            at   == Positions(wire)
<1>1. L \in Nat /\ \A n \in 1 .. L : text[n] \in Chars
    BY LenProperties, ElementOfSeq DEF Texts
<1>2. /\ EscapedPieces(text) \in Seq(Texts)
      /\ Len(EscapedPieces(text)) = L
      /\ e \in [0 .. L -> Texts]
      /\ e[0] = <<>>
      /\ \A n \in 1 .. L : e[n] = e[n - 1] \o Escaped(text[n])
    BY EscapedFollows
<1>3. \A n \in 0 .. L : /\ Len(e[n]) <= Len(e[L])
                        /\ \A i \in 1 .. Len(e[n]) : e[L][i] = e[n][i]
    BY <1>1, <1>2, JoinedGrows
<1>4. \A n \in 0 .. L : e[n] \in Texts /\ Len(e[n]) \in Nat
    BY <1>2, LenProperties DEF Texts
<1>. HIDE DEF e
<1>5. /\ wire \in Texts /\ Len(wire) \in Nat
      /\ Len(wire) = Len(e[L]) + Len(tail) /\ Len(tail) \in Nat
      /\ \A i \in 1 .. Len(e[L]) : wire[i] = e[L][i]
    <2>1. e[L] \in Texts
        BY <1>1, <1>4
    <2>2. Len(e[L]) \in Nat
        BY <1>1, <1>4
    <2>. HIDE DEF L
    <2>3. wire \in Texts /\ Len(wire) = Len(e[L]) + Len(tail)
          /\ Len(tail) \in Nat /\ \A i \in 1 .. Len(e[L]) : wire[i] = e[L][i]
        BY <2>1, Concatenation
    <2>. QED
        BY <2>2, <2>3
<1>. HIDE DEF wire, L
<1>6. /\ at[0] = 1
      /\ \A n \in 1 .. Len(wire) : at[n] = Onward(wire, at[n - 1])
    BY <1>5, PositionsFollow
<1>. HIDE DEF at
\* One character more.
<1>7. ASSUME NEW n \in 0 .. L, n < L, at[n] = Len(e[n]) + 1, n <= Len(e[n])
      PROVE  /\ at[n + 1] = Len(e[n + 1]) + 1 /\ n + 1 <= Len(e[n + 1])
             /\ wire[at[n + 1] - 1] = text[n + 1]
             /\ at[n] <= Len(e[L]) /\ wire[at[n]] # "q"
    <2>. DEFINE ch == text[n + 1]
                p  == Len(e[n]) + 1
    <2>1. n + 1 \in 1 .. L /\ n + 1 \in 0 .. L /\ (n + 1) - 1 = n /\ n \in Nat
        BY <1>1, <1>7
    <2>2. e[n + 1] = e[n] \o Escaped(ch) /\ ch \in Chars /\ e[n] \in Texts
        BY <1>1, <1>2, <1>4, <2>1
    <2>3. /\ Len(e[n + 1]) <= Len(e[L]) /\ Len(e[L]) \in Nat
          /\ \A i \in 1 .. Len(e[n + 1]) : e[L][i] = e[n + 1][i]
          /\ Len(e[n]) \in Nat /\ Len(e[n + 1]) \in Nat
        BY <1>1, <1>3, <1>4, <2>1
    <2>4. \A i \in 1 .. Len(e[n + 1]) : wire[i] = e[n + 1][i]
        BY <1>5, <2>3
    <2>. HIDE DEF ch
    <2>5. Escaped(ch) \in Texts
        BY <2>2, EscapedType
    <2>6. /\ Len(e[n + 1]) = Len(e[n]) + Len(Escaped(ch))
          /\ \A i \in 1 .. Len(Escaped(ch)) :
                e[n + 1][Len(e[n]) + i] = Escaped(ch)[i]
        <3>. DEFINE before == e[n]
                    piece == Escaped(ch)
        <3>1. before \in Texts /\ piece \in Texts
              /\ e[n + 1] = before \o piece
            BY <2>2, <2>5
        <3>. HIDE DEF before, piece
        <3>2. /\ Len(e[n + 1]) = Len(before) + Len(piece)
              /\ \A i \in 1 .. Len(piece) :
                    e[n + 1][Len(before) + i] = piece[i]
            BY <3>1, Concatenation
        <3>. QED
            BY <3>2 DEF before, piece
    <2>7. CASE ch \in {"q", "b"}
        <3>1. /\ Len(Escaped(ch)) = 2
              /\ Escaped(ch)[1] = "b" /\ Escaped(ch)[2] = ch
            BY <2>2, <2>7, EscapedType
        <3>2. Len(e[n + 1]) = Len(e[n]) + 2
            BY <2>6, <3>1
        <3>3. wire[p] = "b" /\ wire[p + 1] = ch
            <4>1. p \in 1 .. Len(e[n + 1]) /\ p + 1 \in 1 .. Len(e[n + 1])
                  /\ p + 1 = Len(e[n]) + 2
                BY <2>3, <3>2
            <4>2. e[n + 1][p] = "b" /\ e[n + 1][Len(e[n]) + 2] = ch
                BY <2>6, <3>1
            <4>. QED
                BY <2>4, <4>1, <4>2
        <3>4. p \in Nat /\ p < Len(wire) /\ p <= Len(e[L]) /\ ~(p > Len(wire))
            BY <1>5, <2>3, <3>2
        <3>5. n + 1 \in 1 .. Len(wire)
            BY <1>5, <1>7, <2>1, <2>3, <3>2
        <3>6. at[n + 1] = Onward(wire, p)
            BY <1>6, <1>7, <2>1, <3>5
        <3>7. at[n + 1] = p + 2
            BY <3>3, <3>4, <3>6 DEF Onward
        <3>8. (p + 2) - 1 = p + 1 /\ p + 2 = Len(e[n + 1]) + 1
            BY <2>3, <3>2
        <3>9. n + 1 <= Len(e[n + 1])
            BY <1>7, <2>1, <2>3, <3>2
        <3>. QED
            BY <1>7, <3>3, <3>4, <3>7, <3>8, <3>9 DEF ch
    <2>8. CASE ch \notin {"q", "b"}
        <3>1. Len(Escaped(ch)) = 1 /\ Escaped(ch)[1] = ch
            BY <2>2, <2>8, EscapedType
        <3>2. Len(e[n + 1]) = Len(e[n]) + 1
            BY <2>6, <3>1
        <3>3. wire[p] = ch
            <4>1. p \in 1 .. Len(e[n + 1])
                BY <2>3, <3>2
            <4>2. e[n + 1][p] = ch
                BY <2>6, <3>1
            <4>. QED
                BY <2>4, <4>1, <4>2
        <3>4. p \in Nat /\ p <= Len(e[L]) /\ ~(p > Len(wire))
            BY <1>5, <2>3, <3>2
        <3>5. n + 1 \in 1 .. Len(wire)
            BY <1>5, <1>7, <2>1, <2>3, <3>2
        <3>6. at[n + 1] = Onward(wire, p)
            BY <1>6, <1>7, <2>1, <3>5
        <3>7. at[n + 1] = p + 1
            BY <2>8, <3>3, <3>4, <3>6 DEF Onward
        <3>8. (p + 1) - 1 = p /\ p + 1 = Len(e[n + 1]) + 1
            BY <2>3, <3>2
        <3>9. n + 1 <= Len(e[n + 1])
            BY <1>7, <2>1, <2>3, <3>2
        <3>. QED
            BY <1>7, <2>8, <3>3, <3>4, <3>7, <3>8, <3>9 DEF ch
    <2>. QED
        BY <2>7, <2>8
<1>. DEFINE S == {n \in Nat : n <= L => at[n] = Len(e[n]) + 1 /\ n <= Len(e[n])}
<1>8. S = Nat
    <2>1. 0 \in S
        <3>1. Len(e[0]) = 0
            BY <1>2
        <3>. QED
            BY <1>6, <3>1
    <2>2. ASSUME NEW n \in S
          PROVE  n + 1 \in S
        <3>0. n \in Nat /\ n + 1 \in Nat
            OBVIOUS
        <3>1. CASE n + 1 <= L
            <4>1. n \in 0 .. L /\ n < L
                BY <1>1, <3>0, <3>1
            <4>2. at[n] = Len(e[n]) + 1 /\ n <= Len(e[n])
                BY <1>1, <4>1
            <4>. QED
                BY <1>7, <3>0, <4>1, <4>2
        <3>. QED
            BY <3>0, <3>1
    <2>. HIDE DEF S
    <2>3. S \in SUBSET Nat
        BY DEF S
    <2>. QED
        BY <2>1, <2>2, <2>3, SetInduction
<1>9. \A n \in 0 .. L : at[n] = Len(e[n]) + 1 /\ n <= Len(e[n])
    BY <1>1, <1>8
<1>. HIDE DEF S
<1>10. ASSUME NEW n \in 1 .. L
       PROVE  wire[at[n] - 1] = text[n]
    <2>1. n - 1 \in 0 .. L /\ n - 1 < L /\ (n - 1) + 1 = n
        BY <1>1
    <2>. QED
        BY <1>7, <1>9, <2>1
<1>11. \A n \in 0 .. L : n < L => at[n] <= Len(e[L]) /\ wire[at[n]] # "q"
    BY <1>7, <1>9
<1>12. L <= Len(e[L])
    BY <1>1, <1>9
<1>. QED
    BY <1>5, <1>9, <1>10, <1>11, <1>12 DEF L, e, wire, at

\* A text, escaped.
EscapedText(text) == Joined(EscapedPieces(text))[Len(text)]

(* The least number of a set is what Min() picks.                          *)
LEMMA MinIs ==
    ASSUME NEW S \in SUBSET Nat, NEW x \in S, \A y \in S : x <= y
    PROVE  Min(S) = x
<1>1. Min(S) \in S /\ Min(S) <= x
    BY LeastNumber
<1>2. x <= Min(S) /\ x \in Nat /\ Min(S) \in Nat
    BY <1>1
<1>. QED
    BY <1>1, <1>2

(* A client that parses an escaped text has the text.                      *)
LEMMA ParsedBack ==
    ASSUME NEW text \in Texts
    PROVE  /\ EscapedText(text) \in Texts
           /\ Parsed(EscapedText(text)) = text
<1>. DEFINE wire == EscapedText(text)
            at   == Positions(wire)
            L    == Len(text)
            ends == {n \in 0 .. Len(wire) : at[n] > Len(wire)}
<1>1. L \in Nat /\ <<>> \in Texts /\ Len(<<>>) = 0 /\ text \in [1 .. L -> Chars]
    BY LenProperties DEF Texts
<1>2. wire \in Texts /\ Len(wire) \in Nat
    <2>1. L \in 0 .. L
        BY <1>1
    <2>2. wire \in Texts
        BY <2>1, EscapedFollows DEF EscapedText
    <2>. QED
        BY <2>2, LenProperties DEF Texts
<1>3. wire = wire \o <<>>
    BY <1>2, ConcatEmptySeq DEF Texts
<1>4. /\ L <= Len(wire)
      /\ at[L] = Len(wire) + 1
      /\ \A n \in 1 .. L : wire[at[n] - 1] = text[n]
      /\ \A n \in 0 .. L : n < L => at[n] <= Len(wire)
    <2>. DEFINE whole == EscapedText(text) \o <<>>
    <2>1. /\ L <= Len(EscapedText(text))
          /\ \A n \in 0 .. L : Positions(whole)[n] =
                               Len(Joined(EscapedPieces(text))[n]) + 1
          /\ \A n \in 1 .. L : whole[Positions(whole)[n] - 1] = text[n]
          /\ \A n \in 0 .. L : n < L =>
                Positions(whole)[n] <= Len(EscapedText(text))
        BY <1>1, ReadBack DEF EscapedText
    <2>2. Positions(whole)[L] = Len(EscapedText(text)) + 1
        <3>1. L \in 0 .. L
            BY <1>1
        <3>. HIDE DEF whole
        <3>. QED
            BY <2>1, <3>1 DEF EscapedText
    <2>3. whole = wire
        BY <1>3
    <2>. HIDE DEF whole
    <2>. QED
        BY <2>1, <2>2, <2>3
<1>5. at \in [0 .. Len(wire) -> Nat]
    BY <1>2, PositionsFollow
<1>6. Parsed(wire) = [k \in 1 .. Min(ends) |-> wire[at[k] - 1]]
    BY DEF Parsed, TextRead
<1>. HIDE DEF wire, at, L
<1>7. L \in ends /\ ends \in SUBSET Nat
    BY <1>1, <1>2, <1>4
<1>8. \A n \in ends : L <= n
    <2>. SUFFICES ASSUME NEW n \in ends, n < L
                  PROVE  FALSE
        BY <1>1, <1>2
    <2>1. n \in 0 .. L /\ at[n] > Len(wire) /\ at[n] \in Nat
        BY <1>1, <1>5
    <2>. QED
        BY <1>2, <1>4, <2>1
<1>9. Min(ends) = L
    <2>. HIDE DEF ends
    <2>. QED
        BY <1>7, <1>8, MinIs
<1>10. Parsed(wire) = [k \in 1 .. L |-> text[k]]
    BY <1>4, <1>6, <1>9
<1>. QED
    BY <1>1, <1>2, <1>10 DEF wire

(* A name or value that json_find_string() takes out of what a client has  *)
(* written is what the client meant, unless the result says otherwise.     *)
THEOREM FoundAsMeant ==
    ASSUME NEW text \in Texts, NEW out_size \in Nat \ {0},
           FindString(Wire(text), out_size).ret = 0
    PROVE  FindString(Wire(text), out_size).out = text
<1>. DEFINE e    == EscapedText(text)
            wire == e \o <<"q">>
            at   == Positions(wire)
            L    == Len(text)
            Mark(n) == at[n] <= Len(wire) /\ wire[at[n]] = "q"
            ends == {n \in 0 .. Len(wire) :
                        Mark(n) \/ at[n] > Len(wire) \/ n = out_size - 1}
<1>1. L \in Nat /\ text \in [1 .. L -> Chars]
      /\ <<"q">> \in Texts /\ Len(<<"q">>) = 1 /\ <<"q">>[1] = "q"
    <2>1. "q" \in Chars
        BY DEF Chars
    <2>. QED
        BY <2>1, LenProperties DEF Texts
<1>2. e \in Texts /\ Len(e) \in Nat
    <2>1. e \in Texts
        BY ParsedBack
    <2>. QED
        BY <2>1, LenProperties DEF Texts
<1>3. Wire(text) = wire
    BY DEF Wire, EscapedText, EscapedPieces
<1>4. /\ wire \in Texts
      /\ Len(wire) = Len(e) + 1
      /\ L <= Len(e)
      /\ at[L] = Len(e) + 1
      /\ \A n \in 1 .. L : wire[at[n] - 1] = text[n]
      /\ \A n \in 0 .. L : n < L => at[n] <= Len(e) /\ wire[at[n]] # "q"
    <2>1. L \in 0 .. L
        BY <1>1
    <2>. QED
        BY <1>1, <2>1, ReadBack DEF EscapedText
<1>5. wire[Len(e) + 1] = "q"
    <2>1. 1 \in 1 .. Len(<<"q">>)
        BY <1>1
    <2>. HIDE DEF e
    <2>. QED
        BY <1>1, <1>2, <2>1, Concatenation
<1>6. at \in [0 .. Len(wire) -> Nat]
    BY <1>4, PositionsFollow
<1>7. FindString(wire, out_size) =
         [ret |-> IF wire = <<>> THEN -1 ELSE IF Mark(Min(ends)) THEN 0 ELSE 1,
          out |-> [k \in 1 .. Min(ends) |-> wire[at[k] - 1]]]
    BY DEF FindString, TextRead
<1>. HIDE DEF wire, at, L, e
<1>8. L \in ends /\ ends \in SUBSET Nat
    BY <1>1, <1>2, <1>4, <1>5
<1>9. Min(ends) \in 0 .. L
    <2>. HIDE DEF ends
    <2>. DEFINE m == Min(ends)
    <2>1. m \in ends /\ m <= L
        BY <1>8, LeastNumber
    <2>2. m \in Nat
        BY <1>8, <2>1
    <2>. HIDE DEF m
    <2>3. m \in 0 .. L
        BY <1>1, <2>1, <2>2
    <2>. QED
        BY <2>3 DEF m
<1>10. Mark(Min(ends))
    <2>. HIDE DEF Mark
    <2>. QED
        BY <1>3, <1>7
<1>11. Min(ends) = L
    <2>. HIDE DEF ends
    <2>. QED
        BY <1>1, <1>4, <1>9, <1>10
<1>12. FindString(wire, out_size).out = [k \in 1 .. L |-> text[k]]
    <2>1. FindString(wire, out_size).out = [k \in 1 .. L |-> wire[at[k] - 1]]
        <3>. HIDE DEF ends, Mark
        <3>. QED
            BY <1>7, <1>11
    <2>. QED
        BY <1>4, <2>1
<1>. QED
    BY <1>1, <1>3, <1>12

(* What a client has sent is what it meant.                                *)
LEMMA SentAsMeant ==
    ASSUME NEW text \in Texts
    PROVE  TextSent(Wire(text)) = text
<1>. DEFINE e    == EscapedText(text)
            wire == e \o <<"q">>
            cut  == SubSeq(wire, 1, Len(wire) - 1)
<1>1. e \in Texts /\ Parsed(e) = text
    BY ParsedBack
<1>2. <<"q">> \in Texts /\ Len(<<"q">>) = 1
    BY DEF Texts, Chars
<1>3. Wire(text) = wire
    BY DEF Wire, EscapedText, EscapedPieces
<1>. HIDE DEF e
<1>4. /\ Len(wire) - 1 = Len(e) /\ Len(e) \in Nat
      /\ \A i \in 1 .. Len(e) : wire[i] = e[i]
    BY <1>1, <1>2, Concatenation
<1>. HIDE DEF wire
<1>5. cut = SubSeq(wire, 1, Len(e))
    BY <1>4
<1>6. \A i \in 1 .. Len(e) : wire[i] \in Chars
    BY <1>1, <1>4, ElementOfSeq DEF Texts
<1>7. /\ cut \in Texts /\ Len(cut) = Len(e)
      /\ \A i \in 1 .. Len(e) : cut[i] = wire[i]
    <2>1. 1 \in Int /\ Len(e) \in Int
        BY <1>4
    <2>2. /\ cut \in Seq(Chars)
          /\ Len(cut) = IF 1 <= Len(e) THEN Len(e) - 1 + 1 ELSE 0
          /\ \A i \in 1 .. Len(e) - 1 + 1 : cut[i] = wire[1 + i - 1]
        BY <1>5, <1>6, <2>1, SubSeqProperties
    <2>3. Len(cut) = Len(e) /\ Len(e) - 1 + 1 = Len(e)
        BY <1>4, <2>2
    <2>4. \A i \in 1 .. Len(e) : 1 + i - 1 = i
        OBVIOUS
    <2>. QED
        BY <2>2, <2>3, <2>4 DEF Texts
<1>8. cut = e
    BY <1>1, <1>4, <1>7, SeqEqual DEF Texts
<1>. QED
    BY <1>1, <1>3, <1>8 DEF TextSent, wire

(* A reader moves on until it is past the end.                             *)
LEMMA PositionsRise ==
    ASSUME NEW wire \in Texts, NEW n \in 0 .. Len(wire)
    PROVE  Positions(wire)[n] > n
<1>. DEFINE at == Positions(wire)
            L  == Len(wire)
            S  == {k \in Nat : k <= L => at[k] > k}
<1>1. L \in Nat
    BY LenProperties DEF Texts
<1>2. /\ at \in [0 .. L -> Nat] /\ at[0] = 1
      /\ \A k \in 1 .. L : at[k] = Onward(wire, at[k - 1])
    BY PositionsFollow
<1>. HIDE DEF at
<1>3. 0 \in S
    BY <1>2
<1>4. ASSUME NEW k \in S
      PROVE  k + 1 \in S
    <2>0. k \in Nat /\ k + 1 \in Nat
        OBVIOUS
    <2>. SUFFICES ASSUME k + 1 <= L
                  PROVE  at[k + 1] > k + 1
        BY <2>0
    <2>1. k + 1 \in 1 .. L /\ (k + 1) - 1 = k /\ k \in 0 .. L
        BY <1>1, <2>0
    <2>2. at[k] > k /\ at[k] \in Nat
        BY <1>1, <1>2, <2>0, <2>1
    <2>3. at[k + 1] = Onward(wire, at[k])
        BY <1>2, <2>1
    <2>. HIDE DEF S
    <2>4. CASE at[k] > L
        BY <1>1, <2>0, <2>2, <2>3, <2>4 DEF Onward
    <2>5. CASE ~(at[k] > L)
        <3>1. at[k + 1] = at[k] + 1 \/ at[k + 1] = at[k] + 2
            BY <2>3, <2>5 DEF Onward
        <3>. QED
            BY <2>0, <2>2, <3>1
    <2>. QED
        BY <2>4, <2>5
<1>5. S = Nat
    <2>. HIDE DEF S
    <2>1. S \in SUBSET Nat
        BY DEF S
    <2>. QED
        BY <1>3, <1>4, <2>1, SetInduction
<1>. QED
    BY <1>1, <1>5 DEF at

(* json_find_string() takes a text out of any line.                        *)
LEMMA FoundType ==
    ASSUME NEW wire \in Texts, NEW out_size \in Nat \ {0}
    PROVE  FindString(wire, out_size).out \in Texts
<1>. DEFINE at   == Positions(wire)
            L    == Len(wire)
            Stops(n) == \/ at[n] <= Len(wire) /\ wire[at[n]] = "q"
                        \/ at[n] > Len(wire)
                        \/ n = out_size - 1
            ends == {n \in 0 .. L : Stops(n)}
            end  == Min(ends)
<1>1. L \in Nat /\ \A i \in 1 .. L : wire[i] \in Chars
    BY LenProperties, ElementOfSeq DEF Texts
<1>2. /\ at \in [0 .. L -> Nat] /\ at[0] = 1
      /\ \A n \in 1 .. L : at[n] = Onward(wire, at[n - 1])
    BY PositionsFollow
<1>3. \A n \in 0 .. L : at[n] > n
    BY PositionsRise
<1>4. FindString(wire, out_size).out
         = [k \in 1 .. end |-> wire[at[k] - 1]]
    BY DEF FindString, TextRead
<1>. HIDE DEF at, L
<1>5. L \in ends /\ ends \in SUBSET Nat
    BY <1>1, <1>3 DEF L
<1>6. end \in ends /\ \A n \in ends : end <= n
    <2>. HIDE DEF ends
    <2>. QED
        BY <1>5, LeastNumber
<1>7. end \in 0 .. L /\ end \in Nat
    <2>. HIDE DEF end
    <2>. QED
        BY <1>1, <1>6
<1>. HIDE DEF end
<1>8. ASSUME NEW k \in 1 .. end
      PROVE  wire[at[k] - 1] \in Chars
    <2>1. k - 1 \in 0 .. L /\ k \in 1 .. L /\ k - 1 < end /\ k - 1 \in Nat
        BY <1>1, <1>7
    <2>2. ~(at[k - 1] > Len(wire))
        <3>1. k - 1 \notin ends
            <4>. HIDE DEF ends
            <4>. QED
                BY <1>6, <1>7, <2>1
        <3>. QED
            BY <2>1, <3>1
    <2>3. at[k - 1] \in Nat /\ at[k - 1] > 0
        <3>1. at[k - 1] \in Nat /\ at[k - 1] > k - 1
            BY <1>2, <1>3, <2>1
        <3>. QED
            BY <2>1, <3>1
    <2>4. at[k] = Onward(wire, at[k - 1])
        BY <1>2, <2>1
    <2>5. at[k] - 1 \in 1 .. L
        <3>1. \/ at[k] = at[k - 1] + 1
              \/ at[k] = at[k - 1] + 2 /\ at[k - 1] < L
            BY <2>2, <2>4 DEF Onward, L
        <3>2. at[k - 1] <= L
            BY <1>1, <2>2, <2>3 DEF L
        <3>. QED
            BY <1>1, <2>3, <3>1, <3>2
    <2>. QED
        BY <1>1, <2>5
<1>. QED
    BY <1>4, <1>7, <1>8 DEF Texts

-----------------------------------------------------------------------------
(* Escaping by json_escape().                                              *)

EscapePieces(src) == [i \in 1 .. Len(src) |-> Escape(src[i])]
PrintablePieces(src) ==
    [i \in 1 .. Len(src) |-> IF src[i] = "c" THEN <<>> ELSE <<src[i]>>]

(* The pieces of a name, as they are sent and as they are meant.           *)
LEMMA EscapeType ==
    ASSUME NEW src \in Texts
    PROVE  /\ EscapePieces(src) \in Seq(Texts)
           /\ Len(EscapePieces(src)) = Len(src)
           /\ PrintablePieces(src) \in Seq(Texts)
           /\ Len(PrintablePieces(src)) = Len(src)
           /\ \A n \in 1 .. Len(src) :
                 /\ src[n] \in Chars
                 /\ EscapePieces(src)[n] = Escape(src[n])
                 /\ Escape(src[n]) \in Texts /\ Len(Escape(src[n])) <= 2
                 /\ PrintablePieces(src)[n]
                       = IF src[n] = "c" THEN <<>> ELSE <<src[n]>>
<1>1. Len(src) \in Nat /\ \A i \in 1 .. Len(src) : src[i] \in Chars
    BY LenProperties, ElementOfSeq DEF Texts
<1>2. ASSUME NEW ch \in Chars
      PROVE  /\ Escape(ch) \in Texts /\ Len(Escape(ch)) <= 2
             /\ (IF ch = "c" THEN <<>> ELSE <<ch>>) \in Texts
    <2>1. /\ <<>> \in Texts /\ Len(<<>>) = 0
          /\ <<ch>> \in Texts /\ Len(<<ch>>) = 1
          /\ <<"b", ch>> \in Texts /\ Len(<<"b", ch>>) = 2
        BY DEF Texts, Chars
    <2>2. Escape(ch) = <<"b", ch>> \/ Escape(ch) = <<>> \/ Escape(ch) = <<ch>>
        BY DEF Escape, Chars
    <2>3. /\ Escape(ch) \in Texts
          /\ Len(Escape(ch)) = 0 \/ Len(Escape(ch)) = 1 \/ Len(Escape(ch)) = 2
        BY <2>1, <2>2
    <2>4. (IF ch = "c" THEN <<>> ELSE <<ch>>) \in Texts
        BY <2>1
    <2>. DEFINE length == Len(Escape(ch))
    <2>5. length <= 2
        <3>1. length = 0 \/ length = 1 \/ length = 2
            BY <2>3
        <3>. HIDE DEF length
        <3>. QED
            BY <3>1
    <2>. QED
        BY <2>3, <2>4, <2>5
<1>3. /\ EscapePieces(src) \in Seq(Texts)
      /\ Len(EscapePieces(src)) = Len(src)
    <2>1. \A i \in 1 .. Len(src) : Escape(src[i]) \in Texts
        BY <1>1, <1>2
    <2>. QED
        BY <1>1, <2>1 DEF EscapePieces
<1>4. /\ PrintablePieces(src) \in Seq(Texts)
      /\ Len(PrintablePieces(src)) = Len(src)
    BY <1>1, <1>2 DEF PrintablePieces
<1>. QED
    BY <1>1, <1>2, <1>3, <1>4 DEF EscapePieces, PrintablePieces

(* The first n characters of a name take no more than 2 n in the response. *)
LEMMA EscapeLength ==
    ASSUME NEW src \in Texts, NEW n \in 0 .. Len(src)
    PROVE  /\ Joined(EscapePieces(src))[n] \in Texts
           /\ Len(Joined(EscapePieces(src))[n]) \in Nat
           /\ Len(Joined(EscapePieces(src))[n]) <= 2 * n
<1>. DEFINE e == Joined(EscapePieces(src))
            L == Len(src)
            S == {k \in Nat : k <= L => Len(e[k]) <= 2 * k}
<1>1. /\ EscapePieces(src) \in Seq(Texts)
      /\ Len(EscapePieces(src)) = L
      /\ \A k \in 1 .. L : /\ EscapePieces(src)[k] = Escape(src[k])
                           /\ Escape(src[k]) \in Texts
                           /\ Len(Escape(src[k])) <= 2
    BY EscapeType
<1>2. /\ e \in [0 .. L -> Texts]
      /\ e[0] = <<>>
      /\ \A k \in 1 .. L : e[k] = e[k - 1] \o Escape(src[k])
    BY <1>1, JoinedFollows
<1>3. L \in Nat
    BY LenProperties DEF Texts
<1>. HIDE DEF e, L
<1>4. \A k \in 0 .. L : e[k] \in Texts /\ Len(e[k]) \in Nat
    BY <1>2, LenProperties DEF Texts
<1>5. 0 \in S
    BY <1>2
<1>6. ASSUME NEW k \in S
      PROVE  k + 1 \in S
    <2>0. k \in Nat /\ k + 1 \in Nat
        OBVIOUS
    <2>. SUFFICES ASSUME k + 1 <= L
                  PROVE  Len(e[k + 1]) <= 2 * (k + 1)
        BY <2>0
    <2>1. k + 1 \in 1 .. L /\ (k + 1) - 1 = k /\ k \in 0 .. L /\ k <= L
        BY <1>3, <2>0
    <2>2. Len(e[k]) <= 2 * k
        BY <2>0, <2>1
    <2>. HIDE DEF S
    <2>. DEFINE before == e[k]
                piece  == Escape(src[k + 1])
    <2>3. /\ before \in Texts /\ piece \in Texts
          /\ e[k + 1] = before \o piece
          /\ Len(piece) <= 2 /\ Len(before) <= 2 * k
        BY <1>1, <1>2, <1>4, <2>1, <2>2
    <2>. HIDE DEF before, piece
    <2>4. /\ Len(e[k + 1]) = Len(before) + Len(piece)
          /\ Len(before) \in Nat /\ Len(piece) \in Nat
        BY <2>3, Concatenation
    <2>. QED
        BY <2>0, <2>3, <2>4
<1>7. S = Nat
    <2>. HIDE DEF S
    <2>1. S \in SUBSET Nat
        BY DEF S
    <2>. QED
        BY <1>5, <1>6, <2>1, SetInduction
<1>. QED
    BY <1>3, <1>4, <1>7 DEF e, L

(* A name of less than ZW3021_STORAGE_NAME_MAX_LEN characters is never cut *)
(* by the buffer it is escaped in.                                         *)
LEMMA NameIsEscaped ==
    ASSUME NEW src \in Texts, Len(src) < ZW3021_STORAGE_NAME_MAX_LEN
    PROVE  LET esc == JsonEscape(src, ZW3021_STORAGE_NAME_MAX_LEN * 2 + 1) IN
           /\ esc = Joined(EscapePieces(src))[Len(src)]
           /\ esc \in Texts /\ Len(esc) \in Nat /\ Len(esc) <= 94
<1>. DEFINE L == Len(src)
            e == Joined(EscapePieces(src))
            fitting == {n \in 0 .. L : Len(e[n]) < 97}
<1>1. L \in Nat /\ L <= 47
    BY LenProperties DEF Texts, ZW3021_STORAGE_NAME_MAX_LEN
<1>2. \A n \in 0 .. L : /\ e[n] \in Texts /\ Len(e[n]) \in Nat
                        /\ Len(e[n]) <= 2 * n
    BY EscapeLength
<1>3. JsonEscape(src, 97) = e[Max(fitting)]
    BY DEF JsonEscape, EscapePieces
<1>4. ZW3021_STORAGE_NAME_MAX_LEN * 2 + 1 = 97
    BY DEF ZW3021_STORAGE_NAME_MAX_LEN
<1>. HIDE DEF L, e
<1>5. \A n \in 0 .. L : Len(e[n]) <= 94
    BY <1>1, <1>2
<1>6. fitting = 0 .. L
    BY <1>1, <1>2, <1>5
<1>7. Max(0 .. L) = L
    <2>1. L \in 0 .. L /\ \A y \in 0 .. L : L >= y
        BY <1>1
    <2>2. \A x \in 0 .. L : (\A y \in 0 .. L : x >= y) => x = L
        BY <1>1, <2>1
    <2>. QED
        BY <2>1, <2>2 DEF Max
<1>8. /\ JsonEscape(src, 97) = e[L] /\ e[L] \in Texts
      /\ Len(e[L]) \in Nat /\ Len(e[L]) <= 94
    <2>1. L \in 0 .. L
        BY <1>1
    <2>2. Max(fitting) = L
        BY <1>6, <1>7
    <2>. HIDE DEF fitting
    <2>. QED
        BY <1>2, <1>3, <1>5, <2>1, <2>2
<1>9. JsonEscape(src, ZW3021_STORAGE_NAME_MAX_LEN * 2 + 1)
         = JsonEscape(src, 97)
    BY <1>4
<1>. HIDE DEF fitting
<1>. QED
    BY <1>8, <1>9 DEF L, e

(* What a client escapes one character more of.                            *)
LEMMA EscapedAppend ==
    ASSUME NEW text \in Texts, NEW ch \in Chars
    PROVE  EscapedText(text \o <<ch>>) = EscapedText(text) \o Escaped(ch)
<1>. DEFINE L == Len(text)
            longer == text \o <<ch>>
            e == Joined(EscapedPieces(text))
            f == Joined(EscapedPieces(longer))
            S == {k \in Nat : k <= L => f[k] = e[k]}
<1>1. <<ch>> \in Texts /\ Len(<<ch>>) = 1 /\ <<ch>>[1] = ch
    BY DEF Texts
<1>2. /\ longer \in Texts /\ L \in Nat /\ Len(longer) = L + 1
      /\ \A i \in 1 .. L : longer[i] = text[i]
      /\ longer[L + 1] = ch
    <2>. DEFINE one == <<ch>>
    <2>1. /\ text \o one \in Texts /\ L \in Nat
          /\ Len(text \o one) = L + Len(one)
          /\ \A i \in 1 .. L : (text \o one)[i] = text[i]
          /\ \A i \in 1 .. Len(one) : (text \o one)[L + i] = one[i]
        BY <1>1, Concatenation
    <2>2. 1 \in 1 .. Len(one)
        BY <1>1
    <2>. QED
        BY <1>1, <2>1, <2>2
<1>. HIDE DEF longer
<1>3. /\ e[0] = <<>>
      /\ \A n \in 1 .. L : e[n] = e[n - 1] \o Escaped(text[n])
    BY EscapedFollows
<1>4. /\ f[0] = <<>>
      /\ \A n \in 1 .. L + 1 : f[n] = f[n - 1] \o Escaped(longer[n])
    BY <1>2, EscapedFollows
<1>. HIDE DEF e, f, L
<1>5. 0 \in S
    BY <1>3, <1>4
<1>6. ASSUME NEW k \in S
      PROVE  k + 1 \in S
    <2>0. k \in Nat /\ k + 1 \in Nat
        OBVIOUS
    <2>. SUFFICES ASSUME k + 1 <= L
                  PROVE  f[k + 1] = e[k + 1]
        BY <2>0
    <2>1. k + 1 \in 1 .. L /\ k + 1 \in 1 .. L + 1 /\ (k + 1) - 1 = k
          /\ k <= L
        BY <1>2, <2>0
    <2>2. f[k] = e[k]
        BY <2>0, <2>1
    <2>. QED
        BY <1>2, <1>3, <1>4, <2>1, <2>2
<1>7. S = Nat
    <2>. HIDE DEF S
    <2>1. S \in SUBSET Nat
        BY DEF S
    <2>. QED
        BY <1>5, <1>6, <2>1, SetInduction
<1>8. f[L] = e[L]
    BY <1>2, <1>7
<1>9. f[L + 1] = f[L] \o Escaped(ch)
    <2>1. L + 1 \in 1 .. L + 1 /\ (L + 1) - 1 = L
        BY <1>2
    <2>. QED
        BY <1>2, <1>4, <2>1
<1>. QED
    BY <1>2, <1>8, <1>9 DEF EscapedText, e, f, L, longer

(* json_escape() makes of a name what a client would make of it without    *)
(* its control characters.                                                 *)
LEMMA EscapePrintable ==
    ASSUME NEW src \in Texts
    PROVE  /\ Printable(src) \in Texts
           /\ Joined(EscapePieces(src))[Len(src)] = EscapedText(Printable(src))
<1>. DEFINE L == Len(src)
            e == Joined(EscapePieces(src))
            w == Joined(PrintablePieces(src))
            S == {k \in Nat : k <= L => e[k] = EscapedText(w[k])}
<1>1. /\ EscapePieces(src) \in Seq(Texts) /\ Len(EscapePieces(src)) = L
      /\ PrintablePieces(src) \in Seq(Texts) /\ Len(PrintablePieces(src)) = L
      /\ \A k \in 1 .. L :
            /\ src[k] \in Chars
            /\ EscapePieces(src)[k] = Escape(src[k])
            /\ PrintablePieces(src)[k]
                  = IF src[k] = "c" THEN <<>> ELSE <<src[k]>>
    BY EscapeType
<1>2. /\ e \in [0 .. L -> Texts] /\ e[0] = <<>>
      /\ \A k \in 1 .. L : e[k] = e[k - 1] \o Escape(src[k])
    BY <1>1, JoinedFollows
<1>3. /\ w \in [0 .. L -> Texts] /\ w[0] = <<>>
      /\ \A k \in 1 .. L : w[k] = w[k - 1] \o
                              (IF src[k] = "c" THEN <<>> ELSE <<src[k]>>)
    BY <1>1, JoinedFollows
<1>4. L \in Nat
    BY LenProperties DEF Texts
<1>5. Printable(src) = w[L]
    BY DEF Printable, PrintablePieces
<1>. HIDE DEF e, w, L
<1>6. EscapedText(<<>>) = <<>>
    <2>1. <<>> \in Texts /\ Len(<<>>) = 0
        BY DEF Texts
    <2>. DEFINE none == <<>>
    <2>. HIDE DEF none
    <2>2. Joined(EscapedPieces(none))[0] = <<>>
        BY <2>1, EscapedFollows DEF none
    <2>. QED
        BY <2>1, <2>2 DEF EscapedText, none
<1>7. 0 \in S
    BY <1>2, <1>3, <1>6
<1>8. ASSUME NEW k \in S
      PROVE  k + 1 \in S
    <2>0. k \in Nat /\ k + 1 \in Nat
        OBVIOUS
    <2>. SUFFICES ASSUME k + 1 <= L
                  PROVE  e[k + 1] = EscapedText(w[k + 1])
        BY <2>0
    <2>. DEFINE ch == src[k + 1]
    <2>1. k + 1 \in 1 .. L /\ (k + 1) - 1 = k /\ k <= L /\ k \in 0 .. L
        BY <1>4, <2>0
    <2>2. e[k] = EscapedText(w[k])
        BY <2>0, <2>1
    <2>. HIDE DEF S
    <2>3. /\ e[k + 1] = e[k] \o Escape(ch)
          /\ w[k + 1] = w[k] \o (IF ch = "c" THEN <<>> ELSE <<ch>>)
          /\ ch \in Chars /\ w[k] \in Texts /\ e[k] \in Texts
        BY <1>1, <1>2, <1>3, <2>1
    <2>. HIDE DEF ch
    <2>4. CASE ch = "c"
        <3>1. Escape(ch) = <<>>
            BY <2>4 DEF Escape
        <3>2. e[k + 1] = e[k] \o <<>> /\ w[k + 1] = w[k] \o <<>>
            BY <2>3, <2>4, <3>1
        <3>3. e[k + 1] = e[k] /\ w[k + 1] = w[k]
            BY <2>3, <3>2, ConcatEmptySeq DEF Texts
        <3>. QED
            BY <2>2, <3>3
    <2>5. CASE ch # "c"
        <3>1. Escape(ch) = Escaped(ch)
            BY <2>3, <2>5 DEF Escape, Escaped
        <3>2. w[k + 1] = w[k] \o <<ch>>
            BY <2>3, <2>5
        <3>. QED
            BY <2>2, <2>3, <3>1, <3>2, EscapedAppend
    <2>. QED
        BY <2>4, <2>5
<1>9. S = Nat
    <2>. HIDE DEF S
    <2>1. S \in SUBSET Nat
        BY DEF S
    <2>. QED
        BY <1>7, <1>8, <2>1, SetInduction
<1>10. e[L] = EscapedText(w[L]) /\ w[L] \in Texts
    BY <1>3, <1>4, <1>9
<1>. QED
    BY <1>5, <1>10 DEF e, L

(* A stored name survives escaping, the response and the client's parser.  *)
THEOREM NameComesBack ==
    ASSUME NEW src \in Texts, Len(src) < ZW3021_STORAGE_NAME_MAX_LEN
    PROVE  Parsed(JsonEscape(src, ZW3021_STORAGE_NAME_MAX_LEN * 2 + 1))
              = Printable(src)
BY NameIsEscaped, EscapePrintable, ParsedBack
-----------------------------------------------------------------------------
(* Numbers and lists in a response.                                        *)

(* The powers of ten up to these bounds.                                   *)
LEMMA PowersUpTo ==
    /\ IsFiniteSet({10, 100}) /\ Cardinality({10, 100}) <= 2
    /\ IsFiniteSet({10, 100, 1000}) /\ Cardinality({10, 100, 1000}) <= 3
    /\ IsFiniteSet({10, 100, 1000, 10000})
    /\ Cardinality({10, 100, 1000, 10000}) <= 4
    /\ IsFiniteSet(TensPowers)
<1>. DEFINE A == {10}
            B == {10, 100}
            C == {10, 100, 1000}
            D == {10, 100, 1000, 10000}
            E == {10, 100, 1000, 10000, 100000}
            F == {10, 100, 1000, 10000, 100000, 1000000}
            G == {10, 100, 1000, 10000, 100000, 1000000, 10000000}
            H == {10, 100, 1000, 10000, 100000, 1000000, 10000000, 100000000}
<1>1. B = A \cup {100}
    OBVIOUS
<1>2. C = B \cup {1000}
    OBVIOUS
<1>3. D = C \cup {10000}
    OBVIOUS
<1>4. E = D \cup {100000}
    OBVIOUS
<1>5. F = E \cup {1000000}
    OBVIOUS
<1>6. G = F \cup {10000000}
    OBVIOUS
<1>7. H = G \cup {100000000}
    OBVIOUS
<1>8. TensPowers = H \cup {1000000000}
    BY DEF TensPowers
<1>9. IsFiniteSet(A) /\ Cardinality(A) = 1
    BY Zenon, FS_Singleton
<1>. HIDE DEF A, B, C, D, E, F, G, H
<1>10. IsFiniteSet(B) /\ Cardinality(B) <= 2
    <2>. DEFINE size == Cardinality(A)
                more == Cardinality(B)
    <2>1. /\ IsFiniteSet(B)
          /\ more = IF 100 \in A THEN size ELSE size + 1
        BY <1>1, <1>9, FS_AddElement
    <2>2. size \in Nat
        BY <1>9, FS_CardinalityType
    <2>3. size = 1
        BY <1>9
    <2>. HIDE DEF size, more
    <2>4. more <= 2
        BY <2>1, <2>2, <2>3
    <2>. QED
        BY <2>1, <2>4 DEF more
<1>11. IsFiniteSet(C) /\ Cardinality(C) <= 3
    <2>. DEFINE size == Cardinality(B)
                more == Cardinality(C)
    <2>1. /\ IsFiniteSet(C)
          /\ more = IF 1000 \in B THEN size ELSE size + 1
        BY <1>2, <1>10, FS_AddElement
    <2>2. size \in Nat
        BY <1>10, FS_CardinalityType
    <2>3. size <= 2
        BY <1>10
    <2>. HIDE DEF size, more
    <2>4. more <= 3
        BY <2>1, <2>2, <2>3
    <2>. QED
        BY <2>1, <2>4 DEF more
<1>12. IsFiniteSet(D) /\ Cardinality(D) <= 4
    <2>. DEFINE size == Cardinality(C)
                more == Cardinality(D)
    <2>1. /\ IsFiniteSet(D)
          /\ more = IF 10000 \in C THEN size ELSE size + 1
        BY <1>3, <1>11, FS_AddElement
    <2>2. size \in Nat
        BY <1>11, FS_CardinalityType
    <2>3. size <= 3
        BY <1>11
    <2>. HIDE DEF size, more
    <2>4. more <= 4
        BY <2>1, <2>2, <2>3
    <2>. QED
        BY <2>1, <2>4 DEF more
<1>13. IsFiniteSet(E)
    BY <1>4, <1>12, FS_AddElement
<1>14. IsFiniteSet(F)
    BY <1>5, <1>13, FS_AddElement
<1>15. IsFiniteSet(G)
    BY <1>6, <1>14, FS_AddElement
<1>16. IsFiniteSet(H)
    BY <1>7, <1>15, FS_AddElement
<1>17. IsFiniteSet(TensPowers)
    BY <1>8, <1>16, FS_AddElement
<1>. QED
    BY <1>10, <1>11, <1>12, <1>17 DEF B, C, D

(* The characters a number takes in a response.                            *)
LEMMA DigitsBound ==
    ASSUME NEW n \in Int, n >= -1
    PROVE  /\ Digits(n) \in Nat /\ Digits(n) >= 1
           /\ n <= 100 => Digits(n) <= 3
           /\ n <= 9999 => Digits(n) <= 4
           /\ n <= 65535 => Digits(n) <= 5
<1>. DEFINE S == {power \in TensPowers : power <= n}
            size == Cardinality(S)
<1>1. S \in SUBSET TensPowers
    OBVIOUS
<1>2. size \in Nat
    <2>1. IsFiniteSet(S)
        BY <1>1, PowersUpTo, FS_Subset
    <2>. QED
        BY <2>1, FS_CardinalityType
<1>3. ASSUME n <= 100
      PROVE  size <= 2
    <2>1. S \in SUBSET {10, 100}
        BY <1>3 DEF TensPowers
    <2>2. size <= Cardinality({10, 100}) /\ Cardinality({10, 100}) \in Nat
        BY <2>1, PowersUpTo, FS_Subset, FS_CardinalityType
    <2>. DEFINE bound == Cardinality({10, 100})
    <2>3. bound <= 2
        BY PowersUpTo
    <2>. HIDE DEF size, bound
    <2>4. size <= bound /\ bound \in Nat
        BY <2>2 DEF size, bound
    <2>. QED
        BY <1>2, <2>3, <2>4
<1>4. ASSUME n <= 9999
      PROVE  size <= 3
    <2>1. S \in SUBSET {10, 100, 1000}
        BY <1>4 DEF TensPowers
    <2>. DEFINE bound == Cardinality({10, 100, 1000})
    <2>2. size <= bound /\ bound \in Nat
        BY <2>1, PowersUpTo, FS_Subset, FS_CardinalityType
    <2>3. bound <= 3
        BY PowersUpTo
    <2>. HIDE DEF size, bound
    <2>. QED
        BY <1>2, <2>2, <2>3
<1>5. ASSUME n <= 65535
      PROVE  size <= 4
    <2>1. S \in SUBSET {10, 100, 1000, 10000}
        BY <1>5 DEF TensPowers
    <2>. DEFINE bound == Cardinality({10, 100, 1000, 10000})
    <2>2. size <= bound /\ bound \in Nat
        BY <2>1, PowersUpTo, FS_Subset, FS_CardinalityType
    <2>3. bound <= 4
        BY PowersUpTo
    <2>. HIDE DEF size, bound
    <2>. QED
        BY <1>2, <2>2, <2>3
<1>6. Digits(n) = IF n < 0 THEN 2 ELSE 1 + size
    BY DEF Digits
<1>. HIDE DEF size
<1>. QED
    BY <1>2, <1>3, <1>4, <1>5, <1>6

\* The list after the first n ids are read: those of may, and all of must but
\* the ones there was no room for.
ListOk(list, n, may, must) ==
    /\ list \in [ids : SUBSET (may \cap 1 .. n), pos : 0 .. DataMax - 5]
    /\ \A id \in (must \cap 1 .. n) \ list.ids :
          ~RoomFor(list.pos) /\ \A listed \in list.ids : listed < id

\* What the reading of one id does to a list.
Step(list, id, present) ==
    IF RoomFor(list.pos) /\ id \in present THEN Listed(list, id) ELSE list

(* One id more is read.                                                    *)
LEMMA StepOk ==
    ASSUME NEW n \in 1 .. ZW3021_RPC_SCAN_MAX_ID, NEW list,
           NEW may, NEW must, NEW present,
           must \subseteq present, present \subseteq may,
           ListOk(list, n - 1, may, must)
    PROVE  ListOk(Step(list, n, present), n, may, must)
<1>1. n \in 1 .. 100
    BY DEF ZW3021_RPC_SCAN_MAX_ID
<1>2. Digits(n) \in Nat /\ Digits(n) >= 1 /\ Digits(n) <= 3
    BY <1>1, DigitsBound
<1>3. /\ list.ids \subseteq may /\ list.ids \subseteq 1 .. n - 1
      /\ list.pos \in 0 .. 187
      /\ list = [ids |-> list.ids, pos |-> list.pos]
    BY DEF ListOk, DataMax, ZW3021_RPC_RESPONSE_MAX
<1>4. \A id \in (must \cap 1 .. n - 1) \ list.ids :
         ~RoomFor(list.pos) /\ \A listed \in list.ids : listed < id
    BY DEF ListOk
<1>5. 1 .. n - 1 \subseteq 1 .. n /\ \A i \in 1 .. n : i = n \/ i \in 1 .. n - 1
    BY <1>1
<1>6. CASE RoomFor(list.pos) /\ n \in present
    <2>. DEFINE more == Listed(list, n)
    <2>1. /\ more.ids = list.ids \cup {n}
          /\ more.pos = list.pos + Digits(n)
                           + (IF list.ids = {} THEN 0 ELSE 1)
          /\ more = [ids |-> more.ids, pos |-> more.pos]
        BY DEF Listed
    <2>2. list.pos < 184
        BY <1>6 DEF RoomFor, DataMax, ZW3021_RPC_RESPONSE_MAX
    <2>3. more.pos \in 0 .. 187
        BY <1>2, <1>3, <2>1, <2>2
    <2>4. more.ids \subseteq may \cap 1 .. n
        BY <1>1, <1>3, <1>5, <1>6, <2>1
    <2>5. \A id \in (must \cap 1 .. n) \ more.ids : FALSE
        BY <1>4, <1>5, <1>6, <2>1
    <2>6. more \in [ids : SUBSET (may \cap 1 .. n), pos : 0 .. 187]
        BY <2>1, <2>3, <2>4
    <2>7. Step(list, n, present) = more
        BY <1>6 DEF Step
    <2>. HIDE DEF more
    <2>. QED
        BY <2>5, <2>6, <2>7 DEF ListOk, DataMax, ZW3021_RPC_RESPONSE_MAX
<1>7. CASE ~(RoomFor(list.pos) /\ n \in present)
    <2>1. Step(list, n, present) = list
        BY <1>7 DEF Step
    <2>2. list \in [ids : SUBSET (may \cap 1 .. n), pos : 0 .. 187]
        BY <1>3, <1>5
    <2>3. \A listed \in list.ids : listed < n
        BY <1>1, <1>3
    <2>4. ASSUME NEW id \in (must \cap 1 .. n) \ list.ids
          PROVE  ~RoomFor(list.pos) /\ \A listed \in list.ids : listed < id
        <3>1. CASE id = n
            BY <1>7, <2>3, <3>1
        <3>2. CASE id # n
            BY <1>4, <1>5, <3>2
        <3>. QED
            BY <3>1, <3>2
    <2>. QED
        BY <2>1, <2>2, <2>4 DEF ListOk, DataMax, ZW3021_RPC_RESPONSE_MAX
<1>. QED
    BY <1>6, <1>7

(* A whole run of ids is read.                                             *)
LEMMA ExtendOk ==
    ASSUME NEW from \in 1 .. ZW3021_RPC_SCAN_MAX_ID,
           NEW to \in from .. ZW3021_RPC_SCAN_MAX_ID, NEW list,
           NEW may, NEW must, NEW present,
           must \subseteq present, present \subseteq may,
           ListOk(list, from - 1, may, must)
    PROVE  ListOk(Extend(list, from, to, present), to, may, must)
<1>. DEFINE lo == from - 1
            V == [ids : SUBSET Nat, pos : Nat]
            Body(f) == [id \in lo .. to |->
                           IF id = lo THEN list
                           ELSE LET acc == f[id - 1]
                                IN  IF RoomFor(acc.pos) /\ id \in present
                                    THEN Listed(acc, id) ELSE acc]
            step == [id \in lo .. to |-> [acc \in V |-> Step(acc, id, present)]]
<1>1. /\ from \in 1 .. 100 /\ to \in 1 .. 100
      /\ lo \in Nat /\ to \in Nat /\ lo <= to /\ lo + 1 = from
    BY DEF ZW3021_RPC_SCAN_MAX_ID
<1>2. list \in V
    <2>1. list \in [ids : SUBSET (may \cap 1 .. lo), pos : 0 .. 187]
        BY DEF ListOk, DataMax, ZW3021_RPC_RESPONSE_MAX
    <2>. QED
        BY <1>1, <2>1
<1>3. step \in [lo .. to -> [V -> V]]
    <2>1. ASSUME NEW id \in lo .. to, NEW acc \in V
          PROVE  Step(acc, id, present) \in V
        <3>1. id \in Nat /\ id >= -1
            BY <1>1
        <3>2. Digits(id) \in Nat
            BY <3>1, DigitsBound
        <3>3. Listed(acc, id) \in V
            BY <3>1, <3>2 DEF Listed
        <3>. QED
            BY <3>3 DEF Step
    <2>. HIDE DEF V
    <2>. QED
        BY <2>1
<1>. HIDE DEF lo, V
<1>4. \E f : Recurs(f, V, list, lo, to, step)
    <2>. HIDE DEF step
    <2>. QED
        BY <1>1, <1>2, <1>3, PrimitiveRecursion
<1>5. PICK g \in [lo .. to -> V] :
         /\ g[lo] = list
         /\ \A n \in lo .. to : n # lo => g[n] = Step(g[n - 1], n, present)
    <2>1. PICK g \in [lo .. to -> V] :
             /\ g[lo] = list
             /\ \A n \in lo .. to : n # lo => g[n] = step[n][g[n - 1]]
        BY <1>4 DEF Recurs
    <2>2. ASSUME NEW n \in lo .. to, n # lo
          PROVE  g[n] = Step(g[n - 1], n, present)
        <3>1. n - 1 \in lo .. to
            BY <1>1, <2>2
        <3>2. g[n - 1] \in V
            BY <2>1, <3>1
        <3>3. step[n][g[n - 1]] = Step(g[n - 1], n, present)
            BY <3>2
        <3>. QED
            BY <2>1, <2>2, <3>3
    <2>. QED
        BY <2>1, <2>2
<1>. HIDE DEF step
<1>6. g = Body(g)
    BY <1>5 DEF Step
<1>. DEFINE a == CHOOSE f : f = Body(f)
<1>7. Extend(list, from, to, present) = a[to]
    BY DEF Extend, lo
<1>8. a = Body(a)
    <2>. HIDE DEF Body
    <2>. QED
        BY <1>6
<1>. HIDE DEF a
<1>9. /\ a[lo] = list
      /\ \A n \in lo .. to : n # lo => a[n] = Step(a[n - 1], n, present)
    <2>1. lo \in lo .. to
        BY <1>1
    <2>. QED
        BY <1>8, <2>1 DEF Step
<1>. HIDE DEF Body
<1>. DEFINE S == {k \in Nat :
                    lo + k <= to => ListOk(a[lo + k], lo + k, may, must)}
<1>10. 0 \in S
    BY <1>1, <1>9 DEF lo
<1>11. ASSUME NEW k \in S
       PROVE  k + 1 \in S
    <2>0. k \in Nat /\ k + 1 \in Nat
        OBVIOUS
    <2>. SUFFICES ASSUME lo + (k + 1) <= to
                  PROVE  ListOk(a[lo + (k + 1)], lo + (k + 1), may, must)
        BY <2>0
    <2>. DEFINE n == lo + (k + 1)
    <2>1. /\ lo + k <= to /\ n - 1 = lo + k
          /\ n \in lo .. to /\ n # lo /\ n \in 1 .. 100
        BY <1>1, <2>0
    <2>2. ListOk(a[lo + k], lo + k, may, must)
        BY <2>0, <2>1
    <2>. HIDE DEF S, n
    <2>3. ListOk(a[n - 1], n - 1, may, must)
        BY <2>1, <2>2
    <2>4. ListOk(Step(a[n - 1], n, present), n, may, must)
        BY <2>1, <2>3, StepOk DEF ZW3021_RPC_SCAN_MAX_ID
    <2>. QED
        BY <1>9, <2>1, <2>4 DEF n
<1>12. S = Nat
    <2>. HIDE DEF S
    <2>1. S \in SUBSET Nat
        BY DEF S
    <2>. QED
        BY <1>10, <1>11, <2>1, SetInduction
<1>. DEFINE k == to - lo
<1>13. k \in Nat /\ lo + k = to /\ lo + k <= to
    BY <1>1
<1>. HIDE DEF k
<1>14. ListOk(a[lo + k], lo + k, may, must)
    BY <1>12, <1>13
<1>. QED
    BY <1>7, <1>13, <1>14

(* A list stays right when more fingers had a string at some time, and     *)
(* fewer all through.                                                      *)
LEMMA ListOkWeakens ==
    ASSUME NEW list, NEW n, NEW may, NEW must, NEW may2, NEW must2,
           may \subseteq may2, must2 \subseteq must,
           ListOk(list, n, may, must)
    PROVE  ListOk(list, n, may2, must2)
<1>. DEFINE P == 0 .. DataMax - 5
<1>1. list \in [ids : SUBSET (may \cap 1 .. n), pos : P]
    BY DEF ListOk
<1>. HIDE DEF P
<1>2. list \in [ids : SUBSET (may2 \cap 1 .. n), pos : P]
    BY <1>1
<1>. QED
    BY <1>2 DEF ListOk, P
-----------------------------------------------------------------------------
(* The inductive invariant.                                                *)

Pcs == {"idle", "run", "scan", "enter", "name", "delete", "replied"}

Names == {name \in Texts : Len(name) < ZW3021_STORAGE_NAME_MAX_LEN}

\* The types of what the model keeps.  label and what is read of it are left
\* open: a line may hold any text.
StoreTypes ==
    /\ strings \in SUBSET Ids
    /\ enters \in SUBSET Ids
    /\ names \in [Ids -> Names]
    /\ DOMAIN label = Ids
    /\ request_busy \in {0, 1}

ThreadTypes ==
    /\ pc \in [Threads -> Pcs]
    /\ line \in [Threads -> Requests \cup {NoRequest}]
    /\ next_id \in [Threads -> 0 .. ZW3021_RPC_SCAN_MAX_ID + 1]
    /\ found \in [Threads -> [ids : SUBSET (Ids \cup Stored),
                              pos : 0 .. DataMax - 5]]
    /\ DOMAIN got = Threads
    /\ \A t \in Threads : DOMAIN got[t] = {"has", "enter", "name", "label"}
    /\ DOMAIN reply = Threads
    /\ sent \in [Threads -> 0 .. 1]
    /\ ever \in [Threads -> SUBSET Ids]
    /\ always \in [Threads -> SUBSET Ids]

\* Where a thread is tells which command it runs; a thread that has not
\* answered has sent nothing, and one that does not scan has no list.
PhaseInv ==
    \A t \in Threads :
        /\ pc[t] # "replied" => sent[t] = 0
        /\ pc[t] \notin {"scan", "replied"} => found[t] = NoList
        /\ pc[t] = "scan" => line[t].cmd = "get_fingers" /\ next_id[t] >= 1
        /\ pc[t] \in {"enter", "name"} =>
              line[t].cmd = "get_finger" /\ line[t].id \in Ids
        /\ pc[t] = "delete" => line[t].cmd = "delete_finger"

May(t)  == Stored \cup ever[t]
Must(t) == Stored \cup always[t]

\* While a thread lists the fingers, its history bounds what is stored, and
\* its list is right for the ids it has read.
ListInv ==
    \A t \in Threads :
        /\ Lists(t) => always[t] \subseteq strings /\ strings \subseteq ever[t]
        /\ pc[t] = "scan" => ListOk(found[t], next_id[t] - 1, May(t), Must(t))
        /\ pc[t] = "replied" /\ line[t].cmd = "get_fingers" =>
              /\ reply[t].list = found[t].ids
              /\ ListOk(found[t], ZW3021_RPC_SCAN_MAX_ID, May(t), Must(t))

IInv == StoreTypes /\ ThreadTypes /\ PhaseInv /\ ListInv

\* No req_id takes more than four characters.
ShortReqIds == \A r \in Requests : r.req_id <= 9999

\* Every name a client sends is a text it has written as Wire() does.
NamesAreWritten ==
    \A r \in Requests : r.cmd = "set_finger_name" =>
        r.text = <<>> \/ \E text \in Texts : r.text = Wire(text)

\* A name is stored as it was meant, and told as it is stored.
NameInv ==
    /\ label = names
    /\ NameRoundTrip

-----------------------------------------------------------------------------
(* The smaller facts of a step.                                            *)

\* What a step of another thread leaves alone of thread u.
Same(u) ==
    /\ pc'[u] = pc[u] /\ line'[u] = line[u]
    /\ next_id'[u] = next_id[u] /\ found'[u] = found[u]
    /\ got'[u] = got[u] /\ reply'[u] = reply[u] /\ sent'[u] = sent[u]

\* The history of a thread that lists goes on.
GoesOn(u) ==
    Lists(u) => /\ always'[u] \subseteq always[u] /\ ever[u] \subseteq ever'[u]
                /\ always'[u] \subseteq strings' /\ strings' \subseteq ever'[u]

HistoryKept == UNCHANGED <<strings, ever, always>>

\* What the handlers do that answer, other than that of get_fingers.
Answers(t) ==
    \/ RunRejected(t) \/ RunStatus(t) \/ RunGetEnrolled(t) \/ ReadName(t)
    \/ TextRejected(t) \/ UpdateFinger(t) \/ SetFingerName(t)
    \/ SetFingerEnter(t) \/ WriteFails(t) \/ DeleteString(t) \/ QueueRequest(t)

(* A known command that takes a finger_id has one of Ids; its line is one  *)
(* of Requests.                                                            *)
LEMMA LineIs ==
    ASSUME IInv, NEW t \in Threads, line[t].cmd # "none"
    PROVE  /\ line[t] \in Requests
           /\ line[t].text \in Texts
           /\ line[t].req_id \in Int /\ line[t].req_id >= -1
           /\ line[t].id > 0 =>
                 /\ line[t].id \in Ids /\ line[t].id \in Nat
                 /\ line[t].id >= 1 /\ line[t].id <= 65535
<1>1. line[t] \in Requests \cup {NoRequest} /\ NoRequest.cmd = "none"
    BY DEF IInv, ThreadTypes, NoRequest, Request
<1>2. line[t] \in Requests
    BY <1>1
<1>3. /\ line[t] \in [cmd : STRING, req_id : Int, id : Int,
                      text : Seq(Chars), on : BOOLEAN]
      /\ line[t].req_id >= -1 /\ (line[t].id > 0 => line[t].id \in Ids)
    BY <1>2, RpcAssumption
<1>4. \A id \in Ids : id \in Nat /\ id >= 1 /\ id <= 65535
    BY RpcAssumption
<1>. QED
    BY <1>2, <1>3, <1>4 DEF Texts

(* A response is left in reply, and sent or dropped.                       *)
LEMMA SendIs ==
    ASSUME IInv, NEW t \in Threads, pc[t] # "replied",
           NEW response, NEW length, Send(t, response, length)
    PROVE  /\ pc' = [pc EXCEPT ![t] = "replied"]
           /\ pc' \in [Threads -> Pcs] /\ pc'[t] = "replied"
           /\ DOMAIN reply' = Threads /\ reply'[t] = response
           /\ sent' \in [Threads -> 0 .. 1]
           /\ length < ZW3021_RPC_RESPONSE_MAX => sent'[t] = 1
           /\ \A u \in Threads : u # t => /\ pc'[u] = pc[u]
                                          /\ reply'[u] = reply[u]
                                          /\ sent'[u] = sent[u]
<1>1. /\ pc \in [Threads -> Pcs] /\ DOMAIN reply = Threads
      /\ sent \in [Threads -> 0 .. 1] /\ sent[t] = 0
    BY DEF IInv, ThreadTypes, PhaseInv
<1>2. /\ pc' = [pc EXCEPT ![t] = "replied"]
      /\ pc' \in [Threads -> Pcs] /\ pc'[t] = "replied"
      /\ \A u \in Threads : u # t => pc'[u] = pc[u]
    BY <1>1 DEF Send, Goto, Pcs
<1>3. /\ DOMAIN reply' = Threads /\ reply'[t] = response
      /\ \A u \in Threads : u # t => reply'[u] = reply[u]
    BY <1>1 DEF Send
<1>4. /\ sent' \in [Threads -> 0 .. 1]
      /\ length < ZW3021_RPC_RESPONSE_MAX => sent'[t] = 1
      /\ \A u \in Threads : u # t => sent'[u] = sent[u]
    BY <1>1 DEF Send
<1>. QED
    BY <1>2, <1>3, <1>4

(* A change of the strings goes into the history of every thread that      *)
(* lists them.                                                             *)
LEMMA HistoryGoesOn ==
    ASSUME IInv, NEW u \in Threads,
           HistoryKept \/ \E ids \in SUBSET Ids : SetStrings(ids)
    PROVE  GoesOn(u)
<1>1. Lists(u) => always[u] \subseteq strings /\ strings \subseteq ever[u]
    BY DEF IInv, ListInv
<1>2. CASE HistoryKept
    BY <1>1, <1>2 DEF HistoryKept, GoesOn
<1>3. ASSUME NEW ids \in SUBSET Ids, SetStrings(ids)
      PROVE  GoesOn(u)
    <2>. SUFFICES ASSUME Lists(u)
                  PROVE  /\ always'[u] \subseteq always[u]
                         /\ ever[u] \subseteq ever'[u]
                         /\ always'[u] \subseteq strings'
                         /\ strings' \subseteq ever'[u]
        BY DEF GoesOn
    <2>1. /\ strings' = ids /\ ever'[u] = ever[u] \cup ids
          /\ always'[u] = always[u] \cap ids
        BY <1>3 DEF SetStrings
    <2>. QED
        BY <2>1
<1>. QED
    BY <1>2, <1>3

(* What the handlers that answer have in common.                           *)
LEMMA AnswersIs ==
    ASSUME IInv, NEW t \in Threads, Answers(t)
    PROVE  /\ pc[t] # "replied" /\ line[t].cmd # "get_fingers"
           /\ \E response, length : Send(t, response, length)
           /\ UNCHANGED <<line, next_id, found>>
           /\ HistoryKept \/ \E ids \in SUBSET Ids : SetStrings(ids)
           /\ got' = got \/ \E v : got' = [got EXCEPT ![t].label = v]
<1>0. line[t].id > 0 /\ line[t].cmd # "none" => line[t].id \in Ids
    BY LineIs
<1>1. strings \in SUBSET Ids
    BY DEF IInv, StoreTypes
<1>. DEFINE Rest ==
        /\ pc[t] # "replied" /\ line[t].cmd # "get_fingers"
        /\ \E response, length : Send(t, response, length)
        /\ UNCHANGED <<line, next_id, found>>
        /\ HistoryKept \/ \E ids \in SUBSET Ids : SetStrings(ids)
<1>2. ASSUME RunRejected(t)
      PROVE  Rest
    <2>1. line[t].cmd # "get_fingers"
        BY <1>2 DEF RunRejected, Runs, Known, WithId
    <2>. QED
        BY <1>2, <2>1 DEF RunRejected, SendError, HistoryKept, store, locals,
                          history
<1>3. ASSUME RunStatus(t)
      PROVE  Rest
    BY <1>3 DEF RunStatus, Runs, SendOk, HistoryKept, store, locals, history
<1>4. ASSUME RunGetEnrolled(t)
      PROVE  Rest
    BY <1>4 DEF RunGetEnrolled, Runs, SendOk, HistoryKept, store, locals,
                history
<1>5. ASSUME ReadName(t)
      PROVE  Rest
    <2>1. line[t].cmd = "get_finger"
        BY <1>5 DEF ReadName, IInv, PhaseInv
    <2>. QED
        BY <1>5, <2>1 DEF ReadName, SendOk, HistoryKept, store, history
<1>6. ASSUME TextRejected(t)
      PROVE  Rest
    BY <1>6 DEF TextRejected, Runs, SendError, HistoryKept, store, locals,
                history
<1>7. ASSUME UpdateFinger(t)
      PROVE  Rest
    <2>1. /\ pc[t] = "run" /\ line[t].cmd = "update_finger"
          /\ line[t].id > 0
        BY <1>7 DEF UpdateFinger, Runs, WithId
    <2>2. strings \ {line[t].id} \in SUBSET Ids
          /\ strings \cup {line[t].id} \in SUBSET Ids
        BY <1>0, <1>1, <2>1
    <2>3. \E ids \in SUBSET Ids : SetStrings(ids)
        BY <1>7, <2>2 DEF UpdateFinger
    <2>. QED
        BY <1>7, <2>1, <2>3 DEF UpdateFinger, SendOk, locals
<1>8. ASSUME SetFingerName(t)
      PROVE  Rest
    BY <1>8 DEF SetFingerName, Runs, SendOk, HistoryKept, locals, history
<1>9. ASSUME SetFingerEnter(t)
      PROVE  Rest
    BY <1>9 DEF SetFingerEnter, Runs, SendOk, HistoryKept, locals, history
<1>10. ASSUME WriteFails(t)
       PROVE  Rest
    BY <1>10 DEF WriteFails, Runs, SendError, HistoryKept, store, locals,
                 history
<1>11. ASSUME DeleteString(t)
       PROVE  Rest
    <2>1. line[t].cmd = "delete_finger" /\ pc[t] = "delete"
        BY <1>11 DEF DeleteString, IInv, PhaseInv
    <2>2. \E ids \in SUBSET Ids : SetStrings(ids)
        BY <1>1, <1>11 DEF DeleteString
    <2>. QED
        BY <1>11, <2>1, <2>2 DEF DeleteString, SendOk, locals
<1>12. ASSUME QueueRequest(t)
       PROVE  Rest
    BY <1>12 DEF QueueRequest, Runs, SendOk, SendError, HistoryKept, store,
                 locals, history
<1>. HIDE DEF Rest
<1>13. Rest
    BY <1>2, <1>3, <1>4, <1>5, <1>6, <1>7, <1>8, <1>9, <1>10, <1>11, <1>12
       DEF Answers
<1>14. got' = got \/ \E v : got' = [got EXCEPT ![t].label = v]
    BY DEF Answers, RunRejected, RunStatus, RunGetEnrolled, ReadName,
           TextRejected, UpdateFinger, SetFingerName, SetFingerEnter,
           WriteFails, DeleteString, QueueRequest, locals
<1>. QED
    BY <1>13, <1>14 DEF Rest

(* One read of a scan carries the list to the next id to be read.          *)
LEMMA ScanIs ==
    ASSUME IInv, NEW t \in Threads, Scan(t)
    PROVE  /\ next_id'[t] \in 2 .. ZW3021_RPC_SCAN_MAX_ID + 1
           /\ ListOk(found'[t], next_id'[t] - 1, May(t), Must(t))
<1>. DEFINE from == next_id[t]
            Ends == {id \in Ids : id >= from} \cup {ZW3021_RPC_SCAN_MAX_ID}
            to   == Min(Ends)
            present == Stored \cup strings
<1>1. /\ next_id \in [Threads -> 0 .. 101] /\ from <= 100 /\ from >= 1
      /\ pc[t] = "scan"
    BY DEF Scan, IInv, ThreadTypes, PhaseInv, ZW3021_RPC_SCAN_MAX_ID
<1>2. from \in 1 .. 100
    BY <1>1
<1>3. to \in from .. 100
    <2>1. Ends \in SUBSET Nat /\ 100 \in Ends /\ \A id \in Ends : id >= from
        BY <1>1, RpcAssumption DEF ZW3021_RPC_SCAN_MAX_ID
    <2>. HIDE DEF Ends
    <2>2. to \in Ends /\ \A id \in Ends : to <= id
        BY <2>1, LeastNumber
    <2>. HIDE DEF to
    <2>3. to \in Nat /\ to >= from /\ to <= 100
        BY <2>1, <2>2
    <2>. QED
        BY <1>2, <2>3
<1>4. Must(t) \subseteq present /\ present \subseteq May(t)
    BY <1>1 DEF IInv, ListInv, Lists, May, Must
<1>5. ListOk(found[t], from - 1, May(t), Must(t))
    BY <1>1 DEF IInv, ListInv
<1>6. /\ found' = [found EXCEPT ![t] = Extend(@, from, to, present)]
      /\ next_id' = [next_id EXCEPT ![t] = to + 1]
    BY DEF Scan
<1>. HIDE DEF from, to, present
<1>7. ListOk(Extend(found[t], from, to, present), to, May(t), Must(t))
    BY <1>2, <1>3, <1>4, <1>5, ExtendOk DEF ZW3021_RPC_SCAN_MAX_ID
<1>8. t \in DOMAIN found /\ t \in DOMAIN next_id
    BY DEF IInv, ThreadTypes
<1>9. found'[t] = Extend(found[t], from, to, present)
    BY <1>6, <1>8
<1>10. next_id'[t] = to + 1 /\ next_id'[t] - 1 = to
    BY <1>2, <1>3, <1>6, <1>8
<1>11. next_id'[t] \in 2 .. 101
    BY <1>2, <1>3, <1>10
<1>. QED
    BY <1>7, <1>9, <1>10, <1>11 DEF ZW3021_RPC_SCAN_MAX_ID

(* A step of one thread leaves the others alone, and their history goes    *)
(* on.                                                                     *)
LEMMA OthersAreLeft ==
    ASSUME IInv, NEW t \in Threads, NEW u \in Threads, u # t,
           (\E r \in Requests : Receive(t, r)) \/ Handler(t) \/ Return(t)
    PROVE  Same(u) /\ GoesOn(u)
<1>0. /\ t \in DOMAIN pc /\ t \in DOMAIN line /\ t \in DOMAIN next_id
      /\ t \in DOMAIN found /\ t \in DOMAIN reply /\ t \in DOMAIN sent
      /\ t \in DOMAIN ever /\ t \in DOMAIN always /\ t \in DOMAIN got
      /\ u \in DOMAIN pc /\ u \in DOMAIN line /\ u \in DOMAIN next_id
      /\ u \in DOMAIN found /\ u \in DOMAIN reply /\ u \in DOMAIN sent
      /\ u \in DOMAIN ever /\ u \in DOMAIN always /\ u \in DOMAIN got
    BY DEF IInv, ThreadTypes
<1>1. Lists(u) => always[u] \subseteq strings /\ strings \subseteq ever[u]
    BY DEF IInv, ListInv
<1>2. HistoryKept => GoesOn(u)
    BY HistoryGoesOn
<1>3. ASSUME NEW r \in Requests, Receive(t, r)
      PROVE  Same(u) /\ GoesOn(u)
    BY <1>0, <1>2, <1>3 DEF Receive, Goto, Same, HistoryKept, store, locals,
                            answer, history
<1>4. CASE Answers(t)
    <2>1. PICK response, length : Send(t, response, length)
        BY <1>4, AnswersIs
    <2>2. pc'[u] = pc[u] /\ reply'[u] = reply[u] /\ sent'[u] = sent[u]
        BY <1>4, <2>1, AnswersIs, SendIs
    <2>3. /\ UNCHANGED <<line, next_id, found>>
          /\ HistoryKept \/ \E ids \in SUBSET Ids : SetStrings(ids)
        BY <1>4, AnswersIs
    <2>4. got' = got \/ \E v : got' = [got EXCEPT ![t].label = v]
        BY <1>4, AnswersIs
    <2>5. got'[u] = got[u]
        BY <1>0, <2>4
    <2>. QED
        BY <2>2, <2>3, <2>5, HistoryGoesOn DEF Same
<1>5. CASE SendList(t)
    <2>1. /\ \E response, length : Send(t, response, length)
          /\ pc[t] # "replied"
          /\ UNCHANGED <<line, next_id, found, got>> /\ HistoryKept
        BY <1>5 DEF SendList, SendOk, HistoryKept, store, locals, history
    <2>2. pc'[u] = pc[u] /\ reply'[u] = reply[u] /\ sent'[u] = sent[u]
        BY <2>1, SendIs
    <2>. QED
        BY <1>2, <2>1, <2>2 DEF Same
<1>6. CASE StartScan(t)
    <2>1. /\ Same(u) /\ strings' = strings
          /\ ever'[u] = ever[u] /\ always'[u] = always[u]
        BY <1>0, <1>6 DEF StartScan, Goto, Same, store, answer
    <2>. QED
        BY <1>1, <2>1 DEF GoesOn
<1>7. CASE Scan(t)
    <2>1. HistoryKept /\ UNCHANGED <<pc, line, got, reply, sent>>
        BY <1>7 DEF Scan, HistoryKept, store, answer, history
    <2>2. next_id'[u] = next_id[u] /\ found'[u] = found[u]
        BY <1>0, <1>7 DEF Scan
    <2>. QED
        BY <1>2, <2>1, <2>2 DEF Same
<1>8. CASE ReadString(t)
    BY <1>0, <1>2, <1>8 DEF ReadString, Goto, Same, HistoryKept, store, answer,
                            history
<1>9. CASE ReadEnter(t)
    BY <1>0, <1>2, <1>9 DEF ReadEnter, Goto, Same, HistoryKept, store, answer,
                            history
<1>10. CASE DeleteEnter(t)
    BY <1>0, <1>2, <1>10 DEF DeleteEnter, Goto, Same, HistoryKept, locals,
                             answer, history
<1>11. CASE Return(t)
    <2>1. /\ Same(u) /\ strings' = strings
          /\ ever'[u] = ever[u] /\ always'[u] = always[u]
        BY <1>0, <1>11 DEF Return, Goto, Same, store
    <2>. QED
        BY <1>1, <2>1 DEF GoesOn
<1>. QED
    BY <1>3, <1>4, <1>5, <1>6, <1>7, <1>8, <1>9, <1>10, <1>11
       DEF Handler, Answers

(* The types of what is stored: only a name that json_find_string() has    *)
(* read whole and found short enough is stored.                            *)
LEMMA StoreTypesStep ==
    ASSUME IInv, [Next]_vars
    PROVE  StoreTypes'
<1>0. /\ strings \in SUBSET Ids /\ enters \in SUBSET Ids
      /\ names \in [Ids -> Names] /\ DOMAIN label = Ids
      /\ request_busy \in {0, 1}
    BY DEF IInv, StoreTypes
<1>1. ASSUME UNCHANGED <<store, request_busy>>
      PROVE  StoreTypes'
    BY <1>0, <1>1 DEF StoreTypes, store
<1>2. ASSUME NEW t \in Threads, NEW r \in Requests, Receive(t, r)
      PROVE  StoreTypes'
    BY <1>1, <1>2 DEF Receive
<1>3. ASSUME NEW t \in Threads, RunRejected(t)
      PROVE  StoreTypes'
    BY <1>1, <1>3 DEF RunRejected
<1>4. ASSUME NEW t \in Threads, RunStatus(t)
      PROVE  StoreTypes'
    BY <1>1, <1>4 DEF RunStatus
<1>5. ASSUME NEW t \in Threads, RunGetEnrolled(t)
      PROVE  StoreTypes'
    BY <1>1, <1>5 DEF RunGetEnrolled
<1>6. ASSUME NEW t \in Threads, StartScan(t) \/ Scan(t) \/ SendList(t)
      PROVE  StoreTypes'
    BY <1>1, <1>6 DEF StartScan, Scan, SendList
<1>7. ASSUME NEW t \in Threads, ReadString(t) \/ ReadEnter(t) \/ ReadName(t)
      PROVE  StoreTypes'
    BY <1>1, <1>7 DEF ReadString, ReadEnter, ReadName
<1>8. ASSUME NEW t \in Threads, TextRejected(t) \/ WriteFails(t) \/ Return(t)
      PROVE  StoreTypes'
    BY <1>1, <1>8 DEF TextRejected, WriteFails, Return
<1>9. ASSUME NEW t \in Threads, UpdateFinger(t)
      PROVE  StoreTypes'
    <2>1. line[t].cmd = "update_finger" /\ line[t].id > 0
        BY <1>9 DEF UpdateFinger, Runs, WithId
    <2>2. line[t].id \in Ids
        BY <2>1, LineIs
    <2>3. \/ strings' = strings \ {line[t].id}
          \/ strings' = strings \cup {line[t].id}
        BY <1>9 DEF UpdateFinger, SetStrings
    <2>4. UNCHANGED <<enters, names, label, request_busy>>
        BY <1>9 DEF UpdateFinger
    <2>. QED
        BY <1>0, <2>2, <2>3, <2>4 DEF StoreTypes
<1>10. ASSUME NEW t \in Threads, SetFingerName(t)
       PROVE  StoreTypes'
    <2>. DEFINE name == FindString(line[t].text, 48 + 1)
    <2>1. line[t].cmd = "set_finger_name" /\ line[t].id > 0
        BY <1>10 DEF SetFingerName, Runs, WithId
    <2>2. line[t].id \in Ids /\ line[t].text \in Texts
        BY <2>1, LineIs
    <2>3. /\ Len(name.out) < 48
          /\ names' = [names EXCEPT ![line[t].id] = name.out]
          /\ label' = [label EXCEPT ![line[t].id] = TextSent(line[t].text)]
          /\ UNCHANGED <<strings, enters, request_busy>>
        BY <1>10 DEF SetFingerName, Accepted, ZW3021_STORAGE_NAME_MAX_LEN
    <2>4. 48 + 1 \in Nat \ {0}
        OBVIOUS
    <2>5. name.out \in Texts
        BY <2>2, <2>4, FoundType
    <2>. HIDE DEF name
    <2>6. name.out \in Names
        BY <2>3, <2>5 DEF Names, ZW3021_STORAGE_NAME_MAX_LEN
    <2>7. names' \in [Ids -> Names] /\ DOMAIN label' = Ids
        BY <1>0, <2>2, <2>3, <2>6
    <2>. QED
        BY <1>0, <2>3, <2>7 DEF StoreTypes
<1>11. ASSUME NEW t \in Threads, SetFingerEnter(t)
       PROVE  StoreTypes'
    <2>1. line[t].cmd = "set_finger_enter" /\ line[t].id > 0
        BY <1>11 DEF SetFingerEnter, Runs, WithId
    <2>2. line[t].id \in Ids
        BY <2>1, LineIs
    <2>3. \/ enters' = enters \ {line[t].id}
          \/ enters' = enters \cup {line[t].id}
        BY <1>11 DEF SetFingerEnter
    <2>4. UNCHANGED <<strings, names, label, request_busy>>
        BY <1>11 DEF SetFingerEnter
    <2>. QED
        BY <1>0, <2>2, <2>3, <2>4 DEF StoreTypes
<1>12. ASSUME NEW t \in Threads, DeleteEnter(t)
       PROVE  StoreTypes'
    BY <1>0, <1>12 DEF DeleteEnter, StoreTypes
<1>13. ASSUME NEW t \in Threads, DeleteString(t)
       PROVE  StoreTypes'
    <2>1. strings' = strings \/ strings' = strings \ {line[t].id}
        BY <1>13 DEF DeleteString, SetStrings
    <2>2. UNCHANGED <<enters, names, label, request_busy>>
        BY <1>13 DEF DeleteString
    <2>. QED
        BY <1>0, <2>1, <2>2 DEF StoreTypes
<1>14. ASSUME NEW t \in Threads, QueueRequest(t)
       PROVE  StoreTypes'
    BY <1>0, <1>14 DEF QueueRequest, StoreTypes, store
<1>15. CASE WorkerDone
    BY <1>0, <1>15 DEF WorkerDone, StoreTypes, store
<1>16. CASE UNCHANGED vars
    BY <1>1, <1>16 DEF vars
<1>. QED
    BY <1>2, <1>3, <1>4, <1>5, <1>6, <1>7, <1>8, <1>9, <1>10, <1>11, <1>12,
       <1>13, <1>14, <1>15, <1>16 DEF Next, Handler

(* A new value in a field of got leaves its fields the same.               *)
LEMMA GotShape ==
    ASSUME IInv, NEW t \in Threads, NEW v,
           \/ got' = got
           \/ got' = [got EXCEPT ![t].has = v]
           \/ got' = [got EXCEPT ![t].enter = v]
           \/ got' = [got EXCEPT ![t].label = v]
    PROVE  /\ DOMAIN got' = Threads
           /\ \A u \in Threads :
                 DOMAIN got'[u] = {"has", "enter", "name", "label"}
<1>1. /\ DOMAIN got = Threads
      /\ \A u \in Threads : DOMAIN got[u] = {"has", "enter", "name", "label"}
    BY DEF IInv, ThreadTypes
<1>2. DOMAIN got' = Threads
    BY <1>1
<1>3. ASSUME NEW u \in Threads
      PROVE  DOMAIN got'[u] = {"has", "enter", "name", "label"}
    <2>1. \/ got'[u] = got[u]
          \/ got'[u] = [got[u] EXCEPT !.has = v]
          \/ got'[u] = [got[u] EXCEPT !.enter = v]
          \/ got'[u] = [got[u] EXCEPT !.label = v]
        BY <1>1
    <2>. QED
        BY <1>1, <2>1
<1>. QED
    BY <1>2, <1>3

(* The types of what a thread keeps.                                       *)
LEMMA ThreadTypesStep ==
    ASSUME IInv, [Next]_vars
    PROVE  ThreadTypes'
<1>. DEFINE Lists0 == [ids : SUBSET (Ids \cup Stored), pos : 0 .. DataMax - 5]
            GotTypes == /\ DOMAIN got = Threads
                        /\ \A t \in Threads :
                              DOMAIN got[t] = {"has", "enter", "name", "label"}
<1>0. /\ pc \in [Threads -> Pcs]
      /\ line \in [Threads -> Requests \cup {NoRequest}]
      /\ next_id \in [Threads -> 0 .. 101]
      /\ found \in [Threads -> Lists0] /\ GotTypes
      /\ DOMAIN reply = Threads /\ sent \in [Threads -> 0 .. 1]
      /\ ever \in [Threads -> SUBSET Ids] /\ always \in [Threads -> SUBSET Ids]
    BY DEF IInv, ThreadTypes, ZW3021_RPC_SCAN_MAX_ID
<1>a. strings \in SUBSET Ids
    BY DEF IInv, StoreTypes
<1>b. NoList \in Lists0
    BY DEF NoList, DataMax, ZW3021_RPC_RESPONSE_MAX
<1>c. got' = got => GotTypes'
    BY <1>0
<1>. HIDE DEF Lists0
<1>d. ASSUME /\ pc' \in [Threads -> Pcs]
             /\ line' \in [Threads -> Requests \cup {NoRequest}]
             /\ next_id' \in [Threads -> 0 .. 101]
             /\ found' \in [Threads -> Lists0] /\ GotTypes'
             /\ DOMAIN reply' = Threads /\ sent' \in [Threads -> 0 .. 1]
             /\ ever' \in [Threads -> SUBSET Ids]
             /\ always' \in [Threads -> SUBSET Ids]
      PROVE  ThreadTypes'
    BY <1>d DEF ThreadTypes, Lists0, ZW3021_RPC_SCAN_MAX_ID
<1>e. \A ids \in SUBSET Ids : SetStrings(ids) =>
         /\ ever' \in [Threads -> SUBSET Ids]
         /\ always' \in [Threads -> SUBSET Ids]
    BY <1>0 DEF SetStrings
<1>. HIDE DEF GotTypes
<1>1. ASSUME NEW t \in Threads, NEW r \in Requests, Receive(t, r)
      PROVE  ThreadTypes'
    <2>1. /\ pc' \in [Threads -> Pcs]
          /\ line' \in [Threads -> Requests \cup {NoRequest}]
        BY <1>0, <1>1 DEF Receive, Goto, Pcs
    <2>. QED
        BY <1>0, <1>1, <1>c, <1>d, <2>1 DEF Receive, locals, answer, history
<1>2. ASSUME NEW t \in Threads, Answers(t)
      PROVE  ThreadTypes'
    <2>1. PICK response, length : Send(t, response, length)
        BY <1>2, AnswersIs
    <2>2. /\ pc[t] # "replied" /\ UNCHANGED <<line, next_id, found>>
          /\ HistoryKept \/ \E ids \in SUBSET Ids : SetStrings(ids)
        BY <1>2, AnswersIs
    <2>3. /\ pc' \in [Threads -> Pcs] /\ DOMAIN reply' = Threads
          /\ sent' \in [Threads -> 0 .. 1]
        BY <2>1, <2>2, SendIs
    <2>4. /\ ever' \in [Threads -> SUBSET Ids]
          /\ always' \in [Threads -> SUBSET Ids]
        BY <1>0, <1>e, <2>2 DEF HistoryKept
    <2>5. got' = got \/ \E v : got' = [got EXCEPT ![t].label = v]
        BY <1>2, AnswersIs
    <2>6. GotTypes'
        BY <2>5, GotShape DEF GotTypes
    <2>. QED
        BY <1>0, <1>d, <2>2, <2>3, <2>4, <2>6
<1>3. ASSUME NEW t \in Threads, SendList(t)
      PROVE  ThreadTypes'
    <2>1. /\ \E response, length : Send(t, response, length)
          /\ pc[t] # "replied"
          /\ UNCHANGED <<line, next_id, found, got, ever, always>>
        BY <1>3 DEF SendList, SendOk, locals, history
    <2>2. /\ pc' \in [Threads -> Pcs] /\ DOMAIN reply' = Threads
          /\ sent' \in [Threads -> 0 .. 1]
        BY <2>1, SendIs
    <2>. QED
        BY <1>0, <1>c, <1>d, <2>1, <2>2
<1>4. ASSUME NEW t \in Threads, StartScan(t)
      PROVE  ThreadTypes'
    <2>1. /\ pc' \in [Threads -> Pcs]
          /\ next_id' \in [Threads -> 0 .. 101]
        BY <1>0, <1>4 DEF StartScan, Goto, Pcs
    <2>2. /\ ever' \in [Threads -> SUBSET Ids]
          /\ always' \in [Threads -> SUBSET Ids]
        BY <1>0, <1>a, <1>4 DEF StartScan
    <2>. QED
        BY <1>0, <1>4, <1>c, <1>d, <2>1, <2>2 DEF StartScan, answer
<1>5. ASSUME NEW t \in Threads, Scan(t)
      PROVE  ThreadTypes'
    <2>1. next_id'[t] \in 2 .. 101
        BY <1>5, ScanIs DEF ZW3021_RPC_SCAN_MAX_ID
    <2>2. next_id' \in [Threads -> 0 .. 101]
        <3>1. PICK n : next_id' = [next_id EXCEPT ![t] = n]
            BY <1>5 DEF Scan
        <3>2. n \in 0 .. 101
            BY <1>0, <2>1, <3>1
        <3>. QED
            BY <1>0, <3>1, <3>2
    <2>3. found' \in [Threads -> Lists0]
        <3>1. PICK list : found' = [found EXCEPT ![t] = list]
            BY <1>5 DEF Scan
        <3>2. found'[t] = list
            BY <1>0, <3>1
        <3>3. list \in [ids : SUBSET (May(t) \cap 1 .. next_id'[t] - 1),
                        pos : 0 .. DataMax - 5]
            BY <1>5, <3>2, ScanIs DEF ListOk
        <3>4. May(t) \subseteq Ids \cup Stored
            BY <1>0 DEF May
        <3>5. list \in Lists0
            <4>. DEFINE P == 0 .. DataMax - 5
                        N == 1 .. next_id'[t] - 1
            <4>. HIDE DEF P, N
            <4>1. list \in [ids : SUBSET (May(t) \cap N), pos : P]
                BY <3>3 DEF P, N
            <4>2. list \in [ids : SUBSET (Ids \cup Stored), pos : P]
                BY <3>4, <4>1
            <4>. QED
                BY <4>2 DEF P, Lists0
        <3>. QED
            BY <1>0, <3>1, <3>5
    <2>. QED
        BY <1>0, <1>5, <1>c, <1>d, <2>2, <2>3 DEF Scan, answer, history
<1>6. ASSUME NEW t \in Threads, ReadString(t)
      PROVE  ThreadTypes'
    <2>1. pc' \in [Threads -> Pcs]
        BY <1>0, <1>6 DEF ReadString, Goto, Pcs
    <2>2. GotTypes'
        BY <1>6, GotShape DEF ReadString, GotTypes
    <2>. QED
        BY <1>0, <1>6, <1>d, <2>1, <2>2 DEF ReadString, answer, history
<1>7. ASSUME NEW t \in Threads, ReadEnter(t)
      PROVE  ThreadTypes'
    <2>1. pc' \in [Threads -> Pcs]
        BY <1>0, <1>7 DEF ReadEnter, Goto, Pcs
    <2>2. GotTypes'
        BY <1>7, GotShape DEF ReadEnter, GotTypes
    <2>. QED
        BY <1>0, <1>7, <1>d, <2>1, <2>2 DEF ReadEnter, answer, history
<1>8. ASSUME NEW t \in Threads, DeleteEnter(t)
      PROVE  ThreadTypes'
    <2>1. pc' \in [Threads -> Pcs]
        BY <1>0, <1>8 DEF DeleteEnter, Goto, Pcs
    <2>. QED
        BY <1>0, <1>8, <1>c, <1>d, <2>1 DEF DeleteEnter, locals, answer,
                                            history
<1>9. ASSUME NEW t \in Threads, Return(t)
      PROVE  ThreadTypes'
    <2>1. /\ pc' \in [Threads -> Pcs]
          /\ line' \in [Threads -> Requests \cup {NoRequest}]
          /\ next_id' \in [Threads -> 0 .. 101]
        BY <1>0, <1>9 DEF Return, Goto, Pcs
    <2>2. /\ found' \in [Threads -> Lists0]
          /\ DOMAIN reply' = Threads /\ sent' \in [Threads -> 0 .. 1]
        BY <1>0, <1>b, <1>9 DEF Return
    <2>3. /\ ever' \in [Threads -> SUBSET Ids]
          /\ always' \in [Threads -> SUBSET Ids]
        BY <1>0, <1>9 DEF Return
    <2>4. GotTypes'
        <3>1. DOMAIN NoFinger = {"has", "enter", "name", "label"}
            BY DEF NoFinger
        <3>2. got' = [got EXCEPT ![t] = NoFinger]
            BY <1>9 DEF Return
        <3>. QED
            BY <1>0, <3>1, <3>2 DEF GotTypes
    <2>. QED
        BY <1>d, <2>1, <2>2, <2>3, <2>4
<1>10. ASSUME UNCHANGED <<pc, line, locals, answer, history>>
       PROVE  ThreadTypes'
    BY <1>0, <1>10, <1>c, <1>d DEF locals, answer, history
<1>11. CASE WorkerDone
    BY <1>10, <1>11 DEF WorkerDone
<1>12. CASE UNCHANGED vars
    BY <1>10, <1>12 DEF vars
<1>. QED
    BY <1>1, <1>2, <1>3, <1>4, <1>5, <1>6, <1>7, <1>8, <1>9, <1>11, <1>12
       DEF Next, Handler, Answers

(* The phases of a command.                                                *)
LEMMA PhaseStep ==
    ASSUME IInv, [Next]_vars
    PROVE  PhaseInv'
<1>. DEFINE Phase(t) ==
        /\ pc[t] # "replied" => sent[t] = 0
        /\ pc[t] \notin {"scan", "replied"} => found[t] = NoList
        /\ pc[t] = "scan" => line[t].cmd = "get_fingers" /\ next_id[t] >= 1
        /\ pc[t] \in {"enter", "name"} =>
              line[t].cmd = "get_finger" /\ line[t].id \in Ids
        /\ pc[t] = "delete" => line[t].cmd = "delete_finger"
<1>0. \A t \in Threads : Phase(t)
    BY DEF IInv, PhaseInv
<1>1. \A t \in Threads : Same(t) => Phase(t)'
    BY <1>0 DEF Same
<1>2. ASSUME NEW t \in Threads,
             (\E r \in Requests : Receive(t, r)) \/ Handler(t) \/ Return(t)
      PROVE  Phase(t)'
    <2>0. /\ t \in DOMAIN pc /\ t \in DOMAIN line /\ t \in DOMAIN next_id
          /\ t \in DOMAIN found /\ t \in DOMAIN sent
          /\ next_id[t] \in 0 .. 101
        BY DEF IInv, ThreadTypes, ZW3021_RPC_SCAN_MAX_ID
    <2>1. ASSUME NEW r \in Requests, Receive(t, r)
          PROVE  Phase(t)'
        BY <1>0, <2>0, <2>1 DEF Receive, Goto, locals, answer
    <2>2. CASE Answers(t)
        <3>1. PICK response, length : Send(t, response, length)
            BY <2>2, AnswersIs
        <3>2. pc'[t] = "replied"
            BY <2>2, <3>1, AnswersIs, SendIs
        <3>. QED
            BY <3>2
    <2>3. CASE SendList(t)
        BY <2>0, <2>3 DEF SendList, SendOk, Send, Goto
    <2>4. CASE StartScan(t)
        BY <1>0, <2>0, <2>4 DEF StartScan, Runs, Goto, answer
    <2>5. CASE Scan(t)
        <3>1. next_id'[t] >= 1
            BY <2>5, ScanIs DEF ZW3021_RPC_SCAN_MAX_ID
        <3>2. /\ pc'[t] = "scan" /\ pc[t] = "scan"
              /\ line'[t] = line[t] /\ sent'[t] = sent[t]
            BY <2>5 DEF Scan, answer
        <3>. QED
            BY <1>0, <3>1, <3>2
    <2>6. CASE ReadString(t)
        <3>1. /\ line[t].cmd = "get_finger" /\ line[t].id > 0 /\ pc[t] = "run"
            BY <2>6 DEF ReadString, Runs, WithId
        <3>2. line[t].id \in Ids
            BY <3>1, LineIs
        <3>3. /\ pc'[t] = "enter" /\ line'[t] = line[t]
              /\ sent'[t] = sent[t] /\ found'[t] = found[t]
            BY <2>0, <2>6 DEF ReadString, Goto, answer
        <3>. QED
            BY <1>0, <3>1, <3>2, <3>3
    <2>7. CASE ReadEnter(t)
        BY <1>0, <2>0, <2>7 DEF ReadEnter, Goto, answer
    <2>8. CASE DeleteEnter(t)
        <3>1. line[t].cmd = "delete_finger" /\ pc[t] = "run"
            BY <2>8 DEF DeleteEnter, Runs
        <3>2. /\ pc'[t] = "delete" /\ line'[t] = line[t]
              /\ sent'[t] = sent[t] /\ found'[t] = found[t]
            BY <2>0, <2>8 DEF DeleteEnter, Goto, locals, answer
        <3>. QED
            BY <1>0, <3>1, <3>2
    <2>9. CASE Return(t)
        BY <2>0, <2>9 DEF Return, Goto
    <2>. QED
        BY <1>2, <2>1, <2>2, <2>3, <2>4, <2>5, <2>6, <2>7, <2>8, <2>9
           DEF Handler, Answers
<1>3. ASSUME NEW t \in Threads,
             (\E r \in Requests : Receive(t, r)) \/ Handler(t) \/ Return(t)
      PROVE  \A u \in Threads : Phase(u)'
    BY <1>1, <1>2, <1>3, OthersAreLeft
<1>4. ASSUME UNCHANGED <<pc, line, locals, answer>>
      PROVE  \A u \in Threads : Phase(u)'
    BY <1>1, <1>4 DEF Same, locals, answer
<1>5. \A u \in Threads : Phase(u)'
    BY <1>3, <1>4 DEF Next, WorkerDone, vars
<1>. QED
    BY <1>5 DEF PhaseInv

(* The list of a thread that a step leaves alone stays right.              *)
LEMMA ListKept ==
    ASSUME IInv, NEW u \in Threads, Same(u), GoesOn(u)
    PROVE  /\ Lists(u)' => /\ always'[u] \subseteq strings'
                           /\ strings' \subseteq ever'[u]
           /\ pc'[u] = "scan" =>
                 ListOk(found'[u], next_id'[u] - 1, May(u)', Must(u)')
           /\ pc'[u] = "replied" /\ line'[u].cmd = "get_fingers" =>
                 /\ reply'[u].list = found'[u].ids
                 /\ ListOk(found'[u], ZW3021_RPC_SCAN_MAX_ID, May(u)', Must(u)')
<1>1. Lists(u)' => Lists(u)
    BY DEF Same, Lists
<1>2. Lists(u) => May(u) \subseteq May(u)' /\ Must(u)' \subseteq Must(u)
    BY DEF GoesOn, May, Must
<1>3. Lists(u)' => always'[u] \subseteq strings' /\ strings' \subseteq ever'[u]
    BY <1>1 DEF GoesOn
<1>4. ASSUME pc'[u] = "scan"
      PROVE  ListOk(found'[u], next_id'[u] - 1, May(u)', Must(u)')
    <2>1. ListOk(found'[u], next_id'[u] - 1, May(u), Must(u))
        BY <1>4 DEF Same, IInv, ListInv
    <2>2. Lists(u)
        BY <1>4 DEF Same, Lists
    <2>. QED
        BY <1>2, <2>1, <2>2, ListOkWeakens
<1>5. ASSUME pc'[u] = "replied", line'[u].cmd = "get_fingers"
      PROVE  /\ reply'[u].list = found'[u].ids
             /\ ListOk(found'[u], ZW3021_RPC_SCAN_MAX_ID, May(u)', Must(u)')
    <2>1. /\ reply'[u].list = found'[u].ids
          /\ ListOk(found'[u], ZW3021_RPC_SCAN_MAX_ID, May(u), Must(u))
        BY <1>5 DEF Same, IInv, ListInv
    <2>2. Lists(u)
        BY <1>5 DEF Same, Lists
    <2>. QED
        BY <1>2, <2>1, <2>2, ListOkWeakens
<1>. QED
    BY <1>3, <1>4, <1>5

(* Each list is right for the ids that were read, whatever the others      *)
(* store meanwhile.                                                        *)
LEMMA ListStep ==
    ASSUME IInv, [Next]_vars
    PROVE  ListInv'
<1>. DEFINE ListOf(u) ==
        /\ Lists(u) => always[u] \subseteq strings /\ strings \subseteq ever[u]
        /\ pc[u] = "scan" => ListOk(found[u], next_id[u] - 1, May(u), Must(u))
        /\ pc[u] = "replied" /\ line[u].cmd = "get_fingers" =>
              /\ reply[u].list = found[u].ids
              /\ ListOk(found[u], ZW3021_RPC_SCAN_MAX_ID, May(u), Must(u))
<1>1. \A u \in Threads : Same(u) /\ GoesOn(u) => ListOf(u)'
    BY ListKept
<1>2. ASSUME NEW t \in Threads, pc'[t] \notin {"scan", "replied"}
      PROVE  ListOf(t)'
    BY <1>2 DEF Lists
<1>3. ASSUME NEW t \in Threads, pc'[t] # "scan", line'[t].cmd # "get_fingers"
      PROVE  ListOf(t)'
    BY <1>3 DEF Lists
<1>4. ASSUME NEW t \in Threads,
             (\E r \in Requests : Receive(t, r)) \/ Handler(t) \/ Return(t)
      PROVE  ListOf(t)'
    <2>0. /\ t \in DOMAIN pc /\ t \in DOMAIN next_id
          /\ t \in DOMAIN ever /\ t \in DOMAIN always
          /\ next_id[t] \in 0 .. ZW3021_RPC_SCAN_MAX_ID + 1
        BY DEF IInv, ThreadTypes
    <2>1. ASSUME NEW r \in Requests, Receive(t, r)
          PROVE  ListOf(t)'
        <3>1. pc'[t] = "run"
            BY <2>0, <2>1 DEF Receive, Goto
        <3>. HIDE DEF ListOf
        <3>. QED
            BY <1>2, <3>1
    <2>2. CASE Answers(t)
        <3>1. PICK response, length : Send(t, response, length)
            BY <2>2, AnswersIs
        <3>2. pc'[t] = "replied" /\ line'[t].cmd # "get_fingers"
            BY <2>2, <3>1, AnswersIs, SendIs
        <3>. HIDE DEF ListOf
        <3>. QED
            BY <1>3, <3>2
    <2>3. CASE SendList(t)
        <3>. DEFINE data == [NoReply EXCEPT !.list = found[t].ids]
                    response == [data EXCEPT !.ok = TRUE,
                                             !.req_id = line[t].req_id]
        <3>1. /\ pc[t] = "scan" /\ next_id[t] > ZW3021_RPC_SCAN_MAX_ID
              /\ UNCHANGED <<line, next_id, found, strings, ever, always>>
            BY <2>3 DEF SendList, store, locals, history
        <3>2. response.list = found[t].ids
            BY DEF NoReply
        <3>3. Send(t, response, OkLen(line[t].req_id, found[t].pos + 2))
            BY <2>3 DEF SendList, SendOk
        <3>. HIDE DEF response
        <3>4. reply'[t] = response /\ pc'[t] = "replied"
            BY <3>1, <3>3, SendIs
        <3>5. pc'[t] = "replied" /\ reply'[t].list = found'[t].ids
            BY <3>1, <3>2, <3>4
        <3>6. next_id[t] - 1 = ZW3021_RPC_SCAN_MAX_ID
            BY <2>0, <3>1 DEF ZW3021_RPC_SCAN_MAX_ID
        <3>7. ListOk(found[t], ZW3021_RPC_SCAN_MAX_ID, May(t), Must(t))
            BY <3>1, <3>6 DEF IInv, ListInv
        <3>8. always[t] \subseteq strings /\ strings \subseteq ever[t]
            BY <3>1 DEF IInv, ListInv, Lists
        <3>9. May(t)' = May(t) /\ Must(t)' = Must(t)
            BY <3>1 DEF May, Must
        <3>. QED
            BY <3>1, <3>5, <3>7, <3>8, <3>9
    <2>4. CASE StartScan(t)
        <3>1. /\ pc[t] = "run" /\ pc'[t] = "scan" /\ next_id'[t] = 1
              /\ found' = found /\ strings' = strings
              /\ ever'[t] = strings /\ always'[t] = strings
            BY <2>0, <2>4 DEF StartScan, Runs, Goto, store
        <3>2. found'[t] = NoList
            BY <3>1 DEF IInv, PhaseInv
        <3>3. next_id'[t] - 1 = 0 /\ 1 .. 0 = {}
            BY <3>1
        <3>4. ListOk(NoList, 0, May(t)', Must(t)')
            BY <3>3 DEF ListOk, NoList, DataMax, ZW3021_RPC_RESPONSE_MAX
        <3>. QED
            BY <3>1, <3>2, <3>3, <3>4
    <2>5. CASE Scan(t)
        <3>1. /\ pc[t] = "scan" /\ pc'[t] = "scan"
              /\ UNCHANGED <<strings, ever, always>>
            BY <2>5 DEF Scan, store, history
        <3>2. ListOk(found'[t], next_id'[t] - 1, May(t), Must(t))
            BY <2>5, ScanIs
        <3>3. always[t] \subseteq strings /\ strings \subseteq ever[t]
            BY <3>1 DEF IInv, ListInv, Lists
        <3>4. May(t)' = May(t) /\ Must(t)' = Must(t)
            BY <3>1 DEF May, Must
        <3>. QED
            BY <3>1, <3>2, <3>3, <3>4
    <2>6. CASE ReadString(t) \/ ReadEnter(t) \/ DeleteEnter(t) \/ Return(t)
        <3>1. pc'[t] \in {"enter", "name", "delete", "idle"}
            BY <2>0, <2>6 DEF ReadString, ReadEnter, DeleteEnter, Return, Goto
        <3>2. pc'[t] \notin {"scan", "replied"}
            BY <3>1
        <3>. HIDE DEF ListOf
        <3>. QED
            BY <1>2, <3>2
    <2>. HIDE DEF ListOf
    <2>. QED
        BY <1>4, <2>1, <2>2, <2>3, <2>4, <2>5, <2>6 DEF Handler, Answers
<1>5. ASSUME NEW t \in Threads,
             (\E r \in Requests : Receive(t, r)) \/ Handler(t) \/ Return(t)
      PROVE  \A u \in Threads : ListOf(u)'
    <2>. HIDE DEF ListOf
    <2>. QED
        BY <1>1, <1>4, <1>5, OthersAreLeft
<1>6. ASSUME UNCHANGED <<store, pc, line, locals, answer, history>>
      PROVE  \A u \in Threads : ListOf(u)'
    <2>1. HistoryKept /\ \A u \in Threads : Same(u)
        BY <1>6 DEF HistoryKept, Same, store, locals, answer, history
    <2>. HIDE DEF ListOf
    <2>. QED
        BY <1>1, <2>1, HistoryGoesOn
<1>7. \A u \in Threads : ListOf(u)'
    <2>. HIDE DEF ListOf
    <2>. QED
        BY <1>5, <1>6 DEF Next, WorkerDone, vars
<1>. QED
    BY <1>7 DEF ListInv

(* The invariant holds at the start and is kept by every step.             *)
THEOREM Invariance ==
    Spec => []IInv
<1>1. Init => IInv
    <2>. SUFFICES ASSUME Init
                  PROVE  IInv
        OBVIOUS
    <2>1. <<>> \in Names
        BY DEF Names, Texts, ZW3021_STORAGE_NAME_MAX_LEN
    <2>2. StoreTypes
        BY <2>1 DEF Init, StoreTypes
    <2>3. NoList \in [ids : SUBSET (Ids \cup Stored), pos : 0 .. DataMax - 5]
        BY DEF NoList, DataMax, ZW3021_RPC_RESPONSE_MAX
    <2>4. DOMAIN NoFinger = {"has", "enter", "name", "label"}
        BY DEF NoFinger
    <2>5. ThreadTypes
        BY <2>3, <2>4 DEF Init, ThreadTypes, Pcs, ZW3021_RPC_SCAN_MAX_ID
    <2>6. PhaseInv
        BY DEF Init, PhaseInv
    <2>7. ListInv
        BY DEF Init, ListInv, Lists
    <2>. QED
        BY <2>2, <2>5, <2>6, <2>7 DEF IInv
<1>2. IInv /\ [Next]_vars => IInv'
    <2>. SUFFICES ASSUME IInv, [Next]_vars
                  PROVE  IInv'
        OBVIOUS
    <2>. QED
        BY StoreTypesStep, ThreadTypesStep, PhaseStep, ListStep DEF IInv
<1>. QED
    BY <1>1, <1>2, PTL DEF Spec

-----------------------------------------------------------------------------
(* The theorems.                                                           *)

(* A list leaves room for the end of the response.                         *)
LEMMA FoundIs ==
    ASSUME IInv, NEW t \in Threads
    PROVE  /\ found[t].ids \subseteq Ids \cup Stored
           /\ found[t].pos \in Nat /\ found[t].pos <= 187
<1>1. found[t] \in [ids : SUBSET (Ids \cup Stored), pos : 0 .. DataMax - 5]
    BY DEF IInv, ThreadTypes
<1>2. /\ found[t].ids \subseteq Ids \cup Stored
      /\ found[t].pos \in 0 .. DataMax - 5
    BY <1>1
<1>. QED
    BY <1>2 DEF DataMax, ZW3021_RPC_RESPONSE_MAX

(* Names stay shorter than their buffer, lists within theirs, and each     *)
(* command sends at most one response, whatever the lines hold.            *)
THEOREM TypeCorrect ==
    Spec => []TypeOK
<1>1. IInv => TypeOK
    <2>. SUFFICES ASSUME IInv
                  PROVE  TypeOK
        OBVIOUS
    <2>1. /\ strings \subseteq Ids /\ enters \subseteq Ids
          /\ request_busy \in {0, 1}
        BY DEF IInv, StoreTypes
    <2>2. \A id \in Ids : Len(names[id]) < ZW3021_STORAGE_NAME_MAX_LEN
        BY DEF IInv, StoreTypes, Names
    <2>3. \A t \in Threads : /\ found[t].ids \subseteq Ids \cup Stored
                            /\ found[t].pos < DataMax - 2
        BY FoundIs DEF DataMax, ZW3021_RPC_RESPONSE_MAX
    <2>. QED
        BY <2>1, <2>2, <2>3 DEF IInv, ThreadTypes, Pcs, TypeOK
<1>. QED
    BY <1>1, Invariance, PTL

(* A list of fingers read while the other thread writes, for any requests  *)
(* and any interleaving: every finger that had a string all through is on  *)
(* it, or is greater than all that are and there was no room.              *)
THEOREM ListFaithful ==
    Spec => []ListIsFaithful
<1>1. IInv => ListIsFaithful
    <2>. SUFFICES ASSUME IInv, NEW t \in Threads, Replied(t, "get_fingers")
                  PROVE  /\ reply[t].list \subseteq Stored \cup ever[t]
                         /\ \A id \in (Stored \cup always[t]) \ reply[t].list :
                               \/ id > ZW3021_RPC_SCAN_MAX_ID
                               \/ /\ \A listed \in reply[t].list : listed < id
                                  /\ found[t].pos >= DataMax - 8
        BY DEF ListIsFaithful
    <2>1. /\ reply[t].list = found[t].ids
          /\ ListOk(found[t], ZW3021_RPC_SCAN_MAX_ID, May(t), Must(t))
        BY DEF IInv, ListInv, Replied
    <2>2. found[t].ids \subseteq May(t)
        BY <2>1 DEF ListOk
    <2>3. ASSUME NEW id \in Must(t) \ found[t].ids, ~(id > 100)
          PROVE  /\ \A listed \in found[t].ids : listed < id
                 /\ found[t].pos >= DataMax - 8
        <3>1. id \in Ids \cup Stored
            BY <2>3 DEF Must, IInv, ThreadTypes
        <3>2. id \in Nat /\ id >= 1
            BY <3>1, RpcAssumption
        <3>3. id \in 1 .. ZW3021_RPC_SCAN_MAX_ID
            BY <2>3, <3>2 DEF ZW3021_RPC_SCAN_MAX_ID
        <3>4. /\ ~RoomFor(found[t].pos)
              /\ \A listed \in found[t].ids : listed < id
            BY <2>1, <2>3, <3>3 DEF ListOk
        <3>5. found[t].pos \in Nat
            BY FoundIs
        <3>. QED
            BY <3>4, <3>5 DEF RoomFor, DataMax, ZW3021_RPC_RESPONSE_MAX
    <2>. QED
        BY <2>1, <2>2, <2>3 DEF May, Must, ZW3021_RPC_SCAN_MAX_ID
<1>. QED
    BY <1>1, Invariance, PTL

(* Responses with a short req_id fit in the buffer they are built in.      *)
LEMMA LengthsFit ==
    ASSUME NEW n \in Int, n >= -1, n <= 9999
    PROVE  /\ ErrorLen(n) < ZW3021_RPC_RESPONSE_MAX
           /\ \A d \in Nat : d <= 189 => OkLen(n, d) < ZW3021_RPC_RESPONSE_MAX
<1>1. Digits(n) \in Nat /\ Digits(n) <= 4
    BY DigitsBound
<1>. QED
    BY <1>1 DEF ErrorLen, OkLen, ZW3021_RPC_RESPONSE_MAX

(* Whatever a handler answers fits.                                        *)
LEMMA AnswersFit ==
    ASSUME ShortReqIds, IInv, NEW t \in Threads, Answers(t) \/ SendList(t)
    PROVE  \E response, length : /\ Send(t, response, length)
                                 /\ length < ZW3021_RPC_RESPONSE_MAX
<1>. DEFINE req_id == line[t].req_id
            Fits == \E response, length : /\ Send(t, response, length)
                                          /\ length < ZW3021_RPC_RESPONSE_MAX
<1>1. ASSUME line[t].cmd # "none"
      PROVE  /\ ErrorLen(req_id) < ZW3021_RPC_RESPONSE_MAX
             /\ \A d \in Nat :
                   d <= 189 => OkLen(req_id, d) < ZW3021_RPC_RESPONSE_MAX
    <2>1. line[t] \in Requests /\ req_id \in Int /\ req_id >= -1
        BY <1>1, LineIs
    <2>2. req_id <= 9999
        BY <2>1 DEF ShortReqIds
    <2>. QED
        BY <2>1, <2>2, LengthsFit
<1>2. ErrorLen(-1) < ZW3021_RPC_RESPONSE_MAX
    <2>1. -1 \in Int /\ -1 >= -1 /\ -1 <= 9999
        OBVIOUS
    <2>. QED
        BY <2>1, LengthsFit
<1>3. ASSUME line[t].cmd # "none", line[t].id > 0
      PROVE  Digits(line[t].id) \in Nat /\ Digits(line[t].id) <= 5
    BY <1>3, LineIs, DigitsBound
<1>4. ASSUME line[t].cmd # "none", NEW data, NEW d \in Nat, d <= 189,
             SendOk(t, data, d)
      PROVE  Fits
    <2>1. OkLen(req_id, d) < ZW3021_RPC_RESPONSE_MAX
        BY <1>1, <1>4
    <2>. QED
        BY <1>4, <2>1 DEF SendOk
<1>5. ASSUME line[t].cmd # "none", SendError(t, req_id)
      PROVE  Fits
    BY <1>1, <1>5 DEF SendError
<1>. HIDE DEF Fits
<1>6. ASSUME RunRejected(t)
      PROVE  Fits
    <2>1. CASE line[t].cmd = "none"
        BY <1>2, <1>6, <2>1 DEF RunRejected, SendError, Fits
    <2>2. CASE line[t].cmd # "none"
        BY <1>5, <1>6, <2>2 DEF RunRejected
    <2>. QED
        BY <2>1, <2>2
<1>7. ASSUME RunStatus(t)
      PROVE  Fits
    <2>1. line[t].cmd # "none" /\ \E data : SendOk(t, data, 14)
        BY <1>7 DEF RunStatus, Runs
    <2>. QED
        BY <1>4, <2>1
<1>8. ASSUME RunGetEnrolled(t)
      PROVE  Fits
    <2>1. line[t].cmd # "none" /\ line[t].id > 0
        BY <1>8 DEF RunGetEnrolled, Runs, WithId
    <2>2. \E data : SendOk(t, data, 49 + Digits(line[t].id))
        BY <1>8 DEF RunGetEnrolled
    <2>3. 49 + Digits(line[t].id) \in Nat /\ 49 + Digits(line[t].id) <= 189
        BY <1>3, <2>1
    <2>. QED
        BY <1>4, <2>1, <2>2, <2>3
<1>9. ASSUME ReadName(t)
      PROVE  Fits
    <2>. DEFINE name == JsonEscape(names[line[t].id],
                                   ZW3021_STORAGE_NAME_MAX_LEN * 2 + 1)
                d == 56 + Digits(line[t].id) + Len(name)
    <2>1. line[t].cmd = "get_finger" /\ line[t].id \in Ids
        BY <1>9 DEF ReadName, IInv, PhaseInv
    <2>2. line[t].id > 0
        BY <2>1, RpcAssumption
    <2>3. names[line[t].id] \in Names
        BY <2>1 DEF IInv, StoreTypes
    <2>4. Len(name) \in Nat /\ Len(name) <= 94
        BY <2>3, NameIsEscaped DEF Names
    <2>5. \E data : SendOk(t, data, d)
        BY <1>9 DEF ReadName
    <2>. HIDE DEF name
    <2>6. d \in Nat /\ d <= 189
        BY <1>3, <2>1, <2>2, <2>4
    <2>. HIDE DEF d
    <2>. QED
        BY <1>4, <2>1, <2>5, <2>6
<1>10. ASSUME TextRejected(t)
       PROVE  Fits
    <2>1. line[t].cmd # "none" /\ SendError(t, req_id)
        BY <1>10 DEF TextRejected, Runs
    <2>. QED
        BY <1>5, <2>1
<1>11. ASSUME WriteFails(t)
       PROVE  Fits
    <2>1. line[t].cmd # "none" /\ SendError(t, req_id)
        BY <1>11 DEF WriteFails, Runs
    <2>. QED
        BY <1>5, <2>1
<1>12. ASSUME UpdateFinger(t) \/ SetFingerName(t) \/ SetFingerEnter(t)
       PROVE  Fits
    <2>1. line[t].cmd # "none" /\ SendOk(t, NoReply, 2)
        BY <1>12 DEF UpdateFinger, SetFingerName, SetFingerEnter, Runs
    <2>. QED
        BY <1>4, <2>1
<1>13. ASSUME DeleteString(t)
       PROVE  Fits
    <2>1. line[t].cmd # "none" /\ SendOk(t, NoReply, 2)
        BY <1>13 DEF DeleteString, IInv, PhaseInv
    <2>. QED
        BY <1>4, <2>1
<1>14. ASSUME QueueRequest(t)
       PROVE  Fits
    <2>1. /\ line[t].cmd # "none"
          /\ SendOk(t, NoReply, 2) \/ SendError(t, req_id)
        BY <1>14 DEF QueueRequest, Runs
    <2>. QED
        BY <1>4, <1>5, <2>1
<1>15. ASSUME SendList(t)
       PROVE  Fits
    <2>. DEFINE d == found[t].pos + 2
    <2>1. line[t].cmd # "none" /\ \E data : SendOk(t, data, d)
        BY <1>15 DEF SendList, IInv, PhaseInv
    <2>2. d \in Nat /\ d <= 189
        BY FoundIs
    <2>. HIDE DEF d
    <2>. QED
        BY <1>4, <2>1, <2>2
<1>16. Fits
    BY <1>6, <1>7, <1>8, <1>9, <1>10, <1>11, <1>12, <1>13, <1>14, <1>15
       DEF Answers
<1>. QED
    BY <1>16 DEF Fits

(* "exactly one response" for every command, as long as no req_id takes    *)
(* more than four characters; with five the longest list would be dropped. *)
THEOREM RespondsOnce ==
    ASSUME ShortReqIds
    PROVE  Spec => []OneResponse
<1>1. Init => OneResponse
    BY DEF Init, OneResponse
<1>2. IInv /\ OneResponse /\ [Next]_vars => OneResponse'
    <2>. SUFFICES ASSUME IInv, OneResponse, [Next]_vars,
                         NEW u \in Threads, pc'[u] = "replied"
                  PROVE  sent'[u] = 1
        BY DEF OneResponse
    <2>1. Same(u) => sent'[u] = 1
        BY DEF Same, OneResponse
    <2>2. CASE UNCHANGED vars \/ WorkerDone
        BY <2>1, <2>2 DEF vars, WorkerDone, Same, locals, answer
    <2>3. ASSUME NEW t \in Threads,
                 (\E r \in Requests : Receive(t, r)) \/ Handler(t) \/ Return(t)
          PROVE  sent'[u] = 1
        <3>1. CASE u # t
            BY <2>1, <2>3, <3>1, OthersAreLeft
        <3>2. CASE u = t
            <4>1. t \in DOMAIN pc
                BY DEF IInv, ThreadTypes
            <4>2. CASE Answers(t) \/ SendList(t)
                <5>1. PICK response, length :
                         /\ Send(t, response, length)
                         /\ length < ZW3021_RPC_RESPONSE_MAX
                    BY <4>2, AnswersFit
                <5>2. pc[t] # "replied"
                    BY <4>2, AnswersIs DEF SendList
                <5>. QED
                    BY <3>2, <5>1, <5>2, SendIs
            <4>3. CASE ~(Answers(t) \/ SendList(t))
                <5>1. \/ \E r \in Requests : Receive(t, r)
                      \/ StartScan(t) \/ Scan(t) \/ ReadString(t)
                      \/ ReadEnter(t) \/ DeleteEnter(t) \/ Return(t)
                    BY <2>3, <4>3 DEF Handler, Answers
                <5>2. pc'[t] # "replied"
                    BY <4>1, <5>1 DEF Receive, StartScan, Scan, ReadString,
                       ReadEnter, DeleteEnter, Return, Goto
                <5>. QED
                    BY <3>2, <5>2
            <4>. QED
                BY <4>2, <4>3
        <3>. QED
            BY <3>1, <3>2
    <2>. QED
        BY <2>2, <2>3 DEF Next
<1>. QED
    BY <1>1, <1>2, Invariance, PTL DEF Spec

(* Names are stored as they were meant, and told as they are stored.       *)
LEMMA NamesKept ==
    ASSUME NamesAreWritten, IInv, NameInv, [Next]_vars
    PROVE  NameInv'
<1>. DEFINE RoundTrip(u) == Replied(u, "get_finger") =>
                Parsed(reply[u].name) = Printable(got[u].label)
<1>0. label = names /\ \A u \in Threads : RoundTrip(u)
    BY DEF NameInv, NameRoundTrip
<1>1. ASSUME NEW t \in Threads, SetFingerName(t)
      PROVE  label' = names'
    <2>. DEFINE text == line[t].text
                name == FindString(text, ZW3021_STORAGE_NAME_MAX_LEN + 1)
    <2>1. /\ line[t].cmd = "set_finger_name" /\ name.ret = 0
          /\ names' = [names EXCEPT ![line[t].id] = name.out]
          /\ label' = [label EXCEPT ![line[t].id] = TextSent(text)]
        BY <1>1 DEF SetFingerName, Accepted, Runs
    <2>2. text # <<>>
        <3>. SUFFICES ASSUME text = <<>>
                      PROVE  FALSE
            OBVIOUS
        <3>1. name.ret = -1
            BY DEF FindString
        <3>. QED
            BY <2>1, <3>1
    <2>3. line[t] \in Requests
        BY <2>1, LineIs
    <2>4. PICK meant \in Texts : text = Wire(meant)
        BY <2>1, <2>2, <2>3 DEF NamesAreWritten
    <2>5. ZW3021_STORAGE_NAME_MAX_LEN + 1 \in Nat \ {0}
        BY DEF ZW3021_STORAGE_NAME_MAX_LEN
    <2>6. name.out = meant
        <3>1. FindString(Wire(meant), ZW3021_STORAGE_NAME_MAX_LEN + 1).ret = 0
            BY <2>1, <2>4
        <3>2. FindString(Wire(meant), ZW3021_STORAGE_NAME_MAX_LEN + 1).out
                 = meant
            BY <2>4, <2>5, <3>1, FoundAsMeant
        <3>. QED
            BY <2>4, <3>2
    <2>7. TextSent(text) = meant
        BY <2>4, SentAsMeant
    <2>. HIDE DEF name, text
    <2>. QED
        BY <1>0, <2>1, <2>6, <2>7
<1>2. UNCHANGED <<names, label>> => label' = names'
    BY <1>0
<1>3. label' = names'
    <2>1. ASSUME NEW t \in Threads, Handler(t)
          PROVE  SetFingerName(t) \/ UNCHANGED <<names, label>>
        BY <2>1 DEF Handler, RunRejected, RunStatus, RunGetEnrolled, StartScan,
           Scan, SendList, ReadString, ReadEnter, ReadName, TextRejected,
           UpdateFinger, SetFingerEnter, WriteFails, DeleteEnter, DeleteString,
           QueueRequest, store
    <2>2. ASSUME NEW t \in Threads,
                 (\E r \in Requests : Receive(t, r)) \/ Return(t)
          PROVE  UNCHANGED <<names, label>>
        BY <2>2 DEF Receive, Return, store
    <2>3. ASSUME WorkerDone \/ UNCHANGED vars
          PROVE  UNCHANGED <<names, label>>
        BY <2>3 DEF WorkerDone, vars, store
    <2>. QED
        BY <1>1, <1>2, <2>1, <2>2, <2>3 DEF Next
<1>4. \A u \in Threads : Same(u) => RoundTrip(u)'
    BY <1>0 DEF Same, Replied
<1>5. ASSUME NEW t \in Threads,
             (\E r \in Requests : Receive(t, r)) \/ Handler(t) \/ Return(t)
      PROVE  RoundTrip(t)'
    <2>0. /\ t \in DOMAIN pc /\ t \in DOMAIN got
          /\ "label" \in DOMAIN got[t]
        BY DEF IInv, ThreadTypes
    <2>1. CASE ReadName(t)
        <3>. DEFINE id   == line[t].id
                    name == JsonEscape(names[id],
                                       ZW3021_STORAGE_NAME_MAX_LEN * 2 + 1)
                    data == [NoReply EXCEPT !.has = got[t].has, !.name = name]
                    response == [data EXCEPT !.ok = TRUE,
                                             !.req_id = line[t].req_id]
        <3>1. pc[t] # "replied" /\ id \in Ids
            BY <2>1 DEF ReadName, IInv, PhaseInv
        <3>2. names[id] \in Names
            BY <3>1 DEF IInv, StoreTypes
        <3>3. Parsed(name) = Printable(names[id])
            BY <3>2, NameComesBack DEF Names
        <3>4. got' = [got EXCEPT ![t].label = label[id]]
            BY <2>1 DEF ReadName
        <3>5. got'[t].label = names[id]
            BY <1>0, <2>0, <3>4
        <3>. HIDE DEF name
        <3>6. response.name = name
            BY DEF NoReply
        <3>7. \E length : Send(t, response, length)
            BY <2>1 DEF ReadName, SendOk, name
        <3>. HIDE DEF response
        <3>8. reply'[t] = response
            BY <3>1, <3>7, SendIs
        <3>. QED
            BY <3>3, <3>5, <3>6, <3>8
    <2>2. CASE RunRejected(t)
        <3>. DEFINE req_id == IF line[t].cmd = "none" THEN -1
                                                     ELSE line[t].req_id
                    response == [NoReply EXCEPT !.req_id = req_id]
        <3>1. pc[t] # "replied" /\ \E length : Send(t, response, length)
            BY <2>2 DEF RunRejected, SendError
        <3>2. response.ok = FALSE
            BY DEF NoReply
        <3>. HIDE DEF response
        <3>3. reply'[t].ok = FALSE
            BY <3>1, <3>2, SendIs
        <3>. QED
            BY <3>3 DEF Replied
    <2>3. CASE Answers(t) /\ ~ReadName(t) /\ ~RunRejected(t)
        <3>1. line'[t] = line[t]
            BY <2>3, AnswersIs
        <3>2. line[t].cmd # "get_finger"
            BY <2>3 DEF Answers, RunStatus, RunGetEnrolled, TextRejected,
               UpdateFinger, SetFingerName, SetFingerEnter, WriteFails,
               DeleteString, QueueRequest, Runs, IInv, PhaseInv
        <3>. QED
            BY <3>1, <3>2 DEF Replied
    <2>4. CASE SendList(t)
        <3>1. line'[t].cmd = "get_fingers"
            BY <2>4 DEF SendList, IInv, PhaseInv
        <3>. QED
            BY <3>1 DEF Replied
    <2>5. ASSUME \/ \E r \in Requests : Receive(t, r)
                 \/ StartScan(t) \/ Scan(t) \/ ReadString(t)
                 \/ ReadEnter(t) \/ DeleteEnter(t) \/ Return(t)
          PROVE  RoundTrip(t)'
        <3>1. pc'[t] # "replied"
            BY <2>0, <2>5 DEF Receive, StartScan, Scan, ReadString, ReadEnter,
               DeleteEnter, Return, Goto
        <3>. QED
            BY <3>1 DEF Replied
    <2>. HIDE DEF RoundTrip
    <2>. QED
        BY <1>5, <2>1, <2>2, <2>3, <2>4, <2>5 DEF Handler, Answers
<1>6. ASSUME WorkerDone \/ UNCHANGED vars
      PROVE  \A u \in Threads : Same(u)
    BY <1>6 DEF WorkerDone, vars, Same, locals, answer
<1>7. \A u \in Threads : RoundTrip(u)'
    <2>. HIDE DEF RoundTrip
    <2>1. ASSUME NEW t \in Threads,
                 (\E r \in Requests : Receive(t, r)) \/ Handler(t) \/ Return(t)
          PROVE  \A u \in Threads : RoundTrip(u)'
        BY <1>4, <1>5, <2>1, OthersAreLeft
    <2>. QED
        BY <1>4, <1>6, <2>1 DEF Next
<1>. QED
    BY <1>3, <1>7 DEF NameInv, NameRoundTrip

(* A name of any characters and any length comes back from get_finger as   *)
(* the client set it, without its control characters, or was refused: the  *)
(* un-escaping, the three buffers and the escaping lose and add nothing.   *)
THEOREM NamesRoundTrip ==
    ASSUME NamesAreWritten
    PROVE  Spec => []NameRoundTrip
<1>1. Init => NameInv
    BY DEF Init, NameInv, NameRoundTrip, Replied
<1>2. IInv /\ NameInv /\ [Next]_vars => NameInv'
    BY NamesKept
<1>3. NameInv => NameRoundTrip
    BY DEF NameInv
<1>. QED
    BY <1>1, <1>2, <1>3, Invariance, PTL DEF Spec
=============================================================================

-------------------------- MODULE HelmValuesProofs --------------------------
(***************************************************************************)
(* The three invariants of HelmValues, for lists of any length and entries  *)
(* of any name and path.                                                    *)
(*                                                                          *)
(* Everything comes down to what Keeping does to a list, and that is shown  *)
(* by induction over the list: a set of lists that holds the empty one and  *)
(* is closed under Append holds them all (ListInduction, from the well-     *)
(* foundedness of the natural numbers).  What Keeping makes of the empty    *)
(* list and of a list with one more entry (KeepingEmpty, KeepingAppend) is  *)
(* all that the other lemmas use of its definition.                         *)
(***************************************************************************)
EXTENDS HelmValues, Integers, SequenceTheorems, WellFoundedInduction, TLAPS

----------------------------------------------------------------------------
(* Induction.                                                               *)

(* A set of numbers that is not empty has a least element.                  *)
LEMMA LeastOf ==
    ASSUME NEW T, T \subseteq Nat, T # {}
    PROVE  \E x \in T : \A y \in T : x <= y
<1>1. PICK x \in T : \A y \in T : ~(<<y, x>> \in OpToRel(<, Nat))
  BY NatLessThanWellFounded, WFMin, Zenon
<1>2. ASSUME NEW y \in T, y < x PROVE FALSE
  <2>1. OpToRel(<, Nat) = {ss \in Nat \X Nat : ss[1] < ss[2]}
    BY Zenon DEF OpToRel
  <2>2. <<y, x>> \in {ss \in Nat \X Nat : ss[1] < ss[2]}
    BY <1>2
  <2> QED
    BY <1>1, <2>1, <2>2, Zenon
<1> QED
  BY <1>2

(* The induction principle of the natural numbers, for a set.               *)
LEMMA SetInduction ==
    ASSUME NEW S, 0 \in S, \A n \in Nat : n \in S => n + 1 \in S
    PROVE  Nat \subseteq S
<1> SUFFICES ASSUME Nat \ S # {} PROVE FALSE
  OBVIOUS
<1>1. PICK m \in Nat \ S : \A k \in Nat \ S : m <= k
  BY LeastOf
<1>2. m # 0 /\ m - 1 \in Nat /\ (m - 1) + 1 = m
  BY <1>1
<1>3. m - 1 \in S
  BY <1>1, <1>2
<1> QED
  BY <1>1, <1>2, <1>3

(* And that of lists.                                                       *)
LEMMA ListInduction ==
    ASSUME NEW T, NEW G, << >> \in G,
           \A s \in Seq(T), e \in T : s \in G => Append(s, e) \in G
    PROVE  Seq(T) \subseteq G
<1> DEFINE Good == {n \in Nat : \A s \in Seq(T) : Len(s) = n => s \in G}
<1>1. 0 \in Good
  <2>1. ASSUME NEW s \in Seq(T), Len(s) = 0 PROVE s = << >>
    BY <2>1, EmptySeq, Zenon
  <2> QED
    BY <2>1
<1>2. ASSUME NEW n \in Nat, n \in Good PROVE n + 1 \in Good
  <2>1. ASSUME NEW s \in Seq(T), Len(s) = n + 1 PROVE s \in G
    <3> DEFINE front == SubSeq(s, 1, n)
    <3>1. /\ front \in Seq(T) /\ Len(front) = n
          /\ s[n + 1] \in T /\ s = Append(front, s[n + 1])
      BY <2>1
    <3>2. front \in G
      BY <1>2, <3>1
    <3> HIDE DEF front
    <3> QED
      BY <3>1, <3>2
  <2> QED
    BY <2>1
<1>3. Nat \subseteq Good
  <2> HIDE DEF Good
  <2> QED
    BY <1>1, <1>2, SetInduction
<1>4. ASSUME NEW s \in Seq(T) PROVE s \in G
  BY <1>3
<1> QED
  BY <1>4

----------------------------------------------------------------------------
(* What Keeping does.                                                       *)

(* g is the pass of Keeping over the first n entries of the list.           *)
Pass(list, S, n, g) ==
    g = [i \in 0..n |->
            IF i = 0 THEN << >>
            ELSE IF list[i] \in S THEN Append(g[i - 1], list[i])
            ELSE g[i - 1]]

(* There is such a pass, ...                                                *)
LEMMA PassExists ==
    ASSUME NEW list, NEW S
    PROVE  \A n \in Nat : \E g : Pass(list, S, n, g)
<1> DEFINE Good == {n \in Nat : \E g : Pass(list, S, n, g)}
<1>1. 0 \in Good
  <2>1. Pass(list, S, 0, [i \in 0..0 |-> << >>])
    BY DEF Pass
  <2> QED
    BY <2>1
<1>2. ASSUME NEW n \in Nat, n \in Good PROVE n + 1 \in Good
  <2>1. PICK g : Pass(list, S, n, g)
    BY <1>2
  <2> DEFINE h == [i \in 0..(n + 1) |->
                      IF i <= n THEN g[i]
                      ELSE IF list[i] \in S THEN Append(g[i - 1], list[i])
                      ELSE g[i - 1]]
  <2>2. ASSUME NEW i \in 0..(n + 1)
        PROVE  h[i] = IF i = 0 THEN << >>
                      ELSE IF list[i] \in S THEN Append(h[i - 1], list[i])
                      ELSE h[i - 1]
    <3>1. CASE i = 0
      BY <2>1, <3>1 DEF Pass
    <3>2. CASE i # 0
      <4>1. i - 1 \in 0..n /\ h[i - 1] = g[i - 1]
        BY <3>2
      <4>2. CASE i <= n
        <5>1. h[i] = g[i] /\ i \in 0..n
          BY <4>2
        <5>2. g[i] = IF list[i] \in S THEN Append(g[i - 1], list[i]) ELSE g[i - 1]
          BY <2>1, <5>1, <3>2 DEF Pass
        <5> QED
          BY <3>2, <4>1, <5>1, <5>2
      <4>3. CASE i = n + 1
        BY <3>2, <4>1, <4>3
      <4> QED
        BY <4>2, <4>3
    <3> QED
      BY <3>1, <3>2
  <2>3. Pass(list, S, n + 1, h)
    BY <2>2 DEF Pass
  <2> QED
    BY <2>3
<1>3. Nat \subseteq Good
  BY <1>1, <1>2, SetInduction
<1> QED
  BY <1>3

(* ... only one, ...                                                        *)
LEMMA PassIsUnique ==
    ASSUME NEW list, NEW S, NEW n \in Nat, NEW m \in Nat, n <= m,
           NEW g, Pass(list, S, n, g), NEW h, Pass(list, S, m, h)
    PROVE  \A i \in 0..n : g[i] = h[i]
<1> DEFINE Good == {i \in Nat : i <= n => g[i] = h[i]}
<1>1. 0 \in Good
  BY DEF Pass
<1>2. ASSUME NEW i \in Nat, i \in Good PROVE i + 1 \in Good
  <2> SUFFICES ASSUME i + 1 <= n PROVE g[i + 1] = h[i + 1]
    OBVIOUS
  <2>1. i + 1 \in 0..n /\ i + 1 \in 0..m /\ i + 1 # 0 /\ (i + 1) - 1 = i
    OBVIOUS
  <2>2. g[i + 1] = IF list[i + 1] \in S THEN Append(g[i], list[i + 1]) ELSE g[i]
    BY <2>1 DEF Pass
  <2>3. h[i + 1] = IF list[i + 1] \in S THEN Append(h[i], list[i + 1]) ELSE h[i]
    BY <2>1 DEF Pass
  <2>4. g[i] = h[i]
    BY <1>2
  <2> QED
    BY <2>2, <2>3, <2>4
<1>3. Nat \subseteq Good
  <2> HIDE DEF Good
  <2> QED
    BY <1>1, <1>2, SetInduction
<1> QED
  BY <1>3

(* ... and Keeping returns its last result.                                 *)
LEMMA KeepingIsPass ==
    ASSUME NEW list, Len(list) \in Nat, NEW S
    PROVE  \E g : Pass(list, S, Len(list), g) /\ Keeping(list, S) = g[Len(list)]
<1> DEFINE g == CHOOSE f : Pass(list, S, Len(list), f)
<1>1. Pass(list, S, Len(list), g)
  BY PassExists
<1>2. Keeping(list, S) = g[Len(list)]
  BY DEF Keeping, Pass
<1> QED
  BY <1>1, <1>2

(* Of the empty list it keeps nothing.                                      *)
LEMMA KeepingEmpty ==
    ASSUME NEW S
    PROVE  Keeping(<< >>, S) = << >>
<1>1. PICK g : Pass(<< >>, S, Len(<< >>), g) /\ Keeping(<< >>, S) = g[Len(<< >>)]
  BY KeepingIsPass
<1>2. Len(<< >>) = 0
  OBVIOUS
<1> QED
  BY <1>1, <1>2 DEF Pass

(* An entry at the end is kept if it is of S, and nothing else changes.     *)
LEMMA KeepingAppend ==
    ASSUME NEW T, NEW s \in Seq(T), NEW e \in T, NEW S
    PROVE  Keeping(Append(s, e), S) =
               IF e \in S THEN Append(Keeping(s, S), e) ELSE Keeping(s, S)
<1> DEFINE n == Len(s)
           t == Append(s, e)
<1>1. /\ n \in Nat /\ Len(t) = n + 1 /\ n + 1 \in 0..(n + 1) /\ n + 1 # 0
      /\ (n + 1) - 1 = n /\ t[n + 1] = e /\ n \in 0..n
      /\ \A i \in 1..n : t[i] = s[i]
  OBVIOUS
<1>2. PICK g : Pass(s, S, n, g) /\ Keeping(s, S) = g[n]
  BY <1>1, KeepingIsPass
<1> HIDE DEF n, t
<1>3. PICK h : Pass(t, S, n + 1, h) /\ Keeping(t, S) = h[n + 1]
  <2>1. Len(t) \in Nat
    BY <1>1
  <2>2. \E h : Pass(t, S, Len(t), h) /\ Keeping(t, S) = h[Len(t)]
    BY <2>1, KeepingIsPass
  <2> QED
    BY <1>1, <2>2
<1>4. h[n + 1] = IF e \in S THEN Append(h[n], e) ELSE h[n]
  BY <1>1, <1>3 DEF Pass
<1>5. h[n] = g[n]
  <2> DEFINE f == [i \in 0..n |-> h[i]]
  <2>1. ASSUME NEW i \in 0..n
        PROVE  f[i] = IF i = 0 THEN << >>
                      ELSE IF s[i] \in S THEN Append(f[i - 1], s[i])
                      ELSE f[i - 1]
    <3>1. h[i] = IF i = 0 THEN << >>
                 ELSE IF t[i] \in S THEN Append(h[i - 1], t[i])
                 ELSE h[i - 1]
      <4>1. i \in 0..(n + 1)
        BY <1>1
      <4> QED
        BY <4>1, <1>3 DEF Pass
    <3>2. CASE i = 0
      BY <3>1, <3>2
    <3>3. CASE i # 0
      <4>1. i \in 1..n /\ i - 1 \in 0..n
        BY <1>1, <3>3
      <4> QED
        BY <1>1, <3>1, <3>3, <4>1
    <3> QED
      BY <3>2, <3>3
  <2>2. Pass(s, S, n, f)
    BY <2>1 DEF Pass
  <2>3. f[n] = h[n]
    BY <1>1
  <2> HIDE DEF f
  <2> QED
    BY <1>1, <1>2, <2>2, <2>3, PassIsUnique
<1> QED
  BY <1>2, <1>3, <1>4, <1>5 DEF t

----------------------------------------------------------------------------
(* The entries of a list.                                                   *)

LEMMA ToSetAppend ==
    ASSUME NEW T, NEW s \in Seq(T), NEW e \in T
    PROVE  /\ Append(s, e) \in Seq(T)
           /\ ToSet(Append(s, e)) = ToSet(s) \cup {e}
           /\ ToSet(s) \subseteq T
           /\ ToSet(<< >>) = {}
<1>1. DOMAIN s = 1..Len(s) /\ Len(s) \in Nat
  OBVIOUS
<1>2. /\ Append(s, e) \in Seq(T) /\ DOMAIN Append(s, e) = 1..(Len(s) + 1)
      /\ \A i \in 1..Len(s) : Append(s, e)[i] = s[i] /\ s[i] \in T
      /\ Append(s, e)[Len(s) + 1] = e
  OBVIOUS
<1>3. ToSet(Append(s, e)) \subseteq ToSet(s) \cup {e}
  <2>1. ASSUME NEW i \in 1..(Len(s) + 1)
        PROVE  Append(s, e)[i] \in {s[j] : j \in 1..Len(s)} \cup {e}
    <3>1. CASE i \in 1..Len(s)
      BY <1>2, <3>1
    <3>2. CASE i = Len(s) + 1
      BY <1>2, <3>2
    <3> QED
      BY <1>1, <3>1, <3>2
  <2> QED
    BY <1>1, <1>2, <2>1, Zenon DEF ToSet
<1>4. ToSet(s) \cup {e} \subseteq ToSet(Append(s, e))
  <2>1. \A i \in 1..Len(s) : i \in 1..(Len(s) + 1)
    BY <1>1
  <2>2. Len(s) + 1 \in 1..(Len(s) + 1)
    BY <1>1
  <2>3. ASSUME NEW i \in 1..Len(s)
        PROVE  s[i] \in {Append(s, e)[j] : j \in 1..(Len(s) + 1)}
    BY <1>2, <2>1
  <2>4. e \in {Append(s, e)[j] : j \in 1..(Len(s) + 1)}
    BY <1>2, <2>2
  <2> QED
    BY <1>1, <1>2, <2>3, <2>4, Zenon DEF ToSet
<1>5. ToSet(s) \subseteq T
  BY <1>1, <1>2 DEF ToSet
<1>6. ToSet(<< >>) = {}
  BY DEF ToSet
<1> QED
  BY <1>2, <1>3, <1>4, <1>5, <1>6, Zenon

(* What is kept is a list, of the entries that are of S.                    *)
LEMMA KeepingEntries ==
    ASSUME NEW T, NEW S
    PROVE  \A s \in Seq(T) : /\ Keeping(s, S) \in Seq(T)
                             /\ ToSet(Keeping(s, S)) = ToSet(s) \cap S
<1> DEFINE G == {s \in Seq(T) : /\ Keeping(s, S) \in Seq(T)
                                /\ ToSet(Keeping(s, S)) = ToSet(s) \cap S}
<1>1. << >> \in G
  <2>1. << >> \in Seq(T) /\ ToSet(<< >>) = {}
    BY DEF ToSet
  <2> QED
    BY <2>1, KeepingEmpty
<1>2. ASSUME NEW s \in Seq(T), NEW e \in T, s \in G
      PROVE  Append(s, e) \in G
  <2> DEFINE k == Keeping(s, S)
  <2>1. k \in Seq(T) /\ ToSet(k) = ToSet(s) \cap S
    BY <1>2
  <2>2. Keeping(Append(s, e), S) = IF e \in S THEN Append(k, e) ELSE k
    BY KeepingAppend
  <2> HIDE DEF k
  <2>3. /\ Append(s, e) \in Seq(T) /\ Append(k, e) \in Seq(T)
        /\ ToSet(Append(s, e)) = ToSet(s) \cup {e}
        /\ ToSet(Append(k, e)) = ToSet(k) \cup {e}
    BY <2>1, ToSetAppend
  <2>4. CASE e \in S
    BY <2>1, <2>2, <2>3, <2>4
  <2>5. CASE e \notin S
    BY <2>1, <2>2, <2>3, <2>5
  <2> QED
    BY <2>4, <2>5
<1>3. Seq(T) \subseteq G
  <2> HIDE DEF G
  <2> QED
    BY <1>1, <1>2, ListInduction
<1> QED
  BY <1>3

(* Two passes are one, and what is not in the list does not matter.         *)
LEMMA KeepingTwice ==
    ASSUME NEW T, NEW S, NEW R, NEW Q
    PROVE  \A s \in Seq(T) :
              (\A x \in ToSet(s) : x \in Q <=> x \in S /\ x \in R)
                  => Keeping(Keeping(s, S), R) = Keeping(s, Q)
<1> DEFINE Alike(s) == \A x \in ToSet(s) : x \in Q <=> x \in S /\ x \in R
           G == {s \in Seq(T) : Alike(s) => Keeping(Keeping(s, S), R) = Keeping(s, Q)}
<1>1. << >> \in G
  BY KeepingEmpty
<1>2. ASSUME NEW s \in Seq(T), NEW e \in T, s \in G
      PROVE  Append(s, e) \in G
  <2> DEFINE k == Keeping(s, S)
  <2>1. Append(s, e) \in Seq(T) /\ ToSet(Append(s, e)) = ToSet(s) \cup {e}
    BY ToSetAppend
  <2> SUFFICES ASSUME Alike(Append(s, e))
               PROVE  Keeping(Keeping(Append(s, e), S), R) = Keeping(Append(s, e), Q)
    BY <2>1
  <2>2. Alike(s) /\ (e \in Q <=> e \in S /\ e \in R)
    BY <2>1
  <2>3. Keeping(k, R) = Keeping(s, Q)
    BY <1>2, <2>2
  <2>4. k \in Seq(T)
    BY KeepingEntries
  <2>5. Keeping(Append(s, e), S) = IF e \in S THEN Append(k, e) ELSE k
    BY KeepingAppend
  <2>6. Keeping(Append(s, e), Q) = IF e \in Q THEN Append(Keeping(s, Q), e) ELSE Keeping(s, Q)
    BY KeepingAppend
  <2>7. Keeping(Append(k, e), R) = IF e \in R THEN Append(Keeping(k, R), e) ELSE Keeping(k, R)
    BY <2>4, KeepingAppend
  <2> HIDE DEF k, Alike
  <2> QED
    BY <2>2, <2>3, <2>5, <2>6, <2>7
<1>3. Seq(T) \subseteq G
  <2> HIDE DEF G
  <2> QED
    BY <1>1, <1>2, ListInduction
<1> QED
  BY <1>3

(* In particular sets that agree on the list keep the same of it.           *)
LEMMA KeepingSame ==
    ASSUME NEW T, NEW s \in Seq(T), NEW S, NEW Q,
           \A x \in ToSet(s) : x \in S <=> x \in Q
    PROVE  Keeping(s, S) = Keeping(s, Q)
<1>1. Keeping(Keeping(s, S), S) = Keeping(s, S)
  BY KeepingTwice
<1>2. Keeping(Keeping(s, S), S) = Keeping(s, Q)
  BY KeepingTwice
<1> QED
  BY <1>1, <1>2

(* A set that has nothing of the list keeps nothing of it.                  *)
LEMMA KeepingNone ==
    ASSUME NEW T, NEW s \in Seq(T), NEW S, ToSet(s) \cap S = {}
    PROVE  Keeping(s, S) = << >>
<1>1. Keeping(s, S) \in Seq(T) /\ ToSet(Keeping(s, S)) = {}
  BY KeepingEntries
<1> DEFINE k == Keeping(s, S)
<1> HIDE DEF k
<1>2. k \in Seq(T) /\ ToSet(k) = {} => k = << >>
  BY DEF ToSet
<1> QED
  BY <1>1, <1>2 DEF k

(* f tells the entries of the list apart.                                   *)
Tells(f, s) == \A i, j \in 1..Len(s) : f[s[i]] = f[s[j]] => i = j

LEMMA TellsAppend ==
    ASSUME NEW T, NEW f, NEW s \in Seq(T), NEW e \in T
    PROVE  Tells(f, Append(s, e)) <=>
               Tells(f, s) /\ \A x \in ToSet(s) : f[x] # f[e]
<1> DEFINE t == Append(s, e)
           n == Len(s)
<1>1. /\ n \in Nat /\ Len(t) = n + 1 /\ t[n + 1] = e /\ DOMAIN s = 1..n
      /\ \A i \in 1..n : t[i] = s[i] /\ i \in 1..(n + 1) /\ i # n + 1
      /\ \A i \in 1..(n + 1) : i \in 1..n \/ i = n + 1
      /\ n + 1 \in 1..(n + 1)
  OBVIOUS
<1>2. ToSet(s) = {s[i] : i \in 1..n}
  BY <1>1 DEF ToSet
<1> HIDE DEF t, n
<1>3. ASSUME Tells(f, t) PROVE Tells(f, s) /\ \A x \in ToSet(s) : f[x] # f[e]
  <2>1. \A i, j \in 1..(n + 1) : f[t[i]] = f[t[j]] => i = j
    BY <1>1, <1>3 DEF Tells
  <2>2. Tells(f, s)
    BY <1>1, <2>1 DEF Tells, n
  <2>3. \A i \in 1..n : f[s[i]] # f[e]
    BY <1>1, <2>1
  <2> QED
    BY <1>2, <2>2, <2>3
<1>4. ASSUME Tells(f, s), \A x \in ToSet(s) : f[x] # f[e] PROVE Tells(f, t)
  <2>1. \A i, j \in 1..n : f[s[i]] = f[s[j]] => i = j
    BY <1>4 DEF Tells, n
  <2>2. \A i \in 1..n : f[s[i]] # f[e]
    BY <1>2, <1>4
  <2>3. \A i, j \in 1..(n + 1) : f[t[i]] = f[t[j]] => i = j
    BY <1>1, <2>1, <2>2
  <2> QED
    BY <1>1, <2>3 DEF Tells
<1> QED
  BY <1>3, <1>4 DEF t

LEMMA KeepingTells ==
    ASSUME NEW T, NEW f, NEW S
    PROVE  \A s \in Seq(T) : Tells(f, s) => Tells(f, Keeping(s, S))
<1> DEFINE G == {s \in Seq(T) : Tells(f, s) => Tells(f, Keeping(s, S))}
<1>1. << >> \in G
  BY KeepingEmpty
<1>2. ASSUME NEW s \in Seq(T), NEW e \in T, s \in G
      PROVE  Append(s, e) \in G
  <2> SUFFICES ASSUME Tells(f, Append(s, e))
               PROVE  Tells(f, Keeping(Append(s, e), S))
    BY ToSetAppend
  <2> DEFINE k == Keeping(s, S)
  <2>1. Tells(f, s) /\ \A x \in ToSet(s) : f[x] # f[e]
    BY TellsAppend
  <2>2. k \in Seq(T) /\ ToSet(k) \subseteq ToSet(s) /\ Tells(f, k)
    BY <1>2, <2>1, KeepingEntries
  <2>3. Keeping(Append(s, e), S) = IF e \in S THEN Append(k, e) ELSE k
    BY KeepingAppend
  <2> HIDE DEF k
  <2>4. Tells(f, Append(k, e))
    BY <2>1, <2>2, TellsAppend
  <2> QED
    BY <2>2, <2>3, <2>4
<1>3. Seq(T) \subseteq G
  <2> HIDE DEF G
  <2> QED
    BY <1>1, <1>2, ListInduction
<1> QED
  BY <1>3

----------------------------------------------------------------------------
(* What an upsert does: it keeps the entries of S and appends e.            *)

(* Of a class that e is not in, it loses what S does not keep.              *)
LEMMA OldEntries ==
    ASSUME NEW T, NEW s \in Seq(T), NEW e \in T, NEW S, NEW R, NEW Q, e \notin R,
           \A x \in ToSet(s) : x \in Q <=> x \in S /\ x \in R
    PROVE  Keeping(Append(Keeping(s, S), e), R) = Keeping(s, Q)
<1>1. Keeping(s, S) \in Seq(T)
  BY KeepingEntries
<1>2. Keeping(Append(Keeping(s, S), e), R) = Keeping(Keeping(s, S), R)
  BY <1>1, KeepingAppend
<1> QED
  BY <1>2, KeepingTwice

(* Of a class that e is in and S keeps nothing of, e is all there is.       *)
LEMMA NewEntry ==
    ASSUME NEW T, NEW s \in Seq(T), NEW e \in T, NEW S, NEW R, e \in R,
           ToSet(s) \cap S \cap R = {}
    PROVE  Keeping(Append(Keeping(s, S), e), R) = <<e>>
<1>1. Keeping(s, S) \in Seq(T) /\ ToSet(Keeping(s, S)) \cap R = {}
  BY KeepingEntries
<1>2. Keeping(Append(Keeping(s, S), e), R) = Append(Keeping(Keeping(s, S), R), e)
  BY <1>1, KeepingAppend
<1>3. Keeping(Keeping(s, S), R) = << >>
  BY <1>1, KeepingNone
<1> QED
  BY <1>2, <1>3

(* Two entries that f told apart it still does, e from the others too if S  *)
(* keeps nothing that f takes for e.                                        *)
LEMMA StillTold ==
    ASSUME NEW T, NEW s \in Seq(T), NEW e \in T, NEW S, NEW f, Tells(f, s),
           \A x \in ToSet(s) : x \in S => f[x] # f[e]
    PROVE  Tells(f, Append(Keeping(s, S), e))
<1>1. Keeping(s, S) \in Seq(T) /\ ToSet(Keeping(s, S)) = ToSet(s) \cap S
  BY KeepingEntries
<1>2. Tells(f, Keeping(s, S))
  BY KeepingTells
<1> QED
  BY <1>1, <1>2, TellsAppend

(* What it leaves.                                                          *)
LEMMA UpsertEntries ==
    ASSUME NEW T, NEW s \in Seq(T), NEW e \in T, NEW S
    PROVE  /\ Append(Keeping(s, S), e) \in Seq(T)
           /\ ToSet(Append(Keeping(s, S), e)) = (ToSet(s) \cap S) \cup {e}
BY KeepingEntries, ToSetAppend

(* Names and paths are unique if they tell the entries apart.               *)
LEMMA NamesTell ==
    ASSUME NEW T, NEW s \in Seq(T)
    PROVE  IsInjective(Names(s)) <=> Tells([x \in T |-> x.name], s)
<1>1. DOMAIN s = 1..Len(s) /\ \A i \in 1..Len(s) : s[i] \in T
  OBVIOUS
<1> QED
  BY <1>1 DEF IsInjective, Names, Tells

LEMMA PathsTell ==
    ASSUME NEW T, NEW s \in Seq(T)
    PROVE  IsInjective(Paths(s)) <=> Tells([x \in T |-> x.path], s)
<1>1. DOMAIN s = 1..Len(s) /\ \A i \in 1..Len(s) : s[i] \in T
  OBVIOUS
<1> QED
  BY <1>1 DEF IsInjective, Paths, Tells

LEMMA NamesOf ==
    ASSUME NEW T, NEW s \in Seq(T)
    PROVE  ToSet(Names(s)) = {x.name : x \in ToSet(s)}
<1>1. DOMAIN s = 1..Len(s)
  OBVIOUS
<1> QED
  BY <1>1 DEF ToSet, Names

----------------------------------------------------------------------------
(* The upserts of the code.                                                 *)

(* By name, of s makes r: volumes and variables.                            *)
UpsertsByName(T, s, v, r) ==
    /\ r \in Seq(T)
    /\ ToSet(Names(r)) = ToSet(Names(s)) \cup {v.name}
    /\ OnlyNamed(r, v)
    /\ \A w : w.name # v.name /\ OnlyNamed(s, w) => OnlyNamed(r, w)
    /\ \A E : v \in E => OfOtherNames(r, E) = OfOtherNames(s, E)
    /\ IsInjective(Names(s)) => IsInjective(Names(r))

LEMMA NamedUpsert ==
    ASSUME NEW T, NEW s \in Seq(T), NEW v \in T, NEW S, NEW r,
           \A x : x \in S <=> x \in ToSet(s) /\ x.name # v.name,
           r = Append(Keeping(s, S), v)
    PROVE  UpsertsByName(T, s, v, r)
<1>1. r \in Seq(T) /\ ToSet(r) = S \cup {v}
  BY UpsertEntries
<1>2. ToSet(Names(r)) = ToSet(Names(s)) \cup {v.name}
  <2>1. {x.name : x \in S \cup {v}} = {x.name : x \in ToSet(s)} \cup {v.name}
    OBVIOUS
  <2> QED
    BY <1>1, <2>1, NamesOf
<1>3. OnlyNamed(r, v)
  <2> DEFINE R == {x \in ToSet(r) : x.name = v.name}
  <2>1. v \in R /\ ToSet(s) \cap S \cap R = {}
    BY <1>1
  <2> HIDE DEF R
  <2>2. Keeping(r, R) = <<v>>
    BY <2>1, NewEntry
  <2> QED
    BY <2>2 DEF OnlyNamed, R
<1>4. ASSUME NEW w, w.name # v.name, OnlyNamed(s, w) PROVE OnlyNamed(r, w)
  <2> DEFINE R == {x \in ToSet(r) : x.name = w.name}
             Q == {x \in ToSet(s) : x.name = w.name}
  <2>1. v \notin R /\ \A x \in ToSet(s) : x \in Q <=> x \in S /\ x \in R
    BY <1>1, <1>4
  <2> HIDE DEF R, Q
  <2>2. Keeping(r, R) = Keeping(s, Q)
    BY <2>1, OldEntries
  <2> QED
    BY <1>4, <2>2 DEF OnlyNamed, R, Q
<1>5. ASSUME NEW E, v \in E PROVE OfOtherNames(r, E) = OfOtherNames(s, E)
  <2> DEFINE R == {x \in ToSet(r) : \A e \in E : x.name # e.name}
             Q == {x \in ToSet(s) : \A e \in E : x.name # e.name}
  <2>1. v \notin R /\ \A x \in ToSet(s) : x \in Q <=> x \in S /\ x \in R
    BY <1>1, <1>5
  <2> HIDE DEF R, Q
  <2>2. Keeping(r, R) = Keeping(s, Q)
    BY <2>1, OldEntries
  <2> QED
    BY <2>2 DEF OfOtherNames, R, Q
<1>6. ASSUME IsInjective(Names(s)) PROVE IsInjective(Names(r))
  <2> DEFINE f == [x \in T |-> x.name]
  <2>1. Tells(f, s)
    BY <1>6, NamesTell
  <2>2. ToSet(s) \subseteq T
    BY ToSetAppend
  <2>3. \A x \in ToSet(s) : x \in S => f[x] # f[v]
    BY <2>2
  <2> HIDE DEF f
  <2>4. Tells(f, r)
    BY <2>1, <2>3, StillTold
  <2> QED
    BY <1>1, <2>4, NamesTell DEF f
<1> QED
  BY <1>1, <1>2, <1>3, <1>4, <1>5, <1>6 DEF UpsertsByName

(* By name and path: mounts.                                                *)
LEMMA MountUpsert ==
    ASSUME NEW s \in Seq(AMount), NEW m \in AMount, NEW r,
           r = upsertVolumeMount(s, m)
    PROVE  /\ r \in Seq(AMount)
           /\ ToSet(Names(r)) \subseteq ToSet(Names(s)) \cup {m.name}
           /\ OnlyAtPath(r, m)
           /\ \A w : w.name # m.name /\ w.path # m.path /\ OnlyAtPath(s, w)
                        => OnlyAtPath(r, w)
           /\ \A E : m \in E => AtOtherPaths(r, E) = AtOtherPaths(s, E)
           /\ IsInjective(Paths(s)) => IsInjective(Paths(r))
<1> DEFINE S == {item \in ToSet(s) : item.name # m.name /\ item.path # m.path}
<1>0. r = Append(Keeping(s, S), m)
  BY DEF upsertVolumeMount
<1>1. r \in Seq(AMount) /\ ToSet(r) = S \cup {m}
  BY <1>0, UpsertEntries
<1>2. ToSet(Names(r)) \subseteq ToSet(Names(s)) \cup {m.name}
  <2>1. {x.name : x \in S \cup {m}} \subseteq {x.name : x \in ToSet(s)} \cup {m.name}
    OBVIOUS
  <2> HIDE DEF S
  <2> QED
    BY <1>1, <2>1, NamesOf
<1>3. OnlyAtPath(r, m)
  <2> DEFINE R == {x \in ToSet(r) : x.path = m.path}
  <2>1. m \in R /\ ToSet(s) \cap S \cap R = {}
    BY <1>1
  <2> HIDE DEF R, S
  <2>2. Keeping(r, R) = <<m>>
    BY <1>0, <2>1, NewEntry
  <2> QED
    BY <2>2 DEF OnlyAtPath, R
<1>4. ASSUME NEW w, w.name # m.name, w.path # m.path, OnlyAtPath(s, w)
      PROVE  OnlyAtPath(r, w)
  <2> DEFINE R == {x \in ToSet(r) : x.path = w.path}
             Q == {x \in ToSet(s) : x.path = w.path}
  <2>1. Keeping(s, Q) = <<w>>
    BY <1>4 DEF OnlyAtPath
  <2>2. ToSet(<<w>>) = {w}
    BY DEF ToSet
  <2>3. ToSet(Keeping(s, Q)) = Q
    <3> HIDE DEF Q
    <3>1. ToSet(Keeping(s, Q)) = ToSet(s) \cap Q
      BY KeepingEntries
    <3> QED
      BY <3>1 DEF Q
  <2>4. Q = {w}
    BY <2>1, <2>2, <2>3
  <2>5. m \notin R /\ \A x \in ToSet(s) : x \in Q <=> x \in S /\ x \in R
    BY <1>1, <1>4, <2>4
  <2> HIDE DEF R, Q, S
  <2>6. Keeping(r, R) = Keeping(s, Q)
    BY <1>0, <2>5, OldEntries
  <2> QED
    BY <2>1, <2>6 DEF OnlyAtPath, R
<1>5. ASSUME NEW E, m \in E PROVE AtOtherPaths(r, E) = AtOtherPaths(s, E)
  <2> DEFINE R == {x \in ToSet(r) : \A e \in E : x.name # e.name /\ x.path # e.path}
             Q == {x \in ToSet(s) : \A e \in E : x.name # e.name /\ x.path # e.path}
  <2>1. m \notin R /\ \A x \in ToSet(s) : x \in Q <=> x \in S /\ x \in R
    BY <1>1, <1>5
  <2> HIDE DEF R, Q, S
  <2>2. Keeping(r, R) = Keeping(s, Q)
    BY <1>0, <2>1, OldEntries
  <2> QED
    BY <2>2 DEF AtOtherPaths, R, Q
<1>6. ASSUME IsInjective(Paths(s)) PROVE IsInjective(Paths(r))
  <2> DEFINE f == [x \in AMount |-> x.path]
  <2>1. Tells(f, s)
    BY <1>6, PathsTell
  <2>2. ToSet(s) \subseteq AMount
    BY ToSetAppend
  <2>3. \A x \in ToSet(s) : x \in S => f[x] # f[m]
    BY <2>2
  <2> HIDE DEF f, S
  <2>4. Tells(f, r)
    BY <1>0, <2>1, <2>3, StillTold
  <2> QED
    BY <1>1, <2>4, PathsTell DEF f
<1> QED
  BY <1>1, <1>2, <1>3, <1>4, <1>5, <1>6

(* One variable ...                                                         *)
LEMMA OneEnvVar ==
    ASSUME NEW list, NEW e
    PROVE  upsertEnvVars(list, <<e>>) = upsertEnvVar(list, e)
<1> DEFINE Upserted(g) == g = [i \in 0..1 |-> IF i = 0 THEN list
                                     ELSE upsertEnvVar(g[i - 1], <<e>>[i])]
           h == [i \in 0..1 |-> IF i = 0 THEN list ELSE upsertEnvVar(list, e)]
<1>1. ASSUME NEW i \in 0..1
      PROVE  h[i] = IF i = 0 THEN list ELSE upsertEnvVar(h[i - 1], <<e>>[i])
  <2>1. i = 0 \/ i = 1
    OBVIOUS
  <2> QED
    BY <2>1
<1>2. Upserted(h)
  BY <1>1
<1>3. Upserted(CHOOSE g : Upserted(g))
  <2> HIDE DEF Upserted, h
  <2> QED
    BY <1>2
<1>4. upsertEnvVars(list, <<e>>) = (CHOOSE g : Upserted(g))[1]
  BY DEF upsertEnvVars
<1>5. ASSUME NEW g, Upserted(g) PROVE g[1] = upsertEnvVar(list, e)
  BY <1>5
<1> HIDE DEF Upserted
<1> QED
  BY <1>3, <1>4, <1>5

(* ... and two.                                                             *)
LEMMA TwoEnvVars ==
    ASSUME NEW list, NEW e, NEW f
    PROVE  upsertEnvVars(list, <<e, f>>) = upsertEnvVar(upsertEnvVar(list, e), f)
<1> DEFINE Upserted(g) == g = [i \in 0..2 |-> IF i = 0 THEN list
                                     ELSE upsertEnvVar(g[i - 1], <<e, f>>[i])]
           h == [i \in 0..2 |-> IF i = 0 THEN list
                           ELSE IF i = 1 THEN upsertEnvVar(list, e)
                           ELSE upsertEnvVar(upsertEnvVar(list, e), f)]
<1>1. ASSUME NEW i \in 0..2
      PROVE  h[i] = IF i = 0 THEN list ELSE upsertEnvVar(h[i - 1], <<e, f>>[i])
  <2>1. i = 0 \/ i = 1 \/ i = 2
    OBVIOUS
  <2> QED
    BY <2>1
<1>2. Upserted(h)
  BY <1>1
<1>3. Upserted(CHOOSE g : Upserted(g))
  <2> HIDE DEF Upserted, h
  <2> QED
    BY <1>2
<1>4. upsertEnvVars(list, <<e, f>>) = (CHOOSE g : Upserted(g))[2]
  BY DEF upsertEnvVars
<1>5. ASSUME NEW g, Upserted(g) PROVE g[2] = upsertEnvVar(upsertEnvVar(list, e), f)
  BY <1>5
<1> HIDE DEF Upserted
<1> QED
  BY <1>3, <1>4, <1>5

----------------------------------------------------------------------------
(* The patches of a section.                                                *)

(* The section reaches the ControlPlane, and only it.                       *)
Connected(c) ==
    /\ OnlyAtPath(c.mounts, AuthMount)
    /\ OnlyNamed(c.envs, HostEnv)
    /\ OnlyNamed(c.envs, PortEnv)

(* The section c is what a patch with the given mount makes of b: the paths *)
(* stay unique, and there is no mount by another name.                      *)
MountsKept(b, c, m) ==
    /\ ToSet(Names(c.mounts)) \subseteq ToSet(Names(b.mounts)) \cup {m.name}
    /\ IsInjective(Paths(b.mounts)) => IsInjective(Paths(c.mounts))
    /\ \A E : m \in E => AtOtherPaths(c.mounts, E) = AtOtherPaths(b.mounts, E)
EnvsKept(b, c, envs) ==
    \A E : envs \subseteq E => OfOtherNames(c.envs, E) = OfOtherNames(b.envs, E)

LEMMA SectionIsOne ==
    /\ \A c \in ASection : SectionOf(c) = c
    /\ SectionOf(Missing) = EmptySection
    /\ EmptySection \in ASection
BY HelmValuesAssumption DEF SectionOf, EmptySection, ASection

LEMMA SectionPatch ==
    ASSUME NEW raw, SectionOf(raw) \in ASection, NEW m \in AMount, NEW envVars,
           upsertEnvVars(SectionOf(raw).envs, envVars) \in Seq(AnEnv),
           NEW c, c = patchContainerSection(raw, m, envVars)
    PROVE  /\ c \in ASection
           /\ c.envs = upsertEnvVars(SectionOf(raw).envs, envVars)
           /\ OnlyAtPath(c.mounts, m)
           /\ \A w : w.name # m.name /\ w.path # m.path
                        /\ OnlyAtPath(SectionOf(raw).mounts, w)
                            => OnlyAtPath(c.mounts, w)
           /\ MountsKept(SectionOf(raw), c, m)
<1> DEFINE b == SectionOf(raw)
           r == upsertVolumeMount(b.mounts, m)
<1> HIDE DEF b
<1>1. b.mounts \in Seq(AMount) /\ b \in ASection
  BY DEF ASection, b
<1>2. r \in Seq(AMount)
  BY <1>1, MountUpsert
<1>3. c = [mounts |-> r, envs |-> upsertEnvVars(b.envs, envVars)]
  <2> HIDE DEF r
  <2>1. b = [mounts |-> b.mounts, envs |-> b.envs]
    BY <1>1 DEF ASection
  <2>2. patchEnvVars(raw, envVars) =
          [mounts |-> b.mounts, envs |-> upsertEnvVars(b.envs, envVars)]
    BY <1>1 DEF patchEnvVars, b, ASection
  <2> QED
    BY <2>2 DEF patchContainerSection, r
<1>4. c \in ASection /\ c.mounts = r /\ c.envs = upsertEnvVars(b.envs, envVars)
  BY <1>2, <1>3 DEF ASection, b
<1>5. MountsKept(b, c, m)
  BY <1>1, <1>4, MountUpsert DEF MountsKept
<1>6. /\ OnlyAtPath(r, m)
      /\ \A w : w.name # m.name /\ w.path # m.path /\ OnlyAtPath(b.mounts, w)
                   => OnlyAtPath(r, w)
  BY <1>1, MountUpsert
<1> HIDE DEF r
<1> QED
  BY <1>4, <1>5, <1>6 DEF b

(* One variable.                                                            *)
LEMMA EnvUpsert ==
    ASSUME NEW s \in Seq(AnEnv), NEW e \in AnEnv
    PROVE  UpsertsByName(AnEnv, s, e, upsertEnvVar(s, e))
<1> DEFINE S == {item \in ToSet(s) : item.name # e.name}
<1>1. upsertEnvVar(s, e) = Append(Keeping(s, S), e)
  BY DEF upsertEnvVar
<1>2. \A x : x \in S <=> x \in ToSet(s) /\ x.name # e.name
  OBVIOUS
<1> HIDE DEF S
<1> QED
  BY <1>1, <1>2, NamedUpsert

(* AddAuthToHelmValues connects a section, whatever it holds.               *)
LEMMA AuthSection ==
    ASSUME NEW raw, SectionOf(raw) \in ASection, NEW c,
           c = patchContainerSection(raw, AuthMount, <<HostEnv, PortEnv>>)
    PROVE  /\ c \in ASection /\ Connected(c)
           /\ MountsKept(SectionOf(raw), c, AuthMount)
           /\ EnvsKept(SectionOf(raw), c, {HostEnv, PortEnv})
<1> DEFINE s == SectionOf(raw).envs
           t == upsertEnvVar(s, HostEnv)
           u == upsertEnvVar(t, PortEnv)
<1> HIDE DEF s, t, u
<1>1. s \in Seq(AnEnv)
  BY DEF ASection, s
<1>2. /\ t \in Seq(AnEnv) /\ OnlyNamed(t, HostEnv)
      /\ \A E : HostEnv \in E => OfOtherNames(t, E) = OfOtherNames(s, E)
  BY <1>1, InjectedAssumption, EnvUpsert DEF UpsertsByName, t
<1>3. HostEnv.name # PortEnv.name
  BY DEF HostEnv, PortEnv, Env
<1>4. /\ u \in Seq(AnEnv) /\ OnlyNamed(u, HostEnv) /\ OnlyNamed(u, PortEnv)
      /\ \A E : PortEnv \in E => OfOtherNames(u, E) = OfOtherNames(t, E)
  BY <1>2, <1>3, InjectedAssumption, EnvUpsert DEF UpsertsByName, u
<1>5. upsertEnvVars(SectionOf(raw).envs, <<HostEnv, PortEnv>>) = u
  <2>1. upsertEnvVars(s, <<HostEnv, PortEnv>>)
            = upsertEnvVar(upsertEnvVar(s, HostEnv), PortEnv)
    BY TwoEnvVars
  <2> QED
    BY <2>1, Zenon DEF s, t, u
<1>6. /\ c \in ASection /\ c.envs = u
      /\ OnlyAtPath(c.mounts, AuthMount) /\ MountsKept(SectionOf(raw), c, AuthMount)
  BY <1>4, <1>5, InjectedAssumption, SectionPatch
<1>7. EnvsKept(SectionOf(raw), c, {HostEnv, PortEnv})
  BY <1>2, <1>4, <1>6 DEF EnvsKept, s
<1> QED
  BY <1>4, <1>6, <1>7 DEF Connected

(* AddCAHelmValues leaves a section connected, ...                          *)
LEMMA CaSection ==
    ASSUME NEW b \in ASection, Connected(b), NEW c,
           c = patchContainerSection(b, CaMount, <<CaEnv>>)
    PROVE  /\ c \in ASection /\ Connected(c)
           /\ MountsKept(b, c, CaMount)
           /\ EnvsKept(b, c, {CaEnv})
<1> DEFINE t == upsertEnvVar(b.envs, CaEnv)
<1> HIDE DEF t
<1>1. b.envs \in Seq(AnEnv) /\ SectionOf(b) = b
  BY SectionIsOne DEF ASection
<1>2. /\ HostEnv.name # CaEnv.name /\ PortEnv.name # CaEnv.name
      /\ AuthMount.name # CaMount.name /\ AuthMount.path # CaMount.path
  BY DEF HostEnv, PortEnv, CaEnv, Env, AuthMount, CaMount, Mount
<1>3. /\ t \in Seq(AnEnv) /\ OnlyNamed(t, HostEnv) /\ OnlyNamed(t, PortEnv)
      /\ \A E : CaEnv \in E => OfOtherNames(t, E) = OfOtherNames(b.envs, E)
  BY <1>1, <1>2, InjectedAssumption, EnvUpsert DEF UpsertsByName, t, Connected
<1>4. upsertEnvVars(b.envs, <<CaEnv>>) = t
  BY OneEnvVar DEF t
<1>5. OnlyAtPath(b.mounts, AuthMount)
  BY DEF Connected
<1>6. /\ c \in ASection /\ c.envs = t
      /\ OnlyAtPath(c.mounts, AuthMount) /\ MountsKept(b, c, CaMount)
  BY <1>1, <1>2, <1>3, <1>4, <1>5, InjectedAssumption, SectionPatch
<1>7. EnvsKept(b, c, {CaEnv})
  BY <1>3, <1>6 DEF EnvsKept
<1> QED
  BY <1>3, <1>6, <1>7 DEF Connected

(* ... and so does AddDefaultHelmValues, which has no mount to add.         *)
LEMMA DefaultSection ==
    ASSUME NEW b \in ASection, Connected(b), NEW c,
           c = patchEnvVars(b, <<ConfigEnv>>)
    PROVE  /\ c \in ASection /\ Connected(c) /\ c.mounts = b.mounts
           /\ EnvsKept(b, c, {ConfigEnv})
<1> DEFINE t == upsertEnvVar(b.envs, ConfigEnv)
<1> HIDE DEF t
<1>1. b.envs \in Seq(AnEnv) /\ SectionOf(b) = b
  BY SectionIsOne DEF ASection
<1>2. HostEnv.name # ConfigEnv.name /\ PortEnv.name # ConfigEnv.name
  BY DEF HostEnv, PortEnv, ConfigEnv, Env
<1>3. /\ t \in Seq(AnEnv) /\ OnlyNamed(t, HostEnv) /\ OnlyNamed(t, PortEnv)
      /\ \A E : ConfigEnv \in E => OfOtherNames(t, E) = OfOtherNames(b.envs, E)
  BY <1>1, <1>2, InjectedAssumption, EnvUpsert DEF UpsertsByName, t, Connected
<1>4. c = [mounts |-> b.mounts, envs |-> t]
  BY <1>1, OneEnvVar DEF patchEnvVars, t, ASection
<1>5. c \in ASection /\ c.envs = t /\ c.mounts = b.mounts
  BY <1>3, <1>4 DEF ASection
<1> QED
  BY <1>3, <1>5 DEF Connected, EnvsKept

(* And a volume.                                                            *)
LEMMA VolumeUpsert ==
    ASSUME NEW s \in Seq(AVolume), NEW v \in AVolume
    PROVE  UpsertsByName(AVolume, s, v, upsertVolume(s, v))
<1> DEFINE S == {item \in ToSet(s) : item.name # v.name}
<1>1. upsertVolume(s, v) = Append(Keeping(s, S), v)
  BY DEF upsertVolume
<1>2. \A x : x \in S <=> x \in ToSet(s) /\ x.name # v.name
  OBVIOUS
<1> HIDE DEF S
<1> QED
  BY <1>1, <1>2, NamedUpsert

----------------------------------------------------------------------------
(* The inductive invariant.  Values that were not refused have a list of    *)
(* volumes and two sections, which may be missing until the first patch;    *)
(* after it the pod is as valid as it was, connected, and has all of the    *)
(* user's entries, also those the CA bundle has not met yet: Injected* do   *)
(* not depend on the stage.                                                 *)
Given == [extraVolumes : Volumes, init : InitSections,
          manager : ManagerSections, serviceAccount : {"user"}] \cup {Null}
Accepted(v) ==
    /\ v.extraVolumes \in Seq(AVolume)
    /\ SectionOf(v.init) \in ASection
    /\ SectionOf(v.manager) \in ASection
Patched(v) ==
    /\ \E sa : v = [extraVolumes |-> v.extraVolumes, init |-> v.init,
                    manager |-> v.manager, serviceAccount |-> sa]
    /\ v.extraVolumes \in Seq(AVolume)
    /\ v.init \in ASection /\ v.manager \in ASection
AllConnected(v) ==
    /\ OnlyNamed(v.extraVolumes, AuthVolume)
    /\ Connected(v.init) /\ Connected(v.manager)

HelmInv ==
    /\ given \in Given
    /\ stage = "auth" => values = given
    /\ stage = "ca" => caRef # "none"
    /\ stage \in {"default", "ca", "done"} =>
          /\ Accepted(given) /\ Patched(values)
          /\ ValidPod(given) => ValidPod(values)
          /\ AllConnected(values)
          /\ UserEntries(values) = UserEntries(given)
    /\ stage \in {"auth", "default", "ca", "done", "rejected", "panicked"}

(* The user's entries, for given sets of injected ones.                     *)
EntriesOf(v, vs, ms, es) ==
    [volumes       |-> OfOtherNames(v.extraVolumes, vs),
     initMounts    |-> AtOtherPaths(SectionOf(v.init).mounts, ms),
     managerMounts |-> AtOtherPaths(SectionOf(v.manager).mounts, ms),
     initEnvs      |-> OfOtherNames(SectionOf(v.init).envs, es),
     managerEnvs   |-> OfOtherNames(SectionOf(v.manager).envs, es \cup {ConfigEnv})]

Patches(b, c, m, envs) ==
    c \in ASection /\ MountsKept(b, c, m) /\ EnvsKept(b, c, envs)

(* v becomes w: a volume is added, and its mount and some variables to both *)
(* sections.                                                                *)
Mounts(v, w, x, m, envs) ==
    /\ UpsertsByName(AVolume, v.extraVolumes, x, w.extraVolumes)
    /\ Patches(SectionOf(v.init), w.init, m, envs)
    /\ Patches(SectionOf(v.manager), w.manager, m, envs)

(* That keeps a pod valid, ...                                              *)
LEMMA StillValid ==
    ASSUME NEW v, NEW w, NEW x, NEW m, m.name = x.name, NEW envs,
           Mounts(v, w, x, m, envs), ValidPod(v)
    PROVE  ValidPod(w)
<1>1. UpsertsByName(AVolume, v.extraVolumes, x, w.extraVolumes)
  BY DEF Mounts
<1>2. /\ w.init \in ASection /\ MountsKept(SectionOf(v.init), w.init, m)
      /\ w.manager \in ASection /\ MountsKept(SectionOf(v.manager), w.manager, m)
  BY DEF Mounts, Patches
<1>3. SectionOf(w.init) = w.init /\ SectionOf(w.manager) = w.manager
  BY <1>2, SectionIsOne
<1>4. IsInjective(Names(w.extraVolumes))
  BY <1>1 DEF ValidPod, UpsertsByName
<1>5. ASSUME NEW b \in Containers(v), NEW c, MountsKept(b, c, m)
      PROVE  /\ IsInjective(Paths(c.mounts))
             /\ ToSet(Names(c.mounts)) \subseteq ToSet(Names(w.extraVolumes))
  <2>1. /\ IsInjective(Paths(b.mounts))
        /\ ToSet(Names(b.mounts)) \subseteq ToSet(Names(v.extraVolumes))
    BY DEF ValidPod
  <2>2. ToSet(Names(w.extraVolumes)) = ToSet(Names(v.extraVolumes)) \cup {m.name}
    BY <1>1 DEF UpsertsByName
  <2> QED
    BY <1>5, <2>1, <2>2 DEF MountsKept
<1>6. SectionOf(v.init) \in Containers(v) /\ SectionOf(v.manager) \in Containers(v)
  BY DEF Containers
<1> QED
  BY <1>2, <1>3, <1>4, <1>5, <1>6 DEF ValidPod, Containers

(* ... and the user's entries.                                              *)
LEMMA StillAllEntries ==
    ASSUME NEW v, NEW w, NEW x, NEW m, NEW envs, Mounts(v, w, x, m, envs),
           NEW vs, x \in vs, NEW ms, m \in ms, NEW es, envs \subseteq es
    PROVE  EntriesOf(w, vs, ms, es) = EntriesOf(v, vs, ms, es)
<1>1. OfOtherNames(w.extraVolumes, vs) = OfOtherNames(v.extraVolumes, vs)
  BY DEF Mounts, UpsertsByName
<1>2. ASSUME NEW b, NEW c, Patches(b, c, m, envs)
      PROVE  /\ SectionOf(c) = c
             /\ AtOtherPaths(c.mounts, ms) = AtOtherPaths(b.mounts, ms)
             /\ OfOtherNames(c.envs, es) = OfOtherNames(b.envs, es)
             /\ OfOtherNames(c.envs, es \cup {ConfigEnv})
                    = OfOtherNames(b.envs, es \cup {ConfigEnv})
  <2>1. c \in ASection /\ MountsKept(b, c, m) /\ EnvsKept(b, c, envs)
    BY <1>2 DEF Patches
  <2>2. SectionOf(c) = c
    BY <2>1, SectionIsOne
  <2>3. AtOtherPaths(c.mounts, ms) = AtOtherPaths(b.mounts, ms)
    BY <2>1 DEF MountsKept
  <2>4. envs \subseteq es \cup {ConfigEnv}
    OBVIOUS
  <2>5. /\ OfOtherNames(c.envs, es) = OfOtherNames(b.envs, es)
        /\ OfOtherNames(c.envs, es \cup {ConfigEnv})
               = OfOtherNames(b.envs, es \cup {ConfigEnv})
    BY <2>1, <2>4 DEF EnvsKept
  <2> QED
    BY <2>2, <2>3, <2>5
<1>3. /\ SectionOf(w.init) = w.init /\ SectionOf(w.manager) = w.manager
      /\ AtOtherPaths(w.init.mounts, ms) = AtOtherPaths(SectionOf(v.init).mounts, ms)
      /\ AtOtherPaths(w.manager.mounts, ms) = AtOtherPaths(SectionOf(v.manager).mounts, ms)
      /\ OfOtherNames(w.init.envs, es) = OfOtherNames(SectionOf(v.init).envs, es)
      /\ OfOtherNames(w.manager.envs, es \cup {ConfigEnv})
             = OfOtherNames(SectionOf(v.manager).envs, es \cup {ConfigEnv})
  BY <1>2 DEF Mounts
<1> QED
  BY <1>1, <1>3 DEF EntriesOf

----------------------------------------------------------------------------
(* The three functions, one lemma each.                                     *)

LEMMA AuthPatches ==
    ASSUME NEW v, NEW sa, Accepted(v), NEW w,
           w = [extraVolumes   |-> upsertVolume(v.extraVolumes, AuthVolume),
                init           |-> patchContainerSection(v.init, AuthMount, <<HostEnv, PortEnv>>),
                manager        |-> patchContainerSection(v.manager, AuthMount, <<HostEnv, PortEnv>>),
                serviceAccount |-> sa]
    PROVE  /\ Patched(w) /\ AllConnected(w)
           /\ Mounts(v, w, AuthVolume, AuthMount, {HostEnv, PortEnv})
<1> DEFINE vols == upsertVolume(v.extraVolumes, AuthVolume)
           init == patchContainerSection(v.init, AuthMount, <<HostEnv, PortEnv>>)
           man  == patchContainerSection(v.manager, AuthMount, <<HostEnv, PortEnv>>)
<1>1. /\ v.extraVolumes \in Seq(AVolume)
      /\ SectionOf(v.init) \in ASection /\ SectionOf(v.manager) \in ASection
  BY DEF Accepted
<1>2. UpsertsByName(AVolume, v.extraVolumes, AuthVolume, vols)
  BY <1>1, InjectedAssumption, VolumeUpsert
<1>3. /\ init \in ASection /\ Connected(init)
      /\ MountsKept(SectionOf(v.init), init, AuthMount)
      /\ EnvsKept(SectionOf(v.init), init, {HostEnv, PortEnv})
  BY <1>1, AuthSection
<1>4. /\ man \in ASection /\ Connected(man)
      /\ MountsKept(SectionOf(v.manager), man, AuthMount)
      /\ EnvsKept(SectionOf(v.manager), man, {HostEnv, PortEnv})
  BY <1>1, AuthSection
<1>5. w = [extraVolumes |-> vols, init |-> init, manager |-> man, serviceAccount |-> sa]
  OBVIOUS
<1> HIDE DEF vols, init, man
<1>6. /\ w.extraVolumes = vols /\ w.init = init /\ w.manager = man
      /\ w = [extraVolumes |-> w.extraVolumes, init |-> w.init,
              manager |-> w.manager, serviceAccount |-> sa]
  BY <1>5
<1>7. vols \in Seq(AVolume) /\ OnlyNamed(vols, AuthVolume)
  BY <1>2 DEF UpsertsByName
<1>8. Patched(w) /\ AllConnected(w)
  BY <1>3, <1>4, <1>6, <1>7 DEF Patched, AllConnected
<1>9. Mounts(v, w, AuthVolume, AuthMount, {HostEnv, PortEnv})
  BY <1>2, <1>3, <1>4, <1>6 DEF Mounts, Patches
<1> QED
  BY <1>8, <1>9

LEMMA CaPatches ==
    ASSUME NEW v, NEW sa, Patched(v), AllConnected(v), NEW w,
           w = [extraVolumes   |-> upsertVolume(v.extraVolumes, CaVolume),
                init           |-> patchContainerSection(v.init, CaMount, <<CaEnv>>),
                manager        |-> patchContainerSection(v.manager, CaMount, <<CaEnv>>),
                serviceAccount |-> sa]
    PROVE  /\ Patched(w) /\ AllConnected(w)
           /\ Mounts(v, w, CaVolume, CaMount, {CaEnv})
<1> DEFINE vols == upsertVolume(v.extraVolumes, CaVolume)
           init == patchContainerSection(v.init, CaMount, <<CaEnv>>)
           man  == patchContainerSection(v.manager, CaMount, <<CaEnv>>)
<1>1. /\ v.extraVolumes \in Seq(AVolume) /\ OnlyNamed(v.extraVolumes, AuthVolume)
      /\ v.init \in ASection /\ v.manager \in ASection
      /\ SectionOf(v.init) = v.init /\ SectionOf(v.manager) = v.manager
      /\ Connected(v.init) /\ Connected(v.manager)
  BY SectionIsOne DEF Patched, AllConnected
<1>2. UpsertsByName(AVolume, v.extraVolumes, CaVolume, vols)
  BY <1>1, InjectedAssumption, VolumeUpsert
<1>3. /\ init \in ASection /\ Connected(init)
      /\ MountsKept(v.init, init, CaMount) /\ EnvsKept(v.init, init, {CaEnv})
  BY <1>1, CaSection
<1>4. /\ man \in ASection /\ Connected(man)
      /\ MountsKept(v.manager, man, CaMount) /\ EnvsKept(v.manager, man, {CaEnv})
  BY <1>1, CaSection
<1>5. w = [extraVolumes |-> vols, init |-> init, manager |-> man, serviceAccount |-> sa]
  OBVIOUS
<1> HIDE DEF vols, init, man
<1>6. /\ w.extraVolumes = vols /\ w.init = init /\ w.manager = man
      /\ w = [extraVolumes |-> w.extraVolumes, init |-> w.init,
              manager |-> w.manager, serviceAccount |-> sa]
  BY <1>5
<1>7. AuthVolume.name # CaVolume.name
  BY DEF AuthVolume, CaVolume, Volume
<1>8. vols \in Seq(AVolume) /\ OnlyNamed(vols, AuthVolume)
  BY <1>1, <1>2, <1>7 DEF UpsertsByName
<1>9. Patched(w) /\ AllConnected(w)
  BY <1>3, <1>4, <1>6, <1>8 DEF Patched, AllConnected
<1>10. Mounts(v, w, CaVolume, CaMount, {CaEnv})
  BY <1>1, <1>2, <1>3, <1>4, <1>6 DEF Mounts, Patches
<1> QED
  BY <1>9, <1>10

LEMMA DefaultPatches ==
    ASSUME NEW v, NEW sa, Patched(v), AllConnected(v), NEW w,
           w = [extraVolumes   |-> v.extraVolumes,
                init           |-> v.init,
                manager        |-> patchEnvVars(v.manager, <<ConfigEnv>>),
                serviceAccount |-> sa]
    PROVE  /\ Patched(w) /\ AllConnected(w)
           /\ ValidPod(v) => ValidPod(w)
           /\ \A vs, ms, es : EntriesOf(w, vs, ms, es) = EntriesOf(v, vs, ms, es)
<1> DEFINE man == patchEnvVars(v.manager, <<ConfigEnv>>)
<1>1. /\ v.extraVolumes \in Seq(AVolume) /\ OnlyNamed(v.extraVolumes, AuthVolume)
      /\ v.init \in ASection /\ v.manager \in ASection
      /\ SectionOf(v.init) = v.init /\ SectionOf(v.manager) = v.manager
      /\ Connected(v.init) /\ Connected(v.manager)
  BY SectionIsOne DEF Patched, AllConnected
<1>2. /\ man \in ASection /\ Connected(man) /\ man.mounts = v.manager.mounts
      /\ EnvsKept(v.manager, man, {ConfigEnv})
  BY <1>1, DefaultSection
<1>3. w = [extraVolumes |-> v.extraVolumes, init |-> v.init, manager |-> man,
           serviceAccount |-> sa]
  OBVIOUS
<1> HIDE DEF man
<1>4. /\ w.extraVolumes = v.extraVolumes /\ w.init = v.init /\ w.manager = man
      /\ w = [extraVolumes |-> w.extraVolumes, init |-> w.init,
              manager |-> w.manager, serviceAccount |-> sa]
  BY <1>3
<1>5. SectionOf(man) = man
  BY <1>2, SectionIsOne
<1>6. Patched(w) /\ AllConnected(w)
  BY <1>1, <1>2, <1>4 DEF Patched, AllConnected
<1>7. ValidPod(v) => ValidPod(w)
  BY <1>1, <1>2, <1>4, <1>5 DEF ValidPod, Containers
<1>8. ASSUME NEW vs, NEW ms, NEW es
      PROVE  EntriesOf(w, vs, ms, es) = EntriesOf(v, vs, ms, es)
  <2>1. OfOtherNames(man.envs, es \cup {ConfigEnv})
            = OfOtherNames(v.manager.envs, es \cup {ConfigEnv})
    BY <1>2 DEF EnvsKept
  <2> QED
    BY <1>1, <1>2, <1>4, <1>5, <2>1 DEF EntriesOf
<1> QED
  BY <1>6, <1>7, <1>8

----------------------------------------------------------------------------
(* The invariant is inductive.                                              *)

(* What neither panics nor is refused decodes.                              *)
LEMMA TakenDecodes ==
    ASSUME given \in Given, values = given, ~Panics, ~Rejects
    PROVE  /\ Accepted(given)
           /\ given = [extraVolumes |-> given.extraVolumes, init |-> given.init,
                       manager |-> given.manager,
                       serviceAccount |-> given.serviceAccount]
<1>1. /\ given # Null /\ given.extraVolumes # Malformed
      /\ given.init \notin {Null, Malformed} /\ given.manager \notin {Null, Malformed}
  BY DEF Panics, Rejects
<1>2. given \in [extraVolumes : Volumes, init : InitSections,
                 manager : ManagerSections, serviceAccount : {"user"}]
  BY <1>1 DEF Given
<1>3. /\ given.extraVolumes \in Volumes /\ given.init \in InitSections
      /\ given.manager \in ManagerSections
      /\ given = [extraVolumes |-> given.extraVolumes, init |-> given.init,
                  manager |-> given.manager, serviceAccount |-> given.serviceAccount]
  BY <1>2
<1>4. given.extraVolumes \in Seq(AVolume)
  BY <1>1, <1>3, HelmValuesAssumption
<1>5. given.init \in {Missing} \cup ASection /\ given.manager \in {Missing} \cup ASection
  BY <1>1, <1>3, HelmValuesAssumption
<1>6. SectionOf(given.init) \in ASection /\ SectionOf(given.manager) \in ASection
  BY <1>5, SectionIsOne
<1> QED
  BY <1>3, <1>4, <1>6 DEF Accepted

LEMMA EntriesAre ==
    ASSUME NEW v
    PROVE  UserEntries(v) = EntriesOf(v, InjectedVolumes, InjectedMounts, InjectedEnvs)
BY DEF UserEntries, EntriesOf

LEMMA HelmInit == Init => HelmInv
BY DEF Init, HelmInv, Given

LEMMA AuthStep ==
    ASSUME HelmInv, AddAuthToHelmValues
    PROVE  HelmInv'
<1>1. /\ given \in Given /\ values = given /\ ~Panics /\ ~Rejects
      /\ given' = given /\ caRef' = caRef /\ stage' = "default"
  BY DEF HelmInv, AddAuthToHelmValues
<1>2. /\ Accepted(given)
      /\ given = [extraVolumes |-> given.extraVolumes, init |-> given.init,
                  manager |-> given.manager, serviceAccount |-> given.serviceAccount]
  BY <1>1, TakenDecodes
<1>3. values' = [extraVolumes   |-> upsertVolume(given.extraVolumes, AuthVolume),
                 init           |-> patchContainerSection(given.init, AuthMount, <<HostEnv, PortEnv>>),
                 manager        |-> patchContainerSection(given.manager, AuthMount, <<HostEnv, PortEnv>>),
                 serviceAccount |-> given.serviceAccount]
  BY <1>1, <1>2 DEF AddAuthToHelmValues
<1>4. /\ Patched(values') /\ AllConnected(values')
      /\ Mounts(given, values', AuthVolume, AuthMount, {HostEnv, PortEnv})
  BY <1>2, <1>3, AuthPatches
<1>5. ValidPod(given) => ValidPod(values')
  <2>1. AuthMount.name = AuthVolume.name
    BY DEF AuthMount, AuthVolume, Mount, Volume
  <2> QED
    BY <1>4, <2>1, StillValid
<1>6. UserEntries(values') = UserEntries(given)
  <2>1. AuthVolume \in InjectedVolumes /\ AuthMount \in InjectedMounts
    BY DEF InjectedVolumes, InjectedMounts
  <2>2. {HostEnv, PortEnv} \subseteq InjectedEnvs
    BY DEF InjectedEnvs
  <2> QED
    BY <1>4, <2>1, <2>2, StillAllEntries, EntriesAre
<1>7. UserEntries(values)' = UserEntries(given)'
  BY <1>1, <1>6 DEF UserEntries, InjectedVolumes, InjectedMounts, InjectedEnvs
<1>8. /\ Accepted(given)' /\ Patched(values)' /\ AllConnected(values)'
      /\ (ValidPod(given) => ValidPod(values))'
  BY <1>1, <1>2, <1>4, <1>5
<1> QED
  BY <1>1, <1>7, <1>8 DEF HelmInv

LEMMA DefaultStep ==
    ASSUME HelmInv, AddDefaultHelmValues
    PROVE  HelmInv'
<1>1. /\ given \in Given /\ stage = "default" /\ Accepted(given) /\ Patched(values)
      /\ ValidPod(given) => ValidPod(values)
      /\ AllConnected(values) /\ UserEntries(values) = UserEntries(given)
      /\ given' = given /\ caRef' = caRef
      /\ stage' \in {"done", "ca"} /\ (stage' = "ca" => caRef # "none")
  BY DEF HelmInv, AddDefaultHelmValues
<1>2. PICK sa : values' = [extraVolumes   |-> values.extraVolumes,
                           init           |-> values.init,
                           manager        |-> patchEnvVars(values.manager, <<ConfigEnv>>),
                           serviceAccount |-> sa]
  BY <1>1 DEF AddDefaultHelmValues, Patched
<1>3. /\ Patched(values') /\ AllConnected(values')
      /\ ValidPod(values) => ValidPod(values')
      /\ \A vs, ms, es : EntriesOf(values', vs, ms, es) = EntriesOf(values, vs, ms, es)
  BY <1>1, <1>2, DefaultPatches
<1>4. UserEntries(values') = UserEntries(given)
  BY <1>1, <1>3, EntriesAre
<1>5. UserEntries(values)' = UserEntries(given)'
  BY <1>1, <1>4 DEF UserEntries, InjectedVolumes, InjectedMounts, InjectedEnvs
<1>6. /\ Accepted(given)' /\ Patched(values)' /\ AllConnected(values)'
      /\ (ValidPod(given) => ValidPod(values))'
  BY <1>1, <1>3
<1> QED
  BY <1>1, <1>5, <1>6 DEF HelmInv

LEMMA CaStep ==
    ASSUME HelmInv, AddCAHelmValues
    PROVE  HelmInv'
<1>1. /\ given \in Given /\ stage = "ca" /\ Accepted(given) /\ Patched(values)
      /\ ValidPod(given) => ValidPod(values)
      /\ AllConnected(values) /\ UserEntries(values) = UserEntries(given)
      /\ given' = given /\ caRef' = caRef /\ stage' = "done" /\ caRef # "none"
  BY DEF HelmInv, AddCAHelmValues
<1>2. PICK sa : values = [extraVolumes |-> values.extraVolumes, init |-> values.init,
                          manager |-> values.manager, serviceAccount |-> sa]
  BY <1>1 DEF Patched
<1>3. values' = [extraVolumes   |-> upsertVolume(values.extraVolumes, CaVolume),
                 init           |-> patchContainerSection(values.init, CaMount, <<CaEnv>>),
                 manager        |-> patchContainerSection(values.manager, CaMount, <<CaEnv>>),
                 serviceAccount |-> sa]
  <2> DEFINE vols == values.extraVolumes
             init == values.init
             man  == values.manager
  <2>1. /\ values = [extraVolumes |-> vols, init |-> init, manager |-> man,
                     serviceAccount |-> sa]
        /\ vols = values.extraVolumes /\ init = values.init /\ man = values.manager
    BY <1>2
  <2> HIDE DEF vols, init, man
  <2> QED
    BY <2>1 DEF AddCAHelmValues
<1>4. /\ Patched(values') /\ AllConnected(values')
      /\ Mounts(values, values', CaVolume, CaMount, {CaEnv})
  BY <1>1, <1>3, CaPatches
<1>5. ValidPod(values) => ValidPod(values')
  <2>1. CaMount.name = CaVolume.name
    BY DEF CaMount, CaVolume, Mount, Volume
  <2> QED
    BY <1>4, <2>1, StillValid
<1>6. UserEntries(values') = UserEntries(values)
  <2>1. CaVolume \in InjectedVolumes /\ CaMount \in InjectedMounts
    BY <1>1 DEF InjectedVolumes, InjectedMounts
  <2>2. {CaEnv} \subseteq InjectedEnvs
    BY <1>1 DEF InjectedEnvs
  <2> QED
    BY <1>4, <2>1, <2>2, StillAllEntries, EntriesAre
<1>7. UserEntries(values)' = UserEntries(given)'
  BY <1>1, <1>6 DEF UserEntries, InjectedVolumes, InjectedMounts, InjectedEnvs
<1>8. /\ Accepted(given)' /\ Patched(values)' /\ AllConnected(values)'
      /\ (ValidPod(given) => ValidPod(values))'
  BY <1>1, <1>4, <1>5
<1> QED
  BY <1>1, <1>7, <1>8 DEF HelmInv

LEMMA HelmNext == HelmInv /\ [Next]_vars => HelmInv'
<1> SUFFICES ASSUME HelmInv, [Next]_vars PROVE HelmInv'
  OBVIOUS
<1>1. CASE AuthPanics
  BY <1>1 DEF AuthPanics, HelmInv
<1>2. CASE AuthRejected
  BY <1>2 DEF AuthRejected, HelmInv
<1>3. CASE CaRejected
  BY <1>3 DEF CaRejected, HelmInv
<1>4. CASE Settled \/ UNCHANGED vars
  <2>1. UNCHANGED vars
    BY <1>4 DEF Settled
  <2> QED
    BY <2>1 DEF vars, HelmInv, UserEntries, InjectedVolumes, InjectedMounts, InjectedEnvs
<1> QED
  BY <1>1, <1>2, <1>3, <1>4, AuthStep, DefaultStep, CaStep DEF Next

(* The values that come out of the patches decode, whatever went in.        *)
THEOREM HelmInvAlways == Spec => []HelmInv
BY HelmInit, HelmNext, PTL DEF Spec

----------------------------------------------------------------------------
(* The invariants of the module.                                            *)

(* Values that make a valid pod still do after the patches.                 *)
THEOREM PodStaysValidAlways == Spec => []PodStaysValid
<1>1. HelmInv => PodStaysValid
  BY DEF HelmInv, PodStaysValid
<1> QED
  BY <1>1, HelmInvAlways, PTL

(* Both containers end up with the token and the address of the             *)
(* ControlPlane and with no other of either.                                *)
THEOREM BothConnectedAlways == Spec => []BothConnected
<1>1. ASSUME HelmInv, stage = "done"
      PROVE  /\ OnlyNamed(values.extraVolumes, AuthVolume)
             /\ \A c \in Containers(values) : Connected(c)
  BY <1>1, SectionIsOne DEF HelmInv, Patched, AllConnected, Containers
<1>2. HelmInv => BothConnected
  BY <1>1 DEF BothConnected, Connected
<1> QED
  BY <1>2, HelmInvAlways, PTL

(* No entry of the user's gets lost or moves unless an injected one         *)
(* collides with it.                                                        *)
THEOREM UserEntriesKeptAlways == Spec => []UserEntriesKept
<1>1. HelmInv => UserEntriesKept
  BY DEF HelmInv, UserEntriesKept
<1> QED
  BY <1>1, HelmInvAlways, PTL
=============================================================================

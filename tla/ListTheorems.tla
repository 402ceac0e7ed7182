------------------------------ MODULE ListTheorems ------------------------------
(***************************************************************************)
(* Lemmas about lists: what a filter, a removal, an insertion and an       *)
(* append leave.  What a recursive definition computes for lists of any    *)
(* length needs an induction; it is done over the least length for which   *)
(* the claim would fail, which takes no operator as a parameter.           *)
(***************************************************************************)
EXTENDS Lists, SequencesExt, FiniteSetTheorems, SequenceTheorems, TLAPS

(* Induction without a predicate: a set of numbers has a least element.     *)
LEMMA LeastNumber ==
  ASSUME NEW B \in SUBSET Nat, B # {}
  PROVE  \E n \in B : \A m \in B : ~ m < n
<1> DEFINE R == StrictSubsetOrdering(Nat)
           T == {1..n : n \in B}
<1>1. IsWellFoundedOn(R, FiniteSubsetsOf(Nat))
  BY FS_StrictSubsetOrderingWellFounded
<1>2. T \subseteq FiniteSubsetsOf(Nat) /\ T # {}
  <2>1. ASSUME NEW n \in B PROVE 1..n \in SUBSET Nat /\ IsFiniteSet(1..n)
    BY FS_Interval
  <2> QED BY <2>1 DEF FiniteSubsetsOf
<1>3. PICK t \in T : \A u \in T : ~ <<u, t>> \in R
  BY <1>1, <1>2, WFMin
<1>4. PICK n \in B : t = 1..n
  OBVIOUS
<1>5. ASSUME NEW m \in B, m < n PROVE FALSE
  <2>1. 1..m \subseteq 1..n /\ n \in 1..n /\ n \notin 1..m
    BY <1>5
  <2>2. <<1..m, t>> \in R
    BY <2>1, <1>4 DEF StrictSubsetOrdering
  <2> QED BY <1>3, <2>2
<1> QED BY <1>4, <1>5

(* How a filter builds what it leaves, from the left.                       *)
Filtering(left, s, n, gone) ==
  left = [i \in 0..n |->
            IF i = 0 THEN <<>>
            ELSE IF s[i] \in gone THEN left[i - 1] ELSE Append(left[i - 1], s[i])]

(* A filter is built up from the left.                                      *)
LEMMA FilterExists ==
  ASSUME NEW S, NEW s \in Seq(S), NEW gone
  PROVE  \E left : Filtering(left, s, Len(s), gone)
<1> DEFINE Good(n) == \E left : Filtering(left, s, n, gone)
<1> DEFINE Bad == {n \in Nat : n <= Len(s) /\ ~ Good(n)}
<1>0. Len(s) \in Nat
  OBVIOUS
<1>1. Good(0)
  <2>1. [i \in 0..0 |-> <<>>] = [i \in 0..0 |->
                                IF i = 0 THEN <<>>
                                ELSE IF s[i] \in gone THEN [j \in 0..0 |-> <<>>][i - 1]
                                     ELSE Append([j \in 0..0 |-> <<>>][i - 1], s[i])]
    OBVIOUS
  <2> QED BY <2>1 DEF Filtering
<1>2. ASSUME NEW n \in Nat, n < Len(s), Good(n) PROVE Good(n + 1)
  <2>1. PICK left : left = [i \in 0..n |->
                                IF i = 0 THEN <<>>
                                ELSE IF s[i] \in gone THEN left[i - 1]
                                     ELSE Append(left[i - 1], s[i])]
    BY <1>2 DEF Filtering
  <2> DEFINE last == IF s[n + 1] \in gone THEN left[n] ELSE Append(left[n], s[n + 1])
  <2> DEFINE more == [i \in 0..(n + 1) |-> IF i = n + 1 THEN last ELSE left[i]]
  <2>2. more = [i \in 0..(n + 1) |->
                                IF i = 0 THEN <<>>
                                ELSE IF s[i] \in gone THEN more[i - 1]
                                     ELSE Append(more[i - 1], s[i])]
    <3> SUFFICES ASSUME NEW i \in 0..(n + 1)
                 PROVE  more[i] = IF i = 0 THEN <<>>
                                ELSE IF s[i] \in gone THEN more[i - 1]
                                     ELSE Append(more[i - 1], s[i])
      OBVIOUS
    <3>1. CASE i = n + 1
      <4>1. more[i] = last /\ i # 0 /\ more[i - 1] = left[n] /\ s[i] = s[n + 1]
        BY <3>1
      <4> QED BY <4>1
    <3>2. CASE i # n + 1
      <4>1. i \in 0..n /\ more[i] = left[i]
        BY <3>2
      <4>2. i # 0 => i - 1 \in 0..(n + 1) /\ i - 1 # n + 1 
        BY <4>1
      <4>3. i # 0 => more[i - 1] = left[i - 1]
        BY <4>2
      <4>4. left[i] = IF i = 0 THEN <<>>
                                ELSE IF s[i] \in gone THEN left[i - 1]
                                     ELSE Append(left[i - 1], s[i])
        BY <2>1, <4>1
      <4> HIDE DEF more
      <4> QED BY <4>1, <4>3, <4>4
    <3> QED BY <3>1, <3>2
  <2> QED BY <2>2 DEF Filtering
<1> HIDE DEF Good
<1>3. Bad = {}
  <2> SUFFICES ASSUME Bad # {} PROVE FALSE
    OBVIOUS
  <2>1. PICK n \in Bad : \A m \in Bad : ~ m < n
    BY LeastNumber, Bad \in SUBSET Nat
  <2>2. n # 0
    BY <1>1
  <2>3. n - 1 \in Nat /\ n - 1 < n /\ n - 1 <= Len(s) /\ n - 1 < Len(s)
    BY <1>0, <2>2
  <2>4. n - 1 \notin Bad
    BY <2>1, <2>3
  <2>5. Good(n - 1)
    BY <2>3, <2>4
  <2>6. Good((n - 1) + 1)
    BY <1>2, <2>3, <2>5
  <2> QED BY <2>6
<1>4. Len(s) \notin Bad
  BY <1>3
<1>5. Good(Len(s))
  BY <1>0, <1>4
<1> QED BY <1>5 DEF Good

(* What is left are the items that are not gone.                            *)
LEMMA WithoutLeaves ==
  ASSUME NEW S, NEW s \in Seq(S), NEW gone
  PROVE  /\ Without(s, gone) \in Seq(S) /\ Len(Without(s, gone)) <= Len(s)
         /\ ToSet(Without(s, gone)) = ToSet(s) \ gone
         /\ IsInjective(s) => IsInjective(Without(s, gone))
<1> DEFINE F(left) == [i \in 0..Len(s) |->
                        IF i = 0 THEN <<>>
                        ELSE IF s[i] \in gone THEN left[i - 1]
                             ELSE Append(left[i - 1], s[i])]
           left == CHOOSE l : l = F(l)
           Upto(n) == {s[j] : j \in 1..n} \ gone
           Good(n) == /\ left[n] \in Seq(S) /\ Len(left[n]) <= n
                      /\ ToSet(left[n]) = Upto(n)
                      /\ IsInjective(s) => IsInjective(left[n])
           Bad == {n \in Nat : n <= Len(s) /\ ~ Good(n)}
<1>0. Len(s) \in Nat /\ s \in [1..Len(s) -> S] /\ ToSet(s) = Upto(Len(s)) \cup (ToSet(s) \cap gone)
  BY DEF ToSet
<1>1. left = F(left)
  <2>1. Filtering(CHOOSE l : Filtering(l, s, Len(s), gone), s, Len(s), gone)
    BY FilterExists
  <2>2. left = CHOOSE l : Filtering(l, s, Len(s), gone)
    BY Zenon DEF Filtering
  <2>3. Filtering(left, s, Len(s), gone)
    BY <2>1, <2>2, Zenon
  <2> QED BY <2>3, Zenon DEF Filtering
<1>2. Without(s, gone) = left[Len(s)]
  BY DEF Without
<1>3. left[0] = <<>>
  <2>1. F(left)[0] = <<>>
    BY <1>0
  <2> QED BY <1>1, <2>1
<1>4. ASSUME NEW n \in Nat, n < Len(s)
      PROVE  left[n + 1] = IF s[n + 1] \in gone THEN left[n] ELSE Append(left[n], s[n + 1])
  <2>1. n + 1 \in 0..Len(s) /\ n + 1 # 0 /\ (n + 1) - 1 = n
    BY <1>0, <1>4
  <2>2. left[n + 1] = F(left)[n + 1]
    BY <1>1
  <2>3. F(left)[n + 1] = IF s[n + 1] \in gone THEN left[n] ELSE Append(left[n], s[n + 1])
    <3> HIDE DEF left
    <3> QED BY <2>1
  <2> QED BY <2>2, <2>3
<1> HIDE DEF left, F
<1>5. Good(0)
  BY <1>3 DEF ToSet, IsInjective
<1>6. ASSUME NEW n \in Nat, n < Len(s), Good(n) PROVE Good(n + 1)
  <2>1. s[n + 1] \in S /\ 1..(n + 1) = 1..n \cup {n + 1}
    BY <1>0, <1>6
  <2>2. CASE s[n + 1] \in gone
    <3>1. Upto(n + 1) = Upto(n)
      BY <2>1, <2>2
    <3> HIDE DEF Upto
    <3> QED BY <1>4, <1>6, <2>2, <3>1
  <2>3. CASE s[n + 1] \notin gone
    <3>1. Upto(n + 1) = Upto(n) \cup {s[n + 1]}
      BY <2>1, <2>3
    <3> HIDE DEF Upto
    <3>2. left[n + 1] = Append(left[n], s[n + 1])
      BY <1>4, <1>6, <2>3
    <3> DEFINE more == Append(left[n], s[n + 1])
    <3>3. /\ DOMAIN more = 1..(Len(left[n]) + 1) /\ DOMAIN left[n] = 1..Len(left[n])
          /\ Len(left[n]) \in Nat /\ more[Len(left[n]) + 1] = s[n + 1]
          /\ \A j \in 1..Len(left[n]) : more[j] = left[n][j]
      BY <1>6, <2>1
    <3>4. more \in Seq(S) /\ Len(more) <= n + 1
      BY <1>6, <2>1
    <3> HIDE DEF more
    <3>5. ToSet(more) = ToSet(left[n]) \cup {s[n + 1]}
      BY <3>3 DEF ToSet
    <3>6. IsInjective(s) => IsInjective(more)
      <4> SUFFICES ASSUME IsInjective(s) PROVE IsInjective(more)
        OBVIOUS
      <4>1. \A k \in 1..n : s[k] # s[n + 1]
        BY <1>0, <1>6 DEF IsInjective
      <4>2. s[n + 1] \notin ToSet(left[n])
        BY <4>1, <1>6 DEF Upto
      <4>3. \A j \in 1..Len(left[n]) : left[n][j] # s[n + 1]
        BY <4>2, <3>3 DEF ToSet
      <4>4. \A j, k \in 1..Len(left[n]) : left[n][j] = left[n][k] => j = k
        BY <1>6, <3>3 DEF IsInjective
      <4>5. \A j, k \in 1..(Len(left[n]) + 1) : more[j] = more[k] => j = k
        <5> SUFFICES ASSUME NEW j \in 1..(Len(left[n]) + 1), NEW k \in 1..(Len(left[n]) + 1),
                            more[j] = more[k]
                     PROVE  j = k
          OBVIOUS
        <5> DEFINE top == Len(left[n]) + 1
        <5>1. j = top \/ j \in 1..Len(left[n])
          BY <3>3
        <5>2. k = top \/ k \in 1..Len(left[n])
          BY <3>3
        <5>3. /\ more[top] = s[n + 1]
              /\ \A i \in 1..Len(left[n]) : more[i] = left[n][i] /\ more[i] # s[n + 1]
          BY <3>3, <4>3
        <5> HIDE DEF top
        <5> QED BY <4>4, <5>1, <5>2, <5>3
      <4> QED BY <4>5, <3>3 DEF IsInjective
    <3>7. left[n + 1] = more
      BY <3>2 DEF more
    <3> QED BY <1>6, <3>1, <3>4, <3>5, <3>6, <3>7
  <2> QED BY <2>2, <2>3
<1> HIDE DEF Good
<1>7. Bad = {}
  <2> SUFFICES ASSUME Bad # {} PROVE FALSE
    OBVIOUS
  <2>1. PICK n \in Bad : \A m \in Bad : ~ m < n
    BY LeastNumber, Bad \in SUBSET Nat
  <2>2. n # 0
    BY <1>5
  <2>3. n - 1 \in Nat /\ n - 1 < n /\ n - 1 <= Len(s) /\ n - 1 < Len(s)
    BY <1>0, <2>2
  <2>4. n - 1 \notin Bad
    BY <2>1, <2>3
  <2>5. Good(n - 1)
    BY <2>3, <2>4
  <2>6. Good((n - 1) + 1)
    BY <1>6, <2>3, <2>5
  <2> QED BY <2>6
<1>8. Len(s) \notin Bad
  BY <1>7
<1>9. Good(Len(s))
  BY <1>0, <1>8
<1>10. ToSet(s) \ gone = Upto(Len(s))
  BY <1>0
<1> HIDE DEF Upto
<1> QED BY <1>2, <1>9, <1>10 DEF Good

(* Array.splice(i, 1): what an entry that goes leaves of the list.          *)
LEMMA RemoveAtIs ==
  ASSUME NEW S, NEW s \in Seq(S), NEW i \in 1..Len(s)
  PROVE  /\ RemoveAt(s, i) \in Seq(S) /\ Len(RemoveAt(s, i)) = Len(s) - 1
         /\ \A n \in 1..(Len(s) - 1) : RemoveAt(s, i)[n] = IF n < i THEN s[n] ELSE s[n + 1]
<1> DEFINE t == RemoveAt(s, i)
<1> DEFINE u == SubSeq(s, 1, i - 1)
           v == SubSeq(s, i + 1, Len(s))
<1>1. \A n \in 1..Len(s) : s[n] \in S
  OBVIOUS
<1>2. u \in Seq(S) /\ Len(u) = i - 1 /\ \A n \in 1..(i - 1) : u[n] = s[n]
  BY <1>1, SubSeqProperties
<1>3. v \in Seq(S) /\ Len(v) = Len(s) - i /\ \A n \in 1..(Len(s) - i) : v[n] = s[i + n]
  BY <1>1, SubSeqProperties
<1>4. t = u \o v
  BY DEF RemoveAt
<1> HIDE DEF u, v, t
<1>5. t \in Seq(S) /\ Len(t) = Len(s) - 1
  BY <1>2, <1>3, <1>4
<1>6. ASSUME NEW n \in 1..(Len(s) - 1) PROVE t[n] = IF n < i THEN s[n] ELSE s[n + 1]
  <2>1. CASE n < i
    BY <2>1, <1>2, <1>3, <1>4
  <2>2. CASE ~(n < i)
    <3>1. n - (i - 1) \in 1..(Len(s) - i) /\ i + (n - (i - 1)) = n + 1
      BY <2>2
    <3>2. t[n] = v[n - (i - 1)]
      BY <2>2, <1>2, <1>3, <1>4
    <3> QED BY <2>2, <3>1, <3>2, <1>3
  <2> QED BY <2>1, <2>2
<1> QED BY <1>5, <1>6 DEF t

(* The same for a list that has each item once.                            *)
LEMMA RemoveAtLeaves ==
  ASSUME NEW S, NEW s \in Seq(S), IsInjective(s), NEW i \in 1..Len(s)
  PROVE  /\ RemoveAt(s, i) \in Seq(S) /\ Len(RemoveAt(s, i)) = Len(s) - 1
         /\ \A n \in 1..(Len(s) - 1) : RemoveAt(s, i)[n] = IF n < i THEN s[n] ELSE s[n + 1]
         /\ IsInjective(RemoveAt(s, i))
         /\ ToSet(RemoveAt(s, i)) = ToSet(s) \ {s[i]}
<1> DEFINE t == RemoveAt(s, i)
<1>1. /\ t \in Seq(S) /\ Len(t) = Len(s) - 1
      /\ \A n \in 1..(Len(s) - 1) : t[n] = IF n < i THEN s[n] ELSE s[n + 1]
  BY RemoveAtIs
<1> HIDE DEF t
<1>2. \A m, n \in 1..(Len(s) - 1) : t[m] = t[n] => m = n
  <2>1. \A m, n \in 1..Len(s) : s[m] = s[n] => m = n
    BY DEF IsInjective
  <2> SUFFICES ASSUME NEW m \in 1..(Len(s) - 1), NEW n \in 1..(Len(s) - 1), t[m] = t[n] PROVE m = n
    OBVIOUS
  <2>2. m \in 1..Len(s) /\ m + 1 \in 1..Len(s) /\ n \in 1..Len(s) /\ n + 1 \in 1..Len(s)
    OBVIOUS
  <2>3. t[m] = (IF m < i THEN s[m] ELSE s[m + 1]) /\ t[n] = (IF n < i THEN s[n] ELSE s[n + 1])
    BY <1>1
  <2> HIDE DEF t
  <2>4. \E k, l \in 1..Len(s) : /\ t[m] = s[k] /\ k = (IF m < i THEN m ELSE m + 1)
                                /\ t[n] = s[l] /\ l = (IF n < i THEN n ELSE n + 1)
    BY <2>2, <2>3
  <2>5. (IF m < i THEN m ELSE m + 1) = (IF n < i THEN n ELSE n + 1)
    BY <2>1, <2>4
  <2> QED BY <2>5
<1>3. IsInjective(t)
  BY <1>1, <1>2 DEF IsInjective
<1>4. \A n \in 1..Len(s) : n # i => \E m \in 1..(Len(s) - 1) : t[m] = s[n]
  <2> SUFFICES ASSUME NEW n \in 1..Len(s), n # i PROVE \E m \in 1..(Len(s) - 1) : t[m] = s[n]
    OBVIOUS
  <2>1. CASE n < i
    BY <2>1, <1>1
  <2>2. CASE n > i
    <3>1. n - 1 \in 1..(Len(s) - 1) /\ ~(n - 1 < i) /\ (n - 1) + 1 = n
      BY <2>2
    <3> QED BY <3>1, <1>1
  <2> QED BY <2>1, <2>2
<1>5. \A m \in 1..(Len(s) - 1) : \E n \in 1..Len(s) : n # i /\ t[m] = s[n]
  <2> SUFFICES ASSUME NEW m \in 1..(Len(s) - 1) PROVE \E n \in 1..Len(s) : n # i /\ t[m] = s[n]
    OBVIOUS
  <2>1. CASE m < i
    BY <2>1, <1>1
  <2>2. CASE ~(m < i)
    <3>1. m + 1 \in 1..Len(s) /\ m + 1 # i
      BY <2>2
    <3> QED BY <3>1, <2>2, <1>1
  <2> QED BY <2>1, <2>2
<1>6. DOMAIN t = 1..(Len(s) - 1) /\ DOMAIN s = 1..Len(s)
  BY <1>1
<1>7. ToSet(t) = ToSet(s) \ {s[i]}
  <2>1. \A n \in 1..Len(s) : s[n] = s[i] => n = i
    BY <1>6 DEF IsInjective
  <2>2. ASSUME NEW x \in ToSet(t) PROVE x \in ToSet(s) \ {s[i]}
    BY <2>1, <1>5, <1>6 DEF ToSet
  <2>3. ASSUME NEW x \in ToSet(s) \ {s[i]} PROVE x \in ToSet(t)
    BY <1>4, <1>6 DEF ToSet
  <2> QED BY <2>2, <2>3
<1> QED BY <1>1, <1>3, <1>7 DEF t

(* Array.push of an item the list does not have.                           *)
LEMMA AppendAdds ==
  ASSUME NEW S, NEW s \in Seq(S), IsInjective(s), NEW e \in S, e \notin ToSet(s)
  PROVE  /\ Append(s, e) \in Seq(S) /\ IsInjective(Append(s, e))
         /\ ToSet(Append(s, e)) = ToSet(s) \cup {e}
         /\ Len(Append(s, e)) = Len(s) + 1
         /\ \A n \in 1..Len(s) : Append(s, e)[n] = s[n]
<1>1. /\ Append(s, e) \in Seq(S) /\ Len(Append(s, e)) = Len(s) + 1
      /\ \A n \in 1..Len(s) : Append(s, e)[n] = s[n]
      /\ Append(s, e)[Len(s) + 1] = e
  OBVIOUS
<1>2. DOMAIN s = 1..Len(s) /\ DOMAIN Append(s, e) = 1..(Len(s) + 1)
  BY <1>1
<1>3. \A n \in 1..Len(s) : s[n] # e
  BY <1>2 DEF ToSet
<1>4. IsInjective(Append(s, e))
  BY <1>1, <1>2, <1>3 DEF IsInjective
<1>5. ToSet(Append(s, e)) = ToSet(s) \cup {e}
  BY <1>1, <1>2 DEF ToSet
<1> QED BY <1>1, <1>4, <1>5

(* The items of a list are of its type, and so are its head and its tail.   *)
LEMMA ItemsOf ==
  ASSUME NEW S, NEW s \in Seq(S)
  PROVE  /\ ToSet(s) \subseteq S /\ Len(s) \in Nat /\ (s = <<>> <=> ToSet(s) = {})
         /\ s # <<>> => /\ s[1] \in ToSet(s) /\ Len(s) # 0 /\ Len(Tail(s)) = Len(s) - 1
                       /\ Tail(s) \in Seq(S) /\ ToSet(Tail(s)) \subseteq ToSet(s)
<1>1. Len(s) \in Nat /\ DOMAIN s = 1..Len(s) /\ ToSet(s) \subseteq S
  BY DEF ToSet
<1>2. ASSUME s # <<>>
      PROVE  /\ 1 \in DOMAIN s /\ Tail(s) \in Seq(S) /\ Len(Tail(s)) = Len(s) - 1
             /\ \A i \in 1..(Len(s) - 1) : Tail(s)[i] = s[i + 1] /\ i + 1 \in DOMAIN s
  BY <1>1, <1>2
<1>3. ASSUME s # <<>> PROVE s[1] \in ToSet(s) /\ ToSet(Tail(s)) \subseteq ToSet(s)
  <2>1. DOMAIN Tail(s) = 1..(Len(s) - 1)
    BY <1>2, <1>3
  <2> QED BY <1>2, <1>3, <2>1 DEF ToSet
<1>4. ToSet(<<>>) = {}
  BY DEF ToSet
<1> QED BY <1>1, <1>2, <1>3, <1>4

LEMMA ListsOfMore ==
  ASSUME NEW S, NEW T, S \subseteq T PROVE Seq(S) \subseteq Seq(T)
OBVIOUS

LEMMA ItemAt ==
  ASSUME NEW S, NEW s \in Seq(S), NEW i \in 1..Len(s) PROVE s[i] \in S
OBVIOUS

(* Array.shift: the last item of a list is that of its tail, if it has one. *)
LEMMA LastOfTail ==
  ASSUME NEW S, NEW s \in Seq(S), s # <<>>
  PROVE  Last(s) = IF Tail(s) = <<>> THEN Head(s) ELSE Last(Tail(s))
<1> DEFINE n == Len(s)
           t == Tail(s)
<1>1. n \in Nat \ {0} /\ Len(t) = n - 1 /\ t \in Seq(S) /\ Head(s) = s[1]
  OBVIOUS
<1>2. \A i \in 1..(n - 1) : t[i] = s[i + 1]
  OBVIOUS
<1>3. t = <<>> <=> Len(t) = 0
  BY <1>1, EmptySeq
<1> HIDE DEF t
<1>4. n - 1 \in 1..(n - 1) => t[n - 1] = s[(n - 1) + 1]
  BY <1>2
<1>5. Last(s) = s[n] /\ Last(t) = t[Len(t)]
  BY DEF Last
<1> HIDE DEF n
<1>6. CASE n = 1
  BY <1>1, <1>3, <1>5, <1>6 DEF t
<1>7. CASE n # 1
  <2>1. n - 1 \in 1..(n - 1) /\ (n - 1) + 1 = n /\ n - 1 # 0
    BY <1>1, <1>7
  <2> QED BY <1>1, <1>3, <1>4, <1>5, <2>1 DEF t
<1> QED BY <1>6, <1>7

(* Two items of a list change places.                                      *)
LEMMA SwapKeeps ==
  ASSUME NEW S, NEW s \in Seq(S), NEW i \in 1..Len(s), NEW j \in 1..Len(s), i # j
  PROVE  LET t == [s EXCEPT ![i] = s[j], ![j] = s[i]] IN
         /\ t \in Seq(S) /\ Len(t) = Len(s) /\ ToSet(t) = ToSet(s)
         /\ IsInjective(s) => IsInjective(t)
<1> DEFINE t == [s EXCEPT ![i] = s[j], ![j] = s[i]]
<1>1. DOMAIN t = 1..Len(s) /\ DOMAIN s = 1..Len(s) /\ Len(s) \in Nat
  OBVIOUS
<1>2. /\ t[i] = s[j] /\ t[j] = s[i]
      /\ \A n \in 1..Len(s) : n # i /\ n # j => t[n] = s[n]
  OBVIOUS
<1>3. t \in Seq(S) /\ Len(t) = Len(s)
  <2>1. t \in [1..Len(s) -> S]
    OBVIOUS
  <2> HIDE DEF t
  <2> QED BY <1>1, <2>1
<1> HIDE DEF t
<1>4. ToSet(t) = ToSet(s)
  <2>1. ASSUME NEW x \in ToSet(t) PROVE x \in ToSet(s)
    BY <1>1, <1>2 DEF ToSet
  <2>2. ASSUME NEW x \in ToSet(s) PROVE x \in ToSet(t)
    BY <1>1, <1>2 DEF ToSet
  <2> QED BY <2>1, <2>2
<1>5. IsInjective(s) => IsInjective(t)
  BY <1>1, <1>2 DEF IsInjective
<1> QED BY <1>3, <1>4, <1>5 DEF t
(* What an insertion leaves (Array.splice, a sheet that gets its position). *)
LEMMA InsertAtIs ==
  ASSUME NEW S, NEW s \in Seq(S), NEW i \in 1..(Len(s) + 1), NEW e \in S
  PROVE  /\ InsertAt(s, i, e) \in Seq(S) /\ Len(InsertAt(s, i, e)) = Len(s) + 1
         /\ \A n \in 1..(Len(s) + 1) :
              InsertAt(s, i, e)[n] = IF n < i THEN s[n] ELSE IF n = i THEN e ELSE s[n - 1]
<1> DEFINE t == InsertAt(s, i, e)
           u == SubSeq(s, 1, i - 1)
           v == SubSeq(s, i, Len(s))
<1>1. \A n \in 1..Len(s) : s[n] \in S
  OBVIOUS
<1>2. u \in Seq(S) /\ Len(u) = i - 1 /\ \A n \in 1..(i - 1) : u[n] = s[n]
  BY <1>1, SubSeqProperties
<1>3. v \in Seq(S) /\ Len(v) = Len(s) - (i - 1) /\ \A n \in 1..(Len(s) - (i - 1)) : v[n] = s[(i - 1) + n]
  <2>1. CASE i = Len(s) + 1
    <3>1. v = <<>>
      BY <2>1
    <3> QED BY <2>1, <3>1
  <2>2. CASE i # Len(s) + 1
    BY <1>1, <2>2, SubSeqProperties
  <2> QED BY <2>1, <2>2
<1>4. t = u \o <<e>> \o v
  BY DEF InsertAt
<1> HIDE DEF u, v, t
<1>5. t \in Seq(S) /\ Len(t) = Len(s) + 1
  <2>1. <<e>> \in Seq(S) /\ Len(<<e>>) = 1
    OBVIOUS
  <2>2. u \o <<e>> \in Seq(S) /\ Len(u \o <<e>>) = i
    BY <1>2, <2>1
  <2> QED BY <1>3, <1>4, <2>2
<1>6. ASSUME NEW n \in 1..(Len(s) + 1)
      PROVE  t[n] = IF n < i THEN s[n] ELSE IF n = i THEN e ELSE s[n - 1]
  <2>1. CASE n < i
    BY <2>1, <1>2, <1>3, <1>4
  <2>2. CASE n = i
    BY <2>2, <1>2, <1>3, <1>4
  <2>3. CASE n > i
    <3>1. n - i \in 1..(Len(s) - (i - 1)) /\ (i - 1) + (n - i) = n - 1
      BY <2>3
    <3>2. t[n] = v[n - i]
      BY <2>3, <1>2, <1>3, <1>4
    <3> QED BY <2>3, <3>1, <3>2, <1>3
  <2> QED BY <2>1, <2>2, <2>3
<1> QED BY <1>5, <1>6 DEF t

(* The same for a list that has each item once.                            *)
LEMMA InsertAtAdds ==
  ASSUME NEW S, NEW s \in Seq(S), IsInjective(s), NEW i \in 1..(Len(s) + 1), NEW e \in S, e \notin ToSet(s)
  PROVE  /\ InsertAt(s, i, e) \in Seq(S) /\ Len(InsertAt(s, i, e)) = Len(s) + 1
         /\ IsInjective(InsertAt(s, i, e))
         /\ ToSet(InsertAt(s, i, e)) = ToSet(s) \cup {e}
<1> DEFINE t == InsertAt(s, i, e)
<1>1. /\ t \in Seq(S) /\ Len(t) = Len(s) + 1
      /\ \A n \in 1..(Len(s) + 1) : t[n] = IF n < i THEN s[n] ELSE IF n = i THEN e ELSE s[n - 1]
  BY InsertAtIs
<1> HIDE DEF t
<1>2. DOMAIN t = 1..(Len(s) + 1) /\ DOMAIN s = 1..Len(s) /\ Len(s) \in Nat
  BY <1>1
<1>3. \A n \in 1..(Len(s) + 1) : n # i => t[n] = s[IF n < i THEN n ELSE n - 1] /\ (IF n < i THEN n ELSE n - 1) \in 1..Len(s)
  BY <1>1, <1>2
<1>4. t[i] = e
  BY <1>1
<1>5. \A n \in 1..Len(s) : s[n] \in ToSet(s)
  BY <1>2 DEF ToSet
<1>6. ASSUME NEW m \in 1..(Len(s) + 1), NEW n \in 1..(Len(s) + 1), t[m] = t[n] PROVE m = n
  <2>1. CASE m = i \/ n = i
    BY <1>3, <1>4, <1>5, <1>6, <2>1
  <2>2. CASE m # i /\ n # i
    <3>1. (IF m < i THEN m ELSE m - 1) = (IF n < i THEN n ELSE n - 1)
      BY <1>2, <1>3, <1>6, <2>2 DEF IsInjective
    <3> QED BY <2>2, <3>1
  <2> QED BY <2>1, <2>2
<1>7. IsInjective(t)
  BY <1>2, <1>6 DEF IsInjective
<1>8. ASSUME NEW x \in ToSet(t) PROVE x \in ToSet(s) \cup {e}
  <2>1. PICK n \in 1..(Len(s) + 1) : x = t[n]
    BY <1>2 DEF ToSet
  <2> QED BY <1>3, <1>4, <1>5, <2>1
<1>9. ASSUME NEW x \in ToSet(s) \cup {e} PROVE x \in ToSet(t)
  <2>1. CASE x = e
    BY <1>2, <1>4, <2>1 DEF ToSet
  <2>2. CASE x # e
    <3>1. PICK n \in 1..Len(s) : x = s[n]
      BY <1>2, <2>2 DEF ToSet
    <3> DEFINE m == IF n < i THEN n ELSE n + 1
    <3>2. m \in 1..(Len(s) + 1) /\ m # i /\ (IF m < i THEN m ELSE m - 1) = n
      BY <1>2
    <3>3. t[m] = s[n]
      BY <1>3, <3>2
    <3> HIDE DEF m
    <3> QED BY <1>2, <3>1, <3>2, <3>3 DEF ToSet
  <2> QED BY <2>1, <2>2
<1>10. ToSet(t) = ToSet(s) \cup {e}
  BY <1>8, <1>9
<1> QED BY <1>1, <1>7, <1>10 DEF t

(* One item of a list is replaced.                                         *)
LEMMA ExceptAt ==
  ASSUME NEW S, NEW s \in Seq(S), NEW i \in 1..Len(s), NEW e \in S
  PROVE  LET t == [s EXCEPT ![i] = e] IN
         /\ t \in Seq(S) /\ Len(t) = Len(s) /\ t[i] = e
         /\ \A n \in 1..Len(s) : n # i => t[n] = s[n]
<1> DEFINE t == [s EXCEPT ![i] = e]
<1>1. DOMAIN t = 1..Len(s) /\ t \in [1..Len(s) -> S] /\ Len(s) \in Nat
  OBVIOUS
<1>2. t[i] = e /\ \A n \in 1..Len(s) : n # i => t[n] = s[n]
  OBVIOUS
<1> HIDE DEF t
<1> QED BY <1>1, <1>2 DEF t

(* An item is put before a list.                                           *)
LEMMA PrependAdds ==
  ASSUME NEW S, NEW s \in Seq(S), NEW e
  PROVE  LET t == <<e>> \o s IN
         t \in Seq(S \cup {e}) /\ Len(t) = Len(s) + 1 /\ ToSet(t) = ToSet(s) \cup {e}
<1> DEFINE t == <<e>> \o s
<1>1. s \in Seq(S \cup {e}) /\ <<e>> \in Seq(S \cup {e}) /\ Len(<<e>>) = 1 /\ Len(s) \in Nat
  BY ListsOfMore
<1>2. t \in Seq(S \cup {e}) /\ Len(t) = Len(s) + 1
  BY <1>1
<1>3. t[1] = e /\ \A n \in 1..Len(s) : t[n + 1] = s[n]
  BY <1>1
<1> HIDE DEF t
<1>4. DOMAIN t = 1..(Len(s) + 1) /\ DOMAIN s = 1..Len(s)
  BY <1>1, <1>2
<1>5. ASSUME NEW x \in ToSet(t) PROVE x \in ToSet(s) \cup {e}
  <2>1. PICK n \in 1..(Len(s) + 1) : x = t[n]
    BY <1>4 DEF ToSet
  <2>2. CASE n = 1
    BY <1>3, <2>1, <2>2
  <2>3. CASE n # 1
    <3>1. n - 1 \in 1..Len(s) /\ (n - 1) + 1 = n
      BY <1>1, <2>3
    <3>2. x = s[n - 1]
      BY <1>3, <2>1, <3>1
    <3> QED BY <1>4, <3>1, <3>2 DEF ToSet
  <2> QED BY <2>2, <2>3
<1>6. ASSUME NEW x \in ToSet(s) \cup {e} PROVE x \in ToSet(t)
  <2>1. CASE x = e
    BY <1>1, <1>3, <1>4, <2>1 DEF ToSet
  <2>2. CASE x # e
    <3>1. PICK n \in 1..Len(s) : x = s[n]
      BY <1>4, <2>2 DEF ToSet
    <3>2. n + 1 \in 1..(Len(s) + 1) /\ x = t[n + 1]
      BY <1>1, <1>3, <3>1
    <3> QED BY <1>4, <3>2 DEF ToSet
  <2> QED BY <2>1, <2>2
<1>7. ToSet(t) = ToSet(s) \cup {e}
  BY <1>5, <1>6
<1> QED BY <1>2, <1>7 DEF t
=================================================================================

----------------------------- MODULE ListLemmas -----------------------------
(***************************************************************************)
(* What the list operations of the heap, Cons for push_front_* and         *)
(* RemoveFirst for remove_*, do to the elements of a list without          *)
(* repetitions.                                                            *)
(***************************************************************************)
EXTENDS SequencesExt, SequenceTheorems, WellFoundedInduction, TLAPS

(* Induction, of which the library's theorems take the predicate as an     *)
(* operator: the least element of a set of numbers.                        *)
LEMMA LeastNumber ==
  ASSUME NEW S \in SUBSET Nat, S # {}
  PROVE  \E m \in S : \A k \in S : m <= k
<1> DEFINE R == OpToRel(<, Nat)
<1>1. IsWellFoundedOn(R, Nat)
  BY NatLessThanWellFounded
<1>2. \A j, k \in Nat : j < k => <<j, k>> \in R
  BY DEF OpToRel
<1> HIDE DEF R
<1>3. PICK m \in S : \A k \in S : ~ (<<k, m>> \in R)
  BY <1>1, WFMin
<1>4. \A k \in S : ~ (k < m)
  BY <1>2, <1>3
<1> QED BY <1>3, <1>4

(* push_front_chunk, push_front_page: the new element is in front of the   *)
(* others and nothing else changes.                                        *)
LEMMA ConsIsPushFront ==
  ASSUME NEW S, NEW s \in Seq(S), NEW e \in S
  PROVE  /\ Cons(e, s) \in Seq(S)
         /\ Len(Cons(e, s)) = Len(s) + 1
         /\ Range(Cons(e, s)) = Range(s) \cup {e}
         /\ IsInjective(s) /\ e \notin Range(s) => IsInjective(Cons(e, s))
<1> DEFINE c == Cons(e, s)
<1>1. c \in Seq(S) /\ Len(c) = Len(s) + 1
  BY DEF Cons
<1>2. c[1] = e /\ \A i \in 1 .. Len(s) : c[i + 1] = s[i]
  BY DEF Cons
<1>3. DOMAIN c = 1 .. Len(s) + 1 /\ DOMAIN s = 1 .. Len(s)
  BY <1>1
<1>4. Range(c) = Range(s) \cup {e}
  <2>1. ASSUME NEW x \in Range(c) PROVE x \in Range(s) \cup {e}
    <3>1. PICK i \in 1 .. Len(s) + 1 : c[i] = x
      BY <1>3 DEF Range
    <3>2. CASE i = 1
      BY <1>2, <3>1, <3>2
    <3>3. CASE i # 1
      <4>1. i - 1 \in 1 .. Len(s) /\ (i - 1) + 1 = i
        BY <3>3
      <4>2. x = s[i - 1]
        BY <4>1, <1>2, <3>1
      <4> QED BY <4>1, <4>2, <1>3 DEF Range
    <3> QED BY <3>2, <3>3
  <2>2. ASSUME NEW x \in Range(s) PROVE x \in Range(c)
    <3>1. PICK i \in 1 .. Len(s) : s[i] = x
      BY <1>3 DEF Range
    <3>2. c[i + 1] = x /\ i + 1 \in DOMAIN c
      BY <1>2, <1>3, <3>1
    <3> QED BY <3>2 DEF Range
  <2>3. e \in Range(c)
    <3>1. 1 \in DOMAIN c
      BY <1>3
    <3> QED BY <3>1, <1>2 DEF Range
  <2> QED BY <2>1, <2>2, <2>3
<1>5. ASSUME IsInjective(s), e \notin Range(s) PROVE IsInjective(c)
  <2> SUFFICES ASSUME NEW i \in DOMAIN c, NEW j \in DOMAIN c, c[i] = c[j]
               PROVE  i = j
    BY DEF IsInjective
  <2>1. \A k \in 1 .. Len(s) : s[k] # e
    BY <1>3, <1>5 DEF Range
  <2>2. \A k \in 2 .. Len(s) + 1 : k - 1 \in 1 .. Len(s) /\ c[k] = s[k - 1]
    <3> TAKE k \in 2 .. Len(s) + 1
    <3>1. k - 1 \in 1 .. Len(s) /\ (k - 1) + 1 = k
      OBVIOUS
    <3> QED BY <3>1, <1>2
  <2>3. CASE i = 1 \/ j = 1
    BY <1>2, <1>3, <2>1, <2>2, <2>3
  <2>4. CASE i # 1 /\ j # 1
    <3>1. i \in 2 .. Len(s) + 1 /\ j \in 2 .. Len(s) + 1
      BY <1>3, <2>4
    <3>2. i - 1 = j - 1
      BY <3>1, <2>2, <1>3, <1>5 DEF IsInjective
    <3> QED BY <3>1, <3>2
  <2> QED BY <2>3, <2>4
<1> QED BY <1>1, <1>4, <1>5

(* remove_chunk, remove_page: what follows the element moves up by one.    *)
LEMMA RemoveFirstSkips ==
  ASSUME NEW S, NEW s \in Seq(S), IsInjective(s), NEW i \in DOMAIN s
  PROVE  /\ RemoveFirst(s, s[i]) \in Seq(S)
         /\ Len(RemoveFirst(s, s[i])) = Len(s) - 1
         /\ \A j \in 1 .. Len(s) - 1 :
              RemoveFirst(s, s[i])[j] = IF j < i THEN s[j] ELSE s[j + 1]
<1>1. DOMAIN s = 1 .. Len(s) /\ Len(s) \in Nat
  OBVIOUS
<1> PICK e : e = s[i]
  OBVIOUS
<1>2. i \in 1 .. Len(s) /\ s[i] = e
  BY <1>1
<1>3. \A j \in 1 .. Len(s) : s[j] = e => j = i
  BY <1>1, <1>2 DEF IsInjective
<1>4. SelectInSeq(s, LAMBDA v : v = e) = i
  <2>1. {j \in 1 .. Len(s) : s[j] = e} = {i}
    BY <1>2, <1>3
  <2>2. Min({i}) = i
    BY <1>2 DEF Min
  <2> QED BY <2>1, <2>2 DEF SelectInSeq
<1> DEFINE front == SubSeq(s, 1, i - 1)
           back == SubSeq(s, i + 1, Len(s))
           r == front \o back
<1>5. RemoveFirst(s, e) = r
  BY <1>2, <1>4 DEF RemoveFirst, RemoveAt
<1>6. /\ r \in Seq(S) /\ Len(r) = Len(s) - 1
      /\ \A j \in 1 .. Len(s) - 1 : r[j] = IF j < i THEN s[j] ELSE s[j + 1]
  <2>1. /\ front \in Seq(S) /\ Len(front) = i - 1
        /\ \A j \in 1 .. i - 1 : front[j] = s[j]
    BY <1>2
  <2>2. /\ back \in Seq(S) /\ Len(back) = Len(s) - i
        /\ \A j \in 1 .. Len(s) - i : back[j] = s[j + i]
    BY <1>2
  <2> HIDE DEF front, back
  <2>3. /\ r \in Seq(S) /\ Len(r) = Len(s) - 1
        /\ \A j \in 1 .. Len(s) - 1 :
             r[j] = IF j <= i - 1 THEN front[j] ELSE back[j - (i - 1)]
    <3>1. /\ r \in Seq(S) /\ Len(r) = Len(front) + Len(back)
          /\ \A j \in 1 .. Len(front) + Len(back) :
               r[j] = IF j <= Len(front) THEN front[j]
                      ELSE back[j - Len(front)]
      BY <2>1, <2>2, ConcatProperties
    <3>2. Len(front) + Len(back) = Len(s) - 1
      BY <1>1, <1>2, <2>1, <2>2
    <3> HIDE DEF r
    <3> QED BY <3>1, <3>2, <2>1
  <2> HIDE DEF r
  <2>4. ASSUME NEW j \in 1 .. Len(s) - 1
        PROVE  r[j] = IF j < i THEN s[j] ELSE s[j + 1]
    <3>1. CASE j < i
      BY <3>1, <2>1, <2>3, <1>2
    <3>2. CASE ~ (j < i)
      <4>1. j - (i - 1) \in 1 .. Len(s) - i /\ (j - (i - 1)) + i = j + 1
        BY <3>2, <1>1, <1>2
      <4>2. back[j - (i - 1)] = s[j + 1]
        BY <4>1, <2>2
      <4> QED BY <4>2, <3>2, <2>3, <1>2
    <3> QED BY <3>1, <3>2
  <2> QED BY <2>3, <2>4
<1> HIDE DEF r
<1> QED BY <1>2, <1>5, <1>6

(* An element that is in the list leaves it, the others stay.              *)
LEMMA RemoveFirstUnlinks ==
  ASSUME NEW S, NEW s \in Seq(S), IsInjective(s), NEW e \in Range(s)
  PROVE  /\ RemoveFirst(s, e) \in Seq(S)
         /\ Len(RemoveFirst(s, e)) = Len(s) - 1
         /\ Range(RemoveFirst(s, e)) = Range(s) \ {e}
         /\ IsInjective(RemoveFirst(s, e))
<1>1. DOMAIN s = 1 .. Len(s) /\ Len(s) \in Nat
  OBVIOUS
<1>2. PICK i \in 1 .. Len(s) : s[i] = e
  BY <1>1 DEF Range
<1>3. \A j \in 1 .. Len(s) : s[j] = e => j = i
  BY <1>1, <1>2 DEF IsInjective
<1> DEFINE r == RemoveFirst(s, e)
<1>6. /\ r \in Seq(S) /\ Len(r) = Len(s) - 1
      /\ \A j \in 1 .. Len(s) - 1 : r[j] = IF j < i THEN s[j] ELSE s[j + 1]
  BY <1>1, <1>2, RemoveFirstSkips
<1> HIDE DEF r
<1>7. DOMAIN r = 1 .. Len(s) - 1
  BY <1>6, <1>1
<1>8. Range(r) = Range(s) \ {e}
  <2>1. ASSUME NEW x \in Range(r) PROVE x \in Range(s) \ {e}
    <3>1. PICK j \in 1 .. Len(s) - 1 : r[j] = x
      BY <1>7 DEF Range
    <3>2. PICK k \in 1 .. Len(s) : k # i /\ x = s[k]
      <4>1. CASE j < i
        BY <4>1, <3>1, <1>6, <1>1
      <4>2. CASE ~ (j < i)
        <5>1. j + 1 \in 1 .. Len(s) /\ j + 1 # i
          BY <4>2, <1>1, <1>2
        <5> QED BY <4>2, <5>1, <3>1, <1>6
      <4> QED BY <4>1, <4>2
    <3> QED BY <3>2, <1>1, <1>3 DEF Range
  <2>2. ASSUME NEW x \in Range(s), x # e PROVE x \in Range(r)
    <3>1. PICK k \in 1 .. Len(s) : s[k] = x
      BY <1>1 DEF Range
    <3>2. PICK j \in 1 .. Len(s) - 1 : r[j] = x
      <4>1. CASE k < i
        BY <4>1, <3>1, <1>6, <1>1, <1>2
      <4>2. CASE k > i
        <5>1. k - 1 \in 1 .. Len(s) - 1 /\ ~ (k - 1 < i) /\ (k - 1) + 1 = k
          BY <4>2, <1>1, <1>2
        <5> QED BY <5>1, <3>1, <1>6
      <4> QED BY <4>1, <4>2, <3>1, <2>2, <1>2
    <3> QED BY <3>2, <1>7 DEF Range
  <2> QED BY <2>1, <2>2
<1>9. IsInjective(r)
  <2> SUFFICES ASSUME NEW j \in 1 .. Len(s) - 1, NEW k \in 1 .. Len(s) - 1,
                      r[j] = r[k]
               PROVE  j = k
    BY <1>7 DEF IsInjective
  <2>1. \A m \in 1 .. Len(s) - 1 : m \in 1 .. Len(s) /\ m + 1 \in 1 .. Len(s)
    BY <1>1
  <2>2. \A m, n \in 1 .. Len(s) : s[m] = s[n] => m = n
    BY <1>1 DEF IsInjective
  <2> QED BY <1>6, <1>2, <2>1, <2>2
<1> QED BY <1>6, <1>8, <1>9 DEF r
=============================================================================

-------------------------- MODULE LinkedListProofs --------------------------
(***************************************************************************)
(* The pointers of the lists are what the sequences of module Lists say,   *)
(* for any number of nodes and lists and every order of the operations.    *)
(***************************************************************************)
EXTENDS LinkedList, ListLemmas, FiniteSetTheorems

LEMMA UpToCardinality ==
  ASSUME NEW n \in Nat
  PROVE  Cardinality(1 .. n) = n
<1>1. Cardinality(1 .. n) = IF 1 > n THEN 0 ELSE n - 1 + 1
  BY FS_Interval
<1> QED BY <1>1

-----------------------------------------------------------------------------
(* The sequence that following the links gives.                            *)

Followed ==
  \A x \in Nodes \cup {NULL}, s \in Seq(Nodes) :
    IsInjective(s) /\ Follows(x, s) => From(x) = s

LEMMA ListIsFollowed == Followed
<1> SUFFICES ASSUME NEW x \in Nodes \cup {NULL}, NEW s \in Seq(Nodes),
                    IsInjective(s), Follows(x, s)
             PROVE  From(x) = s
  BY DEF Followed
<1>1. /\ Len(s) \in Nat /\ DOMAIN s = 1 .. Len(s)
      /\ \A i \in 1 .. Len(s) : s[i] \in Nodes
      /\ NULL \notin Nodes
  BY LinksAssumption
<1>2. Cardinality(Nodes) \in Nat /\ Len(s) <= Cardinality(Nodes)
  <2>1. s \in [1 .. Len(s) -> Nodes]
    OBVIOUS
  <2>2. s \in Injection(1 .. Len(s), Nodes)
    BY <2>1 DEF Injection
  <2>3. Cardinality(1 .. Len(s)) = Len(s)
    BY <1>1, UpToCardinality
  <2>4. Cardinality(1 .. Len(s)) <= Cardinality(Nodes)
    <3>1. IsFiniteSet(Nodes)
      BY LinksAssumption
    <3> QED BY <2>2, <3>1, FS_Injection
  <2> QED BY <2>3, <2>4, FS_CardinalityType, LinksAssumption
<1> DEFINE Step(g) ==
             [k \in Steps |->
                IF k = 1 THEN x
                ELSE LET y == g[k - 1] IN IF y \in Nodes THEN next[y] ELSE NULL]
           walk == [k \in Steps |-> IF k <= Len(s) THEN s[k] ELSE NULL]
<1>3. Steps \subseteq Nat /\ 1 \in Steps /\ \A k \in Steps : k # 1 => k - 1 \in Steps
  BY <1>2 DEF Steps
<1>4. walk = Step(walk)
  <2>1. ASSUME NEW k \in Steps PROVE walk[k] = Step(walk)[k]
    <3>1. CASE k = 1
      BY <1>1, <3>1 DEF Follows
    <3>2. CASE k # 1
      <4>1. k - 1 \in Steps /\ k - 1 \in Nat /\ k \in Nat /\ k >= 2
        BY <1>3, <3>2 DEF Steps
      <4>2. CASE k - 1 <= Len(s)
        <5>1. k - 1 \in DOMAIN s /\ walk[k - 1] = s[k - 1]
          BY <1>1, <4>1, <4>2
        <5>2. next[s[k - 1]] = IF k - 1 = Len(s) THEN NULL ELSE s[k]
          BY <4>1, <5>1 DEF Follows
        <5> QED BY <1>1, <3>2, <4>1, <4>2, <5>1, <5>2
      <4>3. CASE ~ (k - 1 <= Len(s))
        BY <1>1, <3>2, <4>1, <4>3
      <4> QED BY <4>2, <4>3
    <3> QED BY <3>1, <3>2
  <2> QED BY <2>1
<1>5. ASSUME NEW g, g = Step(g) PROVE g = walk
  <2> DEFINE D == {k \in Steps : g[k] # walk[k]}
  <2>1. SUFFICES ASSUME D # {} PROVE FALSE
    BY <1>5
  <2>2. PICK m \in D : \A k \in D : m <= k
    BY <1>3, <2>1, LeastNumber
  <2>3. g[1] = x /\ walk[1] = x
    BY <1>3, <1>4, <1>5
  <2>4. m # 1 /\ m - 1 \in Steps /\ m \in Steps /\ m \in Nat
    BY <1>3, <2>2, <2>3
  <2>5. g[m - 1] = walk[m - 1]
    BY <2>2, <2>4
  <2>6. Step(g)[m] = Step(walk)[m]
    BY <2>4, <2>5
  <2> QED BY <1>4, <1>5, <2>2, <2>6
<1>6. (CHOOSE g : g = Step(g)) = walk
  BY <1>4, <1>5
<1>7. From(x) = [k \in 1 .. Cardinality({k \in Steps : walk[k] # NULL}) |-> walk[k]]
  <2>1. Walk(x) = walk
    <3> HIDE DEF walk
    <3> QED BY <1>6 DEF Walk
  <2> HIDE DEF walk
  <2> QED BY <2>1 DEF From
<1>8. {k \in Steps : walk[k] # NULL} = 1 .. Len(s)
  <2>1. 1 .. Len(s) \subseteq Steps
    BY <1>1, <1>2 DEF Steps
  <2>2. \A k \in Steps : walk[k] # NULL <=> k <= Len(s)
    <3> TAKE k \in Steps
    <3>1. k \in Nat /\ k >= 1
      BY DEF Steps
    <3> QED BY <1>1, <3>1
  <2> HIDE DEF walk
  <2>3. \A k \in Steps : k \in Nat /\ k >= 1
    BY DEF Steps
  <2> QED BY <1>1, <2>1, <2>2, <2>3
<1>9. Cardinality(1 .. Len(s)) = Len(s)
  BY <1>1, UpToCardinality
<1>10. [k \in 1 .. Len(s) |-> walk[k]] = s
  <2>1. \A k \in 1 .. Len(s) : walk[k] = s[k]
    BY <1>1, <1>2 DEF Steps
  <2>2. s = [k \in 1 .. Len(s) |-> s[k]]
    OBVIOUS
  <2> HIDE DEF walk
  <2> QED BY <2>1, <2>2
<1> HIDE DEF walk
<1> QED BY <1>7, <1>8, <1>9, <1>10

LEMMA ListIsFollowedAfter == Followed'
BY ListIsFollowed, PTL

LEMMA ListsAfter ==
  ASSUME NEW f \in [Names -> Seq(Nodes)], Chains(f)'
  PROVE  ChainInv' /\ list' = f
<1>1. ASSUME NEW l \in Names PROVE From(head[l])' = f[l]
  BY ListIsFollowedAfter DEF Followed, Chains, IsChain
<1>2. list' = f
  BY <1>1 DEF list
<1> QED BY <1>2 DEF ChainInv

(* What every operation starts from.                                       *)
LEMMA ListFacts ==
  ASSUME ChainInv
  PROVE  /\ Chains(list) /\ list \in [Names -> Seq(Nodes)]
         /\ \A l \in Names : /\ IsChain(head[l], list[l])
                             /\ Range(list[l]) \subseteq Nodes
                             /\ DOMAIN list[l] = 1 .. Len(list[l])
                             /\ Len(list[l]) \in Nat
         /\ NULL \notin Nodes /\ Junk \notin Nodes \cup {NULL}
<1>1. Chains(list) /\ \A l \in Names : IsChain(head[l], list[l])
  BY DEF ChainInv, Chains
<1>2. \A l \in Names : list[l] \in Seq(Nodes)
  BY <1>1 DEF IsChain
<1>3. DOMAIN list = Names /\ list = [l \in Names |-> list[l]]
  BY DEF list
<1>4. \A l \in Names : /\ Range(list[l]) \subseteq Nodes
                       /\ DOMAIN list[l] = 1 .. Len(list[l])
                       /\ Len(list[l]) \in Nat
  BY <1>2 DEF Range
<1> QED BY <1>1, <1>2, <1>3, <1>4, LinksAssumption

(* A list of which no node is touched stays a chain.                       *)
LEMMA UntouchedChain ==
  ASSUME NEW x, NEW s, IsChain(x, s),
         \A n \in Range(s) : next'[n] = next[n] /\ previous'[n] = previous[n]
  PROVE  IsChain(x, s)'
<1>1. \A i \in DOMAIN s : s[i] \in Range(s)
  BY DEF Range
<1> QED BY <1>1 DEF IsChain, Follows, Precedes

LEMMA CreateStep ==
  ASSUME ChainInv, NEW n \in Nodes, Create(n)
  PROVE  ChainInv' /\ Abstract!Create(n)
<1> PICK f : f = list
  OBVIOUS
<1>1. /\ Chains(f) /\ f \in [Names -> Seq(Nodes)]
      /\ NULL \notin Nodes /\ Junk \notin Nodes \cup {NULL}
  BY ListFacts
<1>2. n \notin held /\ \A l \in Names : n \notin Range(f[l])
  BY DEF Create, Listed
<1>3. /\ head' = head /\ held' = held \cup {n}
      /\ next' \in [Nodes -> Links] /\ previous' \in [Nodes -> Links]
      /\ next'[n] = NULL /\ previous'[n] = NULL
      /\ \A m \in Nodes \ {n} : next'[m] = next[m] /\ previous'[m] = previous[m]
  BY <1>1 DEF Create, Chains, Links
<1>4. ASSUME NEW l \in Names PROVE IsChain(head[l], f[l])'
  <2>1. Range(f[l]) \subseteq Nodes /\ IsChain(head[l], f[l])
    BY ListFacts
  <2> PICK x, s : x = head[l] /\ s = f[l]
    OBVIOUS
  <2>2. IsChain(x, s)'
    BY <1>2, <1>3, <2>1, UntouchedChain
  <2>3. head'[l] = x
    BY <1>3
  <2> QED BY <2>2, <2>3 DEF IsChain, Follows, Precedes
<1>5. Chains(f)'
  BY <1>1, <1>2, <1>3, <1>4 DEF Chains
<1>6. ChainInv' /\ list' = f
  BY <1>1, <1>5, ListsAfter
<1>7. n \notin held \cup Abstract!Listed
  <2>1. Abstract!Listed = Listed
    BY DEF Abstract!Listed, Listed, Abstract!Range, Range
  <2> QED BY <2>1 DEF Create
<1> QED BY <1>3, <1>6, <1>7 DEF Abstract!Create

LEMMA DiscardStep ==
  ASSUME ChainInv, NEW n \in Nodes, Discard(n)
  PROVE  ChainInv' /\ Abstract!Discard(n)
<1> PICK f : f = list
  OBVIOUS
<1>1. /\ Chains(f) /\ f \in [Names -> Seq(Nodes)]
      /\ NULL \notin Nodes /\ Junk \notin Nodes \cup {NULL}
  BY ListFacts
<1>2. n \in held /\ \A l \in Names : n \notin Range(f[l])
  BY <1>1 DEF Discard, Chains
<1>3. /\ head' = head /\ held' = held \ {n}
      /\ next' \in [Nodes -> Links] /\ previous' \in [Nodes -> Links]
      /\ next'[n] = Junk /\ previous'[n] = Junk
      /\ \A m \in Nodes \ {n} : next'[m] = next[m] /\ previous'[m] = previous[m]
  BY <1>1 DEF Discard, Chains, Links
<1>4. ASSUME NEW l \in Names PROVE IsChain(head[l], f[l])'
  <2>1. Range(f[l]) \subseteq Nodes /\ IsChain(head[l], f[l])
    BY ListFacts
  <2> PICK x, s : x = head[l] /\ s = f[l]
    OBVIOUS
  <2>2. IsChain(x, s)'
    BY <1>2, <1>3, <2>1, UntouchedChain
  <2>3. head'[l] = x
    BY <1>3
  <2> QED BY <2>2, <2>3 DEF IsChain, Follows, Precedes
<1>5. Chains(f)'
  BY <1>1, <1>2, <1>3, <1>4 DEF Chains
<1>6. ChainInv' /\ list' = f
  BY <1>1, <1>5, ListsAfter
<1> QED BY <1>2, <1>3, <1>6 DEF Abstract!Discard

(* The node in hand goes in front of the list, and behind nothing.         *)
LEMMA PushedChain ==
  ASSUME ChainInv, NEW l \in Names, NEW n \in Nodes, PushFront(l, n),
         NEW s, s = list[l]
  PROVE  IsChain(head[l], Cons(n, s))'
<1> PICK x, c : x = head[l] /\ c = Cons(n, s)
  OBVIOUS
<1>1. /\ IsChain(x, s) /\ s \in Seq(Nodes) /\ IsInjective(s)
      /\ DOMAIN s = 1 .. Len(s) /\ Len(s) \in Nat /\ NULL \notin Nodes
  BY ListFacts DEF IsChain
<1>2. /\ n \notin Range(s) /\ next[n] = NULL /\ previous[n] = NULL
      /\ head \in [Names -> Nodes \cup {NULL}]
      /\ next \in [Nodes -> Links] /\ previous \in [Nodes -> Links]
  BY ListFacts DEF Chains, PushFront
<1>3. /\ c \in Seq(Nodes) /\ IsInjective(c) /\ Len(c) = Len(s) + 1
      /\ DOMAIN c = 1 .. Len(s) + 1
  BY <1>1, <1>2, ConsIsPushFront
<1>4. c[1] = n /\ \A i \in 1 .. Len(s) : c[i + 1] = s[i]
  BY <1>1 DEF Cons
<1>5. \A i \in 1 .. Len(s) : s[i] \in Nodes /\ s[i] # n
  BY <1>1, <1>2 DEF Range
<1>6. head'[l] = n
  BY <1>2 DEF PushFront
<1>7. /\ next'[n] = IF Len(s) = 0 THEN NULL ELSE s[1]
      /\ \A i \in 1 .. Len(s) : next'[s[i]] = next[s[i]]
  <2>1. CASE x = NULL
    BY <1>1, <1>2, <1>5, <2>1 DEF PushFront, IsChain, Follows
  <2>2. CASE x # NULL
    <3>1. x = s[1] /\ Len(s) # 0
      BY <1>1, <2>2 DEF IsChain, Follows
    <3>2. next' = [next EXCEPT ![n] = s[1]]
      BY <2>2, <3>1 DEF PushFront
    <3> QED BY <1>2, <1>5, <3>1, <3>2
  <2> QED BY <2>1, <2>2
<1>8. /\ previous'[n] = NULL
      /\ \A i \in 1 .. Len(s) : previous'[s[i]] = IF i = 1 THEN n ELSE s[i - 1]
  <2>1. CASE x = NULL
    BY <1>1, <1>2, <1>5, <2>1 DEF PushFront, IsChain, Follows
  <2>2. CASE x # NULL
    <3>1. x = s[1] /\ Len(s) # 0
      BY <1>1, <2>2 DEF IsChain, Follows
    <3>2. previous' = [previous EXCEPT ![s[1]] = n]
      BY <2>2, <3>1 DEF PushFront
    <3>3. \A i \in 1 .. Len(s) : s[i] = s[1] => i = 1
      BY <1>1 DEF IsInjective
    <3>4. \A i \in 1 .. Len(s) : previous[s[i]] = IF i = 1 THEN NULL ELSE s[i - 1]
      BY <1>1 DEF IsChain, Precedes
    <3> QED BY <1>2, <1>5, <3>1, <3>2, <3>3, <3>4
  <2> QED BY <2>1, <2>2
<1>9. ASSUME NEW i \in DOMAIN c
      PROVE  /\ next'[c[i]] = IF i = Len(c) THEN NULL ELSE c[i + 1]
             /\ previous'[c[i]] = IF i = 1 THEN NULL ELSE c[i - 1]
  <2>1. CASE i = 1
    BY <1>1, <1>3, <1>4, <1>7, <1>8, <2>1
  <2>2. CASE i # 1
    <3> PICK j \in 1 .. Len(s) : i = j + 1
      <4>1. i - 1 \in 1 .. Len(s) /\ i = (i - 1) + 1
        BY <1>3, <2>2
      <4> QED BY <4>1
    <3>1. c[i] = s[j] /\ i - 1 = j
      BY <1>4
    <3>2. next[s[j]] = IF j = Len(s) THEN NULL ELSE s[j + 1]
      BY <1>1 DEF IsChain, Follows
    <3>3. j # Len(s) => c[i + 1] = s[j + 1]
      BY <1>1, <1>4
    <3>4. c[j] = IF j = 1 THEN n ELSE s[j - 1]
      BY <1>1, <1>4
    <3> QED BY <1>3, <1>7, <1>8, <3>1, <3>2, <3>3, <3>4
  <2> QED BY <2>1, <2>2
<1>10. c # <<>>
  BY <1>1, <1>3
<1> QED BY <1>3, <1>4, <1>6, <1>9, <1>10 DEF IsChain, Follows, Precedes

LEMMA PushFrontStep ==
  ASSUME ChainInv, NEW l \in Names, NEW n \in Nodes, PushFront(l, n)
  PROVE  ChainInv' /\ Abstract!PushFront(l, n)
<1> PICK f, s, c : f = list /\ s = list[l] /\ c = Cons(n, s)
  OBVIOUS
<1>1. /\ Chains(f) /\ f \in [Names -> Seq(Nodes)]
      /\ \A m \in Names : IsChain(head[m], f[m]) /\ Range(f[m]) \subseteq Nodes
      /\ s \in Seq(Nodes) /\ s = f[l]
      /\ NULL \notin Nodes /\ Junk \notin Nodes \cup {NULL}
  BY ListFacts
<1>2. /\ n \in held /\ \A m \in Names : n \notin Range(f[m])
      /\ next[n] = NULL /\ previous[n] = NULL
  BY <1>1 DEF PushFront, Chains
<1>3. c \in Seq(Nodes) /\ Range(c) = Range(s) \cup {n}
  BY <1>1, ConsIsPushFront
<1> PICK g : g = [f EXCEPT ![l] = c]
  OBVIOUS
<1>4. /\ g = [f EXCEPT ![l] = c]
      /\ g \in [Names -> Seq(Nodes)] /\ g[l] = c
      /\ \A m \in Names \ {l} : g[m] = f[m]
  BY <1>1, <1>3
<1>5. /\ head' \in [Names -> Nodes \cup {NULL}] /\ held' = held \ {n}
      /\ \A m \in Names \ {l} : head'[m] = head[m]
      /\ next' \in [Nodes -> Links] /\ previous' \in [Nodes -> Links]
      /\ \A m \in Nodes : m # n /\ m \notin Range(s) =>
                          next'[m] = next[m] /\ previous'[m] = previous[m]
  <2>1. /\ head \in [Names -> Nodes \cup {NULL}]
        /\ next \in [Nodes -> Links] /\ previous \in [Nodes -> Links]
    BY <1>1 DEF Chains
  <2>2. head[l] # NULL => head[l] \in Range(s) /\ head[l] \in Nodes
    <3>1. head[l] = IF s = <<>> THEN NULL ELSE s[1]
      BY <1>1 DEF IsChain, Follows
    <3>2. s # <<>> => s[1] \in Range(s)
      BY <1>1 DEF Range
    <3> QED BY <2>1, <3>1, <3>2
  <2>3. CASE head[l] = NULL
    BY <2>1, <2>3 DEF PushFront
  <2>4. CASE head[l] # NULL
    BY <2>1, <2>2, <2>4 DEF PushFront, Links
  <2> QED BY <2>3, <2>4
<1>6. ASSUME NEW m \in Names PROVE IsChain(head[m], g[m])'
  <2>1. CASE m = l
    <3>1. IsChain(head[l], c)'
      BY PushedChain
    <3> QED BY <1>4, <2>1, <3>1
  <2>2. CASE m # l
    <3> PICK x, r : x = head[m] /\ r = f[m]
      OBVIOUS
    <3>1. IsChain(x, r) /\ \A k \in Range(r) : k \in Nodes /\ k # n /\ k \notin Range(s)
      BY <1>1, <1>2, <2>2 DEF Chains
    <3>2. IsChain(x, r)'
      BY <1>5, <3>1, UntouchedChain
    <3>3. head'[m] = x /\ g[m] = r
      BY <1>4, <1>5, <2>2
    <3> QED BY <3>2, <3>3 DEF IsChain, Follows, Precedes
  <2> QED BY <2>1, <2>2
<1>7. ASSUME NEW k \in Names, NEW m \in Names, k # m
      PROVE  Range(g[k]) \cap Range(g[m]) = {}
  BY <1>1, <1>2, <1>3, <1>4, <1>7 DEF Chains
<1>8. ASSUME NEW m \in held \ {n}
      PROVE  /\ next'[m] = NULL /\ previous'[m] = NULL
             /\ \A k \in Names : m \notin Range(g[k])
  BY <1>1, <1>3, <1>4, <1>5, <1>8 DEF Chains
<1>9. ASSUME NEW m \in Nodes \ (held \ {n})
      PROVE  \/ next'[m] = Junk /\ previous'[m] = Junk
             \/ \E k \in Names : m \in Range(g[k])
  <2>1. CASE \E k \in Names : m \in Range(g[k])
    BY <2>1
  <2>2. CASE ~ \E k \in Names : m \in Range(g[k])
    <3>1. m # n /\ \A k \in Names : m \notin Range(f[k])
      BY <1>1, <1>3, <1>4, <2>2
    <3>2. next[m] = Junk /\ previous[m] = Junk
      BY <1>1, <3>1 DEF Chains
    <3> QED BY <1>1, <1>5, <3>1, <3>2
  <2> QED BY <2>1, <2>2
<1>10. Chains(g)'
  BY <1>1, <1>5, <1>6, <1>7, <1>8, <1>9 DEF Chains
<1>11. ChainInv' /\ list' = g
  BY <1>4, <1>10, ListsAfter
<1>12. list' = [list EXCEPT ![l] = Abstract!Cons(n, @)]
  BY <1>4, <1>11 DEF Abstract!Cons, Cons
<1> QED BY <1>2, <1>5, <1>11, <1>12 DEF Abstract!PushFront

(* The node at i leaves its list s: its neighbours, if it has any, are     *)
(* linked to each other, and no other node is touched.                     *)
Unlinked(l, n, s, i) ==
  /\ head' \in [Names -> Nodes \cup {NULL}]
  /\ \A m \in Names \ {l} : head'[m] = head[m]
  /\ head'[l] = IF i # 1 THEN s[1] ELSE IF Len(s) = 1 THEN NULL ELSE s[2]
  /\ next' \in [Nodes -> Links] /\ previous' \in [Nodes -> Links]
  /\ next'[n] = NULL /\ previous'[n] = NULL
  /\ \A m \in Nodes \ Range(s) : next'[m] = next[m] /\ previous'[m] = previous[m]
  /\ \A j \in DOMAIN s \ {i} :
       /\ next'[s[j]] = IF j = i - 1 THEN next[n] ELSE next[s[j]]
       /\ previous'[s[j]] = IF j = i + 1 THEN previous[n] ELSE previous[s[j]]

LEMMA RemovalEffect ==
  ASSUME ChainInv, NEW l \in Names, NEW n \in Nodes, RemoveNode(l, n),
         NEW s, s = list[l], NEW i \in DOMAIN s, s[i] = n
  PROVE  Unlinked(l, n, s, i)
<1>1. /\ IsChain(head[l], s) /\ s \in Seq(Nodes) /\ IsInjective(s)
      /\ DOMAIN s = 1 .. Len(s) /\ Len(s) \in Nat /\ i \in 1 .. Len(s)
      /\ NULL \notin Nodes
  BY ListFacts DEF IsChain
<1>2. /\ head \in [Names -> Nodes \cup {NULL}]
      /\ next \in [Nodes -> Links] /\ previous \in [Nodes -> Links]
  BY ListFacts DEF Chains
<1>3. /\ \A j \in 1 .. Len(s) : s[j] \in Nodes /\ s[j] \in Range(s)
      /\ \A j, k \in 1 .. Len(s) : s[j] = s[k] => j = k
  BY <1>1 DEF Range, IsInjective
<1>4. /\ head[l] = s[1]
      /\ next[n] = IF i = Len(s) THEN NULL ELSE s[i + 1]
      /\ previous[n] = IF i = 1 THEN NULL ELSE s[i - 1]
  BY <1>1 DEF IsChain, Follows, Precedes
<1>5. next[n] \in Range(s) \cup {NULL} /\ previous[n] \in Range(s) \cup {NULL}
  <2>1. i # Len(s) => i + 1 \in 1 .. Len(s)
    BY <1>1
  <2>2. i # 1 => i - 1 \in 1 .. Len(s)
    BY <1>1
  <2> QED BY <1>3, <1>4, <2>1, <2>2
<1>6. Range(s) \subseteq Nodes /\ n \in Range(s) /\ NULL \in Links /\ Nodes \subseteq Links
  BY <1>1, <1>3 DEF Range, Links
<1>7. /\ head' \in [Names -> Nodes \cup {NULL}]
      /\ \A m \in Names \ {l} : head'[m] = head[m]
      /\ head'[l] = IF i # 1 THEN s[1] ELSE IF Len(s) = 1 THEN NULL ELSE s[2]
  <2>1. head' = [head EXCEPT ![l] = IF head[l] = n THEN next[n] ELSE head[l]]
    BY <1>2 DEF RemoveNode
  <2>2. head[l] = n <=> i = 1
    BY <1>1, <1>3, <1>4
  <2>3. head'[l] = IF i = 1 THEN next[n] ELSE s[1]
    BY <1>2, <1>4, <2>1, <2>2
  <2>4. i = 1 => next[n] = IF Len(s) = 1 THEN NULL ELSE s[2]
    BY <1>1, <1>4
  <2> QED BY <1>2, <1>5, <1>6, <2>1, <2>3, <2>4
<1>8. /\ next' \in [Nodes -> Links] /\ next'[n] = NULL
      /\ \A m \in Nodes \ {n, previous[n]} : next'[m] = next[m]
      /\ previous[n] # NULL /\ previous[n] # n => next'[previous[n]] = next[n]
  <2> PICK f : f = Set(next, previous[n], next[n])
    OBVIOUS
  <2>1. /\ f \in [Nodes -> Links]
        /\ \A m \in Nodes \ {previous[n]} : f[m] = next[m]
        /\ previous[n] # NULL => f[previous[n]] = next[n]
    BY <1>2, <1>5, <1>6 DEF Set
  <2>2. next' = [f EXCEPT ![n] = NULL]
    BY DEF RemoveNode
  <2> QED BY <1>5, <1>6, <2>1, <2>2
<1>9. /\ previous' \in [Nodes -> Links] /\ previous'[n] = NULL
      /\ \A m \in Nodes \ {n, next[n]} : previous'[m] = previous[m]
      /\ next[n] # NULL /\ next[n] # n => previous'[next[n]] = previous[n]
  <2> PICK f : f = Set(previous, next[n], previous[n])
    OBVIOUS
  <2>1. /\ f \in [Nodes -> Links]
        /\ \A m \in Nodes \ {next[n]} : f[m] = previous[m]
        /\ next[n] # NULL => f[next[n]] = previous[n]
    BY <1>2, <1>5, <1>6 DEF Set
  <2>2. previous' = [f EXCEPT ![n] = NULL]
    BY DEF RemoveNode
  <2> QED BY <1>5, <1>6, <2>1, <2>2
<1>10. ASSUME NEW m \in Nodes \ Range(s)
       PROVE  next'[m] = next[m] /\ previous'[m] = previous[m]
  <2>1. m \notin {n, next[n], previous[n]}
    BY <1>1, <1>5, <1>6, <1>10
  <2> QED BY <1>8, <1>9, <2>1
<1>11. ASSUME NEW j \in DOMAIN s \ {i}
       PROVE  /\ next'[s[j]] = IF j = i - 1 THEN next[n] ELSE next[s[j]]
              /\ previous'[s[j]] = IF j = i + 1 THEN previous[n] ELSE previous[s[j]]
  <2>1. s[j] \in Nodes /\ s[j] # n
    BY <1>1, <1>3
  <2>2. next'[s[j]] = IF j = i - 1 THEN next[n] ELSE next[s[j]]
    <3>1. CASE j = i - 1
      BY <1>1, <1>4, <1>8, <2>1, <3>1
    <3>2. CASE j # i - 1
      <4>1. s[j] # previous[n]
        BY <1>1, <1>3, <1>4, <2>1, <3>2
      <4> QED BY <1>8, <2>1, <3>2, <4>1
    <3> QED BY <3>1, <3>2
  <2>3. previous'[s[j]] = IF j = i + 1 THEN previous[n] ELSE previous[s[j]]
    <3>1. CASE j = i + 1
      BY <1>1, <1>4, <1>9, <2>1, <3>1
    <3>2. CASE j # i + 1
      <4>1. s[j] # next[n]
        BY <1>1, <1>3, <1>4, <2>1, <3>2
      <4> QED BY <1>9, <2>1, <3>2, <4>1
    <3> QED BY <3>1, <3>2
  <2> QED BY <2>2, <2>3
<1> QED BY <1>7, <1>8, <1>9, <1>10, <1>11 DEF Unlinked

LEMMA RemovedChain ==
  ASSUME ChainInv, NEW l \in Names, NEW n \in Nodes, RemoveNode(l, n),
         NEW s, s = list[l], NEW i \in DOMAIN s, s[i] = n
  PROVE  IsChain(head[l], RemoveFirst(s, n))'
<1> PICK r, N : r = RemoveFirst(s, n) /\ N = Len(s)
  OBVIOUS
<1>1. /\ IsChain(head[l], s) /\ s \in Seq(Nodes) /\ IsInjective(s)
      /\ DOMAIN s = 1 .. N /\ N \in Nat
  BY ListFacts DEF IsChain
<1>2. n \in Range(s)
  BY DEF RemoveNode
<1>3. i \in 1 .. N /\ s[i] = n
  BY <1>1
<1>4. r \in Seq(Nodes) /\ IsInjective(r) /\ Len(r) = N - 1
  BY <1>1, <1>2, RemoveFirstUnlinks
<1>5. /\ DOMAIN r = 1 .. N - 1 /\ (r = <<>> <=> N = 1)
      /\ \A j \in 1 .. N - 1 : r[j] = IF j < i THEN s[j] ELSE s[j + 1]
  <2>1. \A j \in 1 .. Len(s) - 1 :
          RemoveFirst(s, s[i])[j] = IF j < i THEN s[j] ELSE s[j + 1]
    <3>1. s \in Seq(Nodes) /\ IsInjective(s) /\ i \in DOMAIN s
      BY <1>1, <1>3
    <3> QED BY <3>1, RemoveFirstSkips, SMTT(30)
  <2>2. DOMAIN r = 1 .. N - 1 /\ (r = <<>> <=> N = 1)
    <3>1. r # <<>> => Len(r) # 0
      BY <1>4, EmptySeq
    <3>2. r = <<>> => Len(r) = 0
      BY EmptySeq
    <3> QED BY <1>1, <1>4, <3>1, <3>2
  <2> QED BY <1>3, <2>1, <2>2
<1>6. /\ head'[l] = IF i # 1 THEN s[1] ELSE IF N = 1 THEN NULL ELSE s[2]
      /\ \A j \in 1 .. N :
           j # i =>
             /\ next'[s[j]] = IF j = i - 1 THEN next[n] ELSE next[s[j]]
             /\ previous'[s[j]] = IF j = i + 1 THEN previous[n] ELSE previous[s[j]]
  <2>1. Unlinked(l, n, s, i)
    BY RemovalEffect
  <2> QED BY <1>1, <2>1 DEF Unlinked
<1>7. \A j \in 1 .. N :
        /\ next[s[j]] = IF j = N THEN NULL ELSE s[j + 1]
        /\ previous[s[j]] = IF j = 1 THEN NULL ELSE s[j - 1]
  BY <1>1 DEF IsChain, Follows, Precedes
<1>8. /\ N \in Nat /\ i \in 1 .. N
      /\ next[n] = IF i = N THEN NULL ELSE s[i + 1]
      /\ previous[n] = IF i = 1 THEN NULL ELSE s[i - 1]
  BY <1>1, <1>3, <1>7
<1>9. head'[l] = IF r = <<>> THEN NULL ELSE r[1]
  <2>1. N # 1 => r[1] = IF i # 1 THEN s[1] ELSE s[2]
    BY <1>5, <1>8
  <2>2. N = 1 => i = 1
    BY <1>8
  <2> QED BY <1>5, <1>6, <2>1, <2>2
<1>10. ASSUME NEW j \in 1 .. N - 1
       PROVE  /\ next'[r[j]] = IF j = N - 1 THEN NULL ELSE r[j + 1]
              /\ previous'[r[j]] = IF j = 1 THEN NULL ELSE r[j - 1]
  <2>1. CASE j < i
    <3>1. /\ r[j] = s[j] /\ j \in 1 .. N /\ j # i /\ j # i + 1 /\ j # N
          /\ j # 1 => r[j - 1] = s[j - 1]
          /\ j # N - 1 => r[j + 1] = IF j + 1 < i THEN s[j + 1] ELSE s[j + 2]
      <4>1. j \in 1 .. N /\ j # i /\ j # i + 1 /\ j # N
        BY <1>8, <2>1
      <4>2. r[j] = s[j]
        BY <1>5, <2>1
      <4>3. j # 1 => j - 1 \in 1 .. N - 1 /\ j - 1 < i
        BY <1>8, <2>1
      <4>4. j # N - 1 => j + 1 \in 1 .. N - 1 /\ (j + 1) + 1 = j + 2
        BY <1>8
      <4> QED BY <1>5, <4>1, <4>2, <4>3, <4>4
    <3>2. previous'[s[j]] = IF j = 1 THEN NULL ELSE s[j - 1]
      BY <1>6, <1>7, <3>1
    <3>3. next'[s[j]] = IF j = i - 1 THEN next[n] ELSE s[j + 1]
      BY <1>6, <1>7, <3>1
    <3>4. next'[s[j]] = IF j = N - 1 THEN NULL ELSE r[j + 1]
      <4>1. CASE j = i - 1
        <5>1. (i = N <=> j = N - 1) /\ ~ (j + 1 < i) /\ j + 2 = i + 1
          BY <1>8, <4>1
        <5> QED BY <1>8, <3>1, <3>3, <4>1, <5>1
      <4>2. CASE j # i - 1
        <5>1. j # N - 1 /\ j + 1 < i
          BY <1>8, <2>1, <4>2
        <5> QED BY <3>1, <3>3, <4>2, <5>1
      <4> QED BY <4>1, <4>2
    <3> QED BY <3>1, <3>2, <3>4
  <2>2. CASE ~ (j < i)
    <3>1. /\ r[j] = s[j + 1] /\ j + 1 \in 1 .. N /\ j + 1 # i /\ j + 1 # i - 1
          /\ (j + 1) - 1 = j /\ (j + 1) + 1 = j + 2
          /\ j # 1 => r[j - 1] = IF j - 1 < i THEN s[j - 1] ELSE s[j]
          /\ j # N - 1 => r[j + 1] = s[j + 2]
      <4>1. /\ j + 1 \in 1 .. N /\ j + 1 # i /\ j + 1 # i - 1
            /\ (j + 1) - 1 = j /\ (j + 1) + 1 = j + 2 /\ (j - 1) + 1 = j
        BY <1>8, <2>2
      <4>2. r[j] = s[j + 1]
        BY <1>5, <2>2
      <4>3. j # 1 => j - 1 \in 1 .. N - 1
        BY <1>8
      <4>4. j # N - 1 => j + 1 \in 1 .. N - 1 /\ ~ (j + 1 < i)
        BY <1>8, <2>2
      <4> QED BY <1>5, <4>1, <4>2, <4>3, <4>4
    <3>2. next'[s[j + 1]] = IF j + 1 = N THEN NULL ELSE s[j + 2]
      BY <1>6, <1>7, <3>1
    <3>3. previous'[s[j + 1]] = IF j + 1 = i + 1 THEN previous[n] ELSE s[j]
      BY <1>6, <1>7, <1>8, <3>1
    <3>4. previous'[s[j + 1]] = IF j = 1 THEN NULL ELSE r[j - 1]
      <4>1. CASE j = i
        BY <1>8, <3>1, <3>3, <4>1
      <4>2. CASE j # i
        <5>1. j # 1 /\ ~ (j - 1 < i) /\ j + 1 # i + 1
          BY <1>8, <2>2, <4>2
        <5> QED BY <3>1, <3>3, <5>1
      <4> QED BY <4>1, <4>2
    <3>5. j + 1 = N <=> j = N - 1
      BY <1>8
    <3> QED BY <3>1, <3>2, <3>4, <3>5
  <2> QED BY <2>1, <2>2
<1>11. ASSUME NEW j \in DOMAIN r
       PROVE  /\ next'[r[j]] = IF j = Len(r) THEN NULL ELSE r[j + 1]
              /\ previous'[r[j]] = IF j = 1 THEN NULL ELSE r[j - 1]
  <2>1. j \in 1 .. N - 1 /\ Len(r) = N - 1
    BY <1>4, <1>5
  <2>2. /\ next'[r[j]] = IF j = N - 1 THEN NULL ELSE r[j + 1]
        /\ previous'[r[j]] = IF j = 1 THEN NULL ELSE r[j - 1]
    BY <1>10, <2>1, Zenon
  <2> QED BY <2>1, <2>2
<1>12. IsChain(head[l], r)'
  BY <1>4, <1>9, <1>11 DEF IsChain, Follows, Precedes
<1> QED BY <1>12
LEMMA RemoveNodeStep ==
  ASSUME ChainInv, NEW l \in Names, NEW n \in Nodes, RemoveNode(l, n)
  PROVE  ChainInv' /\ Abstract!RemoveNode(l, n)
<1> PICK f, s, r : f = list /\ s = list[l] /\ r = RemoveFirst(s, n)
  OBVIOUS
<1>1. /\ Chains(f) /\ f \in [Names -> Seq(Nodes)]
      /\ \A m \in Names : IsChain(head[m], f[m]) /\ Range(f[m]) \subseteq Nodes
      /\ s \in Seq(Nodes) /\ IsInjective(s) /\ s = f[l]
      /\ NULL \notin Nodes /\ Junk \notin Nodes \cup {NULL}
  BY ListFacts DEF IsChain
<1>2. n \in Range(s) /\ held' = held \cup {n}
  BY DEF RemoveNode
<1>3. r \in Seq(Nodes) /\ Range(r) = Range(s) \ {n}
  BY <1>1, <1>2, RemoveFirstUnlinks
<1> PICK g : g = [f EXCEPT ![l] = r]
  OBVIOUS
<1>4. /\ g = [f EXCEPT ![l] = r]
      /\ g \in [Names -> Seq(Nodes)] /\ g[l] = r
      /\ \A m \in Names \ {l} : g[m] = f[m]
  BY <1>1, <1>3
<1> PICK i \in DOMAIN s : s[i] = n
  BY <1>2 DEF Range
<1>5. /\ head' \in [Names -> Nodes \cup {NULL}]
      /\ \A m \in Names \ {l} : head'[m] = head[m]
      /\ next' \in [Nodes -> Links] /\ previous' \in [Nodes -> Links]
      /\ next'[n] = NULL /\ previous'[n] = NULL
      /\ \A m \in Nodes \ Range(s) : next'[m] = next[m] /\ previous'[m] = previous[m]
  <2>1. Unlinked(l, n, s, i)
    BY RemovalEffect
  <2> QED BY <2>1 DEF Unlinked
<1>6. ASSUME NEW m \in Names PROVE IsChain(head[m], g[m])'
  <2>1. CASE m = l
    <3>1. IsChain(head[l], RemoveFirst(s, n))'
      BY RemovedChain
    <3> QED BY <1>4, <2>1, <3>1
  <2>2. CASE m # l
    <3> PICK x, c : x = head[m] /\ c = f[m]
      OBVIOUS
    <3>1. IsChain(x, c) /\ \A k \in Range(c) : k \in Nodes \ Range(s)
      BY <1>1, <2>2 DEF Chains
    <3>2. IsChain(x, c)'
      BY <1>5, <3>1, UntouchedChain
    <3>3. head'[m] = x /\ g[m] = c
      BY <1>4, <1>5, <2>2
    <3> QED BY <3>2, <3>3 DEF IsChain, Follows, Precedes
  <2> QED BY <2>1, <2>2
<1>7. ASSUME NEW k \in Names, NEW m \in Names, k # m
      PROVE  Range(g[k]) \cap Range(g[m]) = {}
  BY <1>1, <1>3, <1>4, <1>7 DEF Chains
<1>8. \A k \in Names : n \notin Range(g[k])
  BY <1>1, <1>2, <1>3, <1>4 DEF Chains
<1>9. ASSUME NEW m \in held \cup {n}
      PROVE  /\ next'[m] = NULL /\ previous'[m] = NULL
             /\ \A k \in Names : m \notin Range(g[k])
  <2>1. CASE m = n
    BY <1>5, <1>8, <2>1
  <2>2. CASE m # n
    <3>1. m \in Nodes \ Range(s) /\ next[m] = NULL /\ previous[m] = NULL
      BY <1>1, <1>9, <2>2 DEF Chains
    <3>2. \A k \in Names : m \notin Range(f[k])
      BY <1>1, <1>9, <2>2 DEF Chains
    <3> QED BY <1>3, <1>4, <1>5, <3>1, <3>2
  <2> QED BY <2>1, <2>2
<1>10. ASSUME NEW m \in Nodes \ (held \cup {n})
       PROVE  \/ next'[m] = Junk /\ previous'[m] = Junk
              \/ \E k \in Names : m \in Range(g[k])
  <2>1. CASE \E k \in Names : m \in Range(g[k])
    BY <2>1
  <2>2. CASE ~ \E k \in Names : m \in Range(g[k])
    <3>1. \A k \in Names : m \notin Range(f[k])
      BY <1>1, <1>3, <1>4, <2>2
    <3>2. next[m] = Junk /\ previous[m] = Junk /\ m \notin Range(s)
      BY <1>1, <3>1 DEF Chains
    <3> QED BY <1>5, <3>2
  <2> QED BY <2>1, <2>2
<1>11. held' \subseteq Nodes
  BY <1>1, <1>2 DEF Chains
<1>12. Chains(g)'
  BY <1>2, <1>5, <1>6, <1>7, <1>9, <1>10, <1>11 DEF Chains
<1>13. ChainInv' /\ list' = g
  BY <1>4, <1>12, ListsAfter
<1>14. list' = [list EXCEPT ![l] = Abstract!RemoveFirst(@, n)]
  <2>1. Abstract!RemoveFirst(s, n) = RemoveFirst(s, n)
    BY DEF Abstract!RemoveFirst, RemoveFirst, Abstract!SelectInSeq, SelectInSeq,
           Abstract!RemoveAt, RemoveAt, Abstract!Min, Min
  <2> QED BY <1>4, <1>13, <2>1
<1>15. n \in Abstract!Range(list[l])
  BY DEF RemoveNode, Range, Abstract!Range
<1> QED BY <1>2, <1>13, <1>14, <1>15 DEF Abstract!RemoveNode

-----------------------------------------------------------------------------
LEMMA EmptyLists == Init => ChainInv /\ Abstract!Init
<1> SUFFICES ASSUME Init PROVE ChainInv /\ Abstract!Init
  OBVIOUS
<1>1. /\ head = [l \in Names |-> NULL] /\ held = {}
      /\ next = [n \in Nodes |-> Junk] /\ previous = [n \in Nodes |-> Junk]
  BY DEF Init
<1>2. << >> \in Seq(Nodes) /\ DOMAIN << >> = {}
  OBVIOUS
<1>3. IsChain(NULL, << >>)
  BY <1>2 DEF IsChain, IsInjective, Follows, Precedes
<1>4. ASSUME NEW l \in Names PROVE From(head[l]) = << >>
  BY <1>1, <1>2, <1>3, ListIsFollowed DEF Followed, IsChain
<1>5. list = [l \in Names |-> << >>]
  BY <1>4 DEF list
<1>6. Range(<< >>) = {}
  BY <1>2 DEF Range
<1>7. ChainInv
  BY <1>1, <1>3, <1>5, <1>6 DEF ChainInv, Chains, Links
<1> QED BY <1>1, <1>5, <1>7 DEF Abstract!Init

LEMMA ListStutter ==
  ASSUME ChainInv, UNCHANGED vars
  PROVE  ChainInv' /\ UNCHANGED <<list, held>>
<1>1. /\ head' = head /\ next' = next /\ previous' = previous /\ held' = held
  BY DEF vars
<1> PICK f : f = list
  OBVIOUS
<1>2. Chains(f) /\ f \in [Names -> Seq(Nodes)]
  BY ListFacts
<1>3. Chains(f)'
  BY <1>1, <1>2 DEF Chains, IsChain, Follows, Precedes, Links
<1>4. ChainInv' /\ list' = f
  BY <1>2, <1>3, ListsAfter
<1> QED BY <1>1, <1>4

LEMMA ListStep ==
  ChainInv /\ [Next]_vars => ChainInv' /\ [Abstract!Next]_<<list, held>>
<1> SUFFICES ASSUME ChainInv, [Next]_vars
             PROVE  ChainInv' /\ [Abstract!Next]_<<list, held>>
  OBVIOUS
<1>1. ASSUME NEW n \in Nodes, Create(n)
      PROVE  ChainInv' /\ Abstract!Next
  BY <1>1, CreateStep DEF Abstract!Next
<1>2. ASSUME NEW n \in Nodes, Discard(n)
      PROVE  ChainInv' /\ Abstract!Next
  BY <1>2, DiscardStep DEF Abstract!Next
<1>3. ASSUME NEW n \in Nodes, NEW l \in Names, PushFront(l, n)
      PROVE  ChainInv' /\ Abstract!Next
  BY <1>3, PushFrontStep DEF Abstract!Next
<1>4. ASSUME NEW n \in Nodes, NEW l \in Names, RemoveNode(l, n)
      PROVE  ChainInv' /\ Abstract!Next
  BY <1>4, RemoveNodeStep DEF Abstract!Next
<1>5. CASE UNCHANGED vars
  BY <1>5, ListStutter
<1> QED BY <1>1, <1>2, <1>3, <1>4, <1>5 DEF Next

(* In every state the lists are chains linked both ways which share no     *)
(* node, what is in hand has no links, and the rest is memory.             *)
THEOREM ChainsStay == Spec => []ChainInv
<1>1. Init => ChainInv
  BY EmptyLists
<1>2. ChainInv /\ [Next]_vars => ChainInv'
  BY ListStep
<1> QED BY <1>1, <1>2, PTL DEF Spec

(* Backwards the links of a list say the same as forwards, so remove_chunk *)
(* and remove_page find both neighbours of what they take out.             *)
THEOREM LinksStayMutual == Spec => []LinksAreMutual
<1>1. ChainInv => LinksAreMutual
  <2> SUFFICES ASSUME ChainInv, NEW l \in Names
               PROVE  /\ head[l] # NULL => previous[head[l]] = NULL
                      /\ \A n \in Range(list[l]) :
                           next[n] # NULL => /\ next[n] \in Nodes
                                             /\ previous[next[n]] = n
    BY DEF LinksAreMutual
  <2> PICK s : s = list[l]
    OBVIOUS
  <2>1. /\ IsChain(head[l], s) /\ s \in Seq(Nodes)
        /\ DOMAIN s = 1 .. Len(s) /\ Len(s) \in Nat
        /\ \A i \in 1 .. Len(s) : s[i] \in Nodes
    BY ListFacts DEF IsChain
  <2>2. head[l] # NULL => previous[head[l]] = NULL
    <3>1. s # << >> => 1 \in DOMAIN s
      BY <2>1
    <3> QED BY <2>1, <3>1 DEF IsChain, Follows, Precedes
  <2>3. ASSUME NEW n \in Range(s), next[n] # NULL
        PROVE  next[n] \in Nodes /\ previous[next[n]] = n
    <3>1. PICK i \in 1 .. Len(s) : s[i] = n
      BY <2>1 DEF Range
    <3>2. i # Len(s) /\ next[n] = s[i + 1]
      BY <2>1, <2>3, <3>1 DEF IsChain, Follows
    <3>3. i + 1 \in 1 .. Len(s) /\ i + 1 # 1 /\ (i + 1) - 1 = i
      BY <2>1, <3>2
    <3> QED BY <2>1, <3>1, <3>2, <3>3 DEF IsChain, Precedes
  <2> QED BY <2>2, <2>3
<1> QED BY <1>1, ChainsStay, PTL

(* What an operation has in hand is linked to nothing and nothing is       *)
(* linked to it: push_front_* on an empty list, which leaves the links as  *)
(* they are, starts a list of one element.                                 *)
THEOREM HeldStaysDetached == Spec => []HeldIsDetached
<1>1. ChainInv => HeldIsDetached
  <2> SUFFICES ASSUME ChainInv, NEW n \in held
               PROVE  /\ next[n] = NULL /\ previous[n] = NULL
                      /\ \A l \in Names : head[l] # n
                      /\ \A m \in Nodes : next[m] # n /\ previous[m] # n
    BY DEF HeldIsDetached
  <2>1. /\ n \in Nodes /\ next[n] = NULL /\ previous[n] = NULL
        /\ \A l \in Names : n \notin Range(list[l])
        /\ NULL \notin Nodes /\ Junk \notin Nodes
    BY ListFacts DEF Chains
  <2>2. ASSUME NEW l \in Names PROVE head[l] # n
    <3>1. list[l] # << >> => list[l][1] \in Range(list[l])
      BY ListFacts DEF Range
    <3> QED BY <2>1, <3>1, ListFacts DEF IsChain, Follows
  <2>3. ASSUME NEW m \in Nodes PROVE next[m] # n /\ previous[m] # n
    <3>1. CASE m \in held \/ (next[m] = Junk /\ previous[m] = Junk)
      BY <2>1, <3>1, ListFacts DEF Chains
    <3>2. CASE \E l \in Names : m \in Range(list[l])
      <4> PICK l \in Names : m \in Range(list[l])
        BY <3>2
      <4> PICK s : s = list[l]
        OBVIOUS
      <4>1. /\ IsChain(head[l], s) /\ DOMAIN s = 1 .. Len(s) /\ Len(s) \in Nat
            /\ \A i \in 1 .. Len(s) : s[i] \in Range(s)
        BY ListFacts DEF Range
      <4> PICK i \in 1 .. Len(s) : s[i] = m
        BY <4>1 DEF Range
      <4>2. i # Len(s) => i + 1 \in 1 .. Len(s)
        BY <4>1
      <4>3. i # 1 => i - 1 \in 1 .. Len(s)
        BY <4>1
      <4>4. next[m] \in Range(s) \cup {NULL} /\ previous[m] \in Range(s) \cup {NULL}
        BY <4>1, <4>2, <4>3 DEF IsChain, Follows, Precedes
      <4> QED BY <2>1, <4>4
    <3> QED BY <3>1, <3>2, ListFacts DEF Chains
  <2> QED BY <2>1, <2>2, <2>3
<1> QED BY <1>1, ChainsStay, PTL

(* push_front_chunk, remove_chunk and their twins for pages do to the      *)
(* sequences that the links spell out what module Lists says, so module    *)
(* Heap may compute with sequences.                                        *)
THEOREM PointersImplementLists == Spec => ImplementsLists
<1>1. Init => Abstract!Init
  BY EmptyLists
<1>2. ChainInv /\ [Next]_vars => [Abstract!Next]_<<list, held>>
  BY ListStep
<1> QED BY <1>1, <1>2, ChainsStay, PTL DEF Spec, ImplementsLists, Abstract!Spec
=============================================================================

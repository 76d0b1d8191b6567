--------------------------- MODULE DocumentProofs ---------------------------
(***************************************************************************)
(* What is given or sent in one of several forms is read: the name of a    *)
(* LIVE, the room id of a page, the strings and fields of JSON, of any     *)
(* length.  An induction is over the set of the numbers, or sequences, for *)
(* which the claim holds.                                                  *)
(***************************************************************************)
EXTENDS TextProofs

-----------------------------------------------------------------------------
(* Names                                                                   *)

\* Sequences of one length with the same symbols are one.
LEMMA SameSequence ==
    ASSUME NEW T, NEW s \in Seq(T), NEW t \in Seq(T), Len(s) = Len(t),
           \A i \in 1..Len(s) : s[i] = t[i]
    PROVE  s = t
  <1> DEFINE n == Len(s)
  <1>1. /\ DOMAIN s = 1..n /\ s = [i \in 1..n |-> s[i]]
        /\ DOMAIN t = 1..n /\ t = [i \in 1..n |-> t[i]]
    BY LenProperties
  <1>2. [i \in 1..n |-> s[i]] = [i \in 1..n |-> t[i]]
    BY Zenon
  <1> QED
    BY <1>1, <1>2, Zenon

\* A number of a set below all its numbers is its minimum.
LEMMA MinIs ==
    ASSUME NEW S, S \subseteq Nat, NEW m \in S, \A x \in S : m <= x
    PROVE  Min(S) = m
  <1>1. \A x \in S : (\A y \in S : x <= y) => x = m
    OBVIOUS
  <1> QED
    BY <1>1, Zenon DEF Min

\* Positions of one symbol.
LEMMA OccurrencesOfOne ==
    ASSUME NEW T, NEW id \in Seq(T), NEW c
    PROVE  Occurrences(id, <<c>>, 1) = {i \in 1..Len(id) : id[i] = c}
  <1> DEFINE needle == <<c>>
  <1>1. Len(needle) = 1 /\ DOMAIN needle = 1..1 /\ needle[1] = c
    OBVIOUS
  <1>2. Len(id) \in Nat
    BY LenProperties
  <1> HIDE DEF needle
  <1>3. Len(id) - Len(needle) + 1 = Len(id)
    BY <1>1, <1>2
  <1>4. ASSUME NEW i \in 1..Len(id)
        PROVE  (\A k \in DOMAIN needle : id[i + k - 1] = needle[k]) <=> id[i] = c
    <2>1. i + 1 - 1 = i /\ 1 \in 1..1 /\ \A k \in 1..1 : k = 1
      BY <1>2
    <2> QED
      BY <1>1, <2>1
  <1>5. Occurrences(id, needle, 1) = {i \in 1..Len(id) : id[i] = c}
    BY <1>3, <1>4 DEF Occurrences
  <1> QED
    BY <1>5 DEF needle

\* Where a symbol is not nothing goes.
LEMMA EraseNone ==
    ASSUME NEW T, NEW id \in Seq(T), NEW c, \A i \in 1..Len(id) : id[i] # c
    PROVE  Erase(id, c) = id
  <1>1. Occurrences(id, <<c>>, 1) = {}
    BY OccurrencesOfOne
  <1>2. Find(id, <<c>>, 1) = 0
    BY <1>1 DEF Find, First
  <1> QED
    BY <1>2 DEF Erase, EraseAt

\* The first of a symbol goes.
LEMMA EraseOne ==
    ASSUME NEW T, NEW P \in Seq(T), NEW Q \in Seq(T), NEW c \in T,
           \A i \in 1..Len(P) : P[i] # c
    PROVE  Erase(P \o <<c>> \o Q, c) = P \o Q
  <1> DEFINE m == Len(P)
             n == Len(Q)
             one == <<c>>
             head == P \o one
             id == head \o Q
             p == m + 1
             rest == P \o Q
  <1>1. m \in Nat /\ n \in Nat
    BY LenProperties
  <1>2. one \in Seq(T) /\ Len(one) = 1 /\ one[1] = c
    OBVIOUS
  <1> HIDE DEF one
  <1>3. /\ head \in Seq(T) /\ Len(head) = m + 1
        /\ \A i \in 1..(m + 1) : head[i] = IF i <= m THEN P[i] ELSE one[i - m]
    <2>1. /\ head \in Seq(T) /\ Len(head) = Len(P) + Len(one)
          /\ \A i \in 1..(Len(P) + Len(one)) :
                 head[i] = IF i <= Len(P) THEN P[i] ELSE one[i - Len(P)]
      BY <1>2, ConcatProperties
    <2> HIDE DEF head
    <2> QED
      BY <1>2, <2>1
  <1> HIDE DEF head
  <1>4. /\ id \in Seq(T) /\ Len(id) = m + 1 + n
        /\ \A i \in 1..(m + 1 + n) : id[i] = IF i <= m + 1 THEN head[i] ELSE Q[i - (m + 1)]
    <2>1. /\ id \in Seq(T) /\ Len(id) = Len(head) + Len(Q)
          /\ \A i \in 1..(Len(head) + Len(Q)) :
                 id[i] = IF i <= Len(head) THEN head[i] ELSE Q[i - Len(head)]
      <3>1. head \in Seq(T) /\ Q \in Seq(T)
        BY <1>3
      <3> QED
        BY <3>1, ConcatProperties
    <2> HIDE DEF id
    <2> QED
      BY <1>3, <2>1
  <1> HIDE DEF id
  <1>5. /\ \A i \in 1..m : id[i] = P[i]
        /\ id[p] = c
        /\ \A i \in 1..n : id[m + 1 + i] = Q[i]
    <2>1. \A i \in 1..m : id[i] = P[i]
      BY <1>1, <1>3, <1>4
    <2>2. id[p] = c
      BY <1>1, <1>2, <1>3, <1>4
    <2>3. \A i \in 1..n : id[m + 1 + i] = Q[i]
      BY <1>1, <1>4, SMTT(30)
    <2> QED
      BY <2>1, <2>2, <2>3
  <1>6. Find(id, <<c>>, 1) = p /\ p # 0
    <2> DEFINE S == {i \in 1..Len(id) : id[i] = c}
    <2>1. Occurrences(id, <<c>>, 1) = S
      <3>1. id \in Seq(T)
        BY <1>4
      <3> QED
        BY <3>1, OccurrencesOfOne, Zenon
    <2>2. S \subseteq Nat /\ p \in S /\ S # {}
      BY <1>1, <1>4, <1>5
    <2>3. ASSUME NEW x \in S, x <= m
          PROVE  FALSE
      <3>1. x \in 1..m /\ id[x] = c
        BY <1>1, <2>3, <1>4
      <3> QED
        BY <1>5, <3>1
    <2>4. \A x \in S : p <= x
      BY <1>1, <1>4, <2>3
    <2> HIDE DEF S
    <2>5. Min(S) = p
      BY <2>2, <2>4, MinIs
    <2> QED
      BY <1>1, <2>1, <2>2, <2>5 DEF Find, First
  <1>7. Erase(id, c) = SubSeq(id, 1, p - 1) \o SubSeq(id, p + 1, Len(id))
    BY <1>6 DEF Erase, EraseAt, RemoveAt
  <1>8. SubSeq(id, 1, p - 1) = P
    <2> DEFINE u == SubSeq(id, 1, p - 1)
    <2>1. \A i \in 1..(p - 1) : id[i] \in T
      BY <1>1, <1>4, ElementOfSeq
    <2>2. /\ u \in Seq(T) /\ Len(u) = IF 1 <= p - 1 THEN p - 1 - 1 + 1 ELSE 0
          /\ \A i \in 1..(p - 1 - 1 + 1) : u[i] = id[1 + i - 1]
      BY <1>1, <2>1, SubSeqProperties
    <2> HIDE DEF u
    <2>3. Len(u) = Len(P) /\ \A i \in 1..Len(u) : u[i] = P[i]
      BY <1>1, <1>5, <2>2
    <2> QED
      BY <2>2, <2>3, SameSequence DEF u
  <1>9. SubSeq(id, p + 1, Len(id)) = Q
    <2> DEFINE u == SubSeq(id, p + 1, Len(id))
    <2>1. \A i \in (p + 1)..Len(id) : id[i] \in T
      BY <1>1, <1>4, ElementOfSeq
    <2>2. /\ u \in Seq(T) /\ Len(u) = IF p + 1 <= Len(id) THEN Len(id) - (p + 1) + 1 ELSE 0
          /\ \A i \in 1..(Len(id) - (p + 1) + 1) : u[i] = id[p + 1 + i - 1]
      BY <1>1, <1>4, <2>1, SubSeqProperties
    <2> HIDE DEF u
    <2>3. Len(u) = n
      BY <1>1, <1>4, <2>2
    <2>4. \A i \in 1..n : i \in 1..(Len(id) - (p + 1) + 1) /\ p + 1 + i - 1 = m + 1 + i
      BY <1>1, <1>4
    <2>5. \A i \in 1..n : u[i] = Q[i]
      BY <1>5, <2>2, <2>4
    <2> QED
      BY <2>2, <2>3, <2>5, SameSequence DEF u
  <1> QED
    BY <1>7, <1>8, <1>9 DEF id, head, one

\* What is left is the same whether the symbol was there or not.
LEMMA EraseOneOrNone ==
    ASSUME NEW W, NEW P \in Seq(W), NEW Q \in Seq(W), NEW c, c \notin W, NEW o \in OneOrNone(c)
    PROVE  Erase(P \o o \o Q, c) = P \o Q
  <1> DEFINE T == W \cup {c}
  <1>1. P \in Seq(T) /\ Q \in Seq(T) /\ P \o Q \in Seq(W) /\ P \o Q \in Seq(T) /\ c \in T
    <2>1. W \subseteq T /\ c \in T
      OBVIOUS
    <2>2. P \o Q \in Seq(W)
      BY ConcatProperties
    <2> HIDE DEF T
    <2> QED
      BY <2>1, <2>2
  <1> HIDE DEF T
  <1>2. \A s \in Seq(W) : \A i \in 1..Len(s) : s[i] # c
    BY ElementOfSeq
  <1>3. CASE o = <<c>>
    BY <1>1, <1>2, <1>3, EraseOne
  <1>4. CASE o = <<>>
    <2>1. P \o o = P
      BY <1>4, ConcatEmptySeq
    <2>2. Erase(P \o Q, c) = P \o Q
      BY <1>1, <1>2, EraseNone
    <2> QED
      BY <2>1, <2>2
  <1> QED
    BY <1>3, <1>4 DEF OneOrNone

\* One symbol goes at both ends.
LEMMA HullIs ==
    ASSUME NEW W, NEW c, c \notin W, NEW M \in Seq(W), M # <<>>,
           NEW B \in Seq({c}), NEW A \in Seq({c})
    PROVE  LET id == (B \o M) \o A IN Hull(id, {i \in DOMAIN id : id[i] # c}) = M
  <1> DEFINE T == W \cup {c}
             b == Len(B)
             a == Len(A)
             m == Len(M)
             head == B \o M
             id == head \o A
             kept == {i \in DOMAIN id : id[i] # c}
  <1>1. m \in Nat /\ m > 0 /\ b \in Nat /\ a \in Nat
    BY LenProperties, EmptySeq
  <1>2. /\ B \in Seq(T) /\ \A i \in 1..b : B[i] = c
        /\ A \in Seq(T) /\ \A i \in 1..a : A[i] = c
    <2>1. {c} \subseteq T
      OBVIOUS
    <2>2. \A s \in Seq({c}) : \A i \in 1..Len(s) : s[i] = c
      BY ElementOfSeq
    <2> HIDE DEF T
    <2> QED
      BY <2>1, <2>2
  <1>3. M \in Seq(T) /\ \A i \in 1..m : M[i] \in W /\ M[i] # c
    <2>1. W \subseteq T
      OBVIOUS
    <2> HIDE DEF T
    <2> QED
      BY <2>1, ElementOfSeq
  <1> HIDE DEF T
  <1>4. /\ head \in Seq(T) /\ Len(head) = b + m
        /\ \A i \in 1..(b + m) : head[i] = IF i <= b THEN B[i] ELSE M[i - b]
    <2>1. /\ head \in Seq(T) /\ Len(head) = b + m
          /\ \A i \in 1..(b + m) :
                 head[i] = IF i <= b THEN B[i] ELSE M[i - b]
      BY <1>2, <1>3, ConcatProperties
    <2> HIDE DEF head
    <2> QED
      BY <1>2, <2>1
  <1> HIDE DEF head
  <1>5. /\ id \in Seq(T) /\ Len(id) = b + m + a
        /\ \A i \in 1..(b + m + a) : id[i] = IF i <= b + m THEN head[i] ELSE A[i - (b + m)]
    <2>1. /\ id \in Seq(T) /\ Len(id) = Len(head) + a
          /\ \A i \in 1..(Len(head) + a) :
                 id[i] = IF i <= Len(head) THEN head[i] ELSE A[i - Len(head)]
      <3>1. head \in Seq(T) /\ A \in Seq(T)
        BY <1>2, <1>4
      <3> QED
        BY <3>1, ConcatProperties
    <2> HIDE DEF id
    <2> QED
      BY <1>1, <1>4, <2>1
  <1>6. DOMAIN id = 1..(b + m + a)
    BY <1>5, LenProperties
  <1> HIDE DEF id
  <1>7. /\ \A i \in 1..b : id[i] = c
        /\ \A i \in 1..m : id[b + i] = M[i]
        /\ \A i \in (b + m + 1)..(b + m + a) : id[i] = c
    <2>1. ASSUME NEW i \in 1..b
          PROVE  id[i] = c
      <3>1. i \in 1..(b + m) /\ i \in 1..(b + m + a) /\ i <= b /\ i <= b + m
        BY <1>1
      <3>2. id[i] = head[i]
        BY <1>5, <3>1, Zenon
      <3>3. head[i] = B[i]
        BY <1>4, <3>1, Zenon
      <3> QED
        BY <1>2, <3>2, <3>3, Zenon
    <2>2. \A i \in 1..m : id[b + i] = M[i]
      BY <1>1, <1>4, <1>5
    <2>3. ASSUME NEW i \in (b + m + 1)..(b + m + a)
          PROVE  id[i] = c
      <3>1. i - (b + m) \in 1..a /\ ~(i <= b + m) /\ i \in 1..(b + m + a)
        BY <1>1
      <3> QED
        BY <1>2, <1>5, <3>1
    <2> QED
      BY <2>1, <2>2, <2>3
  <1>8. /\ kept \subseteq Nat /\ b + 1 \in kept /\ b + m \in kept
        /\ \A i \in kept : b + 1 <= i /\ i <= b + m
    <2>1. \A i \in kept : i \in 1..(b + m + a) /\ b + 1 <= i /\ i <= b + m
      BY <1>1, <1>6, <1>7
    <2>2. b + 1 \in 1..(b + m + a) /\ b + m \in 1..(b + m + a) /\ 1 \in 1..m /\ m \in 1..m
      BY <1>1
    <2>3. id[b + 1] # c /\ id[b + m] # c
      BY <1>3, <1>7, <2>2
    <2> QED
      BY <1>6, <2>1, <2>2, <2>3
  <1> HIDE DEF kept
  <1>9. Min(kept) = b + 1 /\ Max(kept) = b + m
    BY <1>8, MinIs, MaxIs
  <1>10. Hull(id, kept) = SubSeq(id, b + 1, b + m)
    BY <1>8, <1>9 DEF Hull
  <1>11. SubSeq(id, b + 1, b + m) = M
    <2> DEFINE u == SubSeq(id, b + 1, b + m)
    <2>1. \A i \in (b + 1)..(b + m) : id[i] \in T
      BY <1>1, <1>5, ElementOfSeq
    <2>2. /\ u \in Seq(T) /\ Len(u) = IF b + 1 <= b + m THEN b + m - (b + 1) + 1 ELSE 0
          /\ \A i \in 1..(b + m - (b + 1) + 1) : u[i] = id[b + 1 + i - 1]
      BY <1>1, <1>5, <2>1, SubSeqProperties
    <2> HIDE DEF u
    <2>3. Len(u) = m
      BY <1>1, <2>2
    <2>4. \A i \in 1..m : i \in 1..(b + m - (b + 1) + 1) /\ b + 1 + i - 1 = b + i
      BY <1>1
    <2>5. \A i \in 1..m : u[i] = M[i]
      BY <1>7, <2>2, <2>4
    <2> QED
      BY <1>3, <2>2, <2>3, <2>5, SameSequence DEF u
  <1> QED
    BY <1>10, <1>11 DEF id, head, kept

\* Concatenation is associative.
LEMMA Associates ==
    ASSUME NEW T
    PROVE  \A x, y, z \in Seq(T) : (x \o y) \o z = x \o (y \o z)
  <1> TAKE x, y, z \in Seq(T)
  <1> QED
    BY ConcatAssociative

\* None or one, as a sequence.
LEMMA OneOrNoneIs ==
    ASSUME NEW c, NEW o \in OneOrNone(c)
    PROVE  o \in Seq({c}) /\ (o = <<>> \/ o = <<c>>)
  <1>1. <<>> \in Seq({c}) /\ <<c>> \in Seq({c})
    OBVIOUS
  <1> QED
    BY <1>1, Zenon DEF OneOrNone

\* The parts of a name as it is given: the name, spaces, the site, the sign, the end.
AreParts(N, name, c, B, A, s, site, t, at, l, live) ==
    /\ s \notin {c, t, l} /\ l \notin {c, t} /\ c # t /\ N \cap {c, s, t, l} = {}
    /\ name \in Seq(N) /\ name # <<>> /\ B \in Seq({c}) /\ A \in Seq({c})
    /\ site \in OneOrNone(s) /\ at \in OneOrNone(t) /\ live \in OneOrNone(l)

\* What the erasures leave of a name among its delimiters: spaces c, the site s,
\* the sign t, the end l.
LEMMA FormIsErased ==
    ASSUME NEW N, NEW name, NEW c, NEW B, NEW A, NEW s, NEW site, NEW t, NEW at,
           NEW l, NEW live, AreParts(N, name, c, B, A, s, site, t, at, l, live)
    PROVE  Erase(Erase(Form(B, site, at, name, live, A), s), l) = (B \o (at \o name)) \o A
  <1> DEFINE V == N \cup {c, t}
             W == V \cup {l}
             T == W \cup {s}
             M == at \o name
             Q == M \o (live \o A)
  <1>0. /\ s \notin {c, t, l} /\ l \notin {c, t} /\ s \notin N /\ l \notin N
        /\ name \in Seq(N) /\ B \in Seq({c}) /\ A \in Seq({c})
        /\ site \in OneOrNone(s) /\ at \in OneOrNone(t) /\ live \in OneOrNone(l)
    BY DEF AreParts
  <1>1. /\ s \notin W /\ l \notin V
        /\ N \subseteq V /\ {c} \subseteq V /\ {t} \subseteq V /\ V \subseteq W /\ {l} \subseteq W
        /\ W \subseteq T /\ {s} \subseteq T
    BY <1>0
  <1>2. site \in Seq({s}) /\ at \in Seq({t}) /\ live \in Seq({l})
    BY <1>0, OneOrNoneIs
  <1> HIDE DEF T, W, V
  <1>3. B \in Seq(V) /\ A \in Seq(V) /\ at \in Seq(V) /\ name \in Seq(V)
    BY <1>0, <1>1, <1>2
  <1>4. B \in Seq(W) /\ A \in Seq(W) /\ at \in Seq(W) /\ name \in Seq(W) /\ live \in Seq(W)
    BY <1>1, <1>2, <1>3
  <1>5. M \in Seq(V) /\ B \o M \in Seq(V)
    BY <1>3, ConcatProperties
  <1>6. M \in Seq(W) /\ B \o M \in Seq(W)
    BY <1>1, <1>5
  <1> DEFINE end == live \o A
  <1>7. end \in Seq(W) /\ Q \in Seq(W)
    BY <1>4, <1>6, ConcatProperties
  <1>8. /\ B \in Seq(T) /\ site \in Seq(T) /\ at \in Seq(T) /\ name \in Seq(T)
        /\ live \in Seq(T) /\ A \in Seq(T)
    BY <1>1, <1>2, <1>4
  <1> DEFINE R == B \o site
  <1>9. Form(B, site, at, name, live, A) = R \o Q
    <2>1. R \in Seq(T) /\ M \in Seq(T)
      BY <1>8, ConcatProperties
    <2> HIDE DEF R
    <2>2. R \in Seq(T) /\ at \in Seq(T) /\ name \in Seq(T)
      BY <1>8, <2>1
    <2>3. (R \o at) \o name = R \o (at \o name)
      BY <2>2, ConcatAssociative
    <2> HIDE DEF M
    <2>4. ((R \o M) \o live) \o A = (R \o M) \o end
      <3> DEFINE u == R \o M
      <3>1. u \in Seq(T)
        BY <2>1, ConcatProperties
      <3> HIDE DEF u
      <3>2. u \in Seq(T) /\ live \in Seq(T) /\ A \in Seq(T)
        BY <1>8, <3>1
      <3>3. (u \o live) \o A = u \o (live \o A)
        BY <3>2, Associates, SMTT(30)
      <3> QED
        BY <3>3, Zenon DEF u
    <2>5. (R \o M) \o end = R \o (M \o end)
      <3>1. end \in Seq(T)
        BY <1>8, ConcatProperties
      <3> HIDE DEF end
      <3> QED
        BY <2>1, <3>1, Associates
    <2> QED
      BY <2>3, <2>4, <2>5, Zenon DEF Form, R, M
  <1>10. Erase((B \o site) \o Q, s) = B \o Q
    <2> HIDE DEF Q
    <2>1. \A P, u \in Seq(W), o \in OneOrNone(s) : Erase((P \o o) \o u, s) = P \o u
      BY <1>1, EraseOneOrNone
    <2>2. B \in Seq(W) /\ site \in OneOrNone(s) /\ Q \in Seq(W)
      BY <1>0, <1>4, <1>7
    <2> QED
      BY <2>1, <2>2
  <1>11. B \o Q = ((B \o M) \o live) \o A
    <2> HIDE DEF M
    <2> DEFINE u == B \o M
    <2>1. u \in Seq(W)
      BY <1>6
    <2> HIDE DEF u
    <2>2. (u \o live) \o A = u \o end
      <3>1. u \in Seq(W) /\ live \in Seq(W) /\ A \in Seq(W)
        BY <1>4, <2>1
      <3> QED
        BY <3>1, Associates, SMTT(30)
    <2>3. (B \o M) \o end = B \o (M \o end)
      <3> HIDE DEF end
      <3>1. B \in Seq(W) /\ M \in Seq(W) /\ end \in Seq(W)
        BY <1>4, <1>6, <1>7
      <3> QED
        BY <3>1, Associates
    <2> QED
      BY <2>2, <2>3, Zenon DEF u
  <1>12. Erase(((B \o M) \o live) \o A, l) = (B \o M) \o A
    <2> HIDE DEF M
    <2>1. \A P, u \in Seq(V), o \in OneOrNone(l) : Erase((P \o o) \o u, l) = P \o u
      BY <1>1, EraseOneOrNone
    <2> DEFINE P == B \o M
    <2>2. P \in Seq(V) /\ live \in OneOrNone(l) /\ A \in Seq(V)
      BY <1>0, <1>3, <1>5
    <2> HIDE DEF P
    <2>3. Erase((P \o live) \o A, l) = P \o A
      BY <2>1, <2>2
    <2> QED
      BY <2>3 DEF P
  <1> QED
    BY <1>9, <1>10, <1>11, <1>12, Zenon

\* A symbol in front goes.
WithoutFirst(id, t) == IF id # <<>> /\ id[1] = t THEN Tail(id) ELSE id

\* Of a name in its form that is the @, unless a space is in front of it.
LEMMA WithoutFirstIs ==
    ASSUME NEW N, NEW name, NEW c, NEW B, NEW A, NEW s, NEW site, NEW t, NEW at,
           NEW l, NEW live, AreParts(N, name, c, B, A, s, site, t, at, l, live)
    PROVE  LET left == WithoutFirst((B \o (at \o name)) \o A, t)
           IN  /\ B # <<>> => left = (B \o (at \o name)) \o A
               /\ B = <<>> => left = (B \o (<<>> \o name)) \o A
  <1> DEFINE T == N \cup {c, t}
             id == (B \o (at \o name)) \o A
             M == (IF B # <<>> THEN at ELSE <<>>) \o name
  <1>0. /\ name \in Seq(N) /\ name # <<>> /\ B \in Seq({c}) /\ A \in Seq({c})
        /\ at \in OneOrNone(t)
    BY DEF AreParts
  <1>1. at \in Seq({t}) /\ (at = <<>> \/ at = <<t>>)
    BY <1>0, OneOrNoneIs
  <1>2. c # t /\ t \notin N
    BY DEF AreParts
  <1>3. WithoutFirst(id, t) = IF id # <<>> /\ id[1] = t THEN Tail(id) ELSE id
    BY DEF WithoutFirst
  <1>4. B \in Seq(T) /\ A \in Seq(T) /\ at \in Seq(T) /\ name \in Seq(T) /\ t \in T
    <2>1. N \subseteq T /\ {c} \subseteq T /\ {t} \subseteq T
      OBVIOUS
    <2> HIDE DEF T
    <2> QED
      BY <1>0, <1>1, <2>1
  <1> HIDE DEF T
  <1>5. B # <<>> => B[1] = c /\ Len(B) \in Nat \ {0}
    BY <1>0, LenProperties, ElementOfSeq, EmptySeq
  <1>6. name[1] \in N /\ Len(name) \in Nat \ {0}
    BY <1>0, LenProperties, ElementOfSeq, EmptySeq
  <1>7. CASE B # <<>>
    <2> DEFINE M1 == at \o name
               R == B \o M1
    <2>1. M1 \in Seq(T)
      BY <1>4, ConcatProperties
    <2> HIDE DEF M1
    <2>2. R \in Seq(T) /\ Len(R) = Len(B) + Len(M1) /\ R[1] = c
      BY <1>4, <1>5, <1>7, <2>1, ConcatProperties, LenProperties
    <2>3. R # <<>> /\ Len(R) \in Nat \ {0}
      BY <1>4, <1>5, <1>7, <2>1, <2>2, LenProperties, EmptySeq
    <2> HIDE DEF R
    <2>4. R \o A # <<>> /\ (R \o A)[1] = c
      <3>1. R \in Seq(T) /\ A \in Seq(T)
        BY <1>4, <2>2
      <3> QED
        BY <2>2, <2>3, <3>1, ConcatProperties, ConcatEqualIffEmpty, LenProperties
    <2>5. WithoutFirst(id, t) = R \o A
      BY <1>2, <1>3, <2>4 DEF R, M1
    <2> QED
      BY <1>7, <2>5, Zenon DEF R, M1
  <1>8. CASE B = <<>> /\ at = <<>>
    <2>1. <<>> \o name = name /\ B \o (at \o name) = name /\ B \o (<<>> \o name) = name
      BY <1>4, <1>8, ConcatEmptySeq
    <2>2. Len(name \o A) = Len(name) + Len(A) /\ (name \o A)[1] = name[1]
      BY <1>4, <1>6, ConcatProperties, LenProperties
    <2>3. id = name \o A
      BY <2>1, Zenon
    <2>4. WithoutFirst(id, t) = id
      <3> HIDE DEF id
      <3> QED
        BY <1>2, <1>3, <1>6, <2>2, <2>3
    <2> QED
      BY <1>8, <2>1, <2>3, <2>4, Zenon
  <1>9. CASE B = <<>> /\ at = <<t>>
    <2> DEFINE R == name \o A
               one == <<t>>
    <2>1. R \in Seq(T) /\ one \in Seq(T) /\ Len(one) = 1 /\ one[1] = t
      BY <1>4, ConcatProperties
    <2>2. (at \o name) \o A = at \o R
      <3>1. \A x, y, z \in Seq(T) : (x \o y) \o z = x \o (y \o z)
        BY ConcatAssociative
      <3> QED
        BY <1>4, <3>1, Zenon
    <2>3. B \o (at \o name) = at \o name
      <3>1. at \o name \in Seq(T)
        BY <1>4, ConcatProperties
      <3> QED
        BY <1>9, <3>1, ConcatEmptySeq
    <2>4. id = one \o R
      BY <1>9, <2>2, <2>3, Zenon
    <2>5. <<>> \o name = name /\ B \o (<<>> \o name) = name
      BY <1>4, <1>9, ConcatEmptySeq
    <2> HIDE DEF R, one, id
    <2>6. id \in Seq(T) /\ Len(id) = 1 + Len(R) /\ id[1] = t
          /\ \A i \in 2..(1 + Len(R)) : id[i] = R[i - 1]
      <3> DEFINE u == one \o R
      <3>1. /\ u \in Seq(T) /\ Len(u) = Len(one) + Len(R)
            /\ \A i \in 1..(Len(one) + Len(R)) :
                   u[i] = IF i <= Len(one) THEN one[i] ELSE R[i - Len(one)]
        BY <2>1, ConcatProperties
      <3>2. Len(R) \in Nat /\ u = id
        BY <2>1, <2>4, LenProperties
      <3> HIDE DEF u
      <3> QED
        BY <2>1, <3>1, <3>2
    <2>7. id # <<>>
      BY <2>1, <2>6, LenProperties, EmptySeq
    <2>8. Tail(id) = R
      <3> DEFINE u == Tail(id)
      <3>1. u \in Seq(T) /\ Len(u) = Len(id) - 1 /\ \A i \in 1..Len(u) : u[i] = id[i + 1]
        BY <2>6, <2>7, HeadTailProperties
      <3> HIDE DEF u
      <3>2. Len(R) \in Nat /\ Len(u) = Len(R)
        BY <2>1, <2>6, <3>1, LenProperties
      <3>3. \A i \in 1..Len(R) : i + 1 \in 2..(1 + Len(R)) /\ (i + 1) - 1 = i
        BY <3>2
      <3>4. \A i \in 1..Len(u) : u[i] = R[i]
        BY <2>6, <3>1, <3>2, <3>3
      <3> QED
        BY <2>1, <3>1, <3>2, <3>4, SameSequence DEF u
    <2>9. WithoutFirst(id, t) = R
      BY <1>3, <2>6, <2>7, <2>8, Zenon
    <2> QED
      BY <1>9, <2>5, <2>9, Zenon DEF R, id
  <1> QED
    BY <1>1, <1>7, <1>8, <1>9

\* No space, or some.
LEMMA SpacesAre ==
    ASSUME NEW n \in Nat, NEW c
    PROVE  LET f == [i \in 1..n |-> c] IN f \in Seq({c}) /\ (f # <<>> <=> n > 0)
  <1> DEFINE f == [i \in 1..n |-> c]
  <1>1. f \in Seq({c}) /\ Len(f) = n
    OBVIOUS
  <1> HIDE DEF f
  <1>2. f # <<>> <=> n > 0
    BY <1>1, EmptySeq
  <1> QED
    BY <1>1, <1>2 DEF f

\* The cleaning of a name among its delimiters, in its three steps.
LEMMA FormIsCleaned ==
    ASSUME NEW N, NEW name, NEW c, NEW B, NEW A, NEW s, NEW site, NEW t, NEW at,
           NEW l, NEW live, AreParts(N, name, c, B, A, s, site, t, at, l, live)
    PROVE  LET form == Form(B, site, at, name, live, A)
               id == WithoutFirst(Erase(Erase(form, s), l), t)
           IN  Hull(id, {i \in DOMAIN id : id[i] # c})
                   = (IF B # <<>> THEN at ELSE <<>>) \o name
  <1> DEFINE o == IF B # <<>> THEN at ELSE <<>>
             M == o \o name
             id == (B \o M) \o A
             W == N \cup {t}
  <1>1. c \notin W /\ at \in OneOrNone(t) /\ name \in Seq(N) /\ name # <<>>
    BY DEF AreParts
  <1>2. Erase(Erase(Form(B, site, at, name, live, A), s), l) = (B \o (at \o name)) \o A
    BY FormIsErased
  <1>3. WithoutFirst((B \o (at \o name)) \o A, t) = id
    <2> DEFINE left == WithoutFirst((B \o (at \o name)) \o A, t)
    <2>1. /\ B # <<>> => left = (B \o (at \o name)) \o A
          /\ B = <<>> => left = (B \o (<<>> \o name)) \o A
      BY WithoutFirstIs
    <2> QED
      BY <2>1, Zenon
  <1>4. o \in Seq(W) /\ name \in Seq(W)
    <2>1. {t} \subseteq W /\ N \subseteq W
      OBVIOUS
    <2> HIDE DEF W
    <2>2. at \in Seq({t})
      BY <1>1, OneOrNoneIs
    <2>3. at \in Seq(W) /\ name \in Seq(W) /\ <<>> \in Seq(W)
      BY <1>1, <2>1, <2>2
    <2> QED
      BY <2>3
  <1> HIDE DEF o, W
  <1>5. M \in Seq(W) /\ M # <<>>
    BY <1>1, <1>4, ConcatProperties, ConcatEqualIffEmpty
  <1>6. Hull(id, {i \in DOMAIN id : id[i] # c}) = M
    <2>1. B \in Seq({c}) /\ A \in Seq({c})
      BY DEF AreParts
    <2> HIDE DEF M
    <2>2. c \notin W /\ M \in Seq(W) /\ M # <<>>
      BY <1>1, <1>5
    <2> QED
      BY <2>1, <2>2, HullIs
  <1> QED
    BY <1>2, <1>3, <1>6, Zenon DEF o

\* The site, the suffix, the sign and the space differ.
LEMMA SymbolsDiffer ==
    /\ kAppUrl \notin {Space, AtSign, LivePath} /\ LivePath \notin {Space, AtSign}
    /\ Space # AtSign
  BY Zenon DEF kAppUrl, Space, AtSign, LivePath

\* However the application names the LIVE, clean_unique_id() leaves the name: of
\* any length, with any number of spaces around it.
THEOREM NameIsCleaned ==
    ASSUME NEW N, N \cap {Space, kAppUrl, AtSign, LivePath} = {},
           NEW name \in Seq(N), name # <<>>, NEW b \in Nat, NEW a \in Nat,
           NEW site \in OneOrNone(kAppUrl), NEW at \in OneOrNone(AtSign),
           NEW live \in OneOrNone(LivePath)
    PROVE  clean_unique_id(Form(Spaces(b), site, at, name, live, Spaces(a)))
               = (IF b > 0 THEN at ELSE <<>>) \o name
  <1> DEFINE B == Spaces(b)
             A == Spaces(a)
             form == Form(B, site, at, name, live, A)
             id == WithoutFirst(Erase(Erase(form, kAppUrl), LivePath), AtSign)
  <1>1. B \in Seq({Space}) /\ A \in Seq({Space}) /\ (B # <<>> <=> b > 0)
    BY SpacesAre, Zenon DEF Spaces
  <1>2. AreParts(N, name, Space, B, A, kAppUrl, site, AtSign, at, LivePath, live)
    <2> HIDE DEF A, B
    <2> QED
      BY <1>1, SymbolsDiffer, Zenon DEF AreParts
  <1>3. Hull(id, {i \in DOMAIN id : id[i] # Space})
            = (IF B # <<>> THEN at ELSE <<>>) \o name
    <2> HIDE DEF A, B
    <2> QED
      BY <1>2, FormIsCleaned
  <1>4. clean_unique_id(form) = Hull(id, {i \in DOMAIN id : id[i] # Space})
    BY Zenon DEF clean_unique_id, Trim, WithoutAt, WithoutFirst
  <1> QED
    BY <1>1, <1>3, <1>4, Zenon

\* However the application names the LIVE, as a page of the site or as @name, with
\* spaces around it, the name is what remains.
THEOREM NamesCleaned == Spec => []UniqueIdCleaned
  <1>1. InputInv => UniqueIdCleaned
    <2> SUFFICES ASSUME InputInv, kind = "names",
                        NEW b \in 0..Len(input), NEW a \in 0..Len(input),
                        NEW site \in OneOrNone(kAppUrl), NEW at \in OneOrNone(AtSign),
                        NEW live \in OneOrNone(LivePath)
                 PROVE  LET name == SubSeq(input, b + Len(site) + Len(at) + 1,
                                           Len(input) - a - Len(live))
                        IN  /\ name # <<>> /\ \A i \in DOMAIN name : name[i] \in NameSymbols
                            /\ input = Form(Spaces(b), site, at, name, live, Spaces(a))
                            => clean_unique_id(input)
                                   = (IF b > 0 THEN at ELSE <<>>) \o name
      BY Zenon DEF UniqueIdCleaned
    <2> DEFINE name == SubSeq(input, b + Len(site) + Len(at) + 1, Len(input) - a - Len(live))
    <2> HIDE DEF name
    <2> SUFFICES ASSUME name # <<>>, \A i \in DOMAIN name : name[i] \in NameSymbols,
                        input = Form(Spaces(b), site, at, name, live, Spaces(a))
                 PROVE  clean_unique_id(input) = (IF b > 0 THEN at ELSE <<>>) \o name
      BY Zenon DEF name
    <2> DEFINE E == Elements["names"]
               m == b + Len(site) + Len(at) + 1
               n == Len(input) - a - Len(live)
    <2>1. input \in Seq(E)
      <3>1. "names" \in DOMAIN Elements
        BY DEF Elements
      <3> QED
        BY <3>1, Zenon DEF InputInv
    <2> HIDE DEF E
    <2>2. Len(input) \in Nat /\ b \in Nat /\ a \in Nat
      BY <2>1, LenProperties
    <2>3. Len(site) \in Nat /\ Len(at) \in Nat /\ Len(live) \in Nat
      <3>1. ASSUME NEW c, NEW o \in OneOrNone(c)
            PROVE  Len(o) \in Nat
        BY OneOrNoneIs, LenProperties
      <3> QED
        BY <3>1
    <2>4. m \in Int /\ n \in Int /\ \A i \in m..n : i \in 1..Len(input)
      BY <2>2, <2>3
    <2> HIDE DEF m, n
    <2>5. name \in Seq(E)
      <3>1. \A i \in m..n : input[i] \in E
        BY <2>1, <2>4, ElementOfSeq
      <3>2. SubSeq(input, m, n) \in Seq(E)
        BY <2>4, <3>1, SubSeqProperties
      <3> QED
        BY <3>2, Zenon DEF m, n, name
    <2>6. name \in Seq(NameSymbols)
      <3>1. name \in [1..Len(name) -> E] /\ DOMAIN name = 1..Len(name) /\ Len(name) \in Nat
        BY <2>5, LenProperties
      <3>2. \A i \in 1..Len(name) : name[i] \in NameSymbols
        BY <3>1
      <3> DEFINE k == Len(name)
                 copy == [i \in 1..k |-> name[i]]
      <3> HIDE DEF k
      <3>3. copy \in Seq(NameSymbols)
        BY <3>1, <3>2 DEF k
      <3>4. copy = name
        BY <3>1, Zenon DEF k
      <3> QED
        BY <3>3, <3>4
    <2>7. NameSymbols \cap {Space, kAppUrl, AtSign, LivePath} = {}
      BY Zenon DEF NameSymbols, Space, kAppUrl, AtSign, LivePath
    <2>8. clean_unique_id(Form(Spaces(b), site, at, name, live, Spaces(a)))
              = (IF b > 0 THEN at ELSE <<>>) \o name
      BY <2>2, <2>6, <2>7, NameIsCleaned, Zenon
    <2> QED
      BY <2>8, Zenon
  <1> QED
    BY <1>1, InputInvInit, InputInvStep, PTL DEF Spec

-----------------------------------------------------------------------------
(* Room ids                                                                *)

RoomSymbols == Digits \cup {Quote, "roomId", Colon, Comma}

RoomFields == [quoted : BOOLEAN, digits : Seq(Digits)]

\* What delimits a room id is none of its digits, and no other delimiter.
LEMMA RoomSymbolsDiffer ==
    /\ Quote # Comma /\ Quote # Space /\ Comma # Space /\ Colon # Comma /\ Colon # Quote
    /\ "roomId" \notin {Quote, Colon, Comma}
    /\ Digits \cap {Quote, Space, Comma, "roomId"} = {}
  BY ScrapingAssumption, Zenon DEF Quote, Space, Comma, Colon

\* What stands where in a concatenation.
LEMMA JoinIs ==
    ASSUME NEW T, NEW s \in Seq(T), NEW t \in Seq(T)
    PROVE  /\ s \o t \in Seq(T)
           /\ Len(s) \in Nat /\ Len(t) \in Nat
           /\ Len(s \o t) = Len(s) + Len(t)
           /\ \A i \in 1..Len(s) : (s \o t)[i] = s[i]
           /\ \A i \in 1..Len(t) : (s \o t)[Len(s) + i] = t[i]
  <1> DEFINE u == s \o t
  <1>1. /\ u \in Seq(T) /\ Len(u) = Len(s) + Len(t)
        /\ \A i \in 1..(Len(s) + Len(t)) : u[i] = IF i <= Len(s) THEN s[i] ELSE t[i - Len(s)]
    BY ConcatProperties
  <1>2. Len(s) \in Nat /\ Len(t) \in Nat
    BY LenProperties
  <1> HIDE DEF u
  <1>3. \A i \in 1..Len(s) : u[i] = s[i]
    BY <1>1, <1>2
  <1>4. ASSUME NEW i \in 1..Len(t)
        PROVE  u[Len(s) + i] = t[i]
    <2>1. /\ Len(s) + i \in 1..(Len(s) + Len(t)) /\ ~(Len(s) + i <= Len(s))
          /\ (Len(s) + i) - Len(s) = i
      BY <1>2
    <2> QED
      BY <1>1, <2>1
  <1> QED
    BY <1>1, <1>2, <1>3, <1>4 DEF u

\* The digits of the field at p stand from s to before e, past quotes and spaces.
DigitsStand(doc, p, digits, s, e) ==
    /\ e \in (p + 4)..Len(doc) /\ s \in (p + 4)..e
    /\ \A j \in (p + 4)..(s - 1) : doc[j] \in {Quote, Space}
    /\ doc[s] \notin {Quote, Space}
    /\ \A j \in s..(e - 1) : doc[j] \in Digits
    /\ doc[e] \notin Digits
    /\ Len(digits) = e - s
    /\ \A k \in 1..(e - s) : doc[s + k - 1] = digits[k]

HasDigits(doc, p, digits) == \E s, e \in Nat : DigitsStand(doc, p, digits, s, e)

\* They are the number that is read there.
LEMMA DigitsAreRead ==
    ASSUME NEW T, Digits \subseteq T, NEW doc \in Seq(T), NEW digits \in Seq(Digits),
           NEW p \in Nat, HasDigits(doc, p, digits)
    PROVE  RoomIdAt(doc, p) = Number(digits)
  <1>1. PICK s \in Nat, e \in Nat : DigitsStand(doc, p, digits, s, e)
    BY DEF HasDigits
  <1> DEFINE L == Len(doc)
             q == p + 4
             A == {j \in q..L : doc[j] \notin {Quote, Space}} \cup {L + 1}
             B == {j \in s..L : doc[j] \notin Digits} \cup {L + 1}
  <1>2. L \in Nat /\ q \in Nat
    BY LenProperties
  <1>3. /\ e \in q..L /\ s \in q..e
        /\ \A j \in q..(s - 1) : doc[j] \in {Quote, Space}
        /\ doc[s] \notin {Quote, Space}
        /\ \A j \in s..(e - 1) : doc[j] \in Digits
        /\ doc[e] \notin Digits
        /\ Len(digits) = e - s
        /\ \A k \in 1..(e - s) : doc[s + k - 1] = digits[k]
    BY <1>1 DEF DigitsStand
  <1> HIDE DEF L, q
  <1>4. SkipTo(doc, q) = s
    <2>1. A \subseteq Nat /\ s \in A
      BY <1>2, <1>3
    <2>2. ASSUME NEW j \in A, j < s
          PROVE  FALSE
      <3>1. j \in q..L /\ doc[j] \notin {Quote, Space}
        BY <1>2, <1>3, <2>2
      <3> QED
        BY <1>2, <1>3, <2>2, <3>1
    <2>3. \A j \in A : s <= j
      BY <2>1, <2>2
    <2> HIDE DEF A
    <2>4. Min(A) = s
      BY <2>1, <2>3, MinIs
    <2> QED
      BY <2>4 DEF SkipTo, A, L
  <1>5. DigitsAt(doc, s) = SubSeq(doc, s, e - 1)
    <2>1. B \subseteq Nat /\ e \in B
      BY <1>2, <1>3
    <2>2. ASSUME NEW j \in B, j < e
          PROVE  FALSE
      <3>1. j \in s..L /\ doc[j] \notin Digits
        BY <1>2, <1>3, <2>2
      <3> QED
        BY <1>2, <1>3, <2>2, <3>1
    <2>3. \A j \in B : e <= j
      BY <2>1, <2>2
    <2> HIDE DEF B
    <2>4. Min(B) = e
      BY <2>1, <2>3, MinIs
    <2> QED
      BY <2>4 DEF DigitsAt, B, L
  <1>6. SubSeq(doc, s, e - 1) = digits
    <2> DEFINE u == SubSeq(doc, s, e - 1)
    <2>1. /\ u \in Seq(Digits) /\ Len(u) = IF s <= e - 1 THEN e - 1 - s + 1 ELSE 0
          /\ \A i \in 1..(e - 1 - s + 1) : u[i] = doc[s + i - 1]
      BY <1>3, SubSeqProperties
    <2> HIDE DEF u
    <2>2. Len(u) = e - s /\ \A i \in 1..(e - s) : u[i] = digits[i]
      <3>1. e - 1 - s + 1 = e - s /\ Len(u) = e - s
        BY <1>2, <1>3, <2>1
      <3> QED
        BY <1>3, <2>1, <3>1
    <2>3. u = digits
      BY <1>3, <2>1, <2>2, SameSequence
    <2> QED
      BY <2>3 DEF u
  <1> QED
    BY <1>4, <1>5, <1>6 DEF RoomIdAt, q

\* Where they stand they are in what goes on behind, and in what stands before.
LEMMA DigitsStay ==
    ASSUME NEW T, NEW a \in Seq(T), NEW b \in Seq(T), NEW digits, NEW p \in Nat \ {0},
           HasDigits(a, p, digits)
    PROVE  HasDigits(a \o b, p, digits)
  <1>1. PICK s \in Nat, e \in Nat : DigitsStand(a, p, digits, s, e)
    BY DEF HasDigits
  <1> DEFINE doc == a \o b
             L == Len(a)
             M == Len(doc)
  <1>2. L \in Nat /\ M \in Nat /\ L <= M /\ \A i \in 1..L : doc[i] = a[i]
    BY JoinIs
  <1> HIDE DEF doc, L, M
  <1>3. /\ e \in (p + 4)..L /\ s \in (p + 4)..e
        /\ \A j \in (p + 4)..(s - 1) : a[j] \in {Quote, Space}
        /\ a[s] \notin {Quote, Space}
        /\ \A j \in s..(e - 1) : a[j] \in Digits
        /\ a[e] \notin Digits
        /\ Len(digits) = e - s
        /\ \A k \in 1..(e - s) : a[s + k - 1] = digits[k]
    BY <1>1 DEF DigitsStand, L
  <1>4. \A j \in (p + 4)..e : doc[j] = a[j]
    BY <1>2, <1>3
  <1>5. /\ e \in (p + 4)..M /\ doc[s] = a[s] /\ doc[e] = a[e]
        /\ \A j \in (p + 4)..(s - 1) : doc[j] = a[j]
        /\ \A j \in s..(e - 1) : doc[j] = a[j]
        /\ \A k \in 1..(e - s) : doc[s + k - 1] = a[s + k - 1]
    BY <1>2, <1>3, <1>4
  <1>6. DigitsStand(doc, p, digits, s, e)
    BY <1>3, <1>5 DEF DigitsStand, M
  <1> QED
    BY <1>6 DEF HasDigits, doc

\* Digits stay what they are when text comes before them.
LEMMA DigitsMove ==
    ASSUME NEW T, NEW a \in Seq(T), NEW b \in Seq(T), NEW digits, HasDigits(b, 1, digits)
    PROVE  HasDigits(a \o b, Len(a) + 1, digits)
  <1>1. PICK s \in Nat, e \in Nat : DigitsStand(b, 1, digits, s, e)
    BY DEF HasDigits
  <1> DEFINE doc == a \o b
             L == Len(a)
             n == Len(b)
             M == Len(doc)
             p == L + 1
             s1 == L + s
             e1 == L + e
  <1>2. L \in Nat /\ n \in Nat /\ M = L + n /\ \A i \in 1..n : doc[L + i] = b[i]
    BY JoinIs
  <1> HIDE DEF doc, L, M, n
  <1>3. /\ e \in 5..n /\ s \in 5..e
        /\ \A j \in 5..(s - 1) : b[j] \in {Quote, Space}
        /\ b[s] \notin {Quote, Space}
        /\ \A j \in s..(e - 1) : b[j] \in Digits
        /\ b[e] \notin Digits
        /\ Len(digits) = e - s
        /\ \A k \in 1..(e - s) : b[s + k - 1] = digits[k]
    BY <1>1 DEF DigitsStand, n
  <1>4. e1 \in (p + 4)..M /\ s1 \in (p + 4)..e1 /\ s1 \in Nat /\ e1 \in Nat /\ e1 - s1 = e - s
    BY <1>2, <1>3
  <1>5. doc[s1] = b[s] /\ doc[e1] = b[e]
    BY <1>2, <1>3
  <1>6. ASSUME NEW j \in (p + 4)..(s1 - 1)
        PROVE  doc[j] \in {Quote, Space}
    <2>1. j - L \in 5..(s - 1) /\ j - L \in 1..n /\ L + (j - L) = j
      BY <1>2, <1>3
    <2> QED
      BY <1>2, <1>3, <2>1
  <1>7. ASSUME NEW j \in s1..(e1 - 1)
        PROVE  doc[j] \in Digits
    <2>1. j - L \in s..(e - 1) /\ j - L \in 1..n /\ L + (j - L) = j
      BY <1>2, <1>3
    <2> QED
      BY <1>2, <1>3, <2>1
  <1>8. ASSUME NEW k \in 1..(e1 - s1)
        PROVE  doc[s1 + k - 1] = digits[k]
    <2>1. s + k - 1 \in 1..n /\ L + (s + k - 1) = s1 + k - 1 /\ k \in 1..(e - s)
      BY <1>2, <1>3
    <2> QED
      BY <1>2, <1>3, <2>1
  <1> HIDE DEF s1, e1, p
  <1>9. DigitsStand(doc, p, digits, s1, e1)
    BY <1>3, <1>4, <1>5, <1>6, <1>7, <1>8 DEF DigitsStand, M
  <1> QED
    BY <1>4, <1>9 DEF HasDigits, doc, p, L

\* One field of a page: where its key is, its digits, its end.
IsField(b, digits) ==
    /\ b \in Seq(RoomSymbols) /\ Len(b) >= 5
    /\ b[1] = Quote /\ b[2] = "roomId" /\ b[3] = Quote /\ b[4] = Colon
    /\ b[Len(b)] = Comma
    /\ \A j \in 1..Len(b) : b[j] = "roomId" => j = 2
    /\ HasDigits(b, 1, digits)

\* A field, quoted or not, with digits or none, is found once and has its digits.
LEMMA RoomFieldIs ==
    ASSUME NEW f \in RoomFields
    PROVE  IsField(RoomField(f), f.digits)
  <1> DEFINE T == RoomSymbols
             d == f.digits
             n == Len(d)
             one == <<Quote>>
             left == one \o d
             v == IF f.quoted THEN Quoted(d) ELSE d
             head == <<Quote, "roomId", Quote, Colon>>
             field == head \o v
             end == <<Comma>>
             b == field \o end
  <1>1. d \in Seq(T) /\ n \in Nat /\ \A i \in 1..n : d[i] \in Digits
    <2>1. Digits \subseteq T
      BY DEF RoomSymbols
    <2>2. d \in Seq(Digits)
      BY DEF RoomFields
    <2> HIDE DEF d, T
    <2> QED
      BY <2>1, <2>2, LenProperties, ElementOfSeq
  <1>2. /\ one \in Seq(T) /\ Len(one) = 1 /\ one[1] = Quote
        /\ end \in Seq(T) /\ Len(end) = 1 /\ end[1] = Comma
        /\ head \in Seq(T) /\ Len(head) = 4
        /\ head[1] = Quote /\ head[2] = "roomId" /\ head[3] = Quote /\ head[4] = Colon
    BY DEF RoomSymbols
  <1>3. b = RoomField(f)
    BY Zenon DEF RoomField, Needle
  <1> HIDE DEF T, d, n, one, head, end
  <1>4. /\ left \in Seq(T) /\ Len(left) = 1 + n /\ left[1] = Quote
        /\ \A i \in 1..n : left[1 + i] = d[i]
    <2>1. n = Len(d)
      BY Zenon DEF n
    <2>2. /\ left \in Seq(T) /\ Len(left) = Len(one) + Len(d)
          /\ \A i \in 1..Len(one) : left[i] = one[i]
          /\ \A i \in 1..Len(d) : left[Len(one) + i] = d[i]
      <3>1. one \in Seq(T) /\ d \in Seq(T)
        BY <1>1, <1>2
      <3> QED
        BY <3>1, JoinIs
    <2> HIDE DEF left
    <2> QED
      BY <1>2, <2>1, <2>2
  <1>5. /\ Quoted(d) \in Seq(T) /\ Len(Quoted(d)) = n + 2
        /\ Quoted(d)[1] = Quote /\ Quoted(d)[n + 2] = Quote
        /\ \A i \in 1..n : Quoted(d)[1 + i] = d[i]
    <2> DEFINE w == left \o one
    <2>1. w = Quoted(d)
      BY Zenon DEF Quoted, one
    <2> HIDE DEF left
    <2>2. /\ w \in Seq(T) /\ Len(w) = Len(left) + Len(one)
          /\ \A i \in 1..Len(left) : w[i] = left[i]
          /\ \A i \in 1..Len(one) : w[Len(left) + i] = one[i]
      <3>1. left \in Seq(T) /\ one \in Seq(T)
        BY <1>2, <1>4
      <3> QED
        BY <3>1, JoinIs
    <2> HIDE DEF w
    <2>3. /\ 1 \in 1..Len(left) /\ 1 \in 1..Len(one) /\ Len(left) + 1 = n + 2
          /\ \A i \in 1..n : 1 + i \in 1..Len(left)
      BY <1>1, <1>2, <1>4
    <2>4. w[n + 2] = Quote
      BY <1>2, <2>2, <2>3
    <2>5. /\ w[1] = Quote /\ \A i \in 1..n : w[1 + i] = d[i]
      BY <1>4, <2>2, <2>3
    <2>6. Len(w) = n + 2
      BY <1>1, <1>2, <1>4, <2>2
    <2> QED
      BY <2>1, <2>2, <2>4, <2>5, <2>6
  <1>6. v \in Seq(T) /\ Len(v) \in Nat
    BY <1>1, <1>5 DEF n
  <1> HIDE DEF v, left
  <1>7. /\ field \in Seq(T) /\ Len(field) = 4 + Len(v)
        /\ field[1] = Quote /\ field[2] = "roomId" /\ field[3] = Quote /\ field[4] = Colon
        /\ \A i \in 1..Len(v) : field[4 + i] = v[i]
    <2>1. /\ field \in Seq(T) /\ Len(field) = Len(head) + Len(v)
          /\ \A i \in 1..Len(head) : field[i] = head[i]
          /\ \A i \in 1..Len(v) : field[Len(head) + i] = v[i]
      <3>1. head \in Seq(T) /\ v \in Seq(T)
        BY <1>2, <1>6
      <3> QED
        BY <3>1, JoinIs
    <2> HIDE DEF field
    <2> QED
      BY <1>2, <2>1
  <1> HIDE DEF field
  <1>8. /\ b \in Seq(T) /\ Len(b) = 5 + Len(v)
        /\ b[1] = Quote /\ b[2] = "roomId" /\ b[3] = Quote /\ b[4] = Colon
        /\ \A i \in 1..Len(v) : b[4 + i] = v[i]
        /\ b[5 + Len(v)] = Comma
    <2>1. /\ b \in Seq(T) /\ Len(b) = Len(field) + Len(end)
          /\ \A i \in 1..Len(field) : b[i] = field[i]
          /\ \A i \in 1..Len(end) : b[Len(field) + i] = end[i]
      <3>1. field \in Seq(T) /\ end \in Seq(T)
        BY <1>2, <1>7
      <3> QED
        BY <3>1, JoinIs
    <2> HIDE DEF b
    <2>2. /\ Len(b) = 5 + Len(v) /\ 1 \in 1..Len(end) /\ Len(field) + 1 = 5 + Len(v)
          /\ \A i \in 1..4 : i \in 1..Len(field)
          /\ \A i \in 1..Len(v) : 4 + i \in 1..Len(field)
      BY <1>2, <1>6, <1>7, <2>1
    <2>3. b[5 + Len(v)] = Comma
      BY <1>2, <2>1, <2>2
    <2>4. b[1] = Quote /\ b[2] = "roomId" /\ b[3] = Quote /\ b[4] = Colon
      BY <1>7, <2>1, <2>2
    <2>5. \A i \in 1..Len(v) : b[4 + i] = v[i]
      BY <1>7, <2>1, <2>2
    <2> QED
      BY <2>1, <2>2, <2>3, <2>4, <2>5
  <1> HIDE DEF b
  <1>9. \A i \in 1..Len(v) : v[i] # "roomId"
    <2>1. \A i \in 1..n : d[i] # "roomId"
      BY <1>1, RoomSymbolsDiffer
    <2>2. CASE f.quoted
      <3>1. /\ Len(v) = n + 2 /\ v[1] = Quote /\ v[n + 2] = Quote
            /\ \A i \in 1..n : v[1 + i] = d[i]
        BY <1>5, <2>2 DEF v
      <3>2. ASSUME NEW i \in 1..Len(v)
            PROVE  v[i] # "roomId"
        <4>1. i = 1 \/ i = n + 2 \/ (i - 1 \in 1..n /\ 1 + (i - 1) = i)
          BY <1>1, <3>1
        <4> QED
          BY <2>1, <3>1, <4>1, RoomSymbolsDiffer
      <3> QED
        BY <3>2
    <2>3. CASE ~f.quoted
      BY <2>1, <2>3 DEF v, n
    <2> QED
      BY <2>2, <2>3
  <1>10. ASSUME NEW j \in 1..Len(b), b[j] = "roomId"
         PROVE  j = 2
    <2>1. j \in 1..4 \/ (j - 4 \in 1..Len(v) /\ 4 + (j - 4) = j) \/ j = 5 + Len(v)
      BY <1>6, <1>8
    <2>2. j \in 1..4 => j = 1 \/ j = 2 \/ j = 3 \/ j = 4
      OBVIOUS
    <2>3. Quote # "roomId" /\ Colon # "roomId" /\ Comma # "roomId"
      BY RoomSymbolsDiffer, Zenon
    <2>4. CASE j \in 1..4
      BY <1>8, <1>10, <2>2, <2>3, <2>4
    <2>5. CASE j - 4 \in 1..Len(v) /\ 4 + (j - 4) = j
      BY <1>8, <1>9, <1>10, <2>5
    <2>6. CASE j = 5 + Len(v)
      BY <1>8, <1>10, <2>3, <2>6
    <2> QED
      BY <2>1, <2>4, <2>5, <2>6
  <1>11. HasDigits(b, 1, d)
    <2>1. CASE ~f.quoted
      <3>1. /\ Len(v) = n /\ Len(b) = 5 + n /\ b[5 + n] = Comma
            /\ \A i \in 1..n : b[4 + i] = d[i]
        BY <1>8, <2>1 DEF v, n
      <3>2. \A k \in 1..n : 5 + k - 1 = 4 + k
        BY <1>1
      <3>3. \A k \in 1..n : b[5 + k - 1] = d[k]
        BY <3>1, <3>2
      <3>4. ASSUME NEW j \in 5..(n + 4)
            PROVE  b[j] \in Digits
        <4>1. j - 4 \in 1..n /\ 4 + (j - 4) = j
          BY <1>1
        <4> QED
          BY <1>1, <3>1, <4>1
      <3>5. b[5] \notin {Quote, Space}
        <4>1. n = 0 \/ 5 \in 5..(n + 4)
          BY <1>1
        <4> QED
          BY <3>1, <3>4, <4>1, RoomSymbolsDiffer
      <3>6. b[5 + n] \notin Digits
        BY <3>1, RoomSymbolsDiffer
      <3>7. DigitsStand(b, 1, d, 5, 5 + n)
        <4>1. /\ 5 + n \in (1 + 4)..Len(b) /\ 5 \in (1 + 4)..(5 + n) /\ (5 + n) - 5 = n
              /\ (5 + n) - 1 = n + 4 /\ (1 + 4)..(5 - 1) = {}
          BY <1>1, <3>1
        <4> QED
          BY <3>3, <3>4, <3>5, <3>6, <4>1 DEF DigitsStand, n
      <3> QED
        BY <1>1, <3>7 DEF HasDigits
    <2>2. CASE f.quoted /\ n = 0
      <3>1. /\ Len(b) = 7 /\ b[7] = Comma /\ b[5] = Quote /\ b[6] = Quote
        <4>1. Len(v) = 2 /\ v[1] = Quote /\ v[2] = Quote
          BY <1>5, <2>2 DEF v
        <4> QED
          BY <1>8, <4>1
      <3>2. DigitsStand(b, 1, d, 7, 7)
        <4>1. \A j \in (1 + 4)..(7 - 1) : j = 5 \/ j = 6
          OBVIOUS
        <4>2. 7..(7 - 1) = {} /\ 1..(7 - 7) = {} /\ Len(d) = 7 - 7
          BY <2>2 DEF n
        <4>3. 7 \in (1 + 4)..Len(b) /\ 7 \in (1 + 4)..7
          BY <3>1
        <4>4. \A j \in (1 + 4)..(7 - 1) : b[j] \in {Quote, Space}
          BY <3>1, <4>1
        <4>5. b[7] \notin {Quote, Space} /\ b[7] \notin Digits
          BY <3>1, RoomSymbolsDiffer
        <4> QED
          BY <4>2, <4>3, <4>4, <4>5 DEF DigitsStand
      <3> QED
        BY <3>2 DEF HasDigits
    <2>3. CASE f.quoted /\ n # 0
      <3>1. /\ Len(v) = n + 2 /\ v[1] = Quote /\ v[n + 2] = Quote
            /\ \A i \in 1..n : v[1 + i] = d[i]
        BY <1>5, <2>3 DEF v
      <3>2. /\ Len(b) = 7 + n /\ b[5] = Quote /\ b[6 + n] = Quote
            /\ \A i \in 1..n : b[5 + i] = d[i]
        <4>1. /\ 1 \in 1..Len(v) /\ n + 2 \in 1..Len(v) /\ 4 + 1 = 5 /\ 4 + (n + 2) = 6 + n
              /\ 5 + Len(v) = 7 + n
              /\ \A i \in 1..n : 1 + i \in 1..Len(v) /\ 4 + (1 + i) = 5 + i
          BY <1>1, <3>1
        <4> QED
          BY <1>8, <3>1, <4>1
      <3>3. \A k \in 1..n : b[6 + k - 1] = d[k]
        <4>1. \A k \in 1..n : 6 + k - 1 = 5 + k
          BY <1>1
        <4> QED
          BY <3>2, <4>1
      <3>4. ASSUME NEW j \in 6..(n + 5)
            PROVE  b[j] \in Digits
        <4>1. j - 5 \in 1..n /\ 5 + (j - 5) = j
          BY <1>1
        <4> QED
          BY <1>1, <3>2, <4>1
      <3>5. b[6] \notin {Quote, Space}
        <4>1. 6 \in 6..(n + 5)
          BY <1>1, <2>3
        <4> QED
          BY <3>4, <4>1, RoomSymbolsDiffer
      <3>6. b[6 + n] \notin Digits
        BY <3>2, RoomSymbolsDiffer
      <3>7. DigitsStand(b, 1, d, 6, 6 + n)
        <4>1. /\ 6 + n \in (1 + 4)..Len(b) /\ 6 \in (1 + 4)..(6 + n) /\ (6 + n) - 6 = n
              /\ (6 + n) - 1 = n + 5 /\ \A j \in (1 + 4)..(6 - 1) : j = 5
          BY <1>1, <3>2
        <4> QED
          BY <3>2, <3>3, <3>4, <3>5, <3>6, <4>1 DEF DigitsStand, n
      <3> QED
        BY <1>1, <3>7 DEF HasDigits
    <2> QED
      BY <2>1, <2>2, <2>3
  <1>12. Len(b) >= 5 /\ b[Len(b)] = Comma
    BY <1>6, <1>8
  <1>13. IsField(b, d)
    BY <1>8, <1>10, <1>11, <1>12 DEF IsField, T
  <1> QED
    BY <1>3, <1>13 DEF d

\* Where fields are found.
LEMMA RoomIdsAre ==
    ASSUME NEW T, NEW doc \in Seq(T)
    PROVE  RoomIds(doc) = {i \in 1..(Len(doc) - 3) :
               /\ doc[i] = Quote /\ doc[i + 1] = "roomId"
               /\ doc[i + 2] = Quote /\ doc[i + 3] = Colon}
  <1> DEFINE needle == <<Quote, "roomId", Quote, Colon>>
  <1>1. needle \o <<>> = needle
    <2>1. needle \in Seq({Quote, "roomId", Colon})
      OBVIOUS
    <2> HIDE DEF needle
    <2> QED
      BY <2>1, ConcatEmptySeq
  <1>2. RoomIds(doc) = Occurrences(doc, needle, 1)
    BY <1>1, Zenon DEF RoomIds, Needle
  <1>3. /\ Len(needle) = 4 /\ DOMAIN needle = 1..4
        /\ needle[1] = Quote /\ needle[2] = "roomId" /\ needle[3] = Quote /\ needle[4] = Colon
    OBVIOUS
  <1>4. Len(doc) \in Nat
    BY LenProperties
  <1> HIDE DEF needle
  <1>5. Len(doc) - Len(needle) + 1 = Len(doc) - 3
    BY <1>3, <1>4
  <1>6. ASSUME NEW i \in 1..(Len(doc) - 3)
        PROVE  (\A k \in DOMAIN needle : doc[i + k - 1] = needle[k])
                   <=> /\ doc[i] = Quote /\ doc[i + 1] = "roomId"
                       /\ doc[i + 2] = Quote /\ doc[i + 3] = Colon
    <2>1. i + 1 - 1 = i /\ i + 2 - 1 = i + 1 /\ i + 3 - 1 = i + 2 /\ i + 4 - 1 = i + 3
      BY <1>4
    <2>2. 1 \in 1..4 /\ 2 \in 1..4 /\ 3 \in 1..4 /\ 4 \in 1..4
          /\ \A k \in 1..4 : k = 1 \/ k = 2 \/ k = 3 \/ k = 4
      OBVIOUS
    <2> QED
      BY <1>3, <2>1, <2>2
  <1> QED
    BY <1>2, <1>5, <1>6 DEF Occurrences

\* One more field is found behind those of a page.
LEMMA OneMoreRoomId ==
    ASSUME NEW body \in Seq(RoomSymbols), NEW b, NEW digits, IsField(b, digits),
           body = <<>> \/ body[Len(body)] = Comma
    PROVE  RoomIds(body \o b) = RoomIds(body) \cup {Len(body) + 1}
  <1> DEFINE T == RoomSymbols
             doc == body \o b
             m == Len(body)
             n == Len(b)
             Found(s, i) == /\ s[i] = Quote /\ s[i + 1] = "roomId"
                            /\ s[i + 2] = Quote /\ s[i + 3] = Colon
  <1>1. /\ b \in Seq(T) /\ n >= 5 /\ b[1] = Quote /\ b[2] = "roomId" /\ b[3] = Quote
        /\ b[4] = Colon /\ \A j \in 1..n : b[j] = "roomId" => j = 2
    BY DEF IsField
  <1>2. /\ doc \in Seq(T) /\ m \in Nat /\ n \in Nat /\ Len(doc) = m + n
        /\ \A i \in 1..m : doc[i] = body[i]
        /\ \A i \in 1..n : doc[m + i] = b[i]
    BY <1>1, JoinIs
  <1>3. m = 0 \/ (m \in 1..m /\ doc[m] = Comma)
    <2>1. m = 0 \/ m \in 1..m
      BY <1>2
    <2>2. m = 0 <=> body = <<>>
      BY EmptySeq
    <2> QED
      BY <1>2, <2>1, <2>2
  <1>4. RoomIds(doc) = {i \in 1..(m + n - 3) : Found(doc, i)}
    <2>1. RoomIds(doc) = {i \in 1..(Len(doc) - 3) : Found(doc, i)}
      <3> HIDE DEF doc
      <3> QED
        BY <1>2, RoomIdsAre
    <2>2. Len(doc) - 3 = m + n - 3
      BY <1>2
    <2> QED
      BY <2>1, <2>2, Zenon
  <1>5. RoomIds(body) = {i \in 1..(m - 3) : Found(body, i)}
    BY RoomIdsAre
  <1> HIDE DEF doc, m, n, T
  <1>6. ASSUME NEW i \in 1..(m - 3)
        PROVE  i \in 1..(m + n - 3) /\ (Found(doc, i) <=> Found(body, i))
    <2>1. /\ i \in 1..m /\ i + 1 \in 1..m /\ i + 2 \in 1..m /\ i + 3 \in 1..m
          /\ i \in 1..(m + n - 3)
      BY <1>1, <1>2
    <2>2. /\ doc[i] = body[i] /\ doc[i + 1] = body[i + 1]
          /\ doc[i + 2] = body[i + 2] /\ doc[i + 3] = body[i + 3]
      BY <1>2, <2>1
    <2> QED
      BY <2>1, <2>2, Zenon
  <1>7. m + 1 \in 1..(m + n - 3) /\ Found(doc, m + 1)
    <2>1. /\ 1 \in 1..n /\ 2 \in 1..n /\ 3 \in 1..n /\ 4 \in 1..n
          /\ m + 1 + 1 = m + 2 /\ m + 1 + 2 = m + 3 /\ m + 1 + 3 = m + 4
      BY <1>1, <1>2
    <2> QED
      BY <1>1, <1>2, <2>1, SMTT(30)
  <1>8. ASSUME NEW i \in 1..(m + n - 3), Found(doc, i), i > m - 3
        PROVE  i = m + 1
    <2>1. CASE i + 1 > m
      <3>1. i + 1 - m \in 1..n /\ m + (i + 1 - m) = i + 1
        BY <1>1, <1>2, <2>1
      <3>2. b[i + 1 - m] = "roomId"
        BY <1>2, <1>8, <3>1
      <3>3. i + 1 - m = 2
        BY <1>1, <3>1, <3>2
      <3> QED
        BY <1>2, <3>3
    <2>2. CASE i + 1 <= m
      <3>1. m # 0 /\ (i + 1 = m \/ i + 2 = m)
        BY <1>2, <1>8, <2>2
      <3>2. doc[m] = "roomId" \/ doc[m] = Quote
        BY <1>8, <3>1
      <3> QED
        BY <1>3, <3>1, <3>2, RoomSymbolsDiffer
    <2> QED
      BY <1>2, <2>1, <2>2
  <1>9. ASSUME NEW i
        PROVE  i \in RoomIds(doc) <=> (i \in RoomIds(body) \/ i = m + 1)
    <2>1. ASSUME i \in RoomIds(doc)
          PROVE  i \in RoomIds(body) \/ i = m + 1
      <3>1. i \in 1..(m + n - 3) /\ Found(doc, i)
        BY <1>4, <2>1
      <3>2. i \in 1..(m - 3) \/ i > m - 3
        BY <1>2, <3>1
      <3>3. CASE i \in 1..(m - 3)
        BY <1>5, <1>6, <3>1, <3>3
      <3>4. CASE i > m - 3
        BY <1>8, <3>1, <3>4
      <3> QED
        BY <3>2, <3>3, <3>4
    <2>2. ASSUME i \in RoomIds(body)
          PROVE  i \in RoomIds(doc)
      <3>1. i \in 1..(m - 3) /\ Found(body, i)
        BY <1>5, <2>2
      <3> QED
        BY <1>4, <1>6, <3>1
    <2>3. m + 1 \in RoomIds(doc)
      BY <1>4, <1>7
    <2> QED
      BY <2>1, <2>2, <2>3
  <1>10. RoomIds(doc) = RoomIds(body) \cup {m + 1}
    BY <1>9, Zenon
  <1> QED
    BY <1>10 DEF doc, m

\* A page with its fields: where they are found, in their order, with what digits.
Located(body, fields, at) ==
    /\ body \in Seq(RoomSymbols) /\ (body = <<>> \/ body[Len(body)] = Comma)
    /\ \A i \in 1..Len(fields) :
           at[i] \in Nat \ {0} /\ HasDigits(body, at[i], fields[i].digits)
    /\ \A i \in 1..Len(fields) : at[i] <= Len(body)
    /\ \A i, j \in 1..Len(fields) : i < j => at[i] < at[j]
    /\ RoomIds(body) = {at[i] : i \in 1..Len(fields)}

\* A page with one more field has it behind the others.
LEMMA OneMoreLocated ==
    ASSUME NEW fields \in Seq(RoomFields), NEW f \in RoomFields, NEW body, NEW at,
           NEW b, IsField(b, f.digits), Located(body, fields, at)
    PROVE  \E next : Located(body \o b, Append(fields, f), next)
  <1> DEFINE T == RoomSymbols
             doc == body \o b
             k == Len(fields)
             m == Len(body)
             n == Len(b)
             more == Append(fields, f)
             next == [i \in 1..(k + 1) |-> IF i <= k THEN at[i] ELSE m + 1]
  <1>1. /\ more \in Seq(RoomFields) /\ k \in Nat /\ Len(more) = k + 1
        /\ \A i \in 1..k : more[i] = fields[i]
        /\ more[k + 1] = f
    BY AppendProperties, LenProperties
  <1>2. /\ body \in Seq(T) /\ (body = <<>> \/ body[Len(body)] = Comma)
        /\ \A i \in 1..k : at[i] \in Nat \ {0} /\ HasDigits(body, at[i], fields[i].digits)
        /\ \A i \in 1..k : at[i] <= m
        /\ \A i, j \in 1..k : i < j => at[i] < at[j]
        /\ RoomIds(body) = {at[i] : i \in 1..k}
    BY DEF Located
  <1>3. b \in Seq(T) /\ n >= 5 /\ b[n] = Comma /\ HasDigits(b, 1, f.digits)
    BY DEF IsField
  <1>4. /\ doc \in Seq(T) /\ m \in Nat /\ n \in Nat /\ Len(doc) = m + n
        /\ \A i \in 1..n : doc[m + i] = b[i]
    BY <1>2, <1>3, JoinIs
  <1>5. RoomIds(doc) = RoomIds(body) \cup {m + 1}
    BY <1>2, OneMoreRoomId
  <1>6. \A i \in 1..k : next[i] = at[i] /\ i \in 1..(k + 1)
    BY <1>1
  <1>7. next[k + 1] = m + 1 /\ k + 1 \in 1..(k + 1)
    BY <1>1
  <1>8. \A i \in 1..k : HasDigits(doc, at[i], fields[i].digits)
    BY <1>2, <1>3, DigitsStay
  <1>9. HasDigits(doc, m + 1, f.digits)
    BY <1>2, <1>3, DigitsMove
  <1> HIDE DEF doc, k, m, n, more, next, T
  <1>10. \A i \in 1..(k + 1) : i \in 1..k \/ i = k + 1
    BY <1>1
  <1>11. doc[Len(doc)] = Comma
    BY <1>3, <1>4
  <1>12. \A i \in 1..(k + 1) : next[i] \in Nat \ {0} /\ HasDigits(doc, next[i], more[i].digits)
    <2>1. ASSUME NEW i \in 1..k
          PROVE  next[i] \in Nat \ {0} /\ HasDigits(doc, next[i], more[i].digits)
      BY <1>1, <1>2, <1>6, <1>8
    <2>2. next[k + 1] \in Nat \ {0} /\ HasDigits(doc, next[k + 1], more[k + 1].digits)
      BY <1>1, <1>4, <1>7, <1>9
    <2> QED
      BY <1>10, <2>1, <2>2
  <1>13. \A i \in 1..(k + 1) : next[i] <= Len(doc)
    <2>1. ASSUME NEW i \in 1..k
          PROVE  next[i] <= Len(doc)
      <3>1. next[i] = at[i] /\ at[i] <= m /\ at[i] \in Nat
        BY <1>2, <1>6
      <3> QED
        BY <1>3, <1>4, <3>1
    <2>2. next[k + 1] <= Len(doc)
      BY <1>3, <1>4, <1>7
    <2> QED
      BY <1>10, <2>1, <2>2
  <1>14. ASSUME NEW i \in 1..(k + 1), NEW j \in 1..(k + 1), i < j
         PROVE  next[i] < next[j]
    <2>1. i \in 1..k
      BY <1>1, <1>14
    <2>2. CASE j \in 1..k
      BY <1>2, <1>6, <1>14, <2>1, <2>2
    <2>3. CASE j = k + 1
      <3>1. next[i] = at[i] /\ next[j] = m + 1 /\ at[i] <= m /\ at[i] \in Nat
        BY <1>2, <1>6, <1>7, <2>1, <2>3
      <3> QED
        BY <1>4, <3>1
    <2> QED
      BY <1>10, <2>2, <2>3
  <1>15. RoomIds(doc) = {next[i] : i \in 1..(k + 1)}
    <2>1. ASSUME NEW p
          PROVE  p \in RoomIds(doc) <=> \E i \in 1..(k + 1) : p = next[i]
      <3>1. p \in RoomIds(doc) <=> (\E i \in 1..k : p = at[i]) \/ p = m + 1
        BY <1>2, <1>5
      <3> QED
        BY <1>6, <1>7, <1>10, <3>1
    <2> QED
      BY <2>1
  <1>16. Located(doc, more, next)
    BY <1>1, <1>4, <1>11, <1>12, <1>13, <1>14, <1>15 DEF Located, T
  <1> QED
    BY <1>16 DEF doc, more

\* Every page has its fields where they are found.
LEMMA PagesAreLocated ==
    ASSUME NEW fields \in Seq(RoomFields)
    PROVE  \E at : Located(Page(fields), fields, at)
  <1> DEFINE S == {t \in Seq(RoomFields) : \E at : Located(Page(t), t, at)}
             Blocks(t) == [i \in DOMAIN t |-> RoomField(t[i])]
             T == RoomSymbols
  <1>1. \A f \in RoomFields : RoomField(f) \in Seq(T) /\ IsField(RoomField(f), f.digits)
    BY RoomFieldIs DEF IsField
  <1>2. ASSUME NEW t \in Seq(RoomFields)
        PROVE  Blocks(t) \in Seq(Seq(T)) /\ Len(Blocks(t)) = Len(t)
    <2>1. DOMAIN t = 1..Len(t) /\ Len(t) \in Nat /\ \A i \in 1..Len(t) : t[i] \in RoomFields
      BY LenProperties, ElementOfSeq
    <2> DEFINE bs == Blocks(t)
               k == Len(t)
    <2>2. bs = [i \in 1..k |-> RoomField(t[i])]
      BY <2>1, Zenon
    <2>3. \A i \in 1..k : RoomField(t[i]) \in Seq(T)
      BY <1>1, <2>1
    <2> HIDE DEF bs, k, T
    <2>4. bs \in Seq(Seq(T)) /\ Len(bs) = k
      BY <2>1, <2>2, <2>3 DEF k
    <2> QED
      BY <2>4 DEF bs, k
  <1>3. <<>> \in S
    <2>1. Page(<<>>) = <<>>
      <3>1. Blocks(<<>>) = <<>>
        OBVIOUS
      <3> QED
        BY <3>1, FlattenIs, Zenon DEF Page
    <2>2. <<>> \in Seq(RoomFields) /\ <<>> \in Seq(T) /\ Len(<<>>) = 0
      BY EmptySeq
    <2>3. RoomIds(<<>>) = {}
      <3> DEFINE e == <<>>
      <3>1. e \in Seq(T) /\ Len(e) = 0
        BY <2>2
      <3> HIDE DEF e
      <3>2. RoomIds(e) \subseteq 1..(Len(e) - 3)
        <4>1. \A i \in RoomIds(e) : i \in 1..(Len(e) - 3)
          BY <3>1, RoomIdsAre
        <4> QED
          BY <4>1
      <3>3. 1..(Len(e) - 3) = {}
        BY <3>1
      <3> QED
        BY <3>2, <3>3 DEF e
    <2>4. Located(<<>>, <<>>, <<>>)
      BY <2>2, <2>3 DEF Located
    <2> QED
      BY <2>1, <2>2, <2>4
  <1>4. ASSUME NEW t \in Seq(RoomFields), NEW f \in RoomFields, t \in S
        PROVE  Append(t, f) \in S
    <2>1. PICK at : Located(Page(t), t, at)
      BY <1>4
    <2>2. \E next : Located(Page(t) \o RoomField(f), Append(t, f), next)
      <3>1. IsField(RoomField(f), f.digits)
        BY <1>1
      <3> QED
        BY <2>1, <3>1, OneMoreLocated
    <2>3. Append(t, f) \in Seq(RoomFields)
      BY AppendProperties
    <2>4. Page(Append(t, f)) = Page(t) \o RoomField(f)
      <3>1. Blocks(Append(t, f)) = Append(Blocks(t), RoomField(f))
        <4> DEFINE u == Append(t, f)
                   k == Len(t)
                   bs == Blocks(t)
                   x == Blocks(u)
                   y == Append(bs, RoomField(f))
        <4>1. /\ u \in Seq(RoomFields) /\ Len(u) = k + 1 /\ u[k + 1] = f
              /\ \A i \in 1..k : u[i] = t[i]
              /\ k \in Nat /\ DOMAIN t = 1..k /\ DOMAIN u = 1..(k + 1)
          BY AppendProperties, LenProperties
        <4> HIDE DEF u
        <4>2. x \in Seq(Seq(T)) /\ Len(x) = k + 1 /\ \A i \in 1..(k + 1) : x[i] = RoomField(u[i])
          BY <1>2, <4>1
        <4>3. bs \in Seq(Seq(T)) /\ Len(bs) = k /\ \A i \in 1..k : bs[i] = RoomField(t[i])
          BY <1>2, <4>1
        <4> HIDE DEF bs, x, k, T
        <4>4. /\ y \in Seq(Seq(T)) /\ Len(y) = k + 1 /\ y[k + 1] = RoomField(f)
              /\ \A i \in 1..k : y[i] = bs[i]
          <5>1. RoomField(f) \in Seq(T)
            BY <1>1
          <5> QED
            BY <4>3, <5>1, AppendProperties
        <4> HIDE DEF y
        <4>5. ASSUME NEW i \in 1..(k + 1)
              PROVE  x[i] = y[i]
          <5>1. CASE i \in 1..k
            BY <4>1, <4>2, <4>3, <4>4, <5>1
          <5>2. CASE i = k + 1
            BY <4>1, <4>2, <4>4, <5>2
          <5> QED
            BY <4>1, <5>1, <5>2
        <4>6. x = y
          BY <4>2, <4>4, <4>5, SameSequence
        <4> QED
          BY <4>6 DEF x, y, u, bs
      <3>2. Blocks(t) \in Seq(Seq(T)) /\ RoomField(f) \in Seq(T)
        BY <1>1, <1>2
      <3>3. FlattenSeq(Append(Blocks(t), RoomField(f))) = FlattenSeq(Blocks(t)) \o RoomField(f)
        <4> HIDE DEF Blocks, T
        <4> QED
          BY <3>2, FlattenIs
      <3> QED
        BY <3>1, <3>3, Zenon DEF Page
    <2> QED
      BY <2>2, <2>3, <2>4
  <1> HIDE DEF S
  <1>5. \A t \in Seq(RoomFields) : t \in S
    BY <1>3, <1>4, SequencesBySet, Zenon
  <1> QED
    BY <1>5 DEF S

\* Numbers that are not empty have a least one.
LEMMA LeastIs ==
    ASSUME NEW S, S \subseteq Nat, S # {}
    PROVE  Min(S) \in S /\ \A x \in S : Min(S) <= x
  <1> DEFINE R == {ss \in Nat \X Nat : ss[1] < ss[2]}
  <1>1. IsWellFoundedOn(R, Nat)
    BY NatLessThanWellFounded DEF OpToRel
  <1> HIDE DEF R
  <1>2. PICK m \in S : \A y \in S : ~(<<y, m>> \in R)
    <2>1. \E m \in S : \A y \in S : ~(<<y, m>> \in R)
      BY <1>1, WFMin, Zenon
    <2> QED
      BY <2>1
  <1>3. ASSUME NEW y \in S, ~(m <= y)
        PROVE  FALSE
    <2>1. y \in Nat /\ m \in Nat /\ y < m
      BY <1>3
    <2>2. <<y, m>> \in R
      BY <2>1 DEF R
    <2> QED
      BY <1>2, <2>2
  <1>4. Min(S) = m
    BY <1>3, MinIs
  <1> QED
    BY <1>3, <1>4

\* What is to be read of a page.
FirstPositive(fields) ==
    LET value == [i \in DOMAIN fields |-> Number(fields[i].digits)]
        positive == {i \in DOMAIN fields : value[i] > 0}
    IN  IF positive = {} THEN 0
        ELSE IF value[Min(positive)] > kMaxInt64 THEN Throws ELSE value[Min(positive)]

\* Of a page with any number of room ids, quoted or not, with any digits or none, the
\* first that is positive is read; or the exception is thrown that it deserves.
THEOREM FirstPositiveIsRead ==
    ASSUME NEW fields \in Seq(RoomFields)
    PROVE  scan_room_id(Page(fields)) = FirstPositive(fields)
  <1> DEFINE body == Page(fields)
             k == Len(fields)
             V(i) == Number(fields[i].digits)
             positive == {i \in 1..k : V(i) > 0}
             H == {p \in RoomIds(body) : RoomIdAt(body, p) > 0}
  <1>1. PICK at : Located(body, fields, at)
    BY PagesAreLocated
  <1>2. k \in Nat /\ DOMAIN fields = 1..k /\ \A i \in 1..k : fields[i].digits \in Seq(Digits)
    <2>1. \A i \in 1..k : fields[i] \in RoomFields
      BY ElementOfSeq
    <2> QED
      BY <2>1, LenProperties DEF RoomFields
  <1>3. /\ body \in Seq(RoomSymbols) /\ Digits \subseteq RoomSymbols
        /\ \A i \in 1..k : at[i] \in Nat \ {0} /\ HasDigits(body, at[i], fields[i].digits)
        /\ \A i, j \in 1..k : i < j => at[i] < at[j]
        /\ RoomIds(body) = {at[i] : i \in 1..k}
    BY <1>1 DEF Located, RoomSymbols
  <1> HIDE DEF body, k
  <1>4. ASSUME NEW i \in 1..k
        PROVE  RoomIdAt(body, at[i]) = V(i)
    BY <1>2, <1>3, DigitsAreRead
  <1> HIDE DEF V
  <1>5. H \subseteq Nat /\ H = {at[i] : i \in positive}
    BY <1>3, <1>4
  <1>6. scan_room_id(body) = RoomIdFrom(body, First(H))
    BY Zenon DEF scan_room_id
  <1>7. FirstPositive(fields) =
            IF positive = {} THEN 0
            ELSE IF V(Min(positive)) > kMaxInt64 THEN Throws ELSE V(Min(positive))
    <2> DEFINE value == [i \in DOMAIN fields |-> Number(fields[i].digits)]
               hits == {i \in DOMAIN fields : value[i] > 0}
    <2>1. \A i \in 1..k : value[i] = V(i)
      BY <1>2, Zenon DEF V
    <2>2. hits = positive
      <3> HIDE DEF value
      <3> QED
        BY <1>2, <2>1
    <2>3. positive # {} => value[Min(positive)] = V(Min(positive))
      <3>1. positive \subseteq Nat /\ positive \subseteq 1..k
        BY <1>2
      <3> HIDE DEF positive, value
      <3> QED
        BY <2>1, <3>1, LeastIs
    <2>4. FirstPositive(fields) =
              IF hits = {} THEN 0
              ELSE IF value[Min(hits)] > kMaxInt64 THEN Throws ELSE value[Min(hits)]
      BY Zenon DEF FirstPositive
    <2> HIDE DEF value, hits, positive
    <2> QED
      BY <2>2, <2>3, <2>4
  <1>8. CASE positive = {}
    <2>1. H = {}
      BY <1>5, <1>8
    <2>2. First(H) = 0
      BY <2>1 DEF First
    <2>3. RoomIdFrom(body, 0) = 0
      BY DEF RoomIdFrom
    <2> QED
      BY <1>6, <1>7, <1>8, <2>2, <2>3, Zenon DEF body
  <1>9. CASE positive # {}
    <2> DEFINE i == Min(positive)
    <2>1. i \in positive /\ \A j \in positive : i <= j
      <3>1. positive \subseteq Nat
        BY <1>2
      <3> HIDE DEF positive
      <3> QED
        BY <1>9, <3>1, LeastIs
    <2> HIDE DEF i
    <2>2. i \in 1..k /\ at[i] \in H /\ at[i] \in Nat \ {0}
      BY <1>3, <1>5, <2>1
    <2>3. ASSUME NEW j \in positive
          PROVE  at[i] <= at[j]
      <3>1. j \in 1..k /\ i <= j
        BY <2>1
      <3>2. CASE i = j
        BY <2>2, <3>2
      <3>3. CASE i < j
        BY <1>3, <2>2, <3>1, <3>3
      <3> QED
        BY <1>2, <2>2, <3>1, <3>2, <3>3
    <2>4. \A p \in H : at[i] <= p
      BY <1>5, <2>3
    <2> HIDE DEF H
    <2>5. First(H) = at[i]
      <3>1. Min(H) = at[i] /\ H # {}
        BY <1>5, <2>2, <2>4, MinIs
      <3> QED
        BY <3>1 DEF First
    <2>6. RoomIdFrom(body, at[i]) = IF V(i) > kMaxInt64 THEN Throws ELSE V(i)
      BY <1>4, <2>2 DEF RoomIdFrom
    <2> QED
      BY <1>6, <1>7, <1>9, <2>5, <2>6, Zenon DEF body, i
  <1> QED
    BY <1>8, <1>9

\* Of whatever page the room id that is read is the first that is positive.
THEOREM RoomIdsRead == Spec => []RoomIdRead
  <1>1. InputInv => RoomIdRead
    <2> SUFFICES ASSUME InputInv, kind = "ids"
                 PROVE  scan_room_id(Page(input)) = FirstPositive(input)
      BY Zenon DEF RoomIdRead, FirstPositive
    <2>1. input \in Seq(IdFields)
      <3>1. "ids" \in DOMAIN Elements /\ Elements["ids"] = IdFields
        BY DEF Elements
      <3> QED
        BY <3>1, Zenon DEF InputInv
    <2>2. IdDigits \subseteq Seq(Digits)
      <3> DEFINE D == {"0", "1", "9"}
      <3>1. IdDigits \subseteq Seq(D)
        BY DEF IdDigits
      <3>2. D \subseteq Digits
        BY IdDigitsAssumption
      <3> HIDE DEF D
      <3> QED
        BY <3>1, <3>2, SeqMonotonic
    <2>3. IdFields \subseteq RoomFields
      <3> HIDE DEF IdDigits
      <3> QED
        BY <2>2 DEF IdFields, RoomFields
    <2>4. input \in Seq(RoomFields)
      <3> HIDE DEF IdFields, RoomFields
      <3> QED
        BY <2>1, <2>3, SeqMonotonic
    <2> QED
      BY <2>4, FirstPositiveIsRead
  <1> QED
    BY <1>1, InputInvInit, InputInvStep, PTL DEF Spec

-----------------------------------------------------------------------------
(* Strings                                                                 *)

\* The symbols of documents and of what is read from them.
IsAlphabet(U) ==
    /\ {Quote, Backslash, "u"} \cup HexGroups \subseteq U
    /\ \A h \in HexGroups : HexValue[h] \in Seq(U)
    /\ \A c \in U : Unescaped(c) \in U

\* The ways in which a serialiser may write one character, but \uXXXX only up to
\* 0x7f, and what each means.
Bare(U) == {<<c>> : c \in U \ {Quote, Backslash}}
Behind(U) == {<<Backslash, c>> : c \in U \ {"u"}}
AsHex == {<<Backslash, "u", h>> : h \in {g \in HexGroups : HexValue[g] # <<>>}}
Written(U) == Bare(U) \cup Behind(U) \cup AsHex

Meant(w) ==
    IF w[1] # Backslash THEN w ELSE IF w[2] = "u" THEN HexValue[w[3]] ELSE <<Unescaped(w[2])>>

\* The quote, the backslash and the letter differ, and are no hex digits.
LEMMA EscapesDiffer ==
    Quote # Backslash /\ "u" # Backslash /\ "u" # Quote /\ HexGroups \cap {Quote, Backslash} = {}
  BY ScrapingAssumption, Zenon DEF Quote, Backslash

\* The three forms of a character.
LEMMA WrittenIs ==
    ASSUME NEW U, IsAlphabet(U), NEW w \in Written(U)
    PROVE  /\ w \in Seq(U) /\ Meant(w) \in Seq(U)
           /\ \/ Len(w) = 1 /\ w[1] # Quote /\ w[1] # Backslash /\ Meant(w) = <<w[1]>>
              \/ /\ Len(w) = 2 /\ w[1] = Backslash /\ w[2] # "u"
                 /\ Meant(w) = <<Unescaped(w[2])>>
              \/ /\ Len(w) = 3 /\ w[1] = Backslash /\ w[2] = "u" /\ w[3] \in HexGroups
                 /\ Meant(w) = HexValue[w[3]]
  <1>1. {Quote, Backslash, "u"} \cup HexGroups \subseteq U
    BY DEF IsAlphabet
  <1>2. CASE w \in Bare(U)
    <2>1. PICK c \in U \ {Quote, Backslash} : w = <<c>>
      BY <1>2 DEF Bare
    <2>2. w \in Seq(U) /\ Len(w) = 1 /\ w[1] = c /\ c # Quote /\ c # Backslash
      BY <2>1
    <2>3. Meant(w) = w
      BY <2>2, Zenon DEF Meant
    <2> QED
      BY <2>1, <2>2, <2>3
  <1>3. CASE w \in Behind(U)
    <2>1. PICK c \in U \ {"u"} : w = <<Backslash, c>>
      BY <1>3 DEF Behind
    <2>2. w \in Seq(U) /\ Len(w) = 2 /\ w[1] = Backslash /\ w[2] = c /\ c # "u"
      BY <1>1, <2>1
    <2>3. Meant(w) = <<Unescaped(c)>>
      BY <2>2, Zenon DEF Meant
    <2>4. Unescaped(c) \in U
      BY DEF IsAlphabet
    <2> QED
      BY <2>2, <2>3, <2>4
  <1>4. CASE w \in AsHex
    <2>1. PICK h \in HexGroups : w = <<Backslash, "u", h>>
      BY <1>4 DEF AsHex
    <2>2. w \in Seq(U) /\ Len(w) = 3 /\ w[1] = Backslash /\ w[2] = "u" /\ w[3] = h
      BY <1>1, <2>1
    <2>3. Meant(w) = HexValue[h]
      BY <2>2, Zenon DEF Meant
    <2>4. HexValue[h] \in Seq(U)
      BY DEF IsAlphabet
    <2> QED
      BY <2>2, <2>3, <2>4
  <1> QED
    BY <1>2, <1>3, <1>4 DEF Written

\* Of the string that begins at from, h says which symbols a backslash hides.
SaysHidden(h, doc, from) ==
    /\ ~h[from]
    /\ \A i \in (from + 1)..Len(doc) : h[i] <=> doc[i - 1] = Backslash /\ ~h[i - 1]

\* Whether a symbol is hidden depends on the one before.
LEMMA HiddenIs ==
    ASSUME NEW U, NEW doc \in Seq(U), NEW from \in Nat, from <= Len(doc)
    PROVE  SaysHidden(Hidden(doc, from), doc, from)
  <1> DEFINE n == Len(doc) - from
             T == BOOLEAN
             Step == [p \in (1..n) \X T |-> doc[from + p[1] - 1] = Backslash /\ ~p[2]]
             Is(h) == h = [i \in from..Len(doc) |->
                               i > from /\ doc[i - 1] = Backslash /\ ~h[i - 1]]
  <1>1. n \in Nat /\ Len(doc) \in Nat /\ Len(doc) = from + n
    BY LenProperties
  <1>2. Step \in [(1..n) \X T -> T] /\ FALSE \in T
    <2>1. \A p \in (1..n) \X T : (doc[from + p[1] - 1] = Backslash /\ ~p[2]) \in T
      BY Zenon
    <2> QED
      BY <2>1, Zenon
  <1>3. \A i \in 1..n : \A v \in T :
            Step[<<i, v>>] = (doc[from + i - 1] = Backslash /\ ~v)
    BY Zenon
  <1> HIDE DEF n, T, Step
  <1>4. PICK f : IsLoop(f, T, n, FALSE, Step)
    BY <1>1, <1>2, LoopHasValues
  <1>5. f[0] = FALSE /\ \A i \in 1..n : f[i] = Step[<<i, f[i - 1]>>] /\ f[i - 1] \in T
    BY <1>1, <1>4 DEF IsLoop
  <1> DEFINE g == [i \in from..Len(doc) |-> f[i - from]]
  <1>6. \A i \in from..Len(doc) :
            g[i] = (i > from /\ doc[i - 1] = Backslash /\ ~g[i - 1])
    <2> TAKE i \in from..Len(doc)
    <2>1. CASE i = from
      <3>1. g[i] = FALSE /\ ~(i > from)
        <4>1. i - from = 0
          BY <2>1
        <4> QED
          BY <1>5, <2>1, <4>1
      <3> QED
        BY <3>1, Zenon
    <2>2. CASE i # from
      <3>1. /\ i > from /\ i - from \in 1..n /\ i - 1 \in from..Len(doc)
            /\ i - from - 1 = i - 1 - from /\ from + (i - from) - 1 = i - 1
        BY <1>1, <2>2
      <3>2. g[i] = Step[<<i - from, f[i - from - 1]>>] /\ f[i - from - 1] \in T
        BY <1>5, <3>1, Zenon
      <3>3. g[i - 1] = f[i - from - 1]
        BY <3>1, Zenon
      <3>4. Step[<<i - from, f[i - from - 1]>>]
                = (doc[from + (i - from) - 1] = Backslash /\ ~f[i - from - 1])
        BY <1>3, <3>1, <3>2, Zenon
      <3> QED
        BY <3>1, <3>2, <3>3, <3>4, Zenon
    <2> QED
      BY <2>1, <2>2
  <1>7. Is(g)
    BY <1>6, Zenon
  <1>8. Is(Hidden(doc, from))
    <2>1. Hidden(doc, from) = CHOOSE h : Is(h)
      BY Zenon DEF Hidden
    <2> HIDE DEF Is
    <2> QED
      BY <1>7, <2>1, Zenon
  <1> DEFINE H == Hidden(doc, from)
  <1>9. \A i \in from..Len(doc) : H[i] = (i > from /\ doc[i - 1] = Backslash /\ ~H[i - 1])
    BY <1>8, Zenon
  <1>10. from \in from..Len(doc) /\ ~(from > from)
    BY <1>1
  <1>11. \A i \in (from + 1)..Len(doc) : i \in from..Len(doc) /\ i > from
    BY <1>1
  <1> QED
    BY <1>9, <1>10, <1>11, Zenon DEF SaysHidden

\* What comes of a string from i on, given what comes of it later.
UnescapeAt(s, out, i) ==
    IF i > Len(s) THEN <<>>
    ELSE IF s[i] # Backslash \/ i = Len(s) THEN <<s[i]>> \o out[i + 1]
    ELSE IF s[i + 1] = "u" /\ i + 1 < Len(s) THEN HexValue[s[i + 2]] \o out[i + 3]
    ELSE <<Unescaped(s[i + 1])>> \o out[i + 2]

Unescapes(out, s) == \A i \in 1..(Len(s) + 3) : out[i] = UnescapeAt(s, out, i)

\* There is what json_unescape() computes, by induction from the end.
LEMMA UnescapeIs ==
    ASSUME NEW s, Len(s) \in Nat
    PROVE  \E out : json_unescape(s) = out[1] /\ Unescapes(out, s)
  <1> DEFINE n == Len(s)
             From(k) == (n + 1 - k)..(n + 3)
             Good(g, k) == \A i \in From(k) : g[i] = UnescapeAt(s, g, i)
             S == {k \in Nat : k <= n => \E g : Good(g, k)}
  <1>1. n \in Nat
    OBVIOUS
  <1>2. 0 \in S
    <2> DEFINE g == [i \in 1..(n + 3) |-> <<>>]
    <2>1. \A i \in From(0) : i \in 1..(n + 3) /\ i > n
      BY <1>1
    <2>2. Good(g, 0)
      BY <2>1, Zenon DEF UnescapeAt
    <2> HIDE DEF g, Good
    <2> QED
      BY <2>2
  <1>3. ASSUME NEW k \in Nat, k \in S
        PROVE  k + 1 \in S
    <2> SUFFICES ASSUME k + 1 <= n
                 PROVE  \E g : Good(g, k + 1)
      OBVIOUS
    <2>1. PICK g : Good(g, k)
      <3> HIDE DEF Good
      <3> QED
        BY <1>1, <1>3
    <2> DEFINE m == n - k
               new == UnescapeAt(s, g, m)
               h == [i \in 1..(n + 3) |-> IF i = m THEN new ELSE g[i]]
    <2>2. /\ m \in 1..(n + 3) /\ m <= n
          /\ \A i \in From(k + 1) : i = m \/ i \in From(k)
          /\ \A i \in From(k) : i # m /\ i \in 1..(n + 3)
          /\ \A i \in From(k + 1) : i <= n =>
                 /\ i + 1 # m /\ i + 2 # m /\ i + 3 # m
                 /\ i + 1 \in 1..(n + 3) /\ i + 2 \in 1..(n + 3) /\ i + 3 \in 1..(n + 3)
      BY <1>1
    <2> HIDE DEF new, m
    <2>3. ASSUME NEW i \in From(k + 1)
          PROVE  UnescapeAt(s, h, i) = UnescapeAt(s, g, i)
      <3> HIDE DEF From
      <3>1. CASE i > n
        BY <3>1, Zenon DEF UnescapeAt
      <3>2. CASE ~(i > n)
        <4>1. i <= n
          <5>1. i \in Nat
            BY <1>1, <2>2 DEF From, m
          <5> QED
            BY <1>1, <3>2, <5>1
        <4>2. h[i + 1] = g[i + 1] /\ h[i + 2] = g[i + 2] /\ h[i + 3] = g[i + 3]
          BY <2>2, <4>1, Zenon
        <4> HIDE DEF h
        <4> QED
          BY <4>2, Zenon DEF UnescapeAt
      <3> QED
        BY <3>1, <3>2, Zenon
    <2>4. ASSUME NEW i \in From(k + 1)
          PROVE  h[i] = UnescapeAt(s, h, i)
      <3> HIDE DEF From
      <3>1. CASE i = m
        <4>1. h[i] = new
          BY <2>2, <3>1, Zenon
        <4> HIDE DEF h
        <4> QED
          BY <2>3, <3>1, <4>1, Zenon DEF new
      <3>2. CASE i # m
        <4>1. i \in From(k) /\ i \in 1..(n + 3)
          BY <2>2, <3>2, Zenon
        <4>2. h[i] = g[i]
          BY <3>2, <4>1, Zenon
        <4>3. g[i] = UnescapeAt(s, g, i)
          BY <2>1, <4>1, Zenon
        <4> HIDE DEF h
        <4> QED
          BY <2>3, <4>2, <4>3, Zenon
      <3> QED
        BY <3>1, <3>2, Zenon
    <2>5. Good(h, k + 1)
      <3> HIDE DEF h, From
      <3> QED
        BY <2>4, Zenon
    <2> HIDE DEF h, Good
    <2> QED
      BY <2>5
  <1> HIDE DEF S
  <1>4. n \in S
    BY <1>1, <1>2, <1>3, NumbersBySet
  <1>5. PICK g : Good(g, n)
    <2> HIDE DEF Good
    <2> QED
      BY <1>1, <1>4 DEF S
  <1> DEFINE Is(out) ==
                 out = [i \in 1..(n + 3) |->
                        IF i > n THEN <<>>
                        ELSE IF s[i] # Backslash \/ i = n THEN <<s[i]>> \o out[i + 1]
                        ELSE IF s[i + 1] = "u" /\ i + 1 < n
                             THEN HexValue[s[i + 2]] \o out[i + 3]
                        ELSE <<Unescaped(s[i + 1])>> \o out[i + 2]]
             out == CHOOSE x : Is(x)
             f == [i \in 1..(n + 3) |-> g[i]]
  <1>6. From(n) = 1..(n + 3)
    BY <1>1
  <1>7. ASSUME NEW i \in 1..(n + 3)
        PROVE  UnescapeAt(s, f, i) = UnescapeAt(s, g, i)
    <2>1. CASE i > n
      BY <2>1, Zenon DEF UnescapeAt
    <2>2. CASE ~(i > n)
      <3>1. i + 1 \in 1..(n + 3) /\ i + 2 \in 1..(n + 3) /\ i + 3 \in 1..(n + 3)
        BY <1>1, <2>2
      <3>2. f[i + 1] = g[i + 1] /\ f[i + 2] = g[i + 2] /\ f[i + 3] = g[i + 3]
        BY <3>1, Zenon
      <3> HIDE DEF f
      <3> QED
        BY <3>2, Zenon DEF UnescapeAt
    <2> QED
      BY <2>1, <2>2, Zenon
  <1>8. f = [i \in 1..(n + 3) |-> UnescapeAt(s, f, i)]
    <2>1. \A i \in 1..(n + 3) : g[i] = UnescapeAt(s, f, i)
      <3> HIDE DEF f
      <3> QED
        BY <1>5, <1>6, <1>7, Zenon
    <2>2. \A i \in 1..(n + 3) : f[i] = g[i]
      OBVIOUS
    <2> QED
      BY <2>1, Zenon
  <1>9. Is(f)
    <2> HIDE DEF f
    <2>1. [i \in 1..(n + 3) |-> UnescapeAt(s, f, i)]
              = [i \in 1..(n + 3) |->
                        IF i > n THEN <<>>
                        ELSE IF s[i] # Backslash \/ i = n THEN <<s[i]>> \o f[i + 1]
                        ELSE IF s[i + 1] = "u" /\ i + 1 < n
                             THEN HexValue[s[i + 2]] \o f[i + 3]
                        ELSE <<Unescaped(s[i + 1])>> \o f[i + 2]]
      BY Zenon DEF UnescapeAt
    <2> QED
      BY <1>8, <2>1, Zenon
  <1>10. Is(out)
    <2> HIDE DEF Is, f
    <2> QED
      BY <1>9, Zenon
  <1>11. \A i \in 1..(n + 3) : out[i] = UnescapeAt(s, out, i)
    <2> HIDE DEF out
    <2> QED
      BY <1>10, Zenon DEF UnescapeAt
  <1>12. json_unescape(s) = out[1]
    BY Zenon DEF json_unescape
  <1> HIDE DEF out
  <1> QED
    BY <1>11, <1>12, Zenon DEF Unescapes

\* s stands in doc from p on.
Stands(doc, p, s) ==
    p + Len(s) - 1 <= Len(doc) /\ \A j \in 1..Len(s) : doc[p + j - 1] = s[j]

\* In a text made of pieces, e is after how many symbols each piece ends.
Marks(e, text, pieces) ==
    /\ e[0] = 0 /\ e[Len(pieces)] = Len(text)
    /\ \A n \in 0..Len(pieces) : e[n] \in 0..Len(text)
    /\ \A n \in 1..Len(pieces) :
           /\ e[n] = e[n - 1] + Len(pieces[n])
           /\ \A j \in 1..Len(pieces[n]) : text[e[n - 1] + j] = pieces[n][j]

\* One more piece ends with the text.
LEMMA OneMoreMark ==
    ASSUME NEW U, NEW text \in Seq(U), NEW pieces \in Seq(Seq(U)), NEW w \in Seq(U),
           NEW e, Marks(e, text, pieces)
    PROVE  \E next : Marks(next, text \o w, Append(pieces, w))
  <1> DEFINE k == Len(pieces)
             t == text \o w
             p == Append(pieces, w)
             a == Len(text)
             b == Len(w)
             next == [n \in 0..(k + 1) |-> IF n = k + 1 THEN a + b ELSE e[n]]
  <1>1. k \in Nat /\ a \in Nat /\ b \in Nat
    BY LenProperties
  <1>2. /\ Len(t) = a + b
        /\ \A i \in 1..a : t[i] = text[i]
        /\ \A i \in 1..b : t[a + i] = w[i]
    BY JoinIs
  <1>3. /\ Len(p) = k + 1 /\ p[k + 1] = w /\ \A n \in 1..k : p[n] = pieces[n]
    BY AppendProperties
  <1>4. /\ e[0] = 0 /\ e[k] = a /\ \A n \in 0..k : e[n] \in 0..a
        /\ \A n \in 1..k : e[n] = e[n - 1] + Len(pieces[n])
        /\ \A n \in 1..k : \A j \in 1..Len(pieces[n]) : text[e[n - 1] + j] = pieces[n][j]
    BY Zenon DEF Marks
  <1>5. \A n \in 1..k : Len(pieces[n]) \in Nat
    BY ElementOfSeq, LenProperties
  <1>6. /\ next[k + 1] = a + b /\ \A n \in 0..k : next[n] = e[n]
    <2>1. k + 1 \in 0..(k + 1) /\ \A n \in 0..k : n \in 0..(k + 1) /\ n # k + 1
      BY <1>1
    <2> QED
      BY <2>1, Zenon
  <1> HIDE DEF t, p, next, k, a, b
  <1>7. \A n \in 1..(k + 1) : n \in 1..k \/ n = k + 1
    BY <1>1
  <1>8. \A n \in 1..k : n \in 0..k /\ n - 1 \in 0..k
    BY <1>1
  <1>9. 0 \in 0..k /\ k \in 0..k /\ (k + 1) - 1 = k
    BY <1>1
  <1>10. next[0] = 0 /\ next[k + 1] = Len(t)
    BY <1>2, <1>4, <1>6, <1>9
  <1>11. \A n \in 0..(k + 1) : next[n] \in 0..Len(t)
    <2> TAKE n \in 0..(k + 1)
    <2>1. n \in 0..k \/ n = k + 1
      BY <1>1
    <2>2. CASE n = k + 1
      BY <1>1, <1>2, <1>6, <2>2
    <2>3. CASE n \in 0..k
      <3>1. next[n] = e[n] /\ e[n] \in 0..a
        BY <1>4, <1>6, <2>3
      <3> QED
        BY <1>1, <1>2, <3>1
    <2> QED
      BY <2>1, <2>2, <2>3
  <1>12. ASSUME NEW n \in 1..(k + 1)
         PROVE  /\ next[n] = next[n - 1] + Len(p[n])
                /\ \A j \in 1..Len(p[n]) : t[next[n - 1] + j] = p[n][j]
    <2>1. CASE n = k + 1
      <3>1. p[n] = w /\ Len(p[n]) = b /\ next[n - 1] = a /\ next[n] = a + b
        BY <1>3, <1>4, <1>6, <1>9, <2>1 DEF b
      <3>2. \A j \in 1..b : t[a + j] = w[j]
        BY <1>2
      <3> QED
        BY <3>1, <3>2
    <2>2. CASE n \in 1..k
      <3>1. p[n] = pieces[n] /\ next[n - 1] = e[n - 1] /\ next[n] = e[n]
        BY <1>3, <1>6, <1>8, <2>2
      <3>2. e[n] = e[n - 1] + Len(pieces[n]) /\ e[n] \in 0..a /\ e[n - 1] \in 0..a
        BY <1>4, <1>8, <2>2
      <3>3. ASSUME NEW j \in 1..Len(pieces[n])
            PROVE  t[e[n - 1] + j] = pieces[n][j]
        <4>1. e[n - 1] + j \in 1..a
          <5> DEFINE c == e[n - 1]
                     d == e[n]
                     l == Len(pieces[n])
          <5>1. l \in Nat /\ j \in 1..l /\ d = c + l /\ d \in 0..a /\ c \in 0..a
            BY <1>5, <2>2, <3>2
          <5> HIDE DEF c, d, l
          <5>2. c + j \in 1..a
            BY <1>1, <5>1
          <5> QED
            BY <5>2 DEF c
        <4>2. text[e[n - 1] + j] = pieces[n][j]
          BY <1>4, <2>2, Zenon
        <4> QED
          BY <1>2, <4>1, <4>2
      <3> QED
        BY <3>1, <3>2, <3>3
    <2> QED
      BY <1>7, <2>1, <2>2
  <1>13. Marks(next, t, p)
    BY <1>3, <1>10, <1>11, <1>12 DEF Marks
  <1> QED
    BY <1>13 DEF t, p

\* What is joined has the marks of its pieces.
LEMMA FlattenMarks ==
    ASSUME NEW U
    PROVE  \A pieces \in Seq(Seq(U)) : \E e : Marks(e, FlattenSeq(pieces), pieces)
  <1> DEFINE S == {pieces \in Seq(Seq(U)) : \E e : Marks(e, FlattenSeq(pieces), pieces)}
  <1>1. <<>> \in S
    <2> DEFINE e == [n \in 0..0 |-> 0]
    <2>1. FlattenSeq(<<>>) = <<>>
      BY FlattenIs
    <2>2. Marks(e, <<>>, <<>>)
      BY DEF Marks
    <2> HIDE DEF e
    <2> QED
      BY <2>1, <2>2, EmptySeq
  <1>2. ASSUME NEW pieces \in Seq(Seq(U)), NEW w \in Seq(U), pieces \in S
        PROVE  Append(pieces, w) \in S
    <2> DEFINE text == FlattenSeq(pieces)
    <2>1. PICK e : Marks(e, text, pieces)
      BY <1>2
    <2>2. text \in Seq(U) /\ FlattenSeq(Append(pieces, w)) = text \o w
      BY FlattenIs
    <2> HIDE DEF text
    <2>3. \E next : Marks(next, text \o w, Append(pieces, w))
      BY <2>1, <2>2, OneMoreMark
    <2>4. Append(pieces, w) \in Seq(Seq(U))
      BY AppendProperties
    <2> QED
      BY <2>2, <2>3, <2>4
  <1> HIDE DEF S
  <1>3. \A pieces \in Seq(Seq(U)) : pieces \in S
    BY <1>1, <1>2, SequencesBySet
  <1> QED
    BY <1>3 DEF S

\* A piece of a text stands where the text has it.
LEMMA PieceStands ==
    ASSUME NEW doc, NEW p \in Nat, NEW e, NEW text, NEW pieces, Len(pieces) \in Nat,
           Len(text) \in Nat, Len(doc) \in Nat, Marks(e, text, pieces), Stands(doc, p, text),
           NEW n \in 1..Len(pieces), Len(pieces[n]) \in Nat
    PROVE  /\ e[n - 1] \in Nat /\ e[n] \in Nat /\ e[n] = e[n - 1] + Len(pieces[n])
           /\ e[n] <= Len(text)
           /\ Stands(doc, p + e[n - 1], pieces[n])
  <1> DEFINE a == e[n - 1]
             b == e[n]
             w == pieces[n]
             l == Len(w)
             m == Len(text)
  <1>1. a \in 0..m /\ b \in 0..m /\ b = a + l /\ \A j \in 1..l : text[a + j] = w[j]
    <2>1. n \in 0..Len(pieces) /\ n - 1 \in 0..Len(pieces)
      OBVIOUS
    <2> QED
      BY <2>1 DEF Marks
  <1>2. p + m - 1 <= Len(doc) /\ \A j \in 1..m : doc[p + j - 1] = text[j]
    BY DEF Stands
  <1>3. l \in Nat /\ m \in Nat
    OBVIOUS
  <1> HIDE DEF a, b, w, l, m
  <1>4. p + a + l - 1 <= Len(doc)
    BY <1>1, <1>2, <1>3
  <1>5. ASSUME NEW j \in 1..l
        PROVE  doc[p + a + j - 1] = w[j]
    <2>1. a + j \in 1..m /\ p + (a + j) - 1 = p + a + j - 1
      BY <1>1, <1>3
    <2>2. doc[p + (a + j) - 1] = text[a + j]
      BY <1>2, <2>1
    <2> QED
      BY <1>1, <2>1, <2>2
  <1>6. Stands(doc, p + a, w)
    BY <1>4, <1>5 DEF Stands, l
  <1> QED
    BY <1>1, <1>3, <1>6 DEF a, b, w, l, m

\* At q nothing is hidden, and before it no quote is in sight.
ClearAt(h, doc, from, q) ==
    ~h[q] /\ \A i \in from..q : doc[i] = Quote /\ i # q => h[i]

\* A character brings one from a place like that to another.
LEMMA WrittenHides ==
    ASSUME NEW U, IsAlphabet(U), NEW doc \in Seq(U), NEW from \in Nat, NEW p \in Nat,
           from <= p, NEW w \in Written(U), Stands(doc, p, w), p + Len(w) <= Len(doc),
           ClearAt(Hidden(doc, from), doc, from, p)
    PROVE  ClearAt(Hidden(doc, from), doc, from, p + Len(w))
  <1> DEFINE H == Hidden(doc, from)
             n == Len(doc)
             l == Len(w)
  <1>1. n \in Nat
    BY LenProperties
  <1>2. /\ l \in {1, 2, 3}
        /\ \/ l = 1 /\ w[1] # Quote /\ w[1] # Backslash
           \/ l = 2 /\ w[1] = Backslash
           \/ l = 3 /\ w[1] = Backslash /\ w[2] = "u" /\ w[3] \in HexGroups
    BY WrittenIs
  <1>3. \A i \in (from + 1)..n : H[i] <=> doc[i - 1] = Backslash /\ ~H[i - 1]
    <2>1. from <= Len(doc)
      BY <1>1, <1>2
    <2>2. SaysHidden(Hidden(doc, from), doc, from)
      BY <2>1, HiddenIs
    <2> QED
      BY <2>2, Zenon DEF SaysHidden
  <1>4. p + l <= n /\ ~H[p] /\ \A j \in 1..l : doc[p + j - 1] = w[j]
    BY Zenon DEF Stands, ClearAt
  <1>5. \A i \in from..p : doc[i] = Quote /\ i # p => H[i]
    BY Zenon DEF ClearAt
  <1> DEFINE Passed == ~H[p + l] /\ \A i \in p..(p + l - 1) : doc[i] = Quote => H[i]
  <1> HIDE DEF H, n, l
  <1>6. doc[p] = w[1]
    <2>1. 1 \in 1..l /\ p + 1 - 1 = p
      BY <1>2
    <2> QED
      BY <1>4, <2>1
  <1>7. l >= 2 => doc[p + 1] = w[2]
    <2>1. p + 2 - 1 = p + 1 /\ (l >= 2 => 2 \in 1..l)
      BY <1>2
    <2> QED
      BY <1>4, <2>1
  <1>8. l = 3 => doc[p + 2] = w[3]
    <2>1. p + 3 - 1 = p + 2 /\ (l = 3 => 3 \in 1..l)
      BY <1>2
    <2> QED
      BY <1>4, <2>1
  <1>9. H[p + 1] <=> doc[p] = Backslash
    <2>1. p + 1 \in (from + 1)..n /\ (p + 1) - 1 = p
      BY <1>1, <1>2, <1>4
    <2>2. H[p + 1] <=> doc[p] = Backslash /\ ~H[p]
      BY <1>3, <2>1
    <2> QED
      BY <1>4, <2>2, Zenon
  <1>10. l >= 2 => (H[p + 2] <=> doc[p + 1] = Backslash /\ ~H[p + 1])
    <2>1. l >= 2 => p + 2 \in (from + 1)..n /\ (p + 2) - 1 = p + 1
      BY <1>1, <1>2, <1>4
    <2> QED
      BY <1>3, <2>1
  <1>11. l = 3 => (H[p + 3] <=> doc[p + 2] = Backslash /\ ~H[p + 2])
    <2>1. l = 3 => p + 3 \in (from + 1)..n /\ (p + 3) - 1 = p + 2
      BY <1>1, <1>2, <1>4
    <2> QED
      BY <1>3, <2>1
  <1>12. ASSUME l = 1 /\ w[1] # Quote /\ w[1] # Backslash
         PROVE  Passed
    <2>1. ~H[p + l]
      BY <1>6, <1>9, <1>12, Zenon
    <2>2. \A i \in p..(p + l - 1) : i = p
      BY <1>12
    <2> QED
      BY <1>6, <1>12, <2>1, <2>2, Zenon
  <1>13. ASSUME l = 2 /\ w[1] = Backslash
         PROVE  Passed
    <2>1. H[p + 1]
      BY <1>6, <1>9, <1>13, Zenon
    <2>2. 2 >= 2
      OBVIOUS
    <2>3. ~H[p + l]
      BY <1>10, <1>13, <2>1, <2>2, Zenon
    <2>4. \A i \in p..(p + l - 1) : i = p \/ i = p + 1
      BY <1>13
    <2>5. doc[p] # Quote
      BY <1>6, <1>13, EscapesDiffer, Zenon
    <2> QED
      BY <2>1, <2>3, <2>4, <2>5, Zenon
  <1>14. ASSUME l = 3 /\ w[1] = Backslash /\ w[2] = "u" /\ w[3] \in HexGroups
         PROVE  Passed
    <2>1. 3 >= 2
      OBVIOUS
    <2>2. /\ doc[p] = Backslash /\ doc[p + 1] = "u" /\ doc[p + 2] \in HexGroups
      BY <1>6, <1>7, <1>8, <1>14, <2>1, Zenon
    <2>3. /\ doc[p] # Quote /\ doc[p + 1] # Quote /\ doc[p + 2] # Quote
          /\ doc[p + 2] # Backslash
      BY <2>2, EscapesDiffer, Zenon
    <2>4. ~H[p + l]
      BY <1>11, <1>14, <2>3, Zenon
    <2>5. \A i \in p..(p + l - 1) : i = p \/ i = p + 1 \/ i = p + 2
      BY <1>14
    <2> QED
      BY <2>3, <2>4, <2>5, Zenon
  <1>15. Passed
    BY <1>2, <1>12, <1>13, <1>14
  <1>16. \A i \in from..(p + l) :
             i = p + l \/ (i \in from..p /\ i # p) \/ i \in p..(p + l - 1)
    BY <1>2
  <1> QED
    <2>1. ~H[p + l]
      BY <1>15, Zenon
    <2>2. \A i \in from..(p + l) : doc[i] = Quote /\ i # p + l => H[i]
      BY <1>5, <1>15, <1>16, Zenon
    <2>3. ClearAt(H, doc, from, p + l)
      BY <2>1, <2>2, Zenon DEF ClearAt
    <2> QED
      BY <2>3 DEF H, l

\* The characters of a text are what a serialiser may write, one after the other.
LEMMA WrittenAreTexts ==
    ASSUME NEW U, IsAlphabet(U), NEW ws \in Seq(Written(U))
    PROVE  /\ ws \in Seq(Seq(U)) /\ FlattenSeq(ws) \in Seq(U) /\ Len(ws) \in Nat
           /\ Len(FlattenSeq(ws)) \in Nat
           /\ \A n \in 1..Len(ws) : ws[n] \in Written(U) /\ ws[n] \in Seq(U) /\ Len(ws[n]) \in Nat
           /\ \E e : Marks(e, FlattenSeq(ws), ws)
  <1>1. \A w \in Written(U) : w \in Seq(U)
    BY WrittenIs
  <1>2. \A n \in 1..Len(ws) : ws[n] \in Written(U)
    BY ElementOfSeq
  <1>3. ws \in Seq(Seq(U)) /\ Len(ws) \in Nat
    <2> DEFINE V == Written(U)
               X == Seq(U)
    <2>1. V \subseteq X /\ ws \in Seq(V)
      BY <1>1
    <2> HIDE DEF V, X
    <2>2. ws \in Seq(X) /\ Len(ws) \in Nat
      BY <2>1, LenProperties
    <2> QED
      BY <2>2 DEF X
  <1>4. FlattenSeq(ws) \in Seq(U)
    BY <1>3, FlattenIs
  <1>5. Len(FlattenSeq(ws)) \in Nat
    BY <1>4, LenProperties
  <1>6. \A n \in 1..Len(ws) : ws[n] \in Seq(U) /\ Len(ws[n]) \in Nat
    BY <1>1, <1>2, LenProperties
  <1>7. \E e : Marks(e, FlattenSeq(ws), ws)
    BY <1>3, FlattenMarks
  <1> QED
    BY <1>2, <1>3, <1>4, <1>5, <1>6, <1>7

\* A string ends at the quote after its text, whatever the text is: each quote in the
\* text comes behind a backslash.
LEMMA StringEndIs ==
    ASSUME NEW U, IsAlphabet(U), NEW ws \in Seq(Written(U)), NEW doc \in Seq(U),
           NEW from \in Nat \ {0}, Stands(doc, from, FlattenSeq(ws)),
           from + Len(FlattenSeq(ws)) <= Len(doc), doc[from + Len(FlattenSeq(ws))] = Quote
    PROVE  /\ StringEnd(doc, from) = from + Len(FlattenSeq(ws))
           /\ \A i \in from..(from + Len(FlattenSeq(ws)) - 1) :
                  doc[i] = Quote => i > from /\ doc[i - 1] = Backslash
  <1> DEFINE text == FlattenSeq(ws)
             k == Len(ws)
             m == Len(text)
             H == Hidden(doc, from)
  <1>1. /\ k \in Nat /\ text \in Seq(U) /\ m \in Nat
        /\ \A n \in 1..k : ws[n] \in Written(U) /\ Len(ws[n]) \in Nat
    BY WrittenAreTexts
  <1>2. PICK e : Marks(e, text, ws)
    BY WrittenAreTexts
  <1>3. Stands(doc, from, text) /\ from + m <= Len(doc) /\ doc[from + m] = Quote
    OBVIOUS
  <1>4. Len(doc) \in Nat
    BY LenProperties
  <1>5. \A n \in 1..k : /\ e[n - 1] \in Nat /\ e[n] \in Nat /\ e[n] = e[n - 1] + Len(ws[n])
                        /\ e[n] <= m
                        /\ Stands(doc, from + e[n - 1], ws[n])
    <2> HIDE DEF text
    <2> QED
      BY <1>1, <1>2, <1>3, <1>4, PieceStands
  <1>6. e[0] = 0 /\ e[k] = m
    BY <1>2 DEF Marks
  <1> HIDE DEF text, k, m
  <1> DEFINE S == {n \in Nat : n <= k => ClearAt(H, doc, from, from + e[n])}
  <1>7. /\ ~H[from]
        /\ \A i \in (from + 1)..Len(doc) : H[i] <=> doc[i - 1] = Backslash /\ ~H[i - 1]
    <2>1. from <= Len(doc)
      BY <1>1, <1>3, <1>4
    <2>2. SaysHidden(Hidden(doc, from), doc, from)
      BY <2>1, HiddenIs
    <2> QED
      BY <2>2, Zenon DEF SaysHidden
  <1> HIDE DEF H
  <1>8. 0 \in S
    <2>1. from + e[0] = from /\ \A i \in from..from : i = from
      BY <1>6
    <2>2. ClearAt(H, doc, from, from)
      BY <1>7, <2>1, Zenon DEF ClearAt
    <2> QED
      BY <2>1, <2>2
  <1>9. ASSUME NEW n \in Nat, n \in S
        PROVE  n + 1 \in S
    <2> SUFFICES ASSUME n + 1 <= k
                 PROVE  ClearAt(H, doc, from, from + e[n + 1])
      OBVIOUS
    <2> DEFINE p == from + e[n]
               w == ws[n + 1]
               l == Len(w)
    <2>1. n + 1 \in 1..k /\ (n + 1) - 1 = n /\ n <= k
      BY <1>1
    <2>2. /\ e[n] \in Nat /\ e[n + 1] = e[n] + l /\ e[n + 1] <= m
          /\ Stands(doc, p, w)
      BY <1>5, <2>1
    <2>3. w \in Written(U) /\ l \in Nat
      BY <1>1, <2>1, Zenon
    <2>4. ClearAt(H, doc, from, p)
      BY <1>9, <2>1
    <2> HIDE DEF w, l
    <2>5. p \in Nat /\ from <= p /\ p + l <= Len(doc) /\ from + e[n + 1] = p + l
      <3> DEFINE a == e[n]
                 b == e[n + 1]
                 L == Len(doc)
      <3>1. /\ from \in Nat /\ m \in Nat /\ l \in Nat /\ a \in Nat /\ L \in Nat
            /\ b = a + l /\ b <= m /\ from + m <= L
        BY <1>1, <1>3, <1>4, <2>2, <2>3
      <3> HIDE DEF a, b, L
      <3>2. from + a \in Nat /\ from <= from + a /\ (from + a) + l <= L /\ from + b = (from + a) + l
        BY <3>1
      <3> QED
        BY <3>2, Zenon DEF a, b, L
    <2> HIDE DEF p
    <2>6. ClearAt(H, doc, from, p + l)
      BY <2>2, <2>3, <2>4, <2>5, WrittenHides DEF H, l
    <2> QED
      BY <2>5, <2>6
  <1> HIDE DEF S
  <1>10. k \in S
    BY <1>1, <1>8, <1>9, NumbersBySet
  <1>11. ~H[from + m] /\ \A i \in from..(from + m) : doc[i] = Quote /\ i # from + m => H[i]
    <2>1. ClearAt(H, doc, from, from + m)
      BY <1>1, <1>6, <1>10 DEF S
    <2> QED
      BY <2>1, Zenon DEF ClearAt
  <1> DEFINE ends == {i \in from..Len(doc) : doc[i] = Quote /\ ~H[i]} \cup {Len(doc) + 1}
  <1>12. ends \subseteq Nat /\ from + m \in ends /\ \A x \in ends : from + m <= x
    <2>1. from + m \in ends
      <3>1. from + m \in from..Len(doc)
        BY <1>1, <1>3, <1>4
      <3> QED
        BY <1>3, <1>11, <3>1, Zenon
    <2>2. ASSUME NEW x \in ends
          PROVE  x \in Nat /\ from + m <= x
      <3>1. CASE x = Len(doc) + 1
        BY <1>1, <1>3, <1>4, <3>1
      <3>2. CASE x # Len(doc) + 1
        <4>1. x \in from..Len(doc) /\ doc[x] = Quote /\ ~H[x]
          BY <3>2, Zenon
        <4>2. ~(x \in from..(from + m) /\ x # from + m)
          BY <1>11, <4>1, Zenon
        <4> QED
          BY <1>1, <1>4, <4>1, <4>2
      <3> QED
        BY <3>1, <3>2
    <2> QED
      BY <2>1, <2>2, Zenon
  <1>13. StringEnd(doc, from) = Min(ends)
    BY Zenon DEF StringEnd, H
  <1> HIDE DEF ends
  <1>14. StringEnd(doc, from) = from + m
    BY <1>12, <1>13, MinIs
  <1>15. ASSUME NEW i \in from..(from + m - 1), doc[i] = Quote
         PROVE  i > from /\ doc[i - 1] = Backslash
    <2>1. i \in from..(from + m) /\ i # from + m /\ (i # from => i \in (from + 1)..Len(doc))
      BY <1>1, <1>3, <1>4
    <2>2. H[i]
      BY <1>11, <1>15, <2>1, Zenon
    <2>3. i # from
      BY <1>7, <2>2, Zenon
    <2>4. doc[i - 1] = Backslash
      BY <1>7, <2>1, <2>2, <2>3, Zenon
    <2> QED
      BY <2>1, <2>3, <2>4
  <1> QED
    BY <1>14, <1>15 DEF m, text

\* A character is read as what it means, and what follows it after that.
LEMMA CharacterIsMeant ==
    ASSUME NEW U, IsAlphabet(U), NEW s \in Seq(U), NEW out, Unescapes(out, s),
           NEW p \in Nat \ {0}, NEW w \in Written(U), Stands(s, p, w)
    PROVE  out[p] = Meant(w) \o out[p + Len(w)]
  <1> DEFINE n == Len(s)
             l == Len(w)
  <1>1. n \in Nat
    BY LenProperties
  <1>2. \/ l = 1 /\ w[1] # Backslash /\ Meant(w) = <<w[1]>>
        \/ l = 2 /\ w[1] = Backslash /\ w[2] # "u" /\ Meant(w) = <<Unescaped(w[2])>>
        \/ l = 3 /\ w[1] = Backslash /\ w[2] = "u" /\ Meant(w) = HexValue[w[3]]
    BY WrittenIs
  <1>3. p + l - 1 <= n /\ \A j \in 1..l : s[p + j - 1] = w[j]
    BY DEF Stands
  <1>4. \A i \in 1..(n + 3) : out[i] = UnescapeAt(s, out, i)
    BY Zenon DEF Unescapes
  <1> HIDE DEF l
  <1>5. p \in 1..(n + 3) /\ ~(p > n)
    BY <1>1, <1>2, <1>3 DEF n
  <1>6. out[p] = UnescapeAt(s, out, p)
    BY <1>4, <1>5
  <1>7. s[p] = w[1]
    <2>1. 1 \in 1..l /\ p + 1 - 1 = p
      BY <1>2
    <2> QED
      BY <1>3, <2>1
  <1>8. l >= 2 => s[p + 1] = w[2] /\ p # n
    <2>1. p + 2 - 1 = p + 1 /\ (l >= 2 => 2 \in 1..l) /\ (l >= 2 => p # n)
      BY <1>1, <1>2, <1>3
    <2> QED
      BY <1>3, <2>1
  <1>9. l = 3 => s[p + 2] = w[3] /\ p + 1 < n
    <2>1. p + 3 - 1 = p + 2 /\ (l = 3 => 3 \in 1..l) /\ (l = 3 => p + 1 < n)
      BY <1>1, <1>2, <1>3
    <2> QED
      BY <1>3, <2>1
  <1>10. CASE l = 1 /\ w[1] # Backslash /\ Meant(w) = <<w[1]>>
    <2>1. out[p] = <<s[p]>> \o out[p + 1]
      BY <1>5, <1>6, <1>7, <1>10, Zenon DEF UnescapeAt
    <2> QED
      BY <1>7, <1>10, <2>1, Zenon DEF l
  <1>11. CASE l = 2 /\ w[1] = Backslash /\ w[2] # "u" /\ Meant(w) = <<Unescaped(w[2])>>
    <2>1. s[p] = Backslash /\ s[p + 1] = w[2] /\ p # n
      BY <1>7, <1>8, <1>11
    <2>2. out[p] = <<Unescaped(s[p + 1])>> \o out[p + 2]
      BY <1>5, <1>6, <1>11, <2>1, Zenon DEF UnescapeAt
    <2> QED
      BY <1>11, <2>1, <2>2, Zenon DEF l
  <1>12. CASE l = 3 /\ w[1] = Backslash /\ w[2] = "u" /\ Meant(w) = HexValue[w[3]]
    <2>1. s[p] = Backslash /\ s[p + 1] = "u" /\ s[p + 2] = w[3] /\ p # n /\ p + 1 < n
      BY <1>7, <1>8, <1>9, <1>12
    <2>2. out[p] = HexValue[s[p + 2]] \o out[p + 3]
      BY <1>5, <1>6, <2>1, Zenon DEF UnescapeAt
    <2> QED
      BY <1>12, <2>1, <2>2, Zenon DEF l
  <1> QED
    BY <1>2, <1>10, <1>11, <1>12

\* What the characters of a text mean.
Meaning(ws) == FlattenSeq([i \in DOMAIN ws |-> Meant(ws[i])])

\* A text is read as what its characters mean: by induction over the marks, from
\* the end for what is to come, from the beginning for what has been read.
LEMMA TextIsUnescaped ==
    ASSUME NEW U, IsAlphabet(U), NEW ws \in Seq(Written(U))
    PROVE  json_unescape(FlattenSeq(ws)) = Meaning(ws)
  <1> DEFINE text == FlattenSeq(ws)
             k == Len(ws)
             m == Len(text)
             ms == [i \in 1..k |-> Meant(ws[i])]
             T == Seq(U)
  <1>1. /\ k \in Nat /\ text \in T /\ m \in Nat /\ DOMAIN ws = 1..k
        /\ \A n \in 1..k : ws[n] \in Written(U) /\ Len(ws[n]) \in Nat
    BY WrittenAreTexts, LenProperties
  <1>2. PICK e : Marks(e, text, ws)
    BY WrittenAreTexts
  <1>3. e[0] = 0 /\ e[k] = m
    BY <1>2 DEF Marks
  <1>4. PICK out : json_unescape(text) = out[1] /\ Unescapes(out, text)
    <2> HIDE DEF text
    <2> QED
      BY <1>1, UnescapeIs
  <1>5. ms \in Seq(T) /\ Len(ms) = k /\ \A n \in 1..k : ms[n] \in T /\ ms[n] = Meant(ws[n])
    <2>1. \A n \in 1..k : Meant(ws[n]) \in T
      BY <1>1, WrittenIs
    <2> HIDE DEF T
    <2> QED
      BY <1>1, <2>1
  <1>6. Stands(text, 1, text)
    <2> HIDE DEF text
    <2>1. \A j \in 1..m : 1 + j - 1 = j
      BY <1>1
    <2>2. 1 + m - 1 <= m
      BY <1>1
    <2> QED
      BY <2>1, <2>2 DEF Stands
  <1>7. \A n \in 1..k : /\ e[n - 1] \in Nat /\ e[n] \in Nat
                         /\ e[n] = e[n - 1] + Len(ws[n])
                         /\ Stands(text, 1 + e[n - 1], ws[n])
    <2> HIDE DEF text, ms
    <2> QED
      BY <1>1, <1>2, <1>6, PieceStands
  <1>8. Meaning(ws) = FlattenSeq(ms)
    BY <1>1, Zenon DEF Meaning
  <1> HIDE DEF text, k, m, ms
  <1>9. out[m + 1] = <<>>
    <2>1. m + 1 \in 1..(m + 3) /\ m + 1 > m
      BY <1>1
    <2> QED
      BY <1>4, <2>1 DEF UnescapeAt, Unescapes, m
  <1>10. \A n \in 1..k : /\ e[n - 1] \in Nat /\ e[n] \in Nat
                        /\ out[e[n - 1] + 1] = ms[n] \o out[e[n] + 1]
    <2> TAKE n \in 1..k
    <2>1. /\ e[n - 1] \in Nat /\ e[n] \in Nat /\ e[n] = e[n - 1] + Len(ws[n])
          /\ Stands(text, 1 + e[n - 1], ws[n])
      BY <1>7, Zenon
    <2> DEFINE w == ws[n]
               p == e[n - 1] + 1
    <2>2. /\ e[n - 1] \in Nat /\ e[n] \in Nat /\ e[n] = e[n - 1] + Len(w)
          /\ Stands(text, 1 + e[n - 1], w)
      BY <2>1, Zenon
    <2>3. p \in Nat \ {0} /\ 1 + e[n - 1] = p /\ p + Len(w) = e[n] + 1
      <3>1. Len(w) \in Nat
        BY <1>1, Zenon
      <3> DEFINE a == e[n - 1]
                 l == Len(w)
      <3>2. a \in Nat /\ l \in Nat /\ e[n] = a + l /\ p = a + 1
        BY <2>2, <3>1, Zenon
      <3> HIDE DEF a, l, p, w
      <3>3. p \in Nat \ {0} /\ 1 + a = p /\ p + l = e[n] + 1
        BY <3>2
      <3> QED
        BY <3>3 DEF a, l
    <2>4. w \in Written(U) /\ text \in Seq(U)
      BY <1>1
    <2>5. Unescapes(out, text)
      BY <1>4
    <2>6. Stands(text, p, w)
      BY <2>2, <2>3
    <2> HIDE DEF p, w
    <2>7. out[p] = Meant(w) \o out[p + Len(w)]
      BY <2>3, <2>4, <2>5, <2>6, CharacterIsMeant
    <2>8. ms[n] = Meant(w)
      BY <1>5 DEF w
    <2> QED
      BY <2>2, <2>3, <2>7, <2>8 DEF p
  <1>11. \A n \in 0..k : out[e[n] + 1] \in T
    <2> DEFINE S == {j \in Nat : j <= k => out[e[k - j] + 1] \in T}
    <2>1. 0 \in S
      <3>1. k - 0 = k /\ <<>> \in T
        BY <1>1, EmptySeq
      <3> QED
        BY <1>3, <1>9, <3>1
    <2>2. ASSUME NEW j \in Nat, j \in S
          PROVE  j + 1 \in S
      <3> SUFFICES ASSUME j + 1 <= k
                   PROVE  out[e[k - (j + 1)] + 1] \in T
        OBVIOUS
      <3> DEFINE n == k - j
      <3>1. n \in 1..k /\ k - (j + 1) = n - 1 /\ j <= k
        BY <1>1
      <3>2. out[e[n] + 1] \in T
        BY <2>2, <3>1
      <3> HIDE DEF n
      <3>3. ms[n] \in T /\ out[e[n - 1] + 1] = ms[n] \o out[e[n] + 1]
        BY <1>5, <1>10, <3>1
      <3>4. out[e[n - 1] + 1] \in T
        BY <3>2, <3>3, ConcatProperties
      <3> QED
        BY <3>1, <3>4
    <2> HIDE DEF S
    <2>3. \A j \in Nat : j \in S
      BY <2>1, <2>2, NumbersBySet
    <2> TAKE n \in 0..k
    <2>4. k - n \in Nat /\ k - n <= k /\ k - (k - n) = n
      BY <1>1
    <2>5. k - n \in S
      BY <2>3, <2>4
    <2> QED
      BY <2>4, <2>5 DEF S
  <1>12. CASE k = 0
    <2>1. ms = <<>>
      <3>1. ms \in Seq(T) /\ Len(ms) = 0
        BY <1>5, <1>12
      <3> HIDE DEF T
      <3> QED
        BY <3>1, EmptySeq
    <2>2. FlattenSeq(ms) = <<>>
      BY <2>1, FlattenIs
    <2>3. m + 1 = 1
      BY <1>3, <1>12
    <2> QED
      BY <1>4, <1>8, <1>9, <2>2, <2>3 DEF text
  <1>13. CASE k # 0
    <2>1. ms # <<>> /\ ms \in Seq(Seq(U))
      <3>1. Len(ms) # 0
        BY <1>5, <1>13
      <3> QED
        BY <1>5, <3>1
    <2>2. PICK f : /\ f[1] = ms[1]
                   /\ \A i \in 2..Len(ms) : f[i] = f[i - 1] \o ms[i]
                   /\ \A i \in 1..Len(ms) : f[i] \in Seq(U)
                   /\ FlattenSeq(ms) = f[Len(ms)]
      BY <2>1, FlattenLoop
    <2>3. /\ \A i \in 2..k : f[i] = f[i - 1] \o ms[i]
          /\ \A i \in 1..k : f[i] \in T
          /\ FlattenSeq(ms) = f[k]
      BY <1>5, <2>2
    <2> DEFINE S == {j \in Nat : j + 1 <= k => out[1] = f[j + 1] \o out[e[j + 1] + 1]}
    <2>4. 0 \in S
      <3>1. 1 \in 1..k /\ e[1 - 1] + 1 = 1 /\ 0 + 1 = 1
        BY <1>1, <1>3, <1>13
      <3>2. out[e[1 - 1] + 1] = ms[1] \o out[e[1] + 1]
        BY <1>10, <3>1
      <3> QED
        BY <2>2, <3>1, <3>2
    <2>5. ASSUME NEW j \in Nat, j \in S
          PROVE  j + 1 \in S
      <3> DEFINE n == j + 1
      <3> SUFFICES ASSUME n + 1 <= k
                   PROVE  out[1] = f[n + 1] \o out[e[n + 1] + 1]
        <4>1. j + 1 \in Nat
          OBVIOUS
        <4> QED
          BY <4>1, Zenon
      <3>1. /\ n \in 1..k /\ n + 1 \in 2..k /\ n + 1 \in 1..k /\ (n + 1) - 1 = n
            /\ n + 1 \in 0..k /\ n <= k
        BY <1>1
      <3>2. out[1] = f[n] \o out[e[n] + 1]
        BY <2>5, <3>1
      <3> HIDE DEF n
      <3>3. out[e[n] + 1] = ms[n + 1] \o out[e[n + 1] + 1]
        BY <1>10, <3>1
      <3>4. f[n + 1] = f[n] \o ms[n + 1]
        BY <2>3, <3>1
      <3>5. f[n] \in T /\ ms[n + 1] \in T /\ out[e[n + 1] + 1] \in T
        BY <1>5, <1>11, <2>3, <3>1
      <3> DEFINE a == f[n]
                 b == ms[n + 1]
                 c == out[e[n + 1] + 1]
      <3>6. (a \o b) \o c = a \o (b \o c)
        <4>1. a \in Seq(U) /\ b \in Seq(U) /\ c \in Seq(U)
          BY <3>5
        <4> HIDE DEF a, b, c
        <4> QED
          BY <4>1, Associates
      <3> QED
        BY <3>2, <3>3, <3>4, <3>6, Zenon
    <2> HIDE DEF S
    <2>6. \A j \in Nat : j \in S
      BY <2>4, <2>5, NumbersBySet
    <2>7. k - 1 \in Nat /\ (k - 1) + 1 = k /\ k <= k
      BY <1>1, <1>13
    <2>8. out[1] = f[k] \o out[e[k] + 1]
      <3>1. k - 1 \in S
        BY <2>6, <2>7
      <3>2. (k - 1) + 1 <= k => out[1] = f[(k - 1) + 1] \o out[e[(k - 1) + 1] + 1]
        BY <3>1 DEF S
      <3> QED
        BY <2>7, <3>2, Zenon
    <2>9. out[e[k] + 1] = <<>> /\ f[k] \in Seq(U)
      <3>1. k \in 1..k
        BY <1>1, <1>13
      <3> QED
        BY <1>3, <1>9, <2>3, <3>1
    <2>10. f[k] \o <<>> = f[k]
      BY <2>9, ConcatEmptySeq
    <2> QED
      BY <1>4, <1>8, <2>3, <2>8, <2>9, <2>10 DEF text
  <1> QED
    BY <1>12, <1>13

\* A text in quotes.
LEMMA QuotedIs ==
    ASSUME NEW U, Quote \in U, NEW text \in Seq(U)
    PROVE  /\ Quoted(text) \in Seq(U) /\ Len(text) \in Nat
           /\ Len(Quoted(text)) = Len(text) + 2
           /\ Quoted(text)[1] = Quote /\ Quoted(text)[Len(text) + 2] = Quote
           /\ \A j \in 1..Len(text) : Quoted(text)[1 + j] = text[j]
  <1> DEFINE one == <<Quote>>
             left == one \o text
             q == left \o one
             m == Len(text)
  <1>1. one \in Seq(U) /\ Len(one) = 1 /\ one[1] = Quote
    OBVIOUS
  <1>2. q = Quoted(text)
    BY Zenon DEF Quoted
  <1> HIDE DEF one
  <1>3. /\ left \in Seq(U) /\ m \in Nat
        /\ Len(left) = Len(one) + Len(text)
        /\ \A i \in 1..Len(one) : left[i] = one[i]
        /\ \A i \in 1..Len(text) : left[Len(one) + i] = text[i]
    <2>1. one \in Seq(U) /\ text \in Seq(U)
      BY <1>1
    <2> QED
      BY <2>1, JoinIs
  <1> HIDE DEF left
  <1>4. /\ q \in Seq(U) /\ Len(q) = Len(left) + Len(one)
        /\ \A i \in 1..Len(left) : q[i] = left[i]
        /\ \A i \in 1..Len(one) : q[Len(left) + i] = one[i]
    <2>1. left \in Seq(U) /\ one \in Seq(U)
      BY <1>1, <1>3
    <2> QED
      BY <2>1, JoinIs
  <1> HIDE DEF q
  <1>5. /\ 1 \in 1..Len(one) /\ 1 \in 1..Len(left) /\ Len(left) + 1 = m + 2 /\ Len(q) = m + 2
        /\ \A j \in 1..m : 1 + j \in 1..Len(left) /\ Len(one) + j = 1 + j
    BY <1>1, <1>3, <1>4
  <1>6. q[1] = Quote /\ q[m + 2] = Quote
    BY <1>1, <1>3, <1>4, <1>5
  <1>7. \A j \in 1..m : q[1 + j] = text[j]
    BY <1>1, <1>3, <1>4, <1>5
  <1> QED
    BY <1>2, <1>3, <1>4, <1>5, <1>6, <1>7

\* Wherever a string stands in a document, json_string_field() finds its end and reads
\* it as what it means: whatever its text is, however long, and whatever is around it,
\* in whatever way it is written but for \uXXXX above 0x7f, which json_unescape() drops.
THEOREM StringIsRead ==
    ASSUME NEW U, IsAlphabet(U), NEW ws \in Seq(Written(U)), NEW doc \in Seq(U),
           NEW p \in Nat \ {0}, Stands(doc, p, Quoted(FlattenSeq(ws)))
    PROVE  StringAt(doc, p) = Meaning(ws)
  <1> DEFINE text == FlattenSeq(ws)
             m == Len(text)
             q == Quoted(text)
             from == p + 1
             end == from + m
  <1>1. text \in Seq(U) /\ m \in Nat /\ Len(doc) \in Nat /\ Quote \in U
    BY WrittenAreTexts, LenProperties DEF IsAlphabet
  <1>2. Stands(doc, p, q)
    OBVIOUS
  <1> HIDE DEF text
  <1>3. /\ q \in Seq(U) /\ Len(q) = m + 2 /\ q[1] = Quote /\ q[m + 2] = Quote
        /\ \A j \in 1..m : q[1 + j] = text[j]
    BY <1>1, QuotedIs
  <1> HIDE DEF q, m
  <1>4. p + (m + 2) - 1 <= Len(doc) /\ \A j \in 1..(m + 2) : doc[p + j - 1] = q[j]
    BY <1>2, <1>3 DEF Stands
  <1>5. /\ from \in Nat \ {0} /\ end \in Nat /\ end <= Len(doc)
        /\ m + 2 \in 1..(m + 2) /\ p + (m + 2) - 1 = end
        /\ \A j \in 1..m : 1 + j \in 1..(m + 2) /\ p + (1 + j) - 1 = from + j - 1
    BY <1>1, <1>4
  <1>6. doc[end] = Quote
    BY <1>3, <1>4, <1>5
  <1>7. \A j \in 1..m : doc[from + j - 1] = text[j]
    BY <1>3, <1>4, <1>5
  <1>8. Stands(doc, from, text)
    <2>1. from + m - 1 <= Len(doc)
      BY <1>1, <1>5
    <2> QED
      BY <1>7, <2>1 DEF Stands, m
  <1>9. StringEnd(doc, from) = end
    <2>1. from + Len(text) <= Len(doc) /\ doc[from + Len(text)] = Quote
      BY <1>5, <1>6 DEF m
    <2> HIDE DEF from
    <2>2. StringEnd(doc, from) = from + Len(text)
      BY <1>5, <1>8, <2>1, StringEndIs DEF text
    <2> QED
      BY <2>2 DEF m
  <1> HIDE DEF from, end
  <1>10. Between(doc, p, end) = text
    <2> DEFINE u == SubSeq(doc, from, end - 1)
    <2>1. Between(doc, p, end) = u
      BY Zenon DEF Between, from
    <2>2. end - 1 = p + m /\ from = p + 1 /\ end - 1 <= Len(doc)
      BY <1>1, <1>5 DEF from, end
    <2>3. \A i \in from..(end - 1) : doc[i] \in U
      <3>1. \A i \in from..(end - 1) : i \in 1..Len(doc)
        BY <1>1, <1>5, <2>2
      <3> QED
        BY <3>1, ElementOfSeq
    <2>4. /\ u \in Seq(U) /\ Len(u) = IF from <= end - 1 THEN end - 1 - from + 1 ELSE 0
          /\ \A i \in 1..(end - 1 - from + 1) : u[i] = doc[from + i - 1]
      BY <1>1, <1>5, <2>2, <2>3, SubSeqProperties
    <2> HIDE DEF u
    <2>5. Len(u) = m /\ end - 1 - from + 1 = m
      BY <1>1, <2>2, <2>4
    <2>6. \A i \in 1..m : u[i] = text[i]
      BY <1>7, <2>4, <2>5
    <2> QED
      BY <1>1, <2>1, <2>4, <2>5, <2>6, SameSequence DEF m
  <1>11. StringAt(doc, p) = json_unescape(text)
    <2>1. p # 0
      OBVIOUS
    <2>2. StringAt(doc, p) = json_unescape(Between(doc, p, StringEnd(doc, from)))
      BY <2>1, Zenon DEF StringAt, from
    <2> QED
      BY <1>9, <1>10, <2>2, Zenon
  <1> QED
    BY <1>11, TextIsUnescaped DEF text

-----------------------------------------------------------------------------
(* Fields                                                                  *)

\* What objects are laid out with, and what may be the key of a field: nothing
\* that has a meaning of its own behind one.
Opening == "{"
Closing == "}"
Follows == {Comma, Closing}
Layout == {Colon, Opening} \cup Follows
Keys(U) == U \ ({Quote, Backslash, Colon} \cup Follows)

StringFields(U) == [key : Keys(U), text : Seq(Written(U))]

\* The fields of an object, each with its key and its value in quotes.
Serialised(fields) ==
    [n \in DOMAIN fields |-> <<fields[n].key, Quoted(FlattenSeq(fields[n].text))>>]

\* What documents are laid out with differs.
LEMMA LayoutDiffers ==
    /\ Quote # Backslash /\ Quote # Colon /\ Quote # Comma /\ Quote # Opening
    /\ Quote \notin Follows /\ Colon \notin Follows
  BY Zenon DEF Quote, Backslash, Colon, Comma, Opening, Closing, Follows

\* What looks like the beginning of a field.
FieldAt(doc, i, key) ==
    doc[i] = Quote /\ doc[i + 1] = key /\ doc[i + 2] = Quote /\ doc[i + 3] = Colon

\* Where the string field at q ends.
FieldEnd(q, text) == q + 5 + Len(FlattenSeq(text))

\* A field with a string stands at q, and another or the end of the object behind it.
FieldStands(doc, q, f) ==
    /\ FieldAt(doc, q, f.key) /\ Stands(doc, q + 4, Quoted(FlattenSeq(f.text)))
    /\ FieldEnd(q, f.text) < Len(doc) /\ doc[FieldEnd(q, f.text) + 1] \in Follows

\* Where a needle for a field with a string is found.
LEMMA FieldsFound ==
    ASSUME NEW T, NEW doc \in Seq(T), NEW key
    PROVE  Occurrences(doc, Needle(key, <<Quote>>), 1)
               = {i \in 1..(Len(doc) - 4) : FieldAt(doc, i, key) /\ doc[i + 4] = Quote}
  <1> DEFINE needle == Needle(key, <<Quote>>)
             head == <<Quote, key, Quote, Colon>>
             one == <<Quote>>
             V == {Quote, key, Colon}
  <1>1. /\ head \in Seq(V) /\ Len(head) = 4 /\ one \in Seq(V) /\ Len(one) = 1
        /\ head[1] = Quote /\ head[2] = key /\ head[3] = Quote /\ head[4] = Colon
        /\ one[1] = Quote
    OBVIOUS
  <1>2. needle = head \o one
    BY Zenon DEF Needle
  <1> HIDE DEF head, one, V, needle
  <1>3. /\ needle \in Seq(V) /\ Len(needle) = Len(head) + Len(one)
        /\ \A i \in 1..Len(head) : needle[i] = head[i]
        /\ \A i \in 1..Len(one) : needle[Len(head) + i] = one[i]
    <2>1. head \in Seq(V) /\ one \in Seq(V)
      BY <1>1
    <2> QED
      BY <1>2, <2>1, JoinIs
  <1>4. /\ Len(needle) = 5 /\ DOMAIN needle = 1..5
        /\ needle[1] = Quote /\ needle[2] = key /\ needle[3] = Quote /\ needle[4] = Colon
        /\ needle[5] = Quote
    <2>1. 4 + 1 = 5 /\ 1 \in 1..1 /\ 1 \in 1..4 /\ 2 \in 1..4 /\ 3 \in 1..4 /\ 4 \in 1..4
      OBVIOUS
    <2>2. Len(needle) = 5 /\ needle[5] = Quote
      BY <1>1, <1>3, <2>1
    <2>3. DOMAIN needle = 1..5
      BY <1>3, <2>2, LenProperties
    <2> QED
      BY <1>1, <1>3, <2>1, <2>2, <2>3
  <1>5. Len(doc) \in Nat
    BY LenProperties
  <1>6. Len(doc) - Len(needle) + 1 = Len(doc) - 4
    BY <1>4, <1>5
  <1>7. ASSUME NEW i \in 1..(Len(doc) - 4)
        PROVE  (\A k \in DOMAIN needle : doc[i + k - 1] = needle[k])
                   <=> FieldAt(doc, i, key) /\ doc[i + 4] = Quote
    <2>1. i + 1 - 1 = i /\ i + 2 - 1 = i + 1 /\ i + 3 - 1 = i + 2 /\ i + 4 - 1 = i + 3
          /\ i + 5 - 1 = i + 4
      BY <1>5
    <2>2. 1 \in 1..5 /\ 2 \in 1..5 /\ 3 \in 1..5 /\ 4 \in 1..5 /\ 5 \in 1..5
          /\ \A k \in 1..5 : k = 1 \/ k = 2 \/ k = 3 \/ k = 4 \/ k = 5
      OBVIOUS
    <2> QED
      BY <1>4, <2>1, <2>2 DEF FieldAt
  <1>8. Occurrences(doc, needle, 1)
            = {i \in 1..(Len(doc) - 4) : \A k \in DOMAIN needle : doc[i + k - 1] = needle[k]}
    BY <1>6, Zenon DEF Occurrences
  <1> QED
    BY <1>7, <1>8, Zenon DEF needle

\* In a field nothing looks like one but the field itself: what its text holds
\* comes with a backslash, and what follows its last quote is no colon.
LEMMA OnlyField ==
    ASSUME NEW U, IsAlphabet(U), NEW doc \in Seq(U), NEW q \in Nat \ {0},
           NEW f \in StringFields(U), FieldStands(doc, q, f),
           NEW i \in q..FieldEnd(q, f.text), NEW key \in Keys(U), FieldAt(doc, i, key)
    PROVE  i = q /\ key = f.key
  <1> DEFINE ws == f.text
             text == FlattenSeq(ws)
             m == Len(text)
             from == q + 5
             end == from + m
             quoted == Quoted(text)
  <1>1. f.key \in Keys(U) /\ ws \in Seq(Written(U))
    BY DEF StringFields
  <1>2. text \in Seq(U) /\ m \in Nat /\ Len(doc) \in Nat /\ Quote \in U
    BY <1>1, WrittenAreTexts, LenProperties DEF IsAlphabet
  <1>3. /\ doc[q] = Quote /\ doc[q + 1] = f.key /\ doc[q + 2] = Quote /\ doc[q + 3] = Colon
        /\ Stands(doc, q + 4, quoted) /\ end < Len(doc) /\ doc[end + 1] \in Follows
        /\ i \in q..end
    BY Zenon DEF FieldStands, FieldAt, FieldEnd
  <1>4. doc[i] = Quote /\ doc[i + 1] = key /\ doc[i + 2] = Quote /\ doc[i + 3] = Colon
    BY Zenon DEF FieldAt
  <1>5. /\ key # Quote /\ key # Backslash /\ key # Colon /\ key \notin Follows
        /\ f.key # Quote
    BY <1>1, Zenon DEF Keys
  <1> HIDE DEF text
  <1>6. /\ quoted \in Seq(U) /\ Len(quoted) = m + 2 /\ quoted[1] = Quote
        /\ quoted[m + 2] = Quote /\ \A j \in 1..m : quoted[1 + j] = text[j]
    BY <1>2, QuotedIs
  <1> HIDE DEF quoted, m, ws
  <1>7. \A j \in 1..(m + 2) : doc[q + 4 + j - 1] = quoted[j]
    BY <1>3, <1>6 DEF Stands
  <1>8. /\ 1 \in 1..(m + 2) /\ m + 2 \in 1..(m + 2)
        /\ q + 4 + 1 - 1 = q + 4 /\ q + 4 + (m + 2) - 1 = end
        /\ \A j \in 1..m : 1 + j \in 1..(m + 2) /\ q + 4 + (1 + j) - 1 = from + j - 1
    BY <1>2
  <1>9. doc[q + 4] = Quote /\ doc[end] = Quote
    BY <1>6, <1>7, <1>8
  <1>10. m \in Nat /\ Len(doc) \in Nat /\ end < Len(doc) /\ i \in q..end /\ q \in Nat \ {0}
    BY <1>2, <1>3, Zenon
  <1>11. \A j \in from..(end - 1) : doc[j] = Quote => j > from /\ doc[j - 1] = Backslash
    <2>1. Stands(doc, from, text)
      <3>1. from + m - 1 <= Len(doc)
        BY <1>10
      <3>2. \A j \in 1..m : doc[from + j - 1] = text[j]
        BY <1>6, <1>7, <1>8
      <3> QED
        BY <3>1, <3>2 DEF Stands, m
    <2>2. from \in Nat \ {0} /\ from + m <= Len(doc) /\ doc[from + m] = Quote
      <3>1. from \in Nat \ {0} /\ from + m <= Len(doc)
        BY <1>10
      <3> QED
        BY <1>9, <3>1, Zenon
    <2> HIDE DEF from
    <2> QED
      BY <1>1, <2>1, <2>2, StringEndIs DEF m, text, ws
  <1> HIDE DEF from, end
  <1>12. /\ from = q + 5 /\ end = from + m /\ end \in Nat /\ i \in Nat
         /\ i >= q /\ i <= end
    BY <1>10 DEF from, end
  <1>13. i # end
    <2>1. doc[end + 1] # key
      BY <1>3, <1>5
    <2> QED
      BY <1>4, <2>1
  <1>14. i + 1 # end
    BY <1>4, <1>5, <1>9
  <1>15. i + 2 # end
    <2>1. doc[end + 1] # Colon
      BY <1>3, LayoutDiffers
    <2>2. i + 2 = end => i + 3 = end + 1
      BY <1>12
    <2> QED
      BY <1>4, <2>1, <2>2
  <1>16. i < q + 4
    <2> SUFFICES ASSUME i >= q + 4
                 PROVE  FALSE
      BY <1>12
    <2>1. CASE i + 2 \in from..(end - 1)
      <3>1. doc[(i + 2) - 1] = Backslash /\ (i + 2) - 1 = i + 1
        BY <1>4, <1>11, <2>1
      <3> QED
        BY <1>4, <1>5, <3>1
    <2>2. CASE i + 2 \notin from..(end - 1)
      BY <1>2, <1>12, <1>13, <1>14, <1>15, <2>2
    <2> QED
      BY <2>1, <2>2
  <1>17. i # q + 1
    BY <1>3, <1>4, <1>5
  <1>18. i # q + 2
    <2>1. i = q + 2 => i + 1 = q + 3
      BY <1>12
    <2> QED
      BY <1>3, <1>4, <1>5, <2>1
  <1>19. i # q + 3
    BY <1>3, <1>4, LayoutDiffers
  <1>20. i = q
    BY <1>12, <1>16, <1>17, <1>18, <1>19
  <1> QED
    BY <1>3, <1>4, <1>20

\* w is the field of that key and value, behind a comma unless c is 0.
IsFieldText(w, c, key, value) ==
    /\ c \in {0, 1} /\ Len(w) = c + 4 + Len(value)
    /\ c = 1 => w[1] = Comma
    /\ w[c + 1] = Quote /\ w[c + 2] = key /\ w[c + 3] = Quote /\ w[c + 4] = Colon
    /\ \A j \in 1..Len(value) : w[c + 4 + j] = value[j]

\* What a field of an object looks like.
LEMMA FieldTextIs ==
    ASSUME NEW U, {Quote, Colon, Comma} \subseteq U, NEW key \in U, NEW value \in Seq(U),
           NEW n \in Nat
    PROVE  LET w == (IF n = 1 THEN <<>> ELSE <<Comma>>) \o Needle(key, value)
           IN  w \in Seq(U) /\ IsFieldText(w, IF n = 1 THEN 0 ELSE 1, key, value)
  <1> DEFINE sep == IF n = 1 THEN <<>> ELSE <<Comma>>
             c == IF n = 1 THEN 0 ELSE 1
             head == <<Quote, key, Quote, Colon>>
             field == Needle(key, value)
             w == sep \o field
             l == Len(value)
  <1>1. /\ head \in Seq(U) /\ Len(head) = 4 /\ head[1] = Quote /\ head[2] = key
        /\ head[3] = Quote /\ head[4] = Colon
    OBVIOUS
  <1>2. sep \in Seq(U) /\ Len(sep) = c /\ c \in {0, 1} /\ (c = 1 => sep[1] = Comma)
    <2>1. CASE n = 1
      <3>1. sep = <<>> /\ c = 0
        BY <2>1, Zenon
      <3> QED
        BY <3>1, EmptySeq
    <2>2. CASE n # 1
      <3>1. sep = <<Comma>> /\ c = 1
        BY <2>2, Zenon
      <3>2. <<Comma>> \in Seq(U) /\ Len(<<Comma>>) = 1 /\ <<Comma>>[1] = Comma
        OBVIOUS
      <3> QED
        BY <3>1, <3>2, Zenon
    <2> QED
      BY <2>1, <2>2
  <1>3. field = head \o value
    BY Zenon DEF Needle
  <1> HIDE DEF sep, c, head, field
  <1>4. /\ field \in Seq(U) /\ l \in Nat /\ Len(field) = Len(head) + l
        /\ \A i \in 1..Len(head) : field[i] = head[i]
        /\ \A i \in 1..l : field[Len(head) + i] = value[i]
    <2>1. head \in Seq(U) /\ value \in Seq(U)
      BY <1>1
    <2> QED
      BY <1>3, <2>1, JoinIs
  <1>5. /\ w \in Seq(U) /\ Len(w) = Len(sep) + Len(field)
        /\ \A i \in 1..Len(sep) : w[i] = sep[i]
        /\ \A i \in 1..Len(field) : w[Len(sep) + i] = field[i]
    <2>1. sep \in Seq(U) /\ field \in Seq(U)
      BY <1>2, <1>4
    <2> QED
      BY <2>1, JoinIs
  <1> HIDE DEF w, l
  <1>6. Len(sep) = c /\ Len(head) = 4 /\ Len(field) = 4 + l /\ c \in {0, 1} /\ l \in Nat
    BY <1>1, <1>2, <1>4
  <1>7. /\ Len(w) = c + 4 + l /\ (c = 1 => 1 \in 1..c)
        /\ 1 \in 1..4 /\ 2 \in 1..4 /\ 3 \in 1..4 /\ 4 \in 1..4
        /\ \A i \in 1..4 : i \in 1..(4 + l)
        /\ \A j \in 1..l : 4 + j \in 1..(4 + l) /\ c + (4 + j) = c + 4 + j
    BY <1>5, <1>6
  <1>8. c = 1 => w[1] = Comma
    BY <1>2, <1>5, <1>6, <1>7
  <1>9. w[c + 1] = Quote /\ w[c + 2] = key /\ w[c + 3] = Quote /\ w[c + 4] = Colon
    <2>1. \A i \in 1..4 : w[c + i] = head[i]
      BY <1>4, <1>5, <1>6, <1>7
    <2> QED
      BY <1>1, <1>7, <2>1
  <1>10. \A j \in 1..l : w[c + 4 + j] = value[j]
    <2> TAKE j \in 1..l
    <2>1. w[c + (4 + j)] = field[4 + j]
      BY <1>5, <1>6, <1>7
    <2>2. field[4 + j] = value[j]
      BY <1>4, <1>6
    <2> QED
      BY <1>7, <2>1, <2>2
  <1>11. w \in Seq(U) /\ IsFieldText(w, c, key, value)
    BY <1>5, <1>6, <1>7, <1>8, <1>9, <1>10, Zenon DEF IsFieldText, l
  <1> QED
    BY <1>11, Zenon DEF w, c, sep, field

\* What stands between two symbols.
LEMMA BetweenTwo ==
    ASSUME NEW U, NEW a \in U, NEW b \in U, NEW text \in Seq(U)
    PROVE  LET doc == <<a>> \o text \o <<b>>
           IN  /\ doc \in Seq(U) /\ Len(text) \in Nat /\ Len(doc) = Len(text) + 2
               /\ doc[1] = a /\ doc[Len(text) + 2] = b /\ Stands(doc, 2, text)
  <1> DEFINE fore == <<a>>
             aft == <<b>>
             left == fore \o text
             doc == left \o aft
             m == Len(text)
  <1>1. /\ fore \in Seq(U) /\ Len(fore) = 1 /\ fore[1] = a
        /\ aft \in Seq(U) /\ Len(aft) = 1 /\ aft[1] = b
    OBVIOUS
  <1> HIDE DEF fore, aft
  <1>2. /\ left \in Seq(U) /\ m \in Nat /\ Len(left) = Len(fore) + m
        /\ \A i \in 1..Len(fore) : left[i] = fore[i]
        /\ \A i \in 1..m : left[Len(fore) + i] = text[i]
    <2>1. fore \in Seq(U) /\ text \in Seq(U)
      BY <1>1
    <2> QED
      BY <2>1, JoinIs
  <1> HIDE DEF left
  <1>3. /\ doc \in Seq(U) /\ Len(doc) = Len(left) + Len(aft)
        /\ \A i \in 1..Len(left) : doc[i] = left[i]
        /\ \A i \in 1..Len(aft) : doc[Len(left) + i] = aft[i]
    <2>1. left \in Seq(U) /\ aft \in Seq(U)
      BY <1>1, <1>2
    <2> QED
      BY <2>1, JoinIs
  <1> HIDE DEF doc, m
  <1>4. /\ 1 \in 1..1 /\ Len(left) = 1 + m /\ 1 \in 1..(1 + m) /\ 1 + m + 1 = m + 2
        /\ Len(doc) = m + 2
        /\ \A j \in 1..m : 1 + j \in 1..(1 + m) /\ 2 + j - 1 = 1 + j
    BY <1>1, <1>2, <1>3
  <1>5. doc[1] = a
    BY <1>1, <1>2, <1>3, <1>4
  <1>6. doc[m + 2] = b
    BY <1>1, <1>3, <1>4, Zenon
  <1>7. \A j \in 1..m : doc[2 + j - 1] = text[j]
    BY <1>1, <1>2, <1>3, <1>4
  <1>8. 2 + m - 1 <= Len(doc)
    BY <1>2, <1>4
  <1>9. Stands(doc, 2, text)
    BY <1>7, <1>8, Zenon DEF Stands, m
  <1>10. doc \in Seq(U) /\ m \in Nat /\ Len(doc) = m + 2
    BY <1>2, <1>3, <1>4
  <1> QED
    BY <1>5, <1>6, <1>9, <1>10, Zenon DEF doc, left, fore, aft, m

\* Where the text of a field stands, there is the field, and it ends where its text does.
LEMMA FieldStandsThere ==
    ASSUME NEW U, IsAlphabet(U), NEW doc \in Seq(U), NEW s \in Nat \ {0}, NEW w, NEW c,
           NEW f \in StringFields(U), Stands(doc, s, w),
           IsFieldText(w, c, f.key, Quoted(FlattenSeq(f.text))),
           s + Len(w) <= Len(doc), doc[s + Len(w)] \in Follows
    PROVE  /\ FieldStands(doc, s + c, f) /\ FieldEnd(s + c, f.text) + 1 = s + Len(w)
           /\ s + c \in Nat \ {0} /\ FieldEnd(s + c, f.text) \in Nat
           /\ s + c = s \/ (doc[s] = Comma /\ s + c = s + 1)
  <1> DEFINE text == FlattenSeq(f.text)
             m == Len(text)
             quoted == Quoted(text)
             l == Len(w)
             q == s + c
             end == q + 5 + m
  <1>1. text \in Seq(U) /\ m \in Nat /\ Quote \in U /\ Len(doc) \in Nat
    BY WrittenAreTexts, LenProperties DEF StringFields, IsAlphabet
  <1>2. /\ c \in {0, 1} /\ l = c + 4 + Len(quoted)
        /\ (c = 1 => w[1] = Comma)
        /\ w[c + 1] = Quote /\ w[c + 2] = f.key /\ w[c + 3] = Quote /\ w[c + 4] = Colon
        /\ \A j \in 1..Len(quoted) : w[c + 4 + j] = quoted[j]
    BY Zenon DEF IsFieldText
  <1>3. \A j \in 1..l : doc[s + j - 1] = w[j]
    BY DEF Stands, l
  <1>4. FieldEnd(q, f.text) = end
    BY Zenon DEF FieldEnd
  <1>5. s + l <= Len(doc) /\ doc[s + l] \in Follows
    OBVIOUS
  <1> HIDE DEF text
  <1>6. Len(quoted) = m + 2
    BY <1>1, QuotedIs
  <1> HIDE DEF m, quoted, l
  <1>7. c \in {0, 1} /\ m \in Nat /\ l = c + m + 6 /\ s \in Nat \ {0}
    <2>1. c \in {0, 1} /\ m \in Nat /\ l = c + 4 + (m + 2) /\ s \in Nat \ {0}
      BY <1>1, <1>2, <1>6, Zenon
    <2> QED
      BY <2>1
  <1>8. /\ end + 1 = s + l /\ end \in Nat /\ q \in Nat \ {0}
        /\ c = 1 => 1 \in 1..l
        /\ s + 1 - 1 = s
    BY <1>7
  <1>9. \A j \in 1..(m + 6) : c + j \in 1..l /\ s + (c + j) - 1 = q + j - 1
    BY <1>7
  <1>10. \A j \in 1..(m + 6) : doc[q + j - 1] = w[c + j]
    BY <1>3, <1>9
  <1>11. /\ 1 \in 1..(m + 6) /\ 2 \in 1..(m + 6) /\ 3 \in 1..(m + 6) /\ 4 \in 1..(m + 6)
         /\ q + 1 - 1 = q /\ q + 2 - 1 = q + 1 /\ q + 3 - 1 = q + 2 /\ q + 4 - 1 = q + 3
    BY <1>7
  <1>12. FieldAt(doc, q, f.key)
    BY <1>2, <1>10, <1>11 DEF FieldAt
  <1>13. Stands(doc, q + 4, quoted)
    <2>1. q + 4 + (m + 2) - 1 <= Len(doc)
      BY <1>1, <1>5, <1>7
    <2>2. \A j \in 1..(m + 2) : /\ 4 + j \in 1..(m + 6) /\ q + (4 + j) - 1 = q + 4 + j - 1
                                /\ c + (4 + j) = c + 4 + j
      BY <1>7
    <2>3. \A j \in 1..(m + 2) : doc[q + 4 + j - 1] = quoted[j]
      <3> TAKE j \in 1..(m + 2)
      <3>1. doc[q + 4 + j - 1] = w[c + 4 + j]
        BY <1>10, <2>2
      <3> QED
        BY <1>2, <1>6, <3>1
    <2> QED
      BY <1>6, <2>1, <2>3 DEF Stands
  <1>14. end < Len(doc) /\ doc[end + 1] \in Follows
    <2>1. end < Len(doc)
      BY <1>1, <1>5, <1>8
    <2> QED
      BY <1>5, <1>8, <2>1, Zenon
  <1>15. q = s \/ (doc[s] = Comma /\ q = s + 1)
    <2>1. CASE c = 1
      BY <1>2, <1>3, <1>8, <2>1
    <2>2. CASE c = 0
      <3>1. q = s
        BY <1>7, <2>2
      <3> QED
        BY <3>1, Zenon
    <2> QED
      BY <1>7, <2>1, <2>2
  <1> HIDE DEF q, end
  <1>16. FieldStands(doc, q, f)
    BY <1>4, <1>12, <1>13, <1>14, Zenon DEF FieldStands, quoted, text
  <1> QED
    BY <1>4, <1>8, <1>15, <1>16, Zenon DEF q, l

\* The fields are where q has them, and there is no quote between them.
HasFields(doc, q, fields) ==
    /\ \A n \in 1..Len(fields) :
           q[n] \in Nat \ {0} /\ FieldStands(doc, q[n], fields[n])
    /\ \A i \in 1..Len(doc) : doc[i] = Quote =>
           \E n \in 1..Len(fields) : i \in q[n]..FieldEnd(q[n], fields[n].text)

\* An object's fields can be told from what is around them.
LEMMA ObjectHasFields ==
    ASSUME NEW U, IsAlphabet(U), Layout \subseteq U,
           NEW fields \in Seq(StringFields(U))
    PROVE  /\ Object(Serialised(fields)) \in Seq(U)
           /\ \E q : HasFields(Object(Serialised(fields)), q, fields)
  <1> DEFINE F == Serialised(fields)
             k == Len(fields)
             quoted(n) == Quoted(FlattenSeq(fields[n].text))
             C(n) == IF n = 1 THEN 0 ELSE 1
             piece(n) == (IF n = 1 THEN <<>> ELSE <<Comma>>) \o Needle(F[n][1], F[n][2])
             pieces == [n \in DOMAIN F |-> piece(n)]
             text == FlattenSeq(pieces)
             doc == Object(F)
             m == Len(text)
             X == Seq(U)
  <1>1. k \in Nat /\ DOMAIN fields = 1..k /\ \A n \in 1..k : fields[n] \in StringFields(U)
    BY LenProperties, ElementOfSeq
  <1>2. DOMAIN F = 1..k /\ \A n \in 1..k : F[n][1] = fields[n].key /\ F[n][2] = quoted(n)
    <2>1. F = [n \in 1..k |-> <<fields[n].key, quoted(n)>>]
      BY <1>1, Zenon DEF Serialised
    <2> HIDE DEF F, quoted
    <2> QED
      BY <2>1
  <1>3. doc = <<Opening>> \o text \o <<Closing>>
    BY Zenon DEF Object, Opening, Closing
  <1> HIDE DEF F, doc, k
  <1>4. ASSUME NEW n \in 1..k
        PROVE  /\ piece(n) \in X /\ IsFieldText(piece(n), C(n), fields[n].key, quoted(n))
    <2>1. fields[n].key \in U /\ fields[n].text \in Seq(Written(U))
      BY <1>1, Zenon DEF StringFields, Keys
    <2>2. FlattenSeq(fields[n].text) \in Seq(U) /\ {Quote, Colon, Comma} \subseteq U
      <3>1. {Quote, Colon, Comma} \subseteq U
        BY Zenon DEF IsAlphabet, Layout, Follows
      <3> QED
        BY <2>1, <3>1, WrittenAreTexts
    <2>3. quoted(n) \in Seq(U)
      BY <2>2, QuotedIs
    <2>4. n \in Nat
      OBVIOUS
    <2> HIDE DEF quoted
    <2>5. LET w == (IF n = 1 THEN <<>> ELSE <<Comma>>) \o Needle(fields[n].key, quoted(n))
          IN  w \in Seq(U) /\ IsFieldText(w, IF n = 1 THEN 0 ELSE 1, fields[n].key, quoted(n))
      BY <2>1, <2>2, <2>3, <2>4, FieldTextIs
    <2> QED
      BY <1>2, <2>5, Zenon
  <1>5. pieces \in Seq(X) /\ Len(pieces) = k /\ \A n \in 1..k : pieces[n] = piece(n)
    <2> HIDE DEF piece, X
    <2>1. pieces = [n \in 1..k |-> piece(n)]
      BY <1>2, Zenon
    <2> QED
      BY <1>1, <1>4, <2>1
  <1> HIDE DEF pieces, piece, quoted, C
  <1>6. PICK e : Marks(e, text, pieces)
    BY <1>5, FlattenMarks
  <1>7. text \in Seq(U)
    BY <1>5, FlattenIs
  <1> HIDE DEF text
  <1>8. /\ doc \in Seq(U) /\ m \in Nat /\ Len(doc) = m + 2
        /\ doc[1] = Opening /\ doc[m + 2] \in Follows /\ Stands(doc, 2, text)
    <2>1. Opening \in U /\ Closing \in U /\ Closing \in Follows
      BY Zenon DEF Layout, Follows
    <2> HIDE DEF m
    <2>2. LET d == <<Opening>> \o text \o <<Closing>>
          IN  /\ d \in Seq(U) /\ Len(text) \in Nat /\ Len(d) = Len(text) + 2
              /\ d[1] = Opening /\ d[Len(text) + 2] = Closing /\ Stands(d, 2, text)
      BY <1>7, <2>1, BetweenTwo
    <2> QED
      BY <1>3, <2>1, <2>2, Zenon DEF m
  <1> HIDE DEF m
  <1>9. /\ e[0] = 0 /\ e[k] = m
        /\ \A n \in 1..k : /\ e[n - 1] \in Nat /\ e[n] \in Nat
                           /\ e[n] = e[n - 1] + Len(pieces[n]) /\ e[n] <= m
                           /\ Stands(doc, 2 + e[n - 1], pieces[n])
    <2>1. e[0] = 0 /\ e[k] = m
      BY <1>5, <1>6 DEF Marks, m
    <2>2. \A n \in 1..k : Len(pieces[n]) \in Nat
      BY <1>4, <1>5, LenProperties
    <2>3. /\ 2 \in Nat /\ Len(pieces) \in Nat /\ Len(pieces) = k
          /\ Len(text) \in Nat /\ Len(doc) \in Nat
      BY <1>1, <1>5, <1>8 DEF m
    <2>4. ASSUME NEW n \in 1..k
          PROVE  /\ e[n - 1] \in Nat /\ e[n] \in Nat
                 /\ e[n] = e[n - 1] + Len(pieces[n]) /\ e[n] <= Len(text)
                 /\ Stands(doc, 2 + e[n - 1], pieces[n])
      <3>1. /\ Marks(e, text, pieces) /\ Stands(doc, 2, text)
            /\ n \in 1..Len(pieces) /\ Len(pieces[n]) \in Nat
        BY <1>6, <1>8, <2>2, <2>3, Zenon
      <3> QED
        BY <2>3, <3>1, PieceStands
    <2> QED
      BY <2>1, <2>4 DEF m
  <1>10. \A n \in 1..k : IsFieldText(pieces[n], C(n), fields[n].key, quoted(n))
    BY <1>4, <1>5, Zenon
  <1>11. ASSUME NEW n \in 1..k
         PROVE  2 + e[n] <= Len(doc) /\ doc[2 + e[n]] \in Follows
    <2>1. 2 + e[n] <= Len(doc)
      BY <1>8, <1>9
    <2>2. CASE n = k
      <3>1. doc[m + 2] \in Follows /\ m + 2 = 2 + e[n]
        BY <1>8, <1>9, <2>2
      <3> QED
        BY <2>1, <3>1
    <2>3. CASE n # k
      <3>1. n + 1 \in 1..k /\ (n + 1) - 1 = n /\ n + 1 # 1 /\ e[n] \in Nat
        <4>1. e[n] \in Nat
          BY <1>9, Zenon
        <4>2. n + 1 \in 1..k /\ (n + 1) - 1 = n /\ n + 1 # 1
          BY <1>1, <2>3
        <4> QED
          BY <4>1, <4>2
      <3> DEFINE w == pieces[n + 1]
      <3>2. Stands(doc, 2 + e[n], w)
        BY <1>9, <3>1
      <3>3. C(n + 1) = 1
        BY <3>1, Zenon DEF C
      <3>4. w[1] = Comma /\ Len(w) \in Nat /\ Len(w) >= 1
        <4>1. IsFieldText(w, 1, fields[n + 1].key, quoted(n + 1))
          BY <1>10, <3>1, <3>3, Zenon
        <4>2. w[1] = Comma /\ Len(w) = 1 + 4 + Len(quoted(n + 1))
          BY <4>1, Zenon DEF IsFieldText
        <4>3. Len(quoted(n + 1)) \in Nat
          <5>1. fields[n + 1].text \in Seq(Written(U))
            BY <1>1, <3>1, Zenon DEF StringFields
          <5>2. quoted(n + 1) \in Seq(U)
            <6>1. FlattenSeq(fields[n + 1].text) \in Seq(U) /\ Quote \in U
              BY <5>1, WrittenAreTexts DEF IsAlphabet
            <6> QED
              BY <6>1, QuotedIs DEF quoted
          <5> QED
            BY <5>2, LenProperties
        <4> QED
          BY <4>2, <4>3
      <3> HIDE DEF w
      <3>5. 1 \in 1..Len(w) /\ 2 + e[n] + 1 - 1 = 2 + e[n]
        BY <3>1, <3>4
      <3>6. doc[2 + e[n]] = Comma
        BY <3>2, <3>4, <3>5 DEF Stands
      <3> QED
        BY <2>1, <3>6, Zenon DEF Follows
    <2> QED
      BY <2>2, <2>3
  <1> DEFINE q == [n \in 1..k |-> 2 + e[n - 1] + C(n)]
             End(n) == FieldEnd(q[n], fields[n].text)
  <1>12. ASSUME NEW n \in 1..k
         PROVE  /\ FieldStands(doc, q[n], fields[n]) /\ End(n) + 1 = 2 + e[n]
                /\ q[n] \in Nat \ {0} /\ End(n) \in Nat
                /\ \/ q[n] = 2 + e[n - 1]
                   \/ doc[2 + e[n - 1]] = Comma /\ q[n] = 2 + e[n - 1] + 1
    <2> DEFINE s == 2 + e[n - 1]
               w == pieces[n]
               c == C(n)
               f == fields[n]
    <2>1. q[n] = s + c
      BY Zenon
    <2>2. s \in Nat \ {0} /\ s + Len(w) = 2 + e[n]
      <3>1. e[n - 1] \in Nat /\ Len(w) \in Nat /\ e[n] = e[n - 1] + Len(w)
        BY <1>4, <1>5, <1>9, LenProperties
      <3> HIDE DEF w
      <3> QED
        BY <3>1
    <2>3. Stands(doc, s, w) /\ f \in StringFields(U) /\ doc \in Seq(U)
      BY <1>1, <1>8, <1>9
    <2>4. IsFieldText(w, c, f.key, Quoted(FlattenSeq(f.text)))
      BY <1>10, Zenon DEF quoted
    <2>5. s + Len(w) <= Len(doc) /\ doc[s + Len(w)] \in Follows
      BY <1>11, <2>2
    <2> HIDE DEF q, End, s, w, c, f
    <2>6. /\ FieldStands(doc, s + c, f) /\ FieldEnd(s + c, f.text) + 1 = s + Len(w)
          /\ s + c \in Nat \ {0} /\ FieldEnd(s + c, f.text) \in Nat
          /\ s + c = s \/ (doc[s] = Comma /\ s + c = s + 1)
      BY <2>2, <2>3, <2>4, <2>5, FieldStandsThere
    <2> QED
      BY <2>1, <2>2, <2>6, Zenon DEF s, f, End
  <1> HIDE DEF q, End
  <1> DEFINE Within(i) == \E n \in 1..k : i \in q[n]..End(n)
             S == {n \in Nat : n <= k => \A i \in 2..(1 + e[n]) : doc[i] = Quote => Within(i)}
  <1>13. 0 \in S
    <2>1. 2..(1 + e[0]) = {}
      BY <1>9
    <2> QED
      BY <2>1, Zenon
  <1>14. ASSUME NEW n \in Nat, n \in S
         PROVE  n + 1 \in S
    <2> SUFFICES ASSUME n + 1 <= k, NEW i \in 2..(1 + e[n + 1]), doc[i] = Quote
                 PROVE  Within(i)
      OBVIOUS
    <2>1. n + 1 \in 1..k /\ (n + 1) - 1 = n /\ n <= k
      BY <1>1
    <2>2. /\ End(n + 1) + 1 = 2 + e[n + 1] /\ q[n + 1] \in Nat \ {0} /\ End(n + 1) \in Nat
          /\ \/ q[n + 1] = 2 + e[n]
             \/ doc[2 + e[n]] = Comma /\ q[n + 1] = 2 + e[n] + 1
      BY <1>12, <2>1
    <2>3. e[n] \in Nat /\ e[n + 1] \in Nat
      BY <1>9, <2>1
    <2>4. CASE i \in 2..(1 + e[n])
      BY <1>14, <2>1, <2>4, Zenon
    <2>5. CASE i \notin 2..(1 + e[n])
      <3>1. i # 2 + e[n] \/ doc[2 + e[n]] # Comma
        BY LayoutDiffers, Zenon DEF Follows
      <3> DEFINE a == e[n]
                 b == e[n + 1]
                 x == q[n + 1]
                 y == End(n + 1)
      <3>2. /\ a \in Nat /\ b \in Nat /\ x \in Nat /\ y \in Nat /\ y + 1 = 2 + b
            /\ x = 2 + a \/ x = 2 + a + 1
            /\ i \in 2..(1 + b) /\ i \notin 2..(1 + a)
        BY <2>2, <2>3, <2>5, Zenon
      <3>3. i # 2 + a \/ x = 2 + a
        BY <2>2, <3>1, Zenon
      <3> HIDE DEF a, b, x, y
      <3>4. i \in x..y
        BY <3>2, <3>3
      <3> QED
        BY <2>1, <3>4, Zenon DEF x, y
    <2> QED
      BY <2>4, <2>5
  <1>15. k \in S
    <2> HIDE DEF S
    <2> QED
      BY <1>1, <1>13, <1>14, NumbersBySet
  <1>16. ASSUME NEW i \in 1..Len(doc), doc[i] = Quote
         PROVE  Within(i)
    <2>1. i # 1 /\ i # m + 2
      BY <1>8, <1>16, LayoutDiffers, Zenon
    <2>2. i \in 2..(1 + e[k]) /\ k <= k
      BY <1>1, <1>8, <1>9, <2>1
    <2> QED
      BY <1>15, <1>16, <2>2, Zenon
  <1>17. HasFields(doc, q, fields)
    BY <1>12, <1>16, Zenon DEF HasFields, End, k
  <1> QED
    BY <1>8, <1>17, Zenon DEF doc, F

\* An object with any number of fields whose keys differ, with any text in each that no
\* \uXXXX above 0x7f is in, is read without a parser as with one: the field of each
\* key is its text, and of another key, even one that a text holds as if it were a
\* field, there is none.
THEOREM FieldIsRead ==
    ASSUME NEW U, IsAlphabet(U), Layout \subseteq U, NEW fields \in Seq(StringFields(U)),
           \A m, n \in 1..Len(fields) : fields[m].key = fields[n].key => m = n
    PROVE  /\ \A n \in 1..Len(fields) :
                  json_string_field(Object(Serialised(fields)), fields[n].key)
                      = Meaning(fields[n].text)
           /\ \A key \in Keys(U) : (\A n \in 1..Len(fields) : fields[n].key # key)
                  => json_string_field(Object(Serialised(fields)), key) = <<>>
  <1> DEFINE doc == Object(Serialised(fields))
             k == Len(fields)
             found(key) == Occurrences(doc, Needle(key, <<Quote>>), 1)
  <1>1. k \in Nat /\ \A n \in 1..k : fields[n] \in StringFields(U)
    BY LenProperties, ElementOfSeq
  <1>2. \A n \in 1..k : fields[n].key \in Keys(U) /\ fields[n].text \in Seq(Written(U))
    BY <1>1, Zenon DEF StringFields
  <1>3. \A m, n \in 1..k : fields[m].key = fields[n].key => m = n
    OBVIOUS
  <1>4. doc \in Seq(U) /\ Len(doc) \in Nat
    BY ObjectHasFields, LenProperties
  <1>5. PICK q : HasFields(doc, q, fields)
    BY ObjectHasFields
  <1> HIDE DEF doc
  <1>6. \A n \in 1..k : q[n] \in Nat \ {0} /\ FieldStands(doc, q[n], fields[n])
    BY <1>5, Zenon DEF HasFields
  <1>7. \A i \in 1..Len(doc) : doc[i] = Quote =>
            \E n \in 1..k : i \in q[n]..FieldEnd(q[n], fields[n].text)
    BY <1>5, Zenon DEF HasFields
  <1>8. \A key : found(key)
            = {i \in 1..(Len(doc) - 4) : FieldAt(doc, i, key) /\ doc[i + 4] = Quote}
    BY <1>4, FieldsFound
  <1> HIDE DEF k, found
  <1>9. ASSUME NEW key \in Keys(U), NEW i \in found(key)
        PROVE  \E n \in 1..k : i = q[n] /\ key = fields[n].key
    <2>1. i \in 1..(Len(doc) - 4) /\ FieldAt(doc, i, key)
      BY <1>8, Zenon
    <2>2. i \in 1..Len(doc) /\ doc[i] = Quote
      BY <1>4, <2>1 DEF FieldAt
    <2>3. PICK n \in 1..k : i \in q[n]..FieldEnd(q[n], fields[n].text)
      BY <1>7, <2>2
    <2> DEFINE f == fields[n]
               p == q[n]
    <2>4. /\ p \in Nat \ {0} /\ f \in StringFields(U) /\ FieldStands(doc, p, f)
          /\ i \in p..FieldEnd(p, f.text)
      BY <1>1, <1>6, <2>3, Zenon
    <2> HIDE DEF f, p
    <2>5. i = p /\ key = f.key
      BY <1>4, <2>1, <2>4, OnlyField
    <2> QED
      BY <2>5 DEF f, p
  <1>10. ASSUME NEW n \in 1..k
         PROVE  /\ q[n] \in found(fields[n].key)
                /\ Stands(doc, q[n] + 4, Quoted(FlattenSeq(fields[n].text)))
    <2> DEFINE f == fields[n]
               p == q[n]
               text == FlattenSeq(f.text)
               quoted == Quoted(text)
               m == Len(text)
    <2>1. /\ p \in Nat \ {0} /\ FieldAt(doc, p, f.key) /\ Stands(doc, p + 4, quoted)
          /\ p + 5 + m < Len(doc)
      BY <1>6, Zenon DEF FieldStands, FieldEnd
    <2>2. text \in Seq(U) /\ m \in Nat /\ Quote \in U
      BY <1>2, WrittenAreTexts DEF IsAlphabet
    <2> HIDE DEF f, p, text
    <2>3. Len(quoted) = m + 2 /\ quoted[1] = Quote
      BY <2>2, QuotedIs
    <2> HIDE DEF quoted, m
    <2>4. 1 \in 1..Len(quoted) /\ p + 4 + 1 - 1 = p + 4 /\ p \in 1..(Len(doc) - 4)
      BY <1>4, <2>1, <2>2, <2>3
    <2>5. doc[p + 4] = Quote
      BY <2>1, <2>3, <2>4 DEF Stands
    <2>6. p \in found(f.key)
      BY <1>8, <2>1, <2>4, <2>5, Zenon
    <2> QED
      BY <2>1, <2>6, Zenon DEF f, p, text, quoted
  <1>11. ASSUME NEW n \in 1..k
         PROVE  json_string_field(doc, fields[n].key) = Meaning(fields[n].text)
    <2> DEFINE f == fields[n]
               p == q[n]
    <2>1. found(f.key) = {p}
      <3>1. ASSUME NEW i \in found(f.key)
            PROVE  i = p
        <4>1. PICK x \in 1..k : i = q[x] /\ f.key = fields[x].key
          BY <1>2, <1>9
        <4>2. x = n
          BY <1>3, <4>1 DEF k
        <4> QED
          BY <4>1, <4>2
      <3> QED
        BY <1>10, <3>1, Zenon
    <2>2. p \in Nat \ {0} /\ p # 0
      BY <1>6
    <2> HIDE DEF f, p
    <2>3. Find(doc, Needle(f.key, <<Quote>>), 1) = p
      <3>1. Min({p}) = p
        <4> DEFINE one == {p}
        <4>1. one \subseteq Nat /\ p \in one /\ \A x \in one : p <= x
          BY <2>2
        <4> HIDE DEF one
        <4>2. Min(one) = p
          BY <4>1, MinIs
        <4> QED
          BY <4>2 DEF one
      <3>2. {p} # {}
        OBVIOUS
      <3> QED
        BY <2>1, <3>1, <3>2, Zenon DEF Find, First, found
    <2>4. json_string_field(doc, f.key) = StringAt(doc, p + 4)
      BY <2>2, <2>3, Zenon DEF json_string_field, FieldString
    <2>5. StringAt(doc, p + 4) = Meaning(f.text)
      <3>1. p + 4 \in Nat \ {0}
        BY <2>2
      <3>2. f.text \in Seq(Written(U)) /\ Stands(doc, p + 4, Quoted(FlattenSeq(f.text)))
        BY <1>2, <1>10, Zenon DEF f, p
      <3> QED
        BY <1>4, <3>1, <3>2, StringIsRead
    <2> QED
      BY <2>4, <2>5 DEF f
  <1>12. ASSUME NEW key \in Keys(U), \A n \in 1..k : fields[n].key # key
         PROVE  json_string_field(doc, key) = <<>>
    <2>1. found(key) = {}
      BY <1>9, <1>12
    <2>2. Find(doc, Needle(key, <<Quote>>), 1) = 0
      BY <2>1, Zenon DEF Find, First, found
    <2> QED
      BY <2>2, Zenon DEF json_string_field, FieldString
  <1> QED
    BY <1>11, <1>12, Zenon DEF doc, k

\* A function of the elements of one sequence more.
LEMMA MapOfAppend ==
    ASSUME NEW E, NEW V, NEW f \in [E -> V], NEW s \in Seq(E), NEW x \in E
    PROVE  /\ [i \in DOMAIN s |-> f[s[i]]] \in Seq(V)
           /\ [i \in DOMAIN Append(s, x) |-> f[Append(s, x)[i]]]
                  = Append([i \in DOMAIN s |-> f[s[i]]], f[x])
  <1> DEFINE n == Len(s)
             t == Append(s, x)
             u == [i \in 1..n |-> f[s[i]]]
             v == [i \in 1..(n + 1) |-> f[t[i]]]
             w == Append(u, f[x])
  <1>1. n \in Nat /\ DOMAIN s = 1..n /\ \A i \in 1..n : s[i] \in E
    BY LenProperties, ElementOfSeq
  <1>2. /\ t \in Seq(E) /\ Len(t) = n + 1 /\ DOMAIN t = 1..(n + 1) /\ t[n + 1] = x
        /\ \A i \in 1..n : t[i] = s[i]
    BY AppendProperties, LenProperties
  <1>3. f[x] \in V /\ \A i \in 1..n : f[s[i]] \in V
    BY <1>1
  <1> HIDE DEF n, t
  <1>4. u \in Seq(V) /\ Len(u) = n /\ \A i \in 1..n : u[i] = f[s[i]]
    BY <1>1, <1>3
  <1> HIDE DEF u
  <1>5. w \in Seq(V) /\ Len(w) = n + 1 /\ w[n + 1] = f[x] /\ \A i \in 1..n : w[i] = u[i]
    BY <1>3, <1>4, AppendProperties
  <1> HIDE DEF w
  <1>6. \A i \in 1..(n + 1) : f[t[i]] = w[i] /\ w[i] \in V
    <2> TAKE i \in 1..(n + 1)
    <2>1. CASE i = n + 1
      BY <1>2, <1>3, <1>5, <2>1
    <2>2. CASE i # n + 1
      <3>1. i \in 1..n
        BY <1>1, <2>2
      <3> QED
        BY <1>2, <1>3, <1>4, <1>5, <3>1
    <2> QED
      BY <2>1, <2>2
  <1>7. v \in Seq(V) /\ Len(v) = n + 1 /\ \A i \in 1..(n + 1) : v[i] = w[i]
    BY <1>1, <1>6
  <1> HIDE DEF v
  <1>8. v = w
    BY <1>5, <1>7, SameSequence
  <1>9. u = [i \in DOMAIN s |-> f[s[i]]]
    BY <1>1, Zenon DEF u
  <1>10. v = [i \in DOMAIN t |-> f[t[i]]]
    BY <1>2, Zenon DEF v
  <1> QED
    BY <1>4, <1>8, <1>9, <1>10, Zenon DEF w, t

\* A serialiser may write the text like that.
IsWritten(U, json, text) ==
    \E ws \in Seq(Written(U)) : FlattenSeq(ws) = json /\ Meaning(ws) = text

\* No character, no text.
LEMMA WrittenNothing ==
    ASSUME NEW U
    PROVE  IsWritten(U, <<>>, <<>>)
  <1> DEFINE none == [i \in DOMAIN <<>> |-> Meant(<<>>[i])]
  <1>1. none = <<>>
    BY DEF Meant
  <1>2. Meaning(<<>>) = FlattenSeq(none)
    BY Zenon DEF Meaning
  <1>3. <<>> \in Seq(Written(U)) /\ FlattenSeq(<<>>) = <<>>
    BY EmptySeq, FlattenIs
  <1> HIDE DEF none
  <1> QED
    BY <1>1, <1>2, <1>3, Zenon DEF IsWritten

\* One character more.
LEMMA WrittenMore ==
    ASSUME NEW U, IsAlphabet(U), NEW json, NEW text, IsWritten(U, json, text),
           NEW w \in Written(U)
    PROVE  /\ IsWritten(U, json \o w, text \o Meant(w))
           /\ json \in Seq(U) /\ text \in Seq(U)
  <1> DEFINE W == Written(U)
             X == Seq(U)
             f == [x \in W |-> Meant(x)]
  <1>1. PICK ws \in Seq(W) : FlattenSeq(ws) = json /\ Meaning(ws) = text
    BY Zenon DEF IsWritten
  <1>2. f \in [W -> X] /\ f[w] = Meant(w) /\ \A x \in W : x \in X /\ f[x] = Meant(x)
    BY WrittenIs
  <1>3. ws \in Seq(X) /\ w \in X /\ FlattenSeq(Append(ws, w)) = json \o w
    BY <1>1, <1>2, WrittenAreTexts, FlattenIs
  <1>4. json \in X
    BY <1>1, WrittenAreTexts
  <1> DEFINE g == [i \in DOMAIN ws |-> f[ws[i]]]
             h == [i \in DOMAIN Append(ws, w) |-> f[Append(ws, w)[i]]]
  <1> HIDE DEF f, W, X
  <1>5. g \in Seq(X) /\ h = Append(g, f[w])
    BY <1>1, <1>2, MapOfAppend DEF W
  <1>6. Append(ws, w) \in Seq(W)
    BY <1>1, AppendProperties DEF W
  <1>7. ASSUME NEW s \in Seq(W)
        PROVE  Meaning(s) = FlattenSeq([i \in DOMAIN s |-> f[s[i]]])
    <2>1. \A i \in DOMAIN s : s[i] \in W
      BY LenProperties, ElementOfSeq
    <2>2. \A i \in DOMAIN s : Meant(s[i]) = f[s[i]]
      BY <1>2, <2>1
    <2>3. [i \in DOMAIN s |-> Meant(s[i])] = [i \in DOMAIN s |-> f[s[i]]]
      BY <2>2, Zenon
    <2> QED
      BY <2>3, Zenon DEF Meaning
  <1>8. Meaning(ws) = FlattenSeq(g) /\ Meaning(Append(ws, w)) = FlattenSeq(h)
    BY <1>1, <1>6, <1>7
  <1> HIDE DEF g, h
  <1>9. FlattenSeq(g) \in X /\ FlattenSeq(h) = FlattenSeq(g) \o Meant(w)
    <2>1. g \in Seq(Seq(U)) /\ f[w] \in Seq(U)
      BY <1>2, <1>5 DEF X, W
    <2> QED
      BY <1>2, <1>5, <2>1, FlattenIs DEF X
  <1>10. IsWritten(U, json \o w, text \o Meant(w))
    BY <1>1, <1>3, <1>6, <1>8, <1>9, Zenon DEF IsWritten, W
  <1> QED
    BY <1>1, <1>4, <1>8, <1>9, <1>10 DEF X

\* The symbols of the texts and documents of a run.
Bearing == {Quote, Backslash, Newline, "/", "n", "r", "t", "\r", "\t"}
FieldKeys == {"title", "name", "id", "flv_pull_url"}
Symbols ==
    PlainSymbols \cup Bearing \cup FieldKeys \cup Layout \cup HexGroups
        \cup {HexValue[h][1] : h \in HexGroups}

\* They are an alphabet: what a backslash makes of one is another of them.
LEMMA SymbolsAreAlphabet ==
    /\ IsAlphabet(Symbols) /\ Layout \subseteq Symbols /\ FieldKeys \subseteq Keys(Symbols)
    /\ PlainSymbols \subseteq Symbols \ {Quote, Backslash}
    /\ Bearing \subseteq Symbols \ {"u"}
  <1>1. {Quote, Backslash, "u"} \cup HexGroups \subseteq Symbols
    <2>1. "u" \in PlainSymbols /\ Quote \in Bearing /\ Backslash \in Bearing
      BY Zenon DEF Bearing, PlainSymbols
    <2> QED
      BY <2>1, Zenon DEF Symbols
  <1>2. ASSUME NEW h \in HexGroups
        PROVE  HexValue[h] \in Seq(Symbols)
    <2> DEFINE c == HexValue[h][1]
    <2>1. HexValue[h] = <<>> \/ HexValue[h] = <<c>>
      BY ScrapingAssumption, Zenon
    <2>2. c \in Symbols
      BY Zenon DEF Symbols
    <2> HIDE DEF c
    <2>3. <<>> \in Seq(Symbols) /\ <<c>> \in Seq(Symbols)
      BY <2>2, EmptySeq
    <2> QED
      BY <2>1, <2>3
  <1>3. ASSUME NEW c \in Symbols
        PROVE  Unescaped(c) \in Symbols
    <2>1. CASE c = "n" \/ c = "t" \/ c = "r"
      <3>1. Unescaped(c) \in {Newline, "\t", "\r"}
        BY <2>1, Zenon DEF Unescaped
      <3> QED
        BY <3>1, Zenon DEF Symbols, Bearing
    <2>2. CASE ~(c = "n" \/ c = "t" \/ c = "r")
      <3>1. Unescaped(c) = c
        BY <2>2, Zenon DEF Unescaped
      <3> QED
        BY <3>1, Zenon
    <2> QED
      BY <2>1, <2>2, Zenon
  <1>4. IsAlphabet(Symbols)
    BY <1>1, <1>2, <1>3, Zenon DEF IsAlphabet
  <1>5. Layout \subseteq Symbols
    BY Zenon DEF Symbols
  <1>6. FieldKeys \subseteq Keys(Symbols)
    <2>1. FieldKeys \cap ({Quote, Backslash, Colon} \cup Follows) = {}
      BY Zenon DEF FieldKeys, Quote, Backslash, Colon, Follows, Comma, Closing
    <2> QED
      BY <2>1, Zenon DEF Symbols, Keys
  <1>7. PlainSymbols \cap {Quote, Backslash} = {}
    BY Zenon DEF PlainSymbols, Quote, Backslash, Colon
  <1>8. "u" \notin Bearing
    <2>1. "u" # Quote /\ "u" # Backslash /\ "u" # Newline
      BY Zenon DEF Quote, Backslash, Newline
    <2>2. "u" \notin {"/", "n", "r", "t", "\r", "\t"}
      BY Zenon
    <2> QED
      BY <2>1, <2>2, Zenon DEF Bearing
  <1> QED
    BY <1>4, <1>5, <1>6, <1>7, <1>8, Zenon DEF Symbols

\* What comes with a backslash is read as these.
LEMMA EscapedAre ==
    /\ Unescaped(Quote) = Quote /\ Unescaped(Backslash) = Backslash
    /\ Unescaped("n") = Newline /\ Unescaped("/") = "/"
  BY Zenon DEF Unescaped, Quote, Backslash

\* A piece of one character is one of the ways to write what it is read as.
LEMMA PieceIsWritten ==
    ASSUME NEW x \in Plain \cup Escaped
    PROVE  x.json \in Written(Symbols) /\ x.text = Meant(x.json)
  <1>1. CASE x \in Plain
    <2>1. PICK c \in PlainSymbols : x = Piece(<<c>>, <<c>>)
      BY <1>1, Zenon DEF Plain
    <2>2. c \in Symbols \ {Quote, Backslash}
      BY <2>1, SymbolsAreAlphabet, Zenon
    <2> DEFINE w == <<c>>
    <2>3. w[1] = c
      OBVIOUS
    <2>4. w \in Written(Symbols)
      BY <2>2, Zenon DEF Written, Bare
    <2> HIDE DEF w
    <2>5. Meant(w) = w
      BY <2>2, <2>3, Zenon DEF Meant
    <2>6. x.json = w /\ x.text = w
      <3>1. x = [text |-> w, json |-> w]
        BY <2>1, Zenon DEF Piece, w
      <3> QED
        BY <3>1
    <2> QED
      BY <2>4, <2>5, <2>6
  <1>2. ASSUME NEW c \in Bearing, NEW text, text = <<Unescaped(c)>>,
               x = Piece(text, <<Backslash, c>>)
        PROVE  x.json \in Written(Symbols) /\ x.text = Meant(x.json)
    <2> DEFINE w == <<Backslash, c>>
    <2>1. c \in Symbols \ {"u"} /\ c # "u"
      BY SymbolsAreAlphabet, Zenon
    <2>2. w[1] = Backslash /\ w[2] = c
      OBVIOUS
    <2>3. w \in Written(Symbols)
      BY <2>1, Zenon DEF Written, Behind
    <2>4. x = [text |-> text, json |-> w]
      BY <1>2, Zenon DEF Piece
    <2> HIDE DEF w
    <2>5. Meant(w) = text
      BY <1>2, <2>1, <2>2, Zenon DEF Meant
    <2>6. x.json = w /\ x.text = text
      BY <2>4
    <2> QED
      BY <2>3, <2>5, <2>6
  <1>3. ASSUME NEW h \in HexGroups, NEW text, text = HexValue[h], text # <<>>,
               x = Piece(text, <<Backslash, "u", h>>)
        PROVE  x.json \in Written(Symbols) /\ x.text = Meant(x.json)
    <2> DEFINE w == <<Backslash, "u", h>>
    <2>1. w[1] = Backslash /\ w[2] = "u" /\ w[3] = h
      OBVIOUS
    <2>2. w \in Written(Symbols)
      BY <1>3, Zenon DEF Written, AsHex
    <2>3. x = [text |-> text, json |-> w]
      BY <1>3, Zenon DEF Piece
    <2> HIDE DEF w
    <2>4. Meant(w) = text
      BY <1>3, <2>1, Zenon DEF Meant
    <2>5. x.json = w /\ x.text = text
      BY <2>3
    <2> QED
      BY <2>2, <2>4, <2>5
  <1>4. CASE x \in Escaped
    <2>1. \/ x = Piece(<<Quote>>, <<Backslash, Quote>>)
          \/ x = Piece(<<Quote>>, <<Backslash, "u", "0022">>)
          \/ x = Piece(<<Backslash>>, <<Backslash, Backslash>>)
          \/ x = Piece(<<Newline>>, <<Backslash, "n">>)
          \/ x = Piece(<<"/">>, <<Backslash, "/">>)
      BY <1>4, Zenon DEF Escaped
    <2>2. /\ Quote \in Bearing /\ Backslash \in Bearing /\ "n" \in Bearing /\ "/" \in Bearing
          /\ "0022" \in HexGroups /\ HexValue["0022"] = <<Quote>>
      BY HexGroupsAssumption, Zenon DEF Bearing
    <2>3. <<Quote>> # <<>>
      OBVIOUS
    <2> QED
      BY <1>2, <1>3, <2>1, <2>2, <2>3, EscapedAre, Zenon
  <1> QED
    BY <1>1, <1>4

\* A text of three and one more, and of five and one more.
LEMMA OneMoreOf ==
    ASSUME NEW a, NEW b, NEW k, NEW c
    PROVE  /\ (((<<b>> \o <<k>>) \o <<b>>) \o <<c>>) = <<b, k, b, c>>
           /\ (((<<a, b>> \o <<k>>) \o <<a, b>>) \o <<c>>) = <<a, b, k, a, b, c>>
  <1> DEFINE T == {a, b, k, c}
             one == <<b>>
             two == <<a, b>>
             key == <<k>>
             end == <<c>>
             s2 == one \o key
             s3 == s2 \o one
             s4 == s3 \o end
             t3 == two \o key
             t5 == t3 \o two
             t6 == t5 \o end
             four == <<b, k, b, c>>
             six == <<a, b, k, a, b, c>>
  <1>1. /\ one \in Seq(T) /\ Len(one) = 1 /\ one[1] = b
        /\ two \in Seq(T) /\ Len(two) = 2 /\ two[1] = a /\ two[2] = b
        /\ key \in Seq(T) /\ Len(key) = 1 /\ key[1] = k
        /\ end \in Seq(T) /\ Len(end) = 1 /\ end[1] = c
    OBVIOUS
  <1>2. /\ four \in Seq(T) /\ Len(four) = 4
        /\ four[1] = b /\ four[2] = k /\ four[3] = b /\ four[4] = c
    OBVIOUS
  <1>3. /\ six \in Seq(T) /\ Len(six) = 6
        /\ six[1] = a /\ six[2] = b /\ six[3] = k /\ six[4] = a /\ six[5] = b /\ six[6] = c
    OBVIOUS
  <1> HIDE DEF T, one, two, key, end, four, six
  <1>4. s2 \in Seq(T) /\ Len(s2) = 2 /\ s2[1] = b /\ s2[2] = k
    <2>1. one \in Seq(T) /\ key \in Seq(T)
      BY <1>1
    <2>2. /\ s2 \in Seq(T) /\ Len(s2) = Len(one) + Len(key)
          /\ \A i \in 1..Len(one) : s2[i] = one[i]
          /\ \A i \in 1..Len(key) : s2[Len(one) + i] = key[i]
      BY <2>1, JoinIs
    <2> HIDE DEF s2
    <2> QED
      BY <1>1, <2>2
  <1> HIDE DEF s2
  <1>5. s3 \in Seq(T) /\ Len(s3) = 3 /\ s3[1] = b /\ s3[2] = k /\ s3[3] = b
    <2>1. s2 \in Seq(T) /\ one \in Seq(T)
      BY <1>1, <1>4
    <2>2. /\ s3 \in Seq(T) /\ Len(s3) = Len(s2) + Len(one)
          /\ \A i \in 1..Len(s2) : s3[i] = s2[i]
          /\ \A i \in 1..Len(one) : s3[Len(s2) + i] = one[i]
      BY <2>1, JoinIs
    <2> HIDE DEF s3
    <2> QED
      BY <1>1, <1>4, <2>2
  <1> HIDE DEF s3
  <1>6. /\ s4 \in Seq(T) /\ Len(s4) = 4
        /\ s4[1] = b /\ s4[2] = k /\ s4[3] = b /\ s4[4] = c
    <2>1. s3 \in Seq(T) /\ end \in Seq(T)
      BY <1>1, <1>5
    <2>2. /\ s4 \in Seq(T) /\ Len(s4) = Len(s3) + Len(end)
          /\ \A i \in 1..Len(s3) : s4[i] = s3[i]
          /\ \A i \in 1..Len(end) : s4[Len(s3) + i] = end[i]
      BY <2>1, JoinIs
    <2> HIDE DEF s4
    <2> QED
      BY <1>1, <1>5, <2>2
  <1> HIDE DEF s4
  <1>7. t3 \in Seq(T) /\ Len(t3) = 3 /\ t3[1] = a /\ t3[2] = b /\ t3[3] = k
    <2>1. two \in Seq(T) /\ key \in Seq(T)
      BY <1>1
    <2>2. /\ t3 \in Seq(T) /\ Len(t3) = Len(two) + Len(key)
          /\ \A i \in 1..Len(two) : t3[i] = two[i]
          /\ \A i \in 1..Len(key) : t3[Len(two) + i] = key[i]
      BY <2>1, JoinIs
    <2> HIDE DEF t3
    <2> QED
      BY <1>1, <2>2
  <1> HIDE DEF t3
  <1>8. /\ t5 \in Seq(T) /\ Len(t5) = 5
        /\ t5[1] = a /\ t5[2] = b /\ t5[3] = k /\ t5[4] = a /\ t5[5] = b
    <2>1. t3 \in Seq(T) /\ two \in Seq(T)
      BY <1>1, <1>7
    <2>2. /\ t5 \in Seq(T) /\ Len(t5) = Len(t3) + Len(two)
          /\ \A i \in 1..Len(t3) : t5[i] = t3[i]
          /\ \A i \in 1..Len(two) : t5[Len(t3) + i] = two[i]
      BY <2>1, JoinIs
    <2> HIDE DEF t5
    <2> QED
      BY <1>1, <1>7, <2>2
  <1> HIDE DEF t5
  <1>9. /\ t6 \in Seq(T) /\ Len(t6) = 6
        /\ t6[1] = a /\ t6[2] = b /\ t6[3] = k /\ t6[4] = a /\ t6[5] = b /\ t6[6] = c
    <2>1. t5 \in Seq(T) /\ end \in Seq(T)
      BY <1>1, <1>8
    <2>2. /\ t6 \in Seq(T) /\ Len(t6) = Len(t5) + Len(end)
          /\ \A i \in 1..Len(t5) : t6[i] = t5[i]
          /\ \A i \in 1..Len(end) : t6[Len(t5) + i] = end[i]
      BY <2>1, JoinIs
    <2> HIDE DEF t6
    <2> QED
      BY <1>1, <1>8, <2>2
  <1> HIDE DEF t6
  <1>10. s4 = four
    BY <1>2, <1>6, SameSequence
  <1>11. t6 = six
    BY <1>3, <1>9, SameSequence
  <1> QED
    BY <1>10, <1>11, Zenon DEF s4, s3, s2, t6, t5, t3, one, two, key, end, four, six

\* Text that looks like a field is four characters and a key.
LEMMA LikeFieldIs ==
    ASSUME NEW U, IsAlphabet(U), NEW key \in Keys(U), Colon \in U, NEW json, NEW text,
           IsWritten(U, json, text)
    PROVE  IsWritten(U, json \o LikeField(key).json, text \o LikeField(key).text)
  <1> DEFINE q == <<Backslash, Quote>>
             k == <<key>>
             c == <<Colon>>
             one == <<Quote>>
             J == LikeField(key).json
             T == LikeField(key).text
             j1 == q \o k
             j2 == j1 \o q
             j3 == j2 \o c
             t1 == one \o k
             t2 == t1 \o one
             t3 == t2 \o c
  <1>1. /\ Quote \in U /\ Backslash \in U /\ key \in U /\ key # Quote /\ key # Backslash
        /\ Quote # "u" /\ Colon # Quote /\ Colon # Backslash
    <2>1. Quote # "u" /\ Colon # Quote /\ Colon # Backslash
      BY Zenon DEF Quote, Colon, Backslash
    <2> QED
      BY <2>1, Zenon DEF Keys, IsAlphabet
  <1>2. /\ q \in Seq(U) /\ k \in Seq(U) /\ c \in Seq(U) /\ one \in Seq(U)
        /\ q[1] = Backslash /\ q[2] = Quote /\ k[1] = key /\ c[1] = Colon
    BY <1>1
  <1>3. q \in Written(U) /\ k \in Written(U) /\ c \in Written(U)
    BY <1>1, Zenon DEF Written, Bare, Behind
  <1>4. J = <<Backslash, Quote, key, Backslash, Quote, Colon>> /\ T = <<Quote, key, Quote, Colon>>
    <2> DEFINE a == <<Quote, key, Quote, Colon>>
               b == <<Backslash, Quote, key, Backslash, Quote, Colon>>
    <2>1. LikeField(key) = [text |-> a, json |-> b]
      BY Zenon DEF LikeField, Piece
    <2> HIDE DEF a, b
    <2>2. J = b /\ T = a
      BY <2>1
    <2> QED
      BY <2>2 DEF a, b
  <1>5. J = j3 /\ T = t3
    <2>1. /\ (((<<Quote>> \o <<key>>) \o <<Quote>>) \o <<Colon>>) = <<Quote, key, Quote, Colon>>
          /\ (((<<Backslash, Quote>> \o <<key>>) \o <<Backslash, Quote>>) \o <<Colon>>)
                 = <<Backslash, Quote, key, Backslash, Quote, Colon>>
      BY OneMoreOf
    <2> QED
      BY <1>4, <2>1, Zenon
  <1> HIDE DEF q, k, c, one, J, T
  <1>6. Meant(q) = one /\ Meant(k) = k /\ Meant(c) = c
    <2>1. Meant(q) = <<Unescaped(Quote)>>
      BY <1>1, <1>2, Zenon DEF Meant
    <2>2. Meant(k) = k /\ Meant(c) = c
      BY <1>1, <1>2, Zenon DEF Meant
    <2> QED
      BY <2>1, <2>2, EscapedAre, Zenon DEF one
  <1>7. json \in Seq(U) /\ text \in Seq(U)
    BY <1>3, WrittenMore
  <1>8. IsWritten(U, json \o q, text \o one)
    BY <1>3, <1>6, WrittenMore
  <1>9. IsWritten(U, (json \o q) \o k, (text \o one) \o k)
    BY <1>3, <1>6, <1>8, WrittenMore
  <1>10. IsWritten(U, ((json \o q) \o k) \o q, ((text \o one) \o k) \o one)
    BY <1>3, <1>6, <1>9, WrittenMore
  <1>11. IsWritten(U, (((json \o q) \o k) \o q) \o c, (((text \o one) \o k) \o one) \o c)
    BY <1>3, <1>6, <1>10, WrittenMore
  <1>12. (((json \o q) \o k) \o q) \o c = json \o j3
    <2> DEFINE two == q \o k
               three == two \o q
    <2>1. json \in Seq(U) /\ q \in Seq(U) /\ k \in Seq(U) /\ c \in Seq(U)
      BY <1>2, <1>7, Zenon
    <2>2. (json \o q) \o k = json \o two
      BY <2>1, Associates, SMTT(30)
    <2>3. two \in Seq(U)
      BY <2>1, ConcatProperties
    <2> HIDE DEF two
    <2>4. (json \o two) \o q = json \o three
      BY <2>1, <2>3, Associates, SMTT(30)
    <2>5. three \in Seq(U)
      BY <2>1, <2>3, ConcatProperties
    <2> HIDE DEF three
    <2>6. (json \o three) \o c = json \o (three \o c)
      BY <2>1, <2>5, Associates, SMTT(30)
    <2> QED
      BY <2>2, <2>4, <2>6, Zenon DEF two, three
  <1>13. (((text \o one) \o k) \o one) \o c = text \o t3
    <2> DEFINE two == one \o k
               three == two \o one
    <2>1. text \in Seq(U) /\ one \in Seq(U) /\ k \in Seq(U) /\ c \in Seq(U)
      BY <1>2, <1>7, Zenon
    <2>2. (text \o one) \o k = text \o two
      BY <2>1, Associates, SMTT(30)
    <2>3. two \in Seq(U)
      BY <2>1, ConcatProperties
    <2> HIDE DEF two
    <2>4. (text \o two) \o one = text \o three
      BY <2>1, <2>3, Associates, SMTT(30)
    <2>5. three \in Seq(U)
      BY <2>1, <2>3, ConcatProperties
    <2> HIDE DEF three
    <2>6. (text \o three) \o c = text \o (three \o c)
      BY <2>1, <2>5, Associates, SMTT(30)
    <2> QED
      BY <2>2, <2>4, <2>6, Zenon DEF two, three
  <1> QED
    BY <1>5, <1>11, <1>12, <1>13, Zenon DEF J, T

\* What is sent for any pieces is one of the ways to write their text.
LEMMA PiecesAreWritten ==
    \A pieces \in Seq(Pieces) : IsWritten(Symbols, Json(pieces), Text(pieces))
  <1> DEFINE U == Symbols
             X == Seq(U)
             fj == [x \in Pieces |-> x.json]
             ft == [x \in Pieces |-> x.text]
             S == {s \in Seq(Pieces) : IsWritten(U, Json(s), Text(s))}
  <1>1. IsAlphabet(U) /\ Colon \in U /\ "id" \in Keys(U) /\ "flv_pull_url" \in Keys(U)
    BY SymbolsAreAlphabet, Zenon DEF Layout, FieldKeys
  <1>2. ASSUME NEW x \in Pieces, NEW json, NEW text, IsWritten(U, json, text)
        PROVE  IsWritten(U, json \o x.json, text \o x.text)
    <2>1. CASE x \in Plain \cup Escaped
      <3>1. x.json \in Written(U) /\ x.text = Meant(x.json)
        BY <2>1, PieceIsWritten
      <3> QED
        BY <1>1, <1>2, <3>1, WrittenMore
    <2>2. CASE x \in {LikeField("id"), LikeField("flv_pull_url")}
      <3> HIDE DEF U
      <3>1. CASE x = LikeField("id")
        BY <1>1, <1>2, <3>1, LikeFieldIs
      <3>2. CASE x = LikeField("flv_pull_url")
        BY <1>1, <1>2, <3>2, LikeFieldIs
      <3> QED
        BY <2>2, <3>1, <3>2
    <2> QED
      BY <2>1, <2>2, Zenon DEF Pieces
  <1>3. ASSUME NEW x \in Pieces
        PROVE  x.json \in X /\ x.text \in X
    <2>1. CASE x \in Plain \cup Escaped
      <3>1. x.json \in Written(U) /\ x.text = Meant(x.json)
        BY <2>1, PieceIsWritten
      <3> HIDE DEF U
      <3> QED
        BY <1>1, <3>1, WrittenIs
    <2>2. ASSUME NEW key \in Keys(U), x = LikeField(key)
          PROVE  x.json \in X /\ x.text \in X
      <3> HIDE DEF U
      <3> DEFINE text == <<Quote, key, Quote, Colon>>
                 json == <<Backslash, Quote, key, Backslash, Quote, Colon>>
      <3>1. Quote \in U /\ Backslash \in U /\ Colon \in U /\ key \in U
        BY <1>1, Zenon DEF Keys, IsAlphabet
      <3>2. text \in X /\ json \in X
        BY <3>1
      <3>3. x = [text |-> text, json |-> json]
        BY <2>2, Zenon DEF LikeField, Piece
      <3> HIDE DEF text, json
      <3>4. x.json = json /\ x.text = text
        BY <3>3
      <3> QED
        BY <3>2, <3>4, Zenon
    <2> QED
      BY <1>1, <2>1, <2>2, Zenon DEF Pieces
  <1>4. fj \in [Pieces -> X] /\ ft \in [Pieces -> X]
    <2> HIDE DEF X
    <2> QED
      BY <1>3
  <1>5. ASSUME NEW s \in Seq(Pieces)
        PROVE  /\ Json(s) = FlattenSeq([i \in DOMAIN s |-> fj[s[i]]])
               /\ Text(s) = FlattenSeq([i \in DOMAIN s |-> ft[s[i]]])
    <2>1. \A i \in DOMAIN s : s[i] \in Pieces
      BY LenProperties, ElementOfSeq
    <2>2. \A i \in DOMAIN s : s[i].json = fj[s[i]] /\ s[i].text = ft[s[i]]
      BY <2>1, Zenon
    <2>3. /\ [i \in DOMAIN s |-> s[i].json] = [i \in DOMAIN s |-> fj[s[i]]]
          /\ [i \in DOMAIN s |-> s[i].text] = [i \in DOMAIN s |-> ft[s[i]]]
      BY <2>2, Zenon
    <2> QED
      BY <2>3, Zenon DEF Json, Text
  <1>6. <<>> \in S
    <2>1. IsWritten(U, <<>>, <<>>)
      BY WrittenNothing
    <2>2. DOMAIN <<>> = {} /\ <<>> \in Seq(Pieces)
      BY EmptySeq
    <2>3. [i \in {} |-> fj[<<>>[i]]] = <<>> /\ [i \in {} |-> ft[<<>>[i]]] = <<>>
      OBVIOUS
    <2>4. Json(<<>>) = FlattenSeq(<<>>) /\ Text(<<>>) = FlattenSeq(<<>>)
      BY <1>5, <2>2, <2>3, Zenon
    <2>5. FlattenSeq(<<>>) = <<>>
      BY FlattenIs
    <2> QED
      BY <2>1, <2>2, <2>4, <2>5, Zenon
  <1>7. ASSUME NEW s \in Seq(Pieces), NEW x \in Pieces, s \in S
        PROVE  Append(s, x) \in S
    <2> DEFINE t == Append(s, x)
               js == [i \in DOMAIN s |-> fj[s[i]]]
               ts == [i \in DOMAIN s |-> ft[s[i]]]
               jt == [i \in DOMAIN t |-> fj[t[i]]]
               tt == [i \in DOMAIN t |-> ft[t[i]]]
    <2>1. fj[x] = x.json /\ ft[x] = x.text
      BY Zenon
    <2>2. t \in Seq(Pieces)
      BY AppendProperties
    <2>3. /\ Json(s) = FlattenSeq(js) /\ Json(t) = FlattenSeq(jt)
          /\ Text(s) = FlattenSeq(ts) /\ Text(t) = FlattenSeq(tt)
      BY <1>5, <2>2, Zenon
    <2>4. IsWritten(U, Json(s) \o x.json, Text(s) \o x.text)
      BY <1>2, <1>7, Zenon
    <2> HIDE DEF fj, ft, X
    <2>5. js \in Seq(X) /\ jt = Append(js, fj[x])
      BY <1>4, MapOfAppend
    <2>6. ts \in Seq(X) /\ tt = Append(ts, ft[x])
      BY <1>4, MapOfAppend
    <2> HIDE DEF js, ts, jt, tt, t
    <2>7. FlattenSeq(Append(js, x.json)) = FlattenSeq(js) \o x.json
      BY <1>3, <2>5, FlattenIs DEF X
    <2>8. FlattenSeq(Append(ts, x.text)) = FlattenSeq(ts) \o x.text
      BY <1>3, <2>6, FlattenIs DEF X
    <2>9. Json(t) = Json(s) \o x.json /\ Text(t) = Text(s) \o x.text
      BY <2>1, <2>3, <2>5, <2>6, <2>7, <2>8, Zenon
    <2> QED
      BY <2>2, <2>4, <2>9, Zenon DEF t
  <1> HIDE DEF S
  <1>8. \A s \in Seq(Pieces) : s \in S
    BY <1>6, <1>7, SequencesBySet
  <1> QED
    BY <1>8, Zenon DEF S

\* Two fields of any text are both read, unless it is written with \uXXXX above 0x7f,
\* and text that looks like a field is not.
THEOREM FieldsAreRead == Spec => []FieldsRead
  <1> DEFINE U == Symbols
  <1>1. InputInv => FieldsRead
    <2> SUFFICES ASSUME InputInv, kind = "text", NEW n \in 0..Len(input)
                 PROVE  LET title == SubSeq(input, 1, n)
                            name == SubSeq(input, n + 1, Len(input))
                            doc == Object(<< <<"title", Quoted(Json(title))>>,
                                             <<"name", Quoted(Json(name))>> >>)
                        IN  /\ json_string_field(doc, "title") = Text(title)
                            /\ json_string_field(doc, "name") = Text(name)
                            /\ json_string_field(doc, "id") = <<>>
      BY Zenon DEF FieldsRead
    <2> DEFINE title == SubSeq(input, 1, n)
               name == SubSeq(input, n + 1, Len(input))
               doc == Object(<< <<"title", Quoted(Json(title))>>,
                                <<"name", Quoted(Json(name))>> >>)
    <2>1. input \in Seq(Pieces)
      <3>1. "text" \in DOMAIN Elements /\ Elements["text"] = Pieces
        BY DEF Elements
      <3> QED
        BY <3>1, Zenon DEF InputInv
    <2>2. title \in Seq(Pieces) /\ name \in Seq(Pieces)
      <3>1. Len(input) \in Nat /\ \A i \in 1..Len(input) : input[i] \in Pieces
        BY <2>1, LenProperties, ElementOfSeq
      <3>2. 1 \in Nat \ {0} /\ n + 1 \in Nat \ {0}
        BY <3>1
      <3>3. /\ \A i \in 1..n : input[i] \in Pieces
            /\ \A i \in (n + 1)..Len(input) : input[i] \in Pieces
        BY <3>1
      <3> QED
        BY <3>1, <3>2, <3>3, SubSeqProperties
    <2> HIDE DEF title, name
    <2>3. /\ IsAlphabet(U) /\ Layout \subseteq U
          /\ "title" \in Keys(U) /\ "name" \in Keys(U) /\ "id" \in Keys(U)
      BY SymbolsAreAlphabet, Zenon DEF FieldKeys
    <2> HIDE DEF U
    <2>4. PICK ws1 \in Seq(Written(U)) : FlattenSeq(ws1) = Json(title) /\ Meaning(ws1) = Text(title)
      BY <2>2, PiecesAreWritten, Zenon DEF IsWritten, U
    <2>5. PICK ws2 \in Seq(Written(U)) : FlattenSeq(ws2) = Json(name) /\ Meaning(ws2) = Text(name)
      BY <2>2, PiecesAreWritten, Zenon DEF IsWritten, U
    <2> DEFINE f1 == [key |-> "title", text |-> ws1]
               f2 == [key |-> "name", text |-> ws2]
               fields == <<f1, f2>>
               v1 == <<"title", Quoted(Json(title))>>
               v2 == <<"name", Quoted(Json(name))>>
    <2>6. f1.key = "title" /\ f1.text = ws1 /\ f2.key = "name" /\ f2.text = ws2
      OBVIOUS
    <2>7. f1 \in StringFields(U) /\ f2 \in StringFields(U)
      <3> DEFINE K == Keys(U)
                 W == Seq(Written(U))
      <3>1. "title" \in K /\ "name" \in K /\ ws1 \in W /\ ws2 \in W
        BY <2>3
      <3> HIDE DEF K, W
      <3>2. f1 \in [key : K, text : W] /\ f2 \in [key : K, text : W]
        BY <3>1
      <3> QED
        BY <3>2, Zenon DEF StringFields, K, W
    <2> HIDE DEF f1, f2
    <2>8. /\ fields \in Seq(StringFields(U)) /\ Len(fields) = 2 /\ DOMAIN fields = 1..2
          /\ fields[1] = f1 /\ fields[2] = f2
      BY <2>7
    <2> HIDE DEF fields
    <2>9. \A i, j \in 1..Len(fields) : fields[i].key = fields[j].key => i = j
      <3>1. "title" # "name" /\ \A i \in 1..2 : i = 1 \/ i = 2
        OBVIOUS
      <3> QED
        BY <2>6, <2>8, <3>1, Zenon
    <2>10. Serialised(fields) = <<v1, v2>>
      <3> DEFINE g == [i \in 1..2 |-> <<fields[i].key, Quoted(FlattenSeq(fields[i].text))>>]
      <3>1. Serialised(fields) = g
        BY <2>8, Zenon DEF Serialised
      <3>2. g[1] = v1 /\ g[2] = v2
        <4>1. 1 \in 1..2 /\ 2 \in 1..2
          OBVIOUS
        <4> QED
          BY <2>4, <2>5, <2>6, <2>8, <4>1, Zenon
      <3> HIDE DEF v1, v2
      <3>3. g = [i \in 1..2 |-> IF i = 1 THEN v1 ELSE v2]
        <4>1. \A i \in 1..2 : g[i] = IF i = 1 THEN v1 ELSE v2
          <5>1. \A i \in 1..2 : i = 1 \/ i = 2
            OBVIOUS
          <5>2. 2 # 1
            OBVIOUS
          <5> HIDE DEF g
          <5> QED
            BY <3>2, <5>1, <5>2, Zenon
        <4> QED
          BY <4>1, Zenon
      <3>4. <<v1, v2>> = [i \in 1..2 |-> IF i = 1 THEN v1 ELSE v2]
        OBVIOUS
      <3> QED
        BY <3>1, <3>3, <3>4, Zenon
    <2>11. doc = Object(Serialised(fields))
      BY <2>10, Zenon
    <2> HIDE DEF doc
    <2>12. /\ \A i \in 1..Len(fields) :
                  json_string_field(doc, fields[i].key) = Meaning(fields[i].text)
           /\ \A key \in Keys(U) : (\A i \in 1..Len(fields) : fields[i].key # key)
                  => json_string_field(doc, key) = <<>>
      BY <2>3, <2>8, <2>9, <2>11, FieldIsRead
    <2>13. 1 \in 1..Len(fields) /\ 2 \in 1..Len(fields)
           /\ \A i \in 1..Len(fields) : i = 1 \/ i = 2
      BY <2>8
    <2>14. json_string_field(doc, "title") = Text(title)
      BY <2>4, <2>6, <2>8, <2>12, <2>13, Zenon
    <2>15. json_string_field(doc, "name") = Text(name)
      BY <2>5, <2>6, <2>8, <2>12, <2>13, Zenon
    <2>16. json_string_field(doc, "id") = <<>>
      <3>1. "title" # "id" /\ "name" # "id"
        OBVIOUS
      <3>2. \A i \in 1..Len(fields) : fields[i].key # "id"
        BY <2>6, <2>8, <2>13, <3>1, Zenon
      <3> QED
        BY <2>3, <2>12, <3>2, Zenon
    <2> QED
      BY <2>14, <2>15, <2>16, Zenon DEF doc, title, name
  <1> QED
    BY <1>1, InputInvInit, InputInvStep, PTL DEF Spec
=============================================================================

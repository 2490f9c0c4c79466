----------------------------- MODULE LGMemProofs -----------------------------
(***************************************************************************)
(* The safety of the allocator for every arena size, word size and set of  *)
(* requests.  The inductive invariant says that the free list and the      *)
(* clients' blocks partition the arena; NoOverlap alone is not inductive,  *)
(* because a free list that covered a client's byte would hand it out.     *)
(***************************************************************************)
EXTENDS LGMem, SequenceTheorems, FiniteSetTheorems, TLAPS

(***************************************************************************)
(* What the operators of LGMem on a free list do to its order and to the   *)
(* bytes it covers.  Every list is treated as a whole, by the positions of *)
(* its nodes before and after, so that no induction over it is needed.     *)
(***************************************************************************)

\* realLGmemSize of a uint32 is a multiple of 8 and, unless it wrapped around
\* to 0, not below its argument.
LEMMA RoundedSize ==
  ASSUME NEW n \in 0 .. Word - 1
  PROVE  /\ realLGmemSize(n) \in Nat
         /\ realLGmemSize(n) % 8 = 0
         /\ realLGmemSize(n) # 0 => n <= realLGmemSize(n)
<1>1. CASE n + 7 < Word
  <2>1. (n + 7) % Word = n + 7
    BY <1>1, MemAssumption
  <2>2. QED
    BY <2>1, MemAssumption DEF realLGmemSize
<1>2. CASE n + 7 >= Word
  <2>1. (n + 7) % Word = n + 7 - Word
    BY <1>2, MemAssumption
  <2>2. QED
    BY <2>1, MemAssumption DEF realLGmemSize
<1>3. QED
  BY <1>1, <1>2, MemAssumption

\* Sums and differences of multiples of 8 are multiples of 8.
LEMMA Multiples ==
  ASSUME NEW a \in Int, NEW b \in Int, a % 8 = 0, b % 8 = 0
  PROVE  (a + b) % 8 = 0 /\ (a - b) % 8 = 0
OBVIOUS

\* Min of the community modules on the two marks mr_malloc compares.
LEMMA MinOfTwo ==
  ASSUME NEW a \in Int, NEW b \in Int
  PROVE  Min({a, b}) \in {a, b} /\ Min({a, b}) <= a /\ Min({a, b}) <= b
BY DEF Min

\* Max of the community modules on the two marks mr_malloc compares.
LEMMA MaxOfTwo ==
  ASSUME NEW a \in Int, NEW b \in Int
  PROVE  Max({a, b}) \in {a, b} /\ Max({a, b}) >= a /\ Max({a, b}) >= b
BY DEF Max

\* Unlinking element i moves the later elements one position down.
LEMMA Removed ==
  ASSUME NEW S, NEW s \in Seq(S), NEW i \in 1 .. Len(s)
  PROVE  /\ RemoveAt(s, i) \in Seq(S)
         /\ Len(RemoveAt(s, i)) = Len(s) - 1
         /\ \A j \in 1 .. Len(s) - 1 :
              RemoveAt(s, i)[j] = IF j < i THEN s[j] ELSE s[j + 1]
<1> DEFINE front == SubSeq(s, 1, i - 1)
           back  == SubSeq(s, i + 1, Len(s))
<1>1. Len(s) \in Nat /\ \A j \in 1 .. Len(s) : s[j] \in S
  BY LenProperties
<1>2. /\ front \in Seq(S)
      /\ Len(front) = i - 1
      /\ \A j \in 1 .. i - 1 : front[j] = s[j]
  <2>1. \A j \in 1 .. i - 1 : s[j] \in S
    BY <1>1
  <2>2. /\ front \in Seq(S)
        /\ Len(front) = IF 1 <= i - 1 THEN (i - 1) - 1 + 1 ELSE 0
        /\ \A j \in 1 .. (i - 1) - 1 + 1 : front[j] = s[1 + j - 1]
    BY <1>1, <2>1, SubSeqProperties
  <2>3. QED
    BY <1>1, <2>2
<1>3. /\ back \in Seq(S)
      /\ Len(back) = Len(s) - i
      /\ \A j \in 1 .. Len(s) - i : back[j] = s[i + j]
  <2>1. \A j \in i + 1 .. Len(s) : s[j] \in S
    BY <1>1
  <2>2. /\ back \in Seq(S)
        /\ Len(back) = IF i + 1 <= Len(s) THEN Len(s) - (i + 1) + 1 ELSE 0
        /\ \A j \in 1 .. Len(s) - (i + 1) + 1 : back[j] = s[(i + 1) + j - 1]
    BY <1>1, <2>1, SubSeqProperties
  <2>3. QED
    BY <1>1, <2>2
<1> HIDE DEF front, back
<1>4. /\ front \o back \in Seq(S)
      /\ Len(front \o back) = Len(front) + Len(back)
      /\ \A j \in 1 .. Len(front) + Len(back) :
           (front \o back)[j] = IF j <= Len(front) THEN front[j] ELSE back[j - Len(front)]
  BY <1>2, <1>3, ConcatProperties
<1>5. RemoveAt(s, i) = front \o back
  BY DEF RemoveAt, front, back
<1>6. Len(front) + Len(back) = Len(s) - 1
  BY <1>1, <1>2, <1>3
<1>7. ASSUME NEW j \in 1 .. Len(s) - 1
      PROVE  (front \o back)[j] = IF j < i THEN s[j] ELSE s[j + 1]
  <2>1. (front \o back)[j] = IF j <= i - 1 THEN front[j] ELSE back[j - (i - 1)]
    BY <1>2, <1>4, <1>6
  <2>2. CASE j < i
    BY <2>1, <2>2, <1>1, <1>2
  <2>3. CASE j >= i
    <3>1. j - (i - 1) \in 1 .. Len(s) - i /\ i + (j - (i - 1)) = j + 1
      BY <2>3, <1>1
    <3>2. QED
      BY <2>1, <2>3, <3>1, <1>1, <1>3
  <2>4. j < i \/ j >= i
    BY <1>1
  <2>5. QED
    BY <2>2, <2>3, <2>4
<1>8. QED
  BY <1>4, <1>5, <1>6, <1>7

\* s with everything strictly between positions a and b replaced by e
Splice(s, a, e, b) == SubSeq(s, 1, a) \o <<e>> \o SubSeq(s, b, Len(s))

\* A splice keeps what is up to a and from b on, around its new element.
LEMMA Spliced ==
  ASSUME NEW S, NEW s \in Seq(S), NEW e \in S,
         NEW a \in 0 .. Len(s), NEW b \in 1 .. Len(s) + 1, a < b
  PROVE  /\ Splice(s, a, e, b) \in Seq(S)
         /\ Len(Splice(s, a, e, b)) = Len(s) + a + 2 - b
         /\ \A j \in 1 .. Len(s) + a + 2 - b :
              Splice(s, a, e, b)[j] = IF j <= a THEN s[j]
                                      ELSE IF j = a + 1 THEN e ELSE s[j - a - 2 + b]
<1> DEFINE front == SubSeq(s, 1, a)
           back  == SubSeq(s, b, Len(s))
<1>1. Len(s) \in Nat /\ \A j \in 1 .. Len(s) : s[j] \in S
  BY LenProperties
<1>2. /\ front \in Seq(S)
      /\ Len(front) = a
      /\ \A j \in 1 .. a : front[j] = s[j]
  <2>1. \A j \in 1 .. a : s[j] \in S
    BY <1>1
  <2>2. /\ front \in Seq(S)
        /\ Len(front) = IF 1 <= a THEN a - 1 + 1 ELSE 0
        /\ \A j \in 1 .. a - 1 + 1 : front[j] = s[1 + j - 1]
    BY <1>1, <2>1, SubSeqProperties
  <2>3. QED
    BY <1>1, <2>2
<1>3. /\ back \in Seq(S)
      /\ Len(back) = Len(s) + 1 - b
      /\ \A j \in 1 .. Len(s) + 1 - b : back[j] = s[b + j - 1]
  <2>1. \A j \in b .. Len(s) : s[j] \in S
    BY <1>1
  <2>2. /\ back \in Seq(S)
        /\ Len(back) = IF b <= Len(s) THEN Len(s) - b + 1 ELSE 0
        /\ \A j \in 1 .. Len(s) - b + 1 : back[j] = s[b + j - 1]
    BY <1>1, <2>1, SubSeqProperties
  <2>3. QED
    BY <1>1, <2>2
<1> HIDE DEF front, back
<1>4. <<e>> \in Seq(S) /\ Len(<<e>>) = 1 /\ <<e>>[1] = e
  OBVIOUS
<1>5. /\ front \o <<e>> \in Seq(S)
      /\ Len(front \o <<e>>) = Len(front) + Len(<<e>>)
      /\ \A j \in 1 .. Len(front) + Len(<<e>>) :
           (front \o <<e>>)[j] = IF j <= Len(front) THEN front[j] ELSE <<e>>[j - Len(front)]
  BY <1>2, <1>4, ConcatProperties
<1> DEFINE start == front \o <<e>>
<1>6. /\ start \in Seq(S)
      /\ Len(start) = a + 1
      /\ \A j \in 1 .. a + 1 : start[j] = IF j <= a THEN s[j] ELSE e
  BY <1>1, <1>2, <1>4, <1>5
<1> HIDE DEF start
<1>7. /\ start \o back \in Seq(S)
      /\ Len(start \o back) = Len(start) + Len(back)
      /\ \A j \in 1 .. Len(start) + Len(back) :
           (start \o back)[j] = IF j <= Len(start) THEN start[j] ELSE back[j - Len(start)]
  BY <1>3, <1>6, ConcatProperties
<1>8. Len(start) + Len(back) = Len(s) + a + 2 - b
  BY <1>1, <1>3, <1>6
<1>9. ASSUME NEW j \in 1 .. Len(s) + a + 2 - b
       PROVE  (start \o back)[j] = IF j <= a THEN s[j]
                                  ELSE IF j = a + 1 THEN e ELSE s[j - a - 2 + b]
  <2>1. (start \o back)[j] = IF j <= a + 1 THEN start[j] ELSE back[j - (a + 1)]
    BY <1>6, <1>7, <1>8
  <2>2. CASE j <= a
    <3>1. j <= a + 1 /\ j \in 1 .. a + 1
      BY <2>2, <1>1
    <3>2. QED
      BY <2>1, <2>2, <3>1, <1>6
  <2>3. CASE j = a + 1
    <3>1. j <= a + 1 /\ j \in 1 .. a + 1 /\ ~(j <= a)
      BY <2>3, <1>1
    <3>2. QED
      BY <2>1, <2>3, <3>1, <1>6
  <2>4. CASE j > a + 1
    <3>1. j - (a + 1) \in 1 .. Len(s) + 1 - b /\ b + (j - (a + 1)) - 1 = j - a - 2 + b
      BY <2>4, <1>1
    <3>2. QED
      BY <2>1, <2>4, <3>1, <1>1, <1>3
  <2>5. j <= a \/ j = a + 1 \/ j > a + 1
    BY <1>1
  <2>6. QED
    BY <2>2, <2>4, <2>3, <2>5
<1>10. Splice(s, a, e, b) = start \o back
  BY DEF Splice, start, front, back
<1>11. QED
  BY <1>7, <1>8, <1>10, <1>9
-----------------------------------------------------------------------------
\* The list ascends, its nodes lie in the arena on their alignment, and no two
\* of them touch: FreeListMerged for any list.
WellFormed(list) ==
  /\ list \in Seq(FreeNodes)
  /\ \A i \in 1 .. Len(list) : EndOf(list[i]) <= LG_mem_len
  /\ \A i \in 1 .. Len(list) : list[i].off % 8 = 0 /\ list[i].len % 8 = 0
  /\ \A i, j \in 1 .. Len(list) : i < j => EndOf(list[i]) < list[j].off

\* Every node of a well-formed list is a nonempty range inside the arena.
LEMMA NodesTyped ==
  ASSUME NEW list, WellFormed(list)
  PROVE  /\ Len(list) \in Nat
         /\ DOMAIN list = 1 .. Len(list)
         /\ \A i \in 1 .. Len(list) :
              /\ list[i] \in FreeNodes
              /\ list[i].off \in Nat
              /\ list[i].len \in Nat \ {0}
              /\ list[i].off < LG_mem_len
              /\ EndOf(list[i]) = list[i].off + list[i].len
<1>1. list \in Seq(FreeNodes)
  BY DEF WellFormed
<1>2. Len(list) \in Nat /\ DOMAIN list = 1 .. Len(list)
  BY <1>1, LenProperties
<1>3. ASSUME NEW i \in 1 .. Len(list)
      PROVE  list[i] \in FreeNodes
  BY <1>1, LenProperties
<1>4. ASSUME NEW n \in FreeNodes
      PROVE  /\ n.off \in Nat
             /\ n.len \in Nat \ {0}
             /\ n.off < LG_mem_len
             /\ EndOf(n) = n.off + n.len
  BY MemAssumption DEF FreeNodes, Offsets, EndOf
<1>5. QED
  BY <1>2, <1>3, <1>4

\* Where the nodes of a well-formed list start and end.
LEMMA NodeBounds ==
  ASSUME NEW list, WellFormed(list)
  PROVE  \A j \in 1 .. Len(list) :
           /\ list[j].off \in Nat
           /\ EndOf(list[j]) \in Nat
           /\ list[j].off < EndOf(list[j])
           /\ EndOf(list[j]) <= LG_mem_len
           /\ list[j].off % 8 = 0
           /\ list[j].len % 8 = 0
<1>1. SUFFICES ASSUME NEW j \in 1 .. Len(list)
               PROVE  /\ list[j].off \in Nat
                      /\ EndOf(list[j]) \in Nat
                      /\ list[j].off < EndOf(list[j])
                      /\ EndOf(list[j]) <= LG_mem_len
                      /\ list[j].off % 8 = 0
                      /\ list[j].len % 8 = 0
  OBVIOUS
<1>2. /\ list[j].off \in Nat /\ list[j].len \in Nat \ {0}
      /\ EndOf(list[j]) = list[j].off + list[j].len
  BY NodesTyped
<1>3. EndOf(list[j]) <= LG_mem_len /\ list[j].off % 8 = 0 /\ list[j].len % 8 = 0
  BY DEF WellFormed
<1>4. QED
  BY <1>2, <1>3

\* A byte is in a list exactly when one of its nodes covers it.
LEMMA CoveredBytes ==
  ASSUME NEW list \in Seq(FreeNodes), NEW x
  PROVE  x \in BytesIn(list) <=>
           /\ x \in Offsets
           /\ \E j \in 1 .. Len(list) : list[j].off <= x /\ x < EndOf(list[j])
BY LenProperties DEF BytesIn

\* Taking the first len bytes of a node that has them leaves a well-formed list
\* that covers exactly these bytes less.
LEMMA TakeFrontCorrect ==
  ASSUME NEW list, WellFormed(list),
         NEW i \in 1 .. Len(list),
         NEW len \in Nat \ {0}, len % 8 = 0, len <= list[i].len
  PROVE  /\ WellFormed(TakeFront(list, i, len))
         /\ BytesIn(TakeFront(list, i, len)) =
              BytesIn(list) \ (list[i].off .. list[i].off + len - 1)
         /\ list[i].off .. list[i].off + len - 1 \subseteq BytesIn(list)
<1> DEFINE new == TakeFront(list, i, len)
           o   == list[i].off
           l   == list[i].len
<1>1. list \in Seq(FreeNodes) /\ Len(list) \in Nat
  BY NodesTyped DEF WellFormed
<1>2. \A j \in 1 .. Len(list) :
        /\ list[j].off \in Nat
        /\ EndOf(list[j]) \in Nat
        /\ list[j].off < EndOf(list[j])
        /\ EndOf(list[j]) <= LG_mem_len
        /\ list[j].off % 8 = 0
        /\ list[j].len % 8 = 0
  BY NodeBounds
<1>3. \A j, m \in 1 .. Len(list) : j < m => EndOf(list[j]) < list[m].off
  BY DEF WellFormed
<1>4. /\ o \in Nat /\ l \in Nat \ {0} /\ o + l <= LG_mem_len /\ len <= l
      /\ EndOf(list[i]) = o + l
      /\ o % 8 = 0 /\ l % 8 = 0
  BY NodesTyped DEF WellFormed
<1>5. \A j \in 1 .. Len(list) : j < i => EndOf(list[j]) < o
  BY <1>3
<1>6. \A j \in 1 .. Len(list) : i < j => o + l < list[j].off
  BY <1>3, <1>4
<1> HIDE DEF o, l, new
<1>7. ASSUME NEW x \in Offsets, NEW j \in 1 .. Len(list), j # i,
             list[j].off <= x, x < EndOf(list[j])
      PROVE  x \notin o .. o + l - 1
  <2>1. x \in Nat
    BY MemAssumption DEF Offsets
  <2>2. CASE j < i
    <3>1. x < EndOf(list[j]) /\ EndOf(list[j]) < o /\ EndOf(list[j]) \in Nat /\ o \in Nat
      BY <2>2, <1>2, <1>4, <1>5, <1>7
    <3>2. x < o
      BY <2>1, <3>1
    <3>3. QED
      BY <2>1, <3>1, <3>2
  <2>3. CASE i < j
    <3>1. list[j].off <= x /\ o + l < list[j].off /\ list[j].off \in Nat /\ o + l \in Nat
      BY <2>3, <1>2, <1>4, <1>6, <1>7
    <3>2. o + l < x
      BY <2>1, <3>1
    <3>3. QED
      BY <2>1, <3>1, <3>2, <1>4
  <2>4. j < i \/ i < j
    BY <1>1, <1>7
  <2>5. QED
    BY <2>2, <2>3, <2>4
<1>8. o .. o + len - 1 \subseteq o .. o + l - 1
  BY <1>4
<1>9. ASSUME NEW x \in o .. o + len - 1
      PROVE  x \in BytesIn(list)
  <2>1. x \in Offsets /\ o <= x /\ x < EndOf(list[i])
    BY <1>4, <1>9, MemAssumption DEF Offsets
  <2>2. QED
    BY <2>1, <1>1, CoveredBytes DEF o
<1>10. CASE l = len
  <2>1. new = RemoveAt(list, i)
    BY <1>10 DEF TakeFront, l, new
  <2> HIDE DEF new
  <2>2. /\ new \in Seq(FreeNodes)
        /\ Len(new) = Len(list) - 1
        /\ \A j \in 1 .. Len(list) - 1 : new[j] = IF j < i THEN list[j] ELSE list[j + 1]
    BY <2>1, <1>1, Removed
  <2> DEFINE Old(j) == IF j < i THEN j ELSE j + 1
  <2>3. ASSUME NEW j \in 1 .. Len(new)
        PROVE  Old(j) \in 1 .. Len(list) /\ Old(j) # i /\ new[j] = list[Old(j)]
    <3>1. Old(j) \in 1 .. Len(list) /\ Old(j) # i
      BY <2>2, <1>1
    <3>2. new[j] = list[Old(j)]
      BY <2>2, <1>1
    <3>3. QED
      BY <3>1, <3>2
  <2>4. \A j, m \in 1 .. Len(new) : j < m => Old(j) < Old(m)
    BY <2>2, <1>1
  <2>5. \A m \in 1 .. Len(list) : m # i => \E j \in 1 .. Len(new) : Old(j) = m
    <3>1. ASSUME NEW m \in 1 .. Len(list), m < i
          PROVE  m \in 1 .. Len(new) /\ Old(m) = m
      BY <3>1, <2>2, <1>1
    <3>2. ASSUME NEW m \in 1 .. Len(list), m > i
          PROVE  m - 1 \in 1 .. Len(new) /\ Old(m - 1) = m
      BY <3>2, <2>2, <1>1
    <3>3. \A m \in 1 .. Len(list) : m # i => m < i \/ m > i
      BY <1>1
    <3>4. QED
      BY <3>1, <3>2, <3>3
  <2> HIDE DEF Old
  <2>6. WellFormed(new)
    <3>1. \A j \in 1 .. Len(new) : EndOf(new[j]) <= LG_mem_len
      BY <2>3, <1>2
    <3>2. \A j \in 1 .. Len(new) : new[j].off % 8 = 0 /\ new[j].len % 8 = 0
      BY <2>3, <1>2
    <3>3. \A j, m \in 1 .. Len(new) : j < m => EndOf(new[j]) < new[m].off
      BY <2>3, <2>4, <1>3
    <3>4. QED
      BY <2>2, <3>1, <3>2, <3>3 DEF WellFormed
  <2>7. ASSUME NEW x \in Offsets
        PROVE  x \in BytesIn(new) <=> x \in BytesIn(list) /\ x \notin o .. o + len - 1
    <3>1. CASE x \in BytesIn(new)
      <4>1. PICK j \in 1 .. Len(new) : new[j].off <= x /\ x < EndOf(new[j])
        BY <3>1, <2>2, CoveredBytes
      <4>2. list[Old(j)].off <= x /\ x < EndOf(list[Old(j)])
        BY <4>1, <2>3
      <4>3. x \in BytesIn(list)
        BY <4>2, <2>3, <1>1, CoveredBytes
      <4>4. x \notin o .. o + l - 1
        BY <4>2, <2>3, <1>7
      <4>5. QED
        BY <3>1, <4>3, <4>4, <1>8
    <3>2. CASE x \in BytesIn(list) /\ x \notin o .. o + len - 1
      <4>1. PICK m \in 1 .. Len(list) : list[m].off <= x /\ x < EndOf(list[m])
        BY <3>2, <1>1, CoveredBytes
      <4>2. m # i
        <5>1. list[i].off = o /\ EndOf(list[i]) = o + l /\ x \in Nat
          BY <1>4, MemAssumption DEF o, Offsets
        <5>2. QED
          BY <5>1, <4>1, <3>2, <1>4, <1>10
      <4>3. PICK j \in 1 .. Len(new) : Old(j) = m
        BY <4>2, <2>5
      <4>4. new[j].off <= x /\ x < EndOf(new[j])
        BY <4>1, <4>3, <2>3
      <4>5. QED
        BY <3>2, <4>4, <2>2, CoveredBytes
    <3>3. QED
      BY <3>1, <3>2
  <2>8. BytesIn(new) \subseteq Offsets /\ BytesIn(list) \subseteq Offsets
    BY DEF BytesIn
  <2>9. BytesIn(new) = BytesIn(list) \ (o .. o + len - 1)
    BY <2>7, <2>8
  <2>10. QED
    BY <2>6, <2>9, <1>9 DEF new, o
<1>11. CASE l # len
  <2> DEFINE e == Node(o + len, l - len)
  <2>1. /\ e.off = o + len
        /\ e.len = l - len
        /\ EndOf(e) = o + l
    BY <1>4 DEF Node, EndOf
  <2>2. e \in FreeNodes
    BY <1>4, <1>11, MemAssumption DEF Node, FreeNodes, Offsets
  <2>3. e.off % 8 = 0 /\ e.len % 8 = 0
    BY <2>1, <1>4, Multiples
  <2>4. new = [list EXCEPT ![i] = e]
    BY <1>11 DEF TakeFront, ReplaceAt, o, l, new
  <2> HIDE DEF new, e
  <2>5. /\ new \in Seq(FreeNodes)
        /\ Len(new) = Len(list)
        /\ \A j \in 1 .. Len(list) : new[j] = IF j = i THEN e ELSE list[j]
    BY <2>2, <2>4, <1>1, ExceptSeq
  <2>6. \A j \in 1 .. Len(list) : EndOf(new[j]) = EndOf(list[j])
    BY <2>1, <2>5, <1>4
  <2>7. \A j \in 1 .. Len(list) : new[j].off = IF j = i THEN o + len ELSE list[j].off
    BY <2>1, <2>5
  <2>8. ASSUME NEW j \in 1 .. Len(list)
         PROVE  list[j].off \in Nat /\ new[j].off \in Nat /\ list[j].off <= new[j].off
    <3>1. list[j].off \in Nat
      BY <1>2
    <3>2. CASE j = i
      <4>1. list[j].off = o /\ new[j].off = o + len
        BY <3>2, <2>7 DEF o
      <4>2. QED
        BY <4>1, <1>4
    <3>3. CASE j # i
      <4>1. new[j].off = list[j].off
        BY <3>3, <2>7
      <4>2. QED
        BY <3>1, <4>1
    <3>4. QED
      BY <3>2, <3>3
  <2>9. WellFormed(new)
    <3>1. \A j \in 1 .. Len(new) : EndOf(new[j]) <= LG_mem_len
      BY <2>5, <2>6, <1>2
    <3>2. \A j \in 1 .. Len(new) : new[j].off % 8 = 0 /\ new[j].len % 8 = 0
      BY <2>3, <2>5, <1>2
    <3>3. \A j, m \in 1 .. Len(new) : j < m => EndOf(new[j]) < new[m].off
      <4>1. ASSUME NEW j \in 1 .. Len(list), NEW m \in 1 .. Len(list), j < m
            PROVE  EndOf(new[j]) < new[m].off
        <5>1. EndOf(new[j]) \in Nat /\ EndOf(new[j]) < list[m].off
          BY <4>1, <2>6, <1>2, <1>3
        <5>2. list[m].off \in Nat /\ new[m].off \in Nat /\ list[m].off <= new[m].off
          BY <2>8
        <5>3. \A a, b, c \in Nat : a < b /\ b <= c => a < c
          OBVIOUS
        <5>4. QED
          BY <5>1, <5>2, <5>3, Zenon
      <4>2. QED
        BY <4>1, <2>5
    <3>4. QED
      BY <2>5, <3>1, <3>2, <3>3 DEF WellFormed
  <2>10. ASSUME NEW x \in Offsets
        PROVE  x \in BytesIn(new) <=> x \in BytesIn(list) /\ x \notin o .. o + len - 1
    <3>1. x \in Nat
      BY MemAssumption DEF Offsets
    <3>2. CASE x \in BytesIn(new)
      <4>1. PICK j \in 1 .. Len(list) : new[j].off <= x /\ x < EndOf(new[j])
        BY <3>2, <2>5, CoveredBytes
      <4>2. list[j].off <= x /\ x < EndOf(list[j])
        <5>1. list[j].off \in Nat /\ new[j].off \in Nat /\ list[j].off <= new[j].off
          BY <2>8
        <5>2. QED
          BY <5>1, <4>1, <2>6, <3>1
      <4>3. x \in BytesIn(list)
        BY <4>2, <1>1, CoveredBytes
      <4>4. CASE j = i
        BY <4>1, <4>3, <4>4, <2>7, <1>4, <3>1, <3>2
      <4>5. CASE j # i
        BY <4>2, <4>3, <4>5, <1>7, <1>8, <3>2
      <4>6. QED
        BY <4>4, <4>5
    <3>3. CASE x \in BytesIn(list) /\ x \notin o .. o + len - 1
      <4>1. PICK j \in 1 .. Len(list) : list[j].off <= x /\ x < EndOf(list[j])
        BY <3>3, <1>1, CoveredBytes
      <4>2. new[j].off <= x
        <5>1. CASE j = i
          <6>1. o <= x /\ x < o + l
            BY <4>1, <5>1, <1>4 DEF o
          <6>2. o + len <= x
            BY <6>1, <3>1, <3>3, <1>4
          <6>3. QED
            BY <5>1, <6>2, <2>7
        <5>2. CASE j # i
          BY <4>1, <5>2, <2>7
        <5>3. QED
          BY <5>1, <5>2
      <4>3. QED
        BY <3>3, <4>1, <4>2, <2>5, <2>6, CoveredBytes
    <3>4. QED
      BY <3>2, <3>3
  <2>11. BytesIn(new) \subseteq Offsets /\ BytesIn(list) \subseteq Offsets
    BY DEF BytesIn
  <2>12. BytesIn(new) = BytesIn(list) \ (o .. o + len - 1)
    BY <2>10, <2>11
  <2>13. QED
    BY <2>9, <2>12, <1>9 DEF new, o
<1> QED
  BY <1>10, <1>11

\* len bytes at p, none of them free, belong behind node k of the list.
Returnable(list, k, p, len) ==
  /\ WellFormed(list)
  /\ k \in 0 .. Len(list)
  /\ p \in Nat /\ p % 8 = 0
  /\ len \in Nat \ {0} /\ len % 8 = 0
  /\ p + len <= LG_mem_len
  /\ FreePosition(list, k, p)
  /\ \A x \in p .. p + len - 1 : x \notin BytesIn(list)

\* Returning len bytes that the list does not cover, at the place the loop of
\* mr_free finds, leaves a well-formed list that covers exactly these bytes more.
LEMMA PutBackCorrect ==
  ASSUME NEW list, NEW k, NEW p, NEW len, Returnable(list, k, p, len)
  PROVE  /\ WellFormed(PutBack(list, k, p, len))
         /\ BytesIn(PutBack(list, k, p, len)) = BytesIn(list) \cup (p .. p + len - 1)
<1> DEFINE new      == PutBack(list, k, p, len)
           joinPrev == k > 0 /\ EndOf(list[k]) = p
           joinNext == k < Len(list) /\ list[k + 1].off = p + len
           first    == IF joinPrev THEN list[k].off ELSE p
           last     == IF joinNext THEN EndOf(list[k + 1]) ELSE p + len
           a        == IF joinPrev THEN k - 1 ELSE k
           b        == IF joinNext THEN k + 2 ELSE k + 1
           e        == Node(first, last - first)
<1>0. /\ WellFormed(list)
      /\ k \in 0 .. Len(list)
      /\ p \in Nat /\ p % 8 = 0
      /\ len \in Nat \ {0} /\ len % 8 = 0
      /\ p + len <= LG_mem_len
      /\ FreePosition(list, k, p)
      /\ \A x \in p .. p + len - 1 : x \notin BytesIn(list)
  BY DEF Returnable
<1> USE <1>0
<1>1. list \in Seq(FreeNodes) /\ Len(list) \in Nat
  BY NodesTyped DEF WellFormed
<1>2. ASSUME NEW j \in 1 .. Len(list)
      PROVE  /\ list[j].off \in Nat
             /\ EndOf(list[j]) \in Nat
             /\ list[j].off < EndOf(list[j])
             /\ EndOf(list[j]) <= LG_mem_len
  <2>1. /\ list[j].off \in Nat /\ list[j].len \in Nat \ {0}
        /\ EndOf(list[j]) = list[j].off + list[j].len
    BY NodesTyped
  <2>2. EndOf(list[j]) <= LG_mem_len
    BY DEF WellFormed
  <2>3. QED
    BY <2>1, <2>2
<1>3. \A j, m \in 1 .. Len(list) : j < m => EndOf(list[j]) < list[m].off
  BY DEF WellFormed
<1>4. ASSUME NEW j \in 1 .. Len(list)
      PROVE  list[j].off % 8 = 0 /\ list[j].len % 8 = 0 /\ EndOf(list[j]) % 8 = 0
  <2>1. list[j].off % 8 = 0 /\ list[j].len % 8 = 0
    BY DEF WellFormed
  <2>2. /\ list[j].off \in Int /\ list[j].len \in Int
        /\ EndOf(list[j]) = list[j].off + list[j].len
    BY NodesTyped
  <2>3. (list[j].off + list[j].len) % 8 = 0
    BY <2>1, <2>2, Multiples
  <2>4. QED
    BY <2>1, <2>2, <2>3
<1>5. ASSUME NEW j \in 1 .. Len(list), j <= k
      PROVE  EndOf(list[j]) <= p
  <2>1. list[j].off < p
    BY <1>5 DEF FreePosition
  <2>2. list[j].off \in Nat /\ EndOf(list[j]) \in Nat
    BY <1>2
  <2>3. list[j].off <= p
    BY <2>1, <2>2
  <2>4. p \in Offsets /\ p \in p .. p + len - 1
    BY MemAssumption DEF Offsets
  <2>5. p < EndOf(list[j]) => p \in BytesIn(list)
    BY <2>3, <2>4, <1>1, CoveredBytes
  <2>6. ~(p < EndOf(list[j]))
    BY <2>4, <2>5
  <2>7. QED
    BY <2>2, <2>6
<1>6. ASSUME NEW j \in 1 .. Len(list), j > k
      PROVE  p + len <= list[j].off
  <2>1. k + 1 \in 1 .. Len(list) /\ k < Len(list)
    BY <1>1, <1>6
  <2>2. list[k + 1].off >= p
    BY <2>1 DEF FreePosition
  <2>3. list[j].off >= p
    <3>1. CASE j = k + 1
      BY <3>1, <2>2
    <3>2. CASE j > k + 1
      <4>1. EndOf(list[k + 1]) < list[j].off /\ list[k + 1].off < EndOf(list[k + 1])
        BY <3>2, <2>1, <1>2, <1>3
      <4>2. /\ list[k + 1].off \in Nat /\ list[j].off \in Nat
            /\ EndOf(list[k + 1]) \in Nat
        BY <2>1, <1>2
      <4>3. \A u, v, w \in Nat : u < v /\ v < w /\ u >= p => w >= p
        OBVIOUS
      <4>4. QED
        BY <4>1, <4>2, <4>3, <2>2
    <3>3. QED
      BY <3>1, <3>2, <1>6
  <2>4. list[j].off \in Nat /\ list[j].off < EndOf(list[j]) /\ EndOf(list[j]) <= LG_mem_len
    BY <1>2
  <2>5. list[j].off \in Offsets
    BY <2>4, <1>2, MemAssumption DEF Offsets
  <2>6. list[j].off \in BytesIn(list)
    BY <2>4, <2>5, <1>1, CoveredBytes
  <2>7. list[j].off \notin p .. p + len - 1
    BY <2>6
  <2>8. QED
    BY <2>3, <2>4, <2>7
<1>7. /\ a \in 0 .. Len(list) /\ b \in 1 .. Len(list) + 1 /\ a < b
      /\ a <= k /\ k < b
  BY <1>1
<1>8. /\ joinPrev => /\ a = k - 1 /\ first = list[k].off /\ k \in 1 .. Len(list)
                     /\ EndOf(list[k]) = p
      /\ ~joinPrev => a = k /\ first = p
  BY <1>1
<1>9. /\ joinNext => /\ b = k + 2 /\ last = EndOf(list[k + 1]) /\ k + 1 \in 1 .. Len(list)
                     /\ list[k + 1].off = p + len
      /\ ~joinNext => b = k + 1 /\ last = p + len
  BY <1>1
<1>10. k > 0 /\ ~joinPrev => EndOf(list[k]) # p
  OBVIOUS
<1>11. k < Len(list) /\ ~joinNext => list[k + 1].off # p + len
  OBVIOUS
<1>12. new = Splice(list, a, e, b)
  BY DEF PutBack, Splice
<1>13. e.off = first /\ e.len = last - first
  BY DEF Node
<1> HIDE DEF new, joinPrev, joinNext, first, last, a, b
<1>14. /\ first \in Nat /\ first <= p /\ first % 8 = 0
  <2>1. CASE joinPrev
    <3>1. k \in 1 .. Len(list) /\ first = list[k].off /\ EndOf(list[k]) = p
      BY <2>1, <1>8
    <3>2. list[k].off \in Nat /\ list[k].off < EndOf(list[k]) /\ list[k].off % 8 = 0
      BY <3>1, <1>2, <1>4
    <3>3. QED
      BY <3>1, <3>2
  <2>2. CASE ~joinPrev
    BY <2>2, <1>8
  <2>3. QED
    BY <2>1, <2>2
<1>15. /\ last \in Nat /\ p + len <= last /\ last <= LG_mem_len /\ last % 8 = 0
  <2>1. CASE joinNext
    <3>1. /\ k + 1 \in 1 .. Len(list) /\ last = EndOf(list[k + 1])
          /\ list[k + 1].off = p + len
      BY <2>1, <1>9
    <3>2. /\ EndOf(list[k + 1]) \in Nat /\ list[k + 1].off < EndOf(list[k + 1])
          /\ EndOf(list[k + 1]) <= LG_mem_len /\ EndOf(list[k + 1]) % 8 = 0
      BY <3>1, <1>2, <1>4
    <3>3. QED
      BY <3>1, <3>2
  <2>2. CASE ~joinNext
    <3>1. (p + len) % 8 = 0
      BY Multiples
    <3>2. QED
      BY <2>2, <3>1, <1>9
  <2>3. QED
    BY <2>1, <2>2
<1>16. ASSUME NEW j \in 1 .. Len(list), j <= a
       PROVE  EndOf(list[j]) < first
  <2>1. CASE joinPrev
    BY <2>1, <1>3, <1>8, <1>16
  <2>2. CASE ~joinPrev
    <3>1. k \in 1 .. Len(list) /\ EndOf(list[k]) # p /\ first = p /\ j <= k
      BY <2>2, <1>1, <1>8, <1>10, <1>16
    <3>2. CASE j = k
      <4>1. EndOf(list[k]) \in Nat /\ EndOf(list[k]) <= p
        BY <3>1, <1>2, <1>5
      <4>2. QED
        BY <3>1, <3>2, <4>1
    <3>3. CASE j < k
      <4>1. EndOf(list[j]) < list[k].off /\ list[k].off < EndOf(list[k]) /\ EndOf(list[k]) <= p
        BY <3>1, <3>3, <1>2, <1>3, <1>5
      <4>2. EndOf(list[j]) \in Nat /\ list[k].off \in Nat /\ EndOf(list[k]) \in Nat
        BY <3>1, <1>2
      <4>3. \A u, v, w \in Nat : u < v /\ v < w /\ w <= p => u < p
        OBVIOUS
      <4>4. QED
        BY <4>1, <4>2, <4>3, <3>1
    <3>4. QED
      BY <3>1, <3>2, <3>3
  <2>3. QED
    BY <2>1, <2>2
<1>17. ASSUME NEW j \in 1 .. Len(list), b <= j
       PROVE  last < list[j].off
  <2>1. CASE joinNext
    BY <2>1, <1>3, <1>9, <1>17
  <2>2. CASE ~joinNext
    <3>1. /\ k + 1 \in 1 .. Len(list) /\ list[k + 1].off # p + len /\ last = p + len
          /\ k + 1 <= j
      BY <2>2, <1>1, <1>9, <1>11, <1>17
    <3>2. p + len < list[k + 1].off
      <4>1. p + len <= list[k + 1].off /\ list[k + 1].off \in Nat
        <5>1. k + 1 > k
          OBVIOUS
        <5>2. QED
          BY <3>1, <5>1, <1>2, <1>6
      <4>2. p + len \in Nat
        OBVIOUS
      <4>3. \A u, v \in Nat : u <= v /\ v # u => u < v
        OBVIOUS
      <4>4. QED
        BY <4>1, <4>2, <4>3, <3>1, Zenon
    <3>3. CASE j = k + 1
      BY <3>1, <3>2, <3>3
    <3>4. CASE j > k + 1
      <4>1. EndOf(list[k + 1]) < list[j].off /\ list[k + 1].off < EndOf(list[k + 1])
        BY <3>1, <3>4, <1>2, <1>3
      <4>2. /\ EndOf(list[k + 1]) \in Nat /\ list[k + 1].off \in Nat
            /\ list[j].off \in Nat
        BY <3>1, <1>2
      <4>3. \A u, v, w \in Nat : p + len < u /\ u < v /\ v < w => p + len < w
        OBVIOUS
      <4>4. QED
        BY <4>1, <4>2, <4>3, <3>1, <3>2
    <3>5. QED
      BY <3>1, <3>3, <3>4
  <2>3. QED
    BY <2>1, <2>2
<1>18. e \in FreeNodes
  BY <1>14, <1>15, MemAssumption DEF Node, FreeNodes, Offsets
<1> HIDE DEF e
<1>19. e.off % 8 = 0 /\ e.len % 8 = 0 /\ EndOf(e) = last
  <2>1. (last - first) % 8 = 0
    BY <1>14, <1>15, Multiples
  <2>2. EndOf(e) = first + (last - first)
    BY <1>13 DEF EndOf
  <2>3. QED
    BY <2>1, <2>2, <1>13, <1>14, <1>15
<1> DEFINE Old(j) == IF j <= a THEN j ELSE j - a - 2 + b
<1>20. /\ new \in Seq(FreeNodes)
       /\ Len(new) = Len(list) + a + 2 - b
       /\ \A j \in 1 .. Len(new) :
            new[j] = IF j <= a THEN list[j]
                     ELSE IF j = a + 1 THEN e ELSE list[j - a - 2 + b]
  <2>1. /\ Splice(list, a, e, b) \in Seq(FreeNodes)
        /\ Len(Splice(list, a, e, b)) = Len(list) + a + 2 - b
        /\ \A j \in 1 .. Len(list) + a + 2 - b :
             Splice(list, a, e, b)[j] = IF j <= a THEN list[j]
                                        ELSE IF j = a + 1 THEN e ELSE list[j - a - 2 + b]
    BY <1>1, <1>7, <1>18, Spliced
  <2>2. new = Splice(list, a, e, b)
    BY <1>12
  <2>3. QED
    BY <2>1, <2>2
<1>21. a + 1 \in 1 .. Len(new) /\ new[a + 1] = e
  <2>1. a \in Nat /\ a + 1 <= Len(list) + a + 2 - b
    BY <1>1, <1>7
  <2>2. a + 1 \in 1 .. Len(new) /\ ~(a + 1 <= a)
    BY <2>1, <1>20
  <2>3. QED
    BY <2>2, <1>20
<1>22. ASSUME NEW j \in 1 .. Len(new), j # a + 1
       PROVE  /\ Old(j) \in 1 .. Len(list)
              /\ j <= a => Old(j) <= a
              /\ j > a + 1 => Old(j) >= b
              /\ new[j] = list[Old(j)]
  <2>1. /\ Old(j) \in 1 .. Len(list)
        /\ j <= a => Old(j) <= a
        /\ j > a + 1 => Old(j) >= b
    <3>1. CASE j <= a
      BY <3>1, <1>1, <1>7, <1>20
    <3>2. CASE j > a + 1
      BY <3>2, <1>1, <1>7, <1>20
    <3>3. j <= a \/ j > a + 1
      <4>1. a \in Int /\ j \in Int
        BY <1>1, <1>7
      <4>2. QED
        BY <4>1, <1>22
    <3>4. QED
      BY <3>1, <3>2, <3>3, <1>7
  <2>2. new[j] = IF j <= a THEN list[j] ELSE list[j - a - 2 + b]
    BY <1>20, <1>22
  <2>3. QED
    BY <2>1, <2>2
<1>23. \A j, m \in 1 .. Len(new) :
         j # a + 1 /\ m # a + 1 /\ j < m => Old(j) < Old(m)
  BY <1>1, <1>7, <1>20
<1>24. ASSUME NEW m \in 1 .. Len(list), m <= a \/ m >= b
       PROVE  \E j \in 1 .. Len(new) : j # a + 1 /\ Old(j) = m
  <2>1. CASE m <= a
    <3>1. m \in 1 .. Len(new) /\ m # a + 1 /\ Old(m) = m
      BY <2>1, <1>1, <1>7, <1>20
    <3>2. QED
      BY <3>1
  <2>2. CASE m >= b
    <3>1. /\ m - b + a + 2 \in 1 .. Len(new)
          /\ m - b + a + 2 # a + 1
          /\ Old(m - b + a + 2) = m
      BY <2>2, <1>1, <1>7, <1>20
    <3>2. QED
      BY <3>1
  <2>3. QED
    BY <2>1, <2>2, <1>24
<1> HIDE DEF Old
<1>25. WellFormed(new)
  <2>1. ASSUME NEW j \in 1 .. Len(new)
        PROVE  /\ EndOf(new[j]) <= LG_mem_len
               /\ new[j].off % 8 = 0 /\ new[j].len % 8 = 0
    <3>1. CASE j = a + 1
      BY <3>1, <1>15, <1>19, <1>21
    <3>2. CASE j # a + 1
      BY <3>2, <1>2, <1>4, <1>22
    <3>3. QED
      BY <3>1, <3>2
  <2>2. ASSUME NEW j \in 1 .. Len(new), NEW m \in 1 .. Len(new), j < m
        PROVE  EndOf(new[j]) < new[m].off
    <3>1. CASE j = a + 1
      <4>1. m > a + 1 /\ m # a + 1
        BY <3>1, <2>2, <1>7, <1>20
      <4>2. new[m] = list[Old(m)] /\ Old(m) >= b /\ Old(m) \in 1 .. Len(list)
        BY <4>1, <1>22
      <4>3. last < list[Old(m)].off
        BY <4>2, <1>17
      <4>4. QED
        BY <3>1, <4>2, <4>3, <1>19, <1>21
    <3>2. CASE m = a + 1
      <4>1. j <= a /\ j # a + 1
        BY <3>2, <2>2, <1>7, <1>20
      <4>2. new[j] = list[Old(j)] /\ Old(j) <= a /\ Old(j) \in 1 .. Len(list)
        BY <4>1, <1>22
      <4>3. EndOf(list[Old(j)]) < first
        BY <4>2, <1>16
      <4>4. QED
        BY <3>2, <4>2, <4>3, <1>13, <1>21
    <3>3. CASE j # a + 1 /\ m # a + 1
      <4>1. Old(j) < Old(m)
        BY <3>3, <2>2, <1>23
      <4>2. /\ new[j] = list[Old(j)] /\ Old(j) \in 1 .. Len(list)
            /\ new[m] = list[Old(m)] /\ Old(m) \in 1 .. Len(list)
        BY <3>3, <1>22
      <4>3. QED
        BY <4>1, <4>2, <1>3
    <3>4. QED
      BY <3>1, <3>2, <3>3
  <2>3. QED
    BY <2>1, <2>2, <1>20 DEF WellFormed
<1>26. ASSUME NEW x \in Offsets
       PROVE  x \in BytesIn(new) <=> x \in BytesIn(list) \/ x \in p .. p + len - 1
  <2>1. x \in Nat
    BY MemAssumption DEF Offsets
  <2>2. CASE x \in BytesIn(new)
    <3>1. PICK j \in 1 .. Len(new) : new[j].off <= x /\ x < EndOf(new[j])
      BY <2>2, <1>20, CoveredBytes
    <3>2. CASE j # a + 1
      <4>1. Old(j) \in 1 .. Len(list) /\ new[j] = list[Old(j)]
        BY <3>2, <1>22
      <4>2. x \in BytesIn(list)
        BY <3>1, <4>1, <1>1, CoveredBytes
      <4>3. QED
        BY <2>2, <4>2
    <3>3. CASE j = a + 1
      <4>1. first <= x /\ x < last
        BY <3>1, <3>3, <1>13, <1>19, <1>21
      <4>2. CASE x < p
        <5>1. joinPrev
          BY <4>1, <4>2, <2>1, <1>8
        <5>2. /\ k \in 1 .. Len(list) /\ first = list[k].off /\ EndOf(list[k]) = p
          BY <5>1, <1>8
        <5>3. x \in BytesIn(list)
          BY <4>1, <4>2, <5>2, <1>1, CoveredBytes
        <5>4. QED
          BY <2>2, <5>3
      <4>3. CASE x >= p + len
        <5>1. joinNext
          BY <4>1, <4>3, <2>1, <1>9
        <5>2. /\ k + 1 \in 1 .. Len(list) /\ last = EndOf(list[k + 1])
              /\ list[k + 1].off = p + len
          BY <5>1, <1>9
        <5>3. list[k + 1].off <= x /\ x < EndOf(list[k + 1])
          BY <4>1, <4>3, <5>2
        <5>4. x \in BytesIn(list)
          BY <5>2, <5>3, <1>1, CoveredBytes
        <5>5. QED
          BY <2>2, <5>4
      <4>4. CASE p <= x /\ x < p + len
        <5>1. x \in p .. p + len - 1
          BY <4>4, <2>1
        <5>2. QED
          BY <2>2, <5>1
      <4>5. QED
        BY <4>2, <4>3, <4>4, <2>1
    <3>4. QED
      BY <3>2, <3>3
  <2>3. CASE x \in p .. p + len - 1
    <3>1. new[a + 1].off <= x /\ x < EndOf(new[a + 1])
      <4>1. first <= x /\ x < last
        BY <2>1, <2>3, <1>14, <1>15
      <4>2. QED
        BY <4>1, <1>13, <1>19, <1>21
    <3>2. x \in BytesIn(new)
      BY <3>1, <1>20, <1>21, CoveredBytes
    <3>3. QED
      BY <2>3, <3>2
  <2>4. CASE x \in BytesIn(list)
    <3>1. PICK m \in 1 .. Len(list) : list[m].off <= x /\ x < EndOf(list[m])
      BY <2>4, <1>1, CoveredBytes
    <3>2. CASE m <= a \/ m >= b
      <4>1. PICK j \in 1 .. Len(new) : j # a + 1 /\ Old(j) = m
        BY <3>2, <1>24
      <4>2. new[j] = list[m]
        BY <4>1, <1>22
      <4>3. x \in BytesIn(new)
        BY <3>1, <4>2, <1>20, CoveredBytes
      <4>4. QED
        BY <2>4, <4>3
    <3>3. CASE a < m /\ m < b
      <4>1. first <= x /\ x < last
        <5>1. (joinPrev /\ m = k) \/ (joinNext /\ m = k + 1)
          BY <3>3, <1>1, <1>7, <1>8, <1>9
        <5>2. CASE joinPrev /\ m = k
          <6>1. list[m].off = first /\ EndOf(list[m]) = p
            BY <5>2, <1>8
          <6>2. first <= x /\ x < p
            BY <3>1, <6>1
          <6>3. QED
            BY <6>2, <2>1, <1>14, <1>15
        <5>3. CASE joinNext /\ m = k + 1
          <6>1. list[m].off = p + len /\ EndOf(list[m]) = last
            BY <5>3, <1>9
          <6>2. p + len <= x /\ x < last
            BY <3>1, <6>1
          <6>3. QED
            BY <6>2, <2>1, <1>14, <1>15
        <5>4. QED
          BY <5>1, <5>2, <5>3
      <4>2. new[a + 1].off <= x /\ x < EndOf(new[a + 1])
        BY <4>1, <1>13, <1>19, <1>21
      <4>3. x \in BytesIn(new)
        BY <4>2, <1>20, <1>21, CoveredBytes
      <4>4. QED
        BY <2>4, <4>3
    <3>4. QED
      BY <3>2, <3>3, <1>1, <1>7
  <2>5. QED
    BY <2>2, <2>3, <2>4
<1>27. BytesIn(new) = BytesIn(list) \cup (p .. p + len - 1)
  <2>1. BytesIn(new) \subseteq Offsets /\ BytesIn(list) \subseteq Offsets
    BY DEF BytesIn
  <2>2. p .. p + len - 1 \subseteq Offsets
    BY MemAssumption DEF Offsets
  <2>3. QED
    BY <2>1, <2>2, <1>26
<1>28. QED
  BY <1>25, <1>27 DEF new

-----------------------------------------------------------------------------
(* The invariant of the allocator. *)

Sound(blocks) ==
  \A b \in blocks :
    /\ b \in Blocks
    /\ realLGmemSize(b.req) # 0
    /\ b.off % 8 = 0
    /\ b.off + realLGmemSize(b.req) <= LG_mem_len

Disjoint(blocks) ==
  \A b, c \in blocks : b # c => BytesOf(b) \cap BytesOf(c) = {}

Partition(list, blocks) ==
  /\ \A b \in blocks : BytesOf(b) \cap BytesIn(list) = {}
  /\ \A a \in Offsets : a \in BytesIn(list) \/ \E b \in blocks : a \in BytesOf(b)

\* What a free list, a count of free bytes and the clients' blocks satisfy
\* together, also between the malloc and the free of one mr_realloc.
Consistent(list, left, blocks) ==
  /\ WellFormed(list)
  /\ Sound(blocks)
  /\ Disjoint(blocks)
  /\ Partition(list, blocks)
  /\ left = Cardinality(BytesIn(list))

\* A range of len bytes has len elements.
LEMMA RangeSize ==
  ASSUME NEW o \in Nat, NEW len \in Nat \ {0}
  PROVE  /\ IsFiniteSet(o .. o + len - 1)
         /\ Cardinality(o .. o + len - 1) = len
<1>1. o \in Int /\ o + len - 1 \in Int
  OBVIOUS
<1>2. /\ IsFiniteSet(o .. o + len - 1)
      /\ Cardinality(o .. o + len - 1) = IF o > o + len - 1 THEN 0 ELSE o + len - 1 - o + 1
  BY <1>1, FS_Interval
<1>3. QED
  BY <1>2

\* The bytes of a list are a finite set, so that they can be counted.
LEMMA BytesFinite ==
  ASSUME NEW list
  PROVE  /\ IsFiniteSet(BytesIn(list))
         /\ Cardinality(BytesIn(list)) \in 0 .. LG_mem_len
         /\ IsFiniteSet(Offsets)
         /\ Cardinality(Offsets) = LG_mem_len
<1>1. IsFiniteSet(Offsets) /\ Cardinality(Offsets) = LG_mem_len
  <2>1. LG_mem_len \in Int /\ LG_mem_len - 1 \in Int
    BY MemAssumption
  <2>2. /\ IsFiniteSet(0 .. LG_mem_len - 1)
        /\ Cardinality(0 .. LG_mem_len - 1)
             = IF 0 > LG_mem_len - 1 THEN 0 ELSE LG_mem_len - 1 - 0 + 1
    BY <2>1, FS_Interval
  <2>3. QED
    BY <2>2, MemAssumption DEF Offsets
<1>2. BytesIn(list) \in SUBSET Offsets
  BY DEF BytesIn
<1>3. /\ IsFiniteSet(BytesIn(list))
      /\ Cardinality(BytesIn(list)) <= Cardinality(Offsets)
  BY <1>1, <1>2, FS_Subset
<1>4. Cardinality(BytesIn(list)) \in Nat
  BY <1>3, FS_CardinalityType
<1>5. QED
  BY <1>1, <1>3, <1>4, MemAssumption

\* A block of an aligned offset and a sound request has its bytes, a multiple of
\* 8 of them, inside the arena.
LEMMA BlockBytes ==
  ASSUME NEW blocks, Sound(blocks), NEW b \in blocks
  PROVE  /\ b \in Blocks
         /\ b.off \in Nat
         /\ b.off < LG_mem_len
         /\ b.off % 8 = 0
         /\ realLGmemSize(b.req) \in Nat \ {0}
         /\ realLGmemSize(b.req) % 8 = 0
         /\ b.req \in 0 .. Word - 1
         /\ b.req <= realLGmemSize(b.req)
         /\ b.off + realLGmemSize(b.req) <= LG_mem_len
         /\ b.off \in BytesOf(b)
         /\ BytesOf(b) = b.off .. b.off + realLGmemSize(b.req) - 1
<1>1. /\ b \in Blocks
      /\ realLGmemSize(b.req) # 0
      /\ b.off % 8 = 0
      /\ b.off + realLGmemSize(b.req) <= LG_mem_len
  BY DEF Sound
<1>2. b.off \in Nat /\ b.off < LG_mem_len /\ b.req \in 0 .. Word - 1
  <2>1. b.off \in Offsets /\ b.req \in Requests
    BY <1>1 DEF Blocks
  <2>2. Requests \subseteq 0 .. Word - 1 /\ LG_mem_len \in Nat
    BY MemAssumption
  <2>3. b.req \in 0 .. Word - 1
    BY <2>1, <2>2
  <2>4. QED
    BY <2>1, <2>2, <2>3 DEF Offsets
<1>3. /\ realLGmemSize(b.req) \in Nat
      /\ realLGmemSize(b.req) % 8 = 0
      /\ b.req <= realLGmemSize(b.req)
  BY <1>1, <1>2, RoundedSize
<1>4. b.off \in BytesOf(b)
  BY <1>1, <1>2, <1>3 DEF BytesOf
<1>5. QED
  BY <1>1, <1>2, <1>3, <1>4 DEF BytesOf

\* mr_malloc's part of a step: carving a block out of a free node keeps the
\* partition and the count, and the block was nobody's before.
LEMMA MallocKeeps ==
  ASSUME NEW list, NEW left, NEW blocks, Consistent(list, left, blocks),
         NEW n \in Requests, realLGmemSize(n) # 0,
         NEW i \in 1 .. Len(list), list[i].len >= realLGmemSize(n)
  PROVE  /\ Consistent(TakeFront(list, i, realLGmemSize(n)), left - realLGmemSize(n),
                       blocks \cup {[off |-> list[i].off, req |-> n]})
         /\ [off |-> list[i].off, req |-> n] \notin blocks
         /\ BytesOf([off |-> list[i].off, req |-> n]) \subseteq BytesIn(list)
<1> DEFINE len == realLGmemSize(n)
           nb  == [off |-> list[i].off, req |-> n]
           new == TakeFront(list, i, len)
<1>1. WellFormed(list) /\ Sound(blocks) /\ Disjoint(blocks) /\ Partition(list, blocks)
  BY DEF Consistent
<1>2. n \in 0 .. Word - 1
  BY MemAssumption
<1>3. len \in Nat \ {0} /\ len % 8 = 0
  BY <1>2, RoundedSize
<1>4. /\ list[i].off \in Nat /\ list[i].off < LG_mem_len /\ list[i].len \in Nat
      /\ EndOf(list[i]) = list[i].off + list[i].len
      /\ list[i].off % 8 = 0
      /\ EndOf(list[i]) <= LG_mem_len
  BY <1>1, NodesTyped DEF WellFormed
<1>5. nb.off = list[i].off /\ nb.req = n
  OBVIOUS
<1>6. BytesOf(nb) = list[i].off .. list[i].off + len - 1
  BY <1>5 DEF BytesOf
<1>7. nb \in Blocks
  <2>1. list[i].off \in Offsets
    BY <1>4, MemAssumption DEF Offsets
  <2>2. QED
    BY <2>1 DEF Blocks
<1>8. list[i].off + len <= LG_mem_len /\ len <= list[i].len
  BY <1>3, <1>4, MemAssumption
<1> HIDE DEF len, nb, new
<1>9. /\ WellFormed(new)
      /\ BytesIn(new) = BytesIn(list) \ BytesOf(nb)
      /\ BytesOf(nb) \subseteq BytesIn(list)
  <2>1. /\ WellFormed(TakeFront(list, i, len))
        /\ BytesIn(TakeFront(list, i, len)) =
             BytesIn(list) \ (list[i].off .. list[i].off + len - 1)
        /\ list[i].off .. list[i].off + len - 1 \subseteq BytesIn(list)
    BY <1>1, <1>3, <1>8, TakeFrontCorrect
  <2>2. QED
    BY <2>1, <1>6 DEF new
<1>10. \A b \in blocks : BytesOf(b) \cap BytesOf(nb) = {}
  BY <1>1, <1>9 DEF Partition
<1>11. nb \notin blocks
  <2>1. list[i].off \in BytesOf(nb)
    BY <1>3, <1>4, <1>6
  <2>2. QED
    BY <2>1, <1>10
<1>12. Sound(blocks \cup {nb})
  <2>1. realLGmemSize(nb.req) # 0 /\ nb.off % 8 = 0
        /\ nb.off + realLGmemSize(nb.req) <= LG_mem_len
    BY <1>3, <1>4, <1>5, <1>8 DEF len
  <2>2. QED
    BY <2>1, <1>1, <1>7 DEF Sound
<1>13. Disjoint(blocks \cup {nb})
  BY <1>1, <1>10 DEF Disjoint
<1>14. Partition(new, blocks \cup {nb})
  BY <1>1, <1>9 DEF Partition
<1>15. left - len = Cardinality(BytesIn(new))
  <2>1. Cardinality(BytesOf(nb)) = len
    <3>1. Cardinality(list[i].off .. list[i].off + len - 1) = len
      BY <1>3, <1>4, RangeSize
    <3>2. QED
      BY <3>1, <1>6
  <2>2. Cardinality(BytesIn(list) \ BytesOf(nb))
          = Cardinality(BytesIn(list)) - Cardinality(BytesIn(list) \cap BytesOf(nb))
    BY BytesFinite, FS_Difference
  <2>3. BytesIn(list) \cap BytesOf(nb) = BytesOf(nb)
    BY <1>9
  <2>4. left = Cardinality(BytesIn(list))
    BY DEF Consistent
  <2>5. QED
    BY <2>1, <2>2, <2>3, <2>4, <1>9
<1>16. Consistent(new, left - len, blocks \cup {nb})
  BY <1>9, <1>12, <1>13, <1>14, <1>15 DEF Consistent
<1>17. QED
  BY <1>9, <1>11, <1>16 DEF new, nb, len
\* mr_free's part of a step: the block is taken back whole, and neither of the
\* checks of mr_free turns it down.
LEMMA FreeKeeps ==
  ASSUME NEW list, NEW left, NEW blocks, Consistent(list, left, blocks),
         NEW b \in blocks,
         NEW k \in 0 .. Len(list), FreePosition(list, k, b.off)
  PROVE  /\ InArena(b.off, realLGmemSize(b.req)) /\ ~AlreadyFree(list, k, b.off)
         /\ Consistent(PutBack(list, k, b.off, realLGmemSize(b.req)),
                       left + realLGmemSize(b.req), blocks \ {b})
<1> DEFINE p   == b.off
           len == realLGmemSize(b.req)
           new == PutBack(list, k, p, len)
<1>1. WellFormed(list) /\ Sound(blocks) /\ Disjoint(blocks) /\ Partition(list, blocks)
  BY DEF Consistent
<1>2. /\ p \in Nat /\ p < LG_mem_len /\ p % 8 = 0
      /\ len \in Nat \ {0} /\ len % 8 = 0
      /\ p + len <= LG_mem_len
      /\ p \in BytesOf(b)
      /\ BytesOf(b) = p .. p + len - 1
  BY <1>1, BlockBytes
<1>3. FreePosition(list, k, p)
  OBVIOUS
<1> HIDE DEF p, len, new
<1>4. InArena(p, len)
  BY <1>2 DEF InArena
<1>5. \A x \in p .. p + len - 1 : x \notin BytesIn(list)
  BY <1>1, <1>2 DEF Partition
<1>6. ~AlreadyFree(list, k, p)
  <2>1. SUFFICES ASSUME k < Len(list), list[k + 1].off = p
                 PROVE  FALSE
    BY DEF AlreadyFree
  <2>2. Len(list) \in Nat /\ k + 1 \in 1 .. Len(list)
    BY <2>1, <1>1, NodesTyped
  <2>3. /\ list[k + 1].off \in Nat /\ list[k + 1].len \in Nat \ {0}
        /\ EndOf(list[k + 1]) = list[k + 1].off + list[k + 1].len
    BY <2>2, <1>1, NodesTyped
  <2>4. list[k + 1].off <= p /\ p < EndOf(list[k + 1])
    BY <2>1, <2>3
  <2>5. p \in Offsets
    BY <1>2, MemAssumption DEF Offsets
  <2>6. p \in BytesIn(list)
    BY <2>2, <2>4, <2>5, <1>1, CoveredBytes DEF WellFormed
  <2>7. QED
    BY <2>6, <1>2, <1>5
<1>7. /\ WellFormed(new)
      /\ BytesIn(new) = BytesIn(list) \cup BytesOf(b)
  <2>1. WellFormed(list) /\ p \in Nat /\ p % 8 = 0
    BY <1>1, <1>2
  <2>2. len \in Nat \ {0} /\ len % 8 = 0 /\ p + len <= LG_mem_len
    BY <1>2
  <2>3. /\ WellFormed(PutBack(list, k, p, len))
        /\ BytesIn(PutBack(list, k, p, len)) = BytesIn(list) \cup (p .. p + len - 1)
    <3>1. Returnable(list, k, p, len)
      BY <2>1, <2>2, <1>3, <1>5 DEF Returnable
    <3>2. QED
      BY <3>1, PutBackCorrect
  <2>4. QED
    BY <2>3, <1>2 DEF new
<1>8. Sound(blocks \ {b}) /\ Disjoint(blocks \ {b})
  BY <1>1 DEF Sound, Disjoint
<1>9. Partition(new, blocks \ {b})
  BY <1>1, <1>7 DEF Partition, Disjoint
<1>10. left + len = Cardinality(BytesIn(new))
  <2>1. IsFiniteSet(BytesOf(b)) /\ Cardinality(BytesOf(b)) = len
    BY <1>2, RangeSize
  <2>2. Cardinality(BytesIn(list) \cup BytesOf(b))
          = Cardinality(BytesIn(list)) + Cardinality(BytesOf(b))
              - Cardinality(BytesIn(list) \cap BytesOf(b))
    BY <2>1, BytesFinite, FS_Union
  <2>3. BytesIn(list) \cap BytesOf(b) = {}
    BY <1>2, <1>5
  <2>4. Cardinality({}) = 0
    BY FS_EmptySet
  <2>5. left = Cardinality(BytesIn(list)) /\ Cardinality(BytesIn(list)) \in Nat
    BY BytesFinite DEF Consistent
  <2>6. Cardinality(BytesIn(list) \cap BytesOf(b)) = 0
    BY <2>3, <2>4
  <2>7. Cardinality(BytesIn(new)) = left + len - 0
    BY <2>1, <2>2, <2>5, <2>6, <1>7
  <2>8. left + len - 0 = left + len
    BY <2>5, <1>2
  <2>9. QED
    BY <2>7, <2>8
<1>11. Consistent(new, left + len, blocks \ {b})
  BY <1>7, <1>8, <1>9, <1>10 DEF Consistent
<1>12. QED
  BY <1>4, <1>6, <1>11 DEF new, p, len
-----------------------------------------------------------------------------
(* The inductive invariant *)

IInv ==
  /\ Consistent(freeList, LG_mem_left, live)
  /\ LG_mem_left > 0
  /\ LG_mem_min \in Nat
  /\ LG_mem_min <= LG_mem_left
  /\ LG_mem_top \in 0 .. LG_mem_len
  /\ \A b \in live : b.off + realLGmemSize(b.req) <= LG_mem_top
  /\ ret \in Results

\* The arena _mr_mem_init_ex sets up: one free node that covers every byte.
LEMMA FreshArena ==
  Consistent(<<Node(0, LG_mem_len)>>, LG_mem_len, {})
<1> DEFINE e == Node(0, LG_mem_len)
           list == <<e>>
<1>1. /\ e.off = 0 /\ e.len = LG_mem_len /\ EndOf(e) = LG_mem_len
      /\ e \in FreeNodes
  BY MemAssumption DEF Node, EndOf, FreeNodes, Offsets
<1> HIDE DEF e
<1>2. list \in Seq(FreeNodes) /\ Len(list) = 1 /\ list[1] = e
  BY <1>1
<1> HIDE DEF list
<1>3. WellFormed(list)
  BY <1>1, <1>2, MemAssumption DEF WellFormed
<1>4. BytesIn(list) = Offsets
  <2>1. \A x \in Offsets : x \in BytesIn(list)
    <3>1. \A x \in Offsets : 0 <= x /\ x < LG_mem_len
      BY MemAssumption DEF Offsets
    <3>2. QED
      BY <3>1, <1>1, <1>2, CoveredBytes
  <2>2. QED
    BY <2>1 DEF BytesIn
<1>5. Sound({}) /\ Disjoint({}) /\ Partition(list, {})
  BY <1>4 DEF Sound, Disjoint, Partition
<1>6. LG_mem_len = Cardinality(BytesIn(list))
  BY <1>4, BytesFinite
<1>7. QED
  BY <1>3, <1>5, <1>6 DEF Consistent, list, e

\* The results of refused and granted requests, and of none.
LEMMA ResultsTyped ==
  /\ NoResult \in Results
  /\ \A n \in Requests : \A off \in Offsets \cup {NULL} : Result(n, off) \in Results
BY DEF NoResult, Result, Results

\* A state with a fresh arena satisfies the invariant.
LEMMA FreshInv ==
  Init => IInv
BY FreshArena, ResultsTyped, MemAssumption DEF Init, IInv

\* The arguments of mr_malloc's work when it is not refused.
LEMMA Granted ==
  ASSUME IInv, NEW n \in Requests, ~MallocRefused(n)
  PROVE  /\ realLGmemSize(n) \in Nat \ {0}
         /\ realLGmemSize(n) % 8 = 0
         /\ LG_mem_left \in Nat
         /\ realLGmemSize(n) < LG_mem_left
<1>1. n \in 0 .. Word - 1
  BY MemAssumption
<1>2. realLGmemSize(n) \in Nat /\ realLGmemSize(n) % 8 = 0
  BY <1>1, RoundedSize
<1>3. LG_mem_left \in Nat
  BY BytesFinite DEF IInv, Consistent
<1>4. QED
  BY <1>2, <1>3 DEF MallocRefused

\* The water marks after mr_malloc took the first len bytes of node i.
LEMMA AccountKeeps ==
  ASSUME IInv, NEW i \in 1 .. Len(freeList),
         NEW len \in Nat \ {0}, len < LG_mem_left, freeList[i].len >= len,
         AccountMalloc(i, len)
  PROVE  /\ LG_mem_min' \in Nat /\ LG_mem_min' <= LG_mem_left - len
         /\ LG_mem_top' \in 0 .. LG_mem_len
         /\ LG_mem_top' >= LG_mem_top
         /\ LG_mem_top' >= freeList[i].off + len
<1>1. WellFormed(freeList)
  BY DEF IInv, Consistent
<1>2. /\ LG_mem_left \in Nat /\ LG_mem_min \in Nat /\ LG_mem_top \in 0 .. LG_mem_len
      /\ LG_mem_len \in Nat
  BY BytesFinite, MemAssumption DEF IInv, Consistent
<1>3. LG_mem_min' = Min({LG_mem_min, LG_mem_left - len})
  BY DEF AccountMalloc
<1>4. LG_mem_min' \in {LG_mem_min, LG_mem_left - len} /\ LG_mem_min' <= LG_mem_left - len
  <2>1. LG_mem_min \in Int /\ LG_mem_left - len \in Int
    BY <1>2
  <2>2. QED
    BY <2>1, <1>3, MinOfTwo
<1>5. /\ Len(freeList) \in Nat
      /\ freeList[i].off \in Nat /\ freeList[i].len \in Nat
      /\ EndOf(freeList[i]) = freeList[i].off + freeList[i].len
      /\ EndOf(freeList[i]) <= LG_mem_len
  BY <1>1, NodesTyped DEF WellFormed
<1> DEFINE next == NextAfterTake(freeList, i, len)
<1>6. next \in 0 .. LG_mem_len /\ next >= freeList[i].off + len
  <2>1. CASE freeList[i].len = len
    <3>1. next = NextOf(freeList, i)
      BY <2>1 DEF NextAfterTake
    <3>2. CASE i < Len(freeList)
      <4>1. i + 1 \in 1 .. Len(freeList) /\ i < i + 1
        BY <3>2, <1>5
      <4>2. EndOf(freeList[i]) < freeList[i + 1].off
        BY <4>1, <1>1 DEF WellFormed
      <4>3. freeList[i + 1].off \in Nat /\ freeList[i + 1].off < LG_mem_len
        BY <4>1, <1>1, NodesTyped
      <4>4. next = freeList[i + 1].off
        BY <3>1, <3>2 DEF NextOf
      <4> HIDE DEF next
      <4>5. QED
        BY <2>1, <4>2, <4>3, <4>4, <1>2, <1>5
    <3>3. CASE ~(i < Len(freeList))
      <4>1. next = LG_mem_len
        BY <3>1, <3>3 DEF NextOf
      <4> HIDE DEF next
      <4>2. QED
        BY <2>1, <4>1, <1>2, <1>5
    <3>4. QED
      BY <3>2, <3>3
  <2>2. CASE freeList[i].len # len
    <3>1. next = freeList[i].off + len
      BY <2>2 DEF NextAfterTake
    <3> HIDE DEF next
    <3>2. QED
      BY <3>1, <1>2, <1>5
  <2>3. QED
    BY <2>1, <2>2
<1>7. LG_mem_top' = Max({LG_mem_top, next})
  BY DEF AccountMalloc
<1> HIDE DEF next
<1>8. LG_mem_top' \in {LG_mem_top, next} /\ LG_mem_top' >= LG_mem_top /\ LG_mem_top' >= next
  <2>1. LG_mem_top \in Int /\ next \in Int
    BY <1>2, <1>6
  <2>2. /\ Max({LG_mem_top, next}) \in {LG_mem_top, next}
        /\ Max({LG_mem_top, next}) >= LG_mem_top
        /\ Max({LG_mem_top, next}) >= next
    BY <2>1, MaxOfTwo
  <2>3. QED
    BY <2>2, <1>7
<1>9. QED
  <2>1. LG_mem_min' \in Nat /\ LG_mem_min' <= LG_mem_left - len
    BY <1>2, <1>4
  <2>2. /\ LG_mem_top' \in 0 .. LG_mem_len
        /\ LG_mem_top' >= LG_mem_top
    BY <1>2, <1>6, <1>8
  <2>3. LG_mem_top' >= freeList[i].off + len
    <3>1. \A u, v, w \in Int : u >= v /\ v >= w => u >= w
      OBVIOUS
    <3>2. LG_mem_top' \in Int /\ next \in Int /\ freeList[i].off + len \in Int
      BY <2>2, <1>2, <1>5, <1>6
    <3>3. QED
      BY <3>1, <3>2, <1>6, <1>8
  <2>4. QED
    BY <2>1, <2>2, <2>3

\* Both branches of mr_free's range checks, for a block that a client holds.
LEMMA FreeFromKeeps ==
  ASSUME NEW list, NEW left, NEW blocks, Consistent(list, left, blocks),
         NEW b \in blocks, FreeFrom(list, left, b.off, b.req)
  PROVE  /\ Consistent(freeList', LG_mem_left', blocks \ {b})
         /\ LG_mem_left' = left + realLGmemSize(b.req)
<1>1. PICK k \in 0 .. Len(list) :
        /\ FreePosition(list, k, b.off)
        /\ IF InArena(b.off, realLGmemSize(b.req)) /\ ~AlreadyFree(list, k, b.off)
           THEN /\ freeList' = PutBack(list, k, b.off, realLGmemSize(b.req))
                /\ LG_mem_left' = left + realLGmemSize(b.req)
           ELSE freeList' = list /\ LG_mem_left' = left
  BY DEF FreeFrom
<1>2. /\ InArena(b.off, realLGmemSize(b.req)) /\ ~AlreadyFree(list, k, b.off)
      /\ Consistent(PutBack(list, k, b.off, realLGmemSize(b.req)),
                    left + realLGmemSize(b.req), blocks \ {b})
  BY <1>1, FreeKeeps
<1>3. QED
  BY <1>1, <1>2

\* Blocks below the old mark of LG_mem_top are below a higher one.
LEMMA TopOfOld ==
  ASSUME IInv, NEW top \in Nat, top >= LG_mem_top
  PROVE  \A b \in live : b.off + realLGmemSize(b.req) <= top
<1>1. TAKE b \in live
<1>2. Sound(live) /\ LG_mem_top \in 0 .. LG_mem_len /\ LG_mem_len \in Nat
  BY MemAssumption DEF IInv, Consistent
<1>3. b.off \in Nat /\ realLGmemSize(b.req) \in Nat
  BY <1>2, BlockBytes
<1>4. b.off + realLGmemSize(b.req) <= LG_mem_top
  BY DEF IInv
<1>5. QED
  BY <1>2, <1>3, <1>4

\* mr_malloc keeps the invariant.
LEMMA MallocStep ==
  ASSUME IInv, NEW n \in Requests, mr_malloc(n)
  PROVE  IInv'
<1> DEFINE len == realLGmemSize(n)
<1>1. CASE MallocRefused(n)
  <2>1. ret' = Result(n, NULL) /\ UNCHANGED <<memVars, live>>
    BY <1>1 DEF mr_malloc
  <2>2. QED
    BY <2>1, ResultsTyped DEF IInv, memVars
<1>2. CASE ~MallocRefused(n)
  <2>1. PICK i \in DOMAIN freeList :
          /\ FirstFit(freeList, i, len)
          /\ freeList' = TakeFront(freeList, i, len)
          /\ LG_mem_left' = LG_mem_left - len
          /\ AccountMalloc(i, len)
          /\ live' = live \cup {[off |-> freeList[i].off, req |-> n]}
          /\ ret' = Result(n, freeList[i].off)
    BY <1>2 DEF mr_malloc
  <2>2. len \in Nat \ {0} /\ len < LG_mem_left /\ LG_mem_left \in Nat
    BY <1>2, Granted
  <2>3. /\ Consistent(freeList, LG_mem_left, live)
        /\ WellFormed(freeList)
    BY DEF IInv, Consistent
  <2>4. i \in 1 .. Len(freeList) /\ freeList[i].len >= len /\ freeList[i].off \in Offsets
    <3>1. i \in 1 .. Len(freeList) /\ freeList[i].off \in Nat /\ freeList[i].off < LG_mem_len
      BY <2>3, NodesTyped
    <3>2. freeList[i].off \in Offsets
      BY <3>1, MemAssumption DEF Offsets
    <3>3. QED
      BY <2>1, <3>1, <3>2 DEF FirstFit
  <2>5. Consistent(freeList', LG_mem_left', live')
    BY <2>1, <2>2, <2>3, <2>4, MallocKeeps
  <2>6. /\ LG_mem_min' \in Nat /\ LG_mem_min' <= LG_mem_left - len
        /\ LG_mem_top' \in 0 .. LG_mem_len
        /\ LG_mem_top' >= LG_mem_top
        /\ LG_mem_top' >= freeList[i].off + len
    BY <2>1, <2>2, <2>4, AccountKeeps
  <2>7. LG_mem_left' > 0 /\ LG_mem_min' <= LG_mem_left'
    BY <2>1, <2>2, <2>6
  <2>8. \A b \in live' : b.off + realLGmemSize(b.req) <= LG_mem_top'
    <3>1. \A b \in live : b.off + realLGmemSize(b.req) <= LG_mem_top'
      BY <2>6, MemAssumption, TopOfOld
    <3>2. QED
      BY <2>1, <2>6, <3>1
  <2>9. QED
    BY <2>1, <2>4, <2>5, <2>6, <2>7, <2>8, ResultsTyped DEF IInv
<1>3. QED
  BY <1>1, <1>2

\* mr_free of a client's block keeps the invariant.
LEMMA FreeStep ==
  ASSUME IInv, NEW b \in live, mr_free(b)
  PROVE  IInv'
<1>1. Consistent(freeList, LG_mem_left, live)
  BY DEF IInv
<1>2. /\ FreeFrom(freeList, LG_mem_left, b.off, b.req)
      /\ live' = live \ {b}
      /\ UNCHANGED <<LG_mem_min, LG_mem_top, ret>>
  BY DEF mr_free
<1>3. /\ Consistent(freeList', LG_mem_left', live \ {b})
      /\ LG_mem_left' = LG_mem_left + realLGmemSize(b.req)
  BY <1>1, <1>2, FreeFromKeeps
<1>4. LG_mem_left \in Nat /\ realLGmemSize(b.req) \in Nat
  BY <1>1, BytesFinite, BlockBytes DEF Consistent
<1>5. LG_mem_left' > 0 /\ LG_mem_min' <= LG_mem_left'
  BY <1>2, <1>3, <1>4 DEF IInv
<1>6. QED
  BY <1>2, <1>3, <1>5 DEF IInv

\* mr_realloc keeps the invariant: freeing, refusing or moving the block.
LEMMA ReallocStep ==
  ASSUME IInv, NEW b \in live, NEW n \in Requests, mr_realloc(b, n)
  PROVE  IInv'
<1> DEFINE len == realLGmemSize(n)
<1>1. CASE n = 0
  <2>1. /\ FreeFrom(freeList, LG_mem_left, b.off, b.req)
        /\ live' = live \ {b}
        /\ ret' = Result(n, NULL)
        /\ UNCHANGED <<LG_mem_min, LG_mem_top>>
    BY <1>1 DEF mr_realloc
  <2>2. Consistent(freeList, LG_mem_left, live)
    BY DEF IInv
  <2>3. /\ Consistent(freeList', LG_mem_left', live \ {b})
        /\ LG_mem_left' = LG_mem_left + realLGmemSize(b.req)
    BY <2>1, <2>2, FreeFromKeeps
  <2>4. LG_mem_left \in Nat /\ realLGmemSize(b.req) \in Nat
    BY <2>2, BytesFinite, BlockBytes DEF Consistent
  <2>5. LG_mem_left' > 0 /\ LG_mem_min' <= LG_mem_left'
    BY <2>1, <2>3, <2>4 DEF IInv
  <2>6. QED
    BY <2>1, <2>3, <2>5, ResultsTyped DEF IInv
<1>2. CASE n # 0 /\ MallocRefused(n)
  <2>1. ret' = Result(n, NULL) /\ UNCHANGED <<memVars, live>>
    BY <1>2 DEF mr_realloc
  <2>2. QED
    BY <2>1, ResultsTyped DEF IInv, memVars
<1>3. CASE n # 0 /\ ~MallocRefused(n)
  <2>1. PICK i \in DOMAIN freeList :
          /\ FirstFit(freeList, i, len)
          /\ AccountMalloc(i, len)
          /\ FreeFrom(TakeFront(freeList, i, len), LG_mem_left - len, b.off, b.req)
          /\ live' = (live \ {b}) \cup {[off |-> freeList[i].off, req |-> n]}
          /\ ret' = Result(n, freeList[i].off)
    BY <1>3 DEF mr_realloc
  <2> DEFINE nb == [off |-> freeList[i].off, req |-> n]
  <2>2. len \in Nat \ {0} /\ len < LG_mem_left /\ LG_mem_left \in Nat
    BY <1>3, Granted
  <2>3. /\ Consistent(freeList, LG_mem_left, live)
        /\ WellFormed(freeList) /\ Sound(live)
    BY DEF IInv, Consistent
  <2>4. i \in 1 .. Len(freeList) /\ freeList[i].len >= len /\ freeList[i].off \in Offsets
    <3>1. i \in 1 .. Len(freeList) /\ freeList[i].off \in Nat /\ freeList[i].off < LG_mem_len
      BY <2>3, NodesTyped
    <3>2. freeList[i].off \in Offsets
      BY <3>1, MemAssumption DEF Offsets
    <3>3. QED
      BY <2>1, <3>1, <3>2 DEF FirstFit
  <2>5. /\ Consistent(TakeFront(freeList, i, len), LG_mem_left - len, live \cup {nb})
        /\ nb \notin live
    BY <2>2, <2>3, <2>4, MallocKeeps
  <2>6. /\ Consistent(freeList', LG_mem_left', (live \cup {nb}) \ {b})
        /\ LG_mem_left' = LG_mem_left - len + realLGmemSize(b.req)
    <3>1. b \in live \cup {nb}
      OBVIOUS
    <3>2. QED
      BY <2>1, <2>5, <3>1, FreeFromKeeps
  <2>7. live' = (live \cup {nb}) \ {b}
    BY <2>1, <2>5
  <2>8. /\ LG_mem_min' \in Nat /\ LG_mem_min' <= LG_mem_left - len
        /\ LG_mem_top' \in 0 .. LG_mem_len
        /\ LG_mem_top' >= LG_mem_top
        /\ LG_mem_top' >= freeList[i].off + len
    BY <2>1, <2>2, <2>4, AccountKeeps
  <2>9. realLGmemSize(b.req) \in Nat \ {0}
    BY <2>3, BlockBytes
  <2>10. LG_mem_left' > 0 /\ LG_mem_min' <= LG_mem_left'
    BY <2>2, <2>6, <2>8, <2>9
  <2>11. \A c \in live' : c.off + realLGmemSize(c.req) <= LG_mem_top'
    <3>1. \A c \in live : c.off + realLGmemSize(c.req) <= LG_mem_top'
      BY <2>8, MemAssumption, TopOfOld
    <3>2. nb.off + realLGmemSize(nb.req) <= LG_mem_top'
      BY <2>8
    <3>3. QED
      BY <2>1, <3>1, <3>2
  <2>12. QED
    BY <2>1, <2>4, <2>6, <2>7, <2>8, <2>10, <2>11, ResultsTyped DEF IInv
<1>4. QED
  BY <1>1, <1>2, <1>3

\* IInv is an invariant of the allocator.
THEOREM Invariance ==
  Spec => []IInv
<1>1. Init => IInv
  BY FreshInv
<1>2. IInv /\ [Next]_vars => IInv'
  <2>1. SUFFICES ASSUME IInv, [Next]_vars
                 PROVE  IInv'
    OBVIOUS
  <2>2. CASE \E n \in Requests : mr_malloc(n)
    BY <2>1, <2>2, MallocStep
  <2>3. CASE \E b \in live : mr_free(b)
    BY <2>1, <2>3, FreeStep
  <2>4. CASE \E b \in live, n \in Requests : mr_realloc(b, n)
    BY <2>1, <2>4, ReallocStep
  <2>5. CASE _mr_mem_init_ex
    BY <2>5, FreshArena, ResultsTyped, MemAssumption DEF _mr_mem_init_ex, IInv
  <2>6. CASE UNCHANGED vars
    BY <2>1, <2>6 DEF IInv, vars
  <2>7. QED
    BY <2>1, <2>2, <2>3, <2>4, <2>5, <2>6 DEF Next
<1>3. QED
  BY <1>1, <1>2, PTL DEF Spec
-----------------------------------------------------------------------------
(* What the invariant says about single properties *)

\* Every field of the allocator and of its clients stays in its range.
THEOREM TypeCorrect ==
  Spec => []TypeOK
<1>1. IInv => TypeOK
  <2>1. SUFFICES ASSUME IInv
                 PROVE  TypeOK
    OBVIOUS
  <2>2. freeList \in Seq(FreeNodes)
    BY <2>1 DEF IInv, Consistent, WellFormed
  <2>3. LG_mem_left \in 0 .. LG_mem_len
    BY <2>1, BytesFinite DEF IInv, Consistent
  <2>4. LG_mem_min \in 0 .. LG_mem_len
    BY <2>1, <2>3, MemAssumption DEF IInv
  <2>5. live \subseteq Blocks
    BY <2>1 DEF IInv, Consistent, Sound
  <2>6. QED
    BY <2>1, <2>2, <2>3, <2>4, <2>5 DEF IInv, TypeOK
<1>2. QED
  BY <1>1, Invariance, PTL

\* No two clients hold the same byte, and none holds a free one.
THEOREM BlocksDisjoint ==
  Spec => []NoOverlap
<1>1. IInv => NoOverlap
  BY DEF IInv, Consistent, Disjoint, Partition, NoOverlap, FreeBytes
<1>2. QED
  BY <1>1, Invariance, PTL

\* The free list covers every byte that no client holds.
THEOREM NoLeak ==
  Spec => []NothingLost
<1>1. IInv => NothingLost
  BY DEF IInv, Consistent, Partition, NothingLost, FreeBytes
<1>2. QED
  BY <1>1, Invariance, PTL

\* LG_mem_left counts the bytes of the free list.
THEOREM CountExact ==
  Spec => []LeftExact
<1>1. IInv => LeftExact
  BY DEF IInv, Consistent, LeftExact, FreeBytes
<1>2. QED
  BY <1>1, Invariance, PTL

\* The free list ascends without touching nodes and respects the alignment its
\* headers need.
THEOREM ListInOrder ==
  Spec => []FreeListMerged
<1>1. IInv => FreeListMerged
  <2>1. SUFFICES ASSUME IInv
                 PROVE  FreeListMerged
    OBVIOUS
  <2>2. WellFormed(freeList)
    BY <2>1 DEF IInv, Consistent
  <2>3. DOMAIN freeList = 1 .. Len(freeList)
    BY <2>2, NodesTyped
  <2>4. QED
    BY <2>2, <2>3 DEF WellFormed, FreeListMerged
<1>2. QED
  BY <1>1, Invariance, PTL

\* A client's request lies inside the arena, whatever uint32 length it asked for.
THEOREM RequestsCovered ==
  Spec => []RequestCovered
<1>1. IInv => RequestCovered
  <2>1. SUFFICES ASSUME IInv, NEW b \in live
                 PROVE  b.off + b.req <= LG_mem_len
    BY DEF RequestCovered
  <2>2. Sound(live)
    BY <2>1 DEF IInv, Consistent
  <2>3. /\ b.off \in Nat /\ b.req \in 0 .. Word - 1
        /\ realLGmemSize(b.req) \in Nat
        /\ b.req <= realLGmemSize(b.req)
        /\ b.off + realLGmemSize(b.req) <= LG_mem_len
    BY <2>2, BlockBytes
  <2>4. QED
    BY <2>3, MemAssumption
<1>2. QED
  BY <1>1, Invariance, PTL

\* The allocator never gives away its last free bytes.
THEOREM AlwaysSomeLeft ==
  Spec => []NeverFull
<1>1. IInv => NeverFull
  <2>1. SUFFICES ASSUME IInv, freeList = <<>>
                 PROVE  FALSE
    BY DEF NeverFull, IInv
  <2>2. Len(freeList) = 0
    BY <2>1
  <2>3. BytesIn(freeList) = {}
    BY <2>1, <2>2, CoveredBytes DEF IInv, Consistent, WellFormed, BytesIn
  <2>4. LG_mem_left = 0
    BY <2>1, <2>3, FS_EmptySet DEF IInv, Consistent
  <2>5. QED
    BY <2>1, <2>4 DEF IInv
<1>2. QED
  BY <1>1, Invariance, PTL

\* LG_mem_min and LG_mem_top bound the use of the arena.
THEOREM MarksBound ==
  Spec => []WaterMarks
<1>1. IInv => WaterMarks
  BY DEF IInv, WaterMarks
<1>2. QED
  BY <1>1, Invariance, PTL

-----------------------------------------------------------------------------
(***************************************************************************)
(* The allocator implements Heap: what a client sees of mr_malloc, mr_free *)
(* and mr_realloc needs no free list to be described.  The step that takes *)
(* an argument is a refusal: the code refuses when no node of its list is  *)
(* long enough, Heap only when no hole is.  They agree because the list is *)
(* merged, so that a hole always lies within one node.                     *)
(***************************************************************************)

\* The byte behind a free node is never free.
LEMMA EndNotFree ==
  ASSUME NEW list, WellFormed(list), NEW j \in 1 .. Len(list)
  PROVE  EndOf(list[j]) \notin BytesIn(list)
<1>1. SUFFICES ASSUME EndOf(list[j]) \in BytesIn(list)
               PROVE  FALSE
  OBVIOUS
<1>2. PICK m \in 1 .. Len(list) : list[m].off <= EndOf(list[j]) /\ EndOf(list[j]) < EndOf(list[m])
  BY <1>1, CoveredBytes DEF WellFormed
<1>3. ASSUME NEW i \in 1 .. Len(list)
      PROVE  list[i].off \in Nat /\ EndOf(list[i]) \in Nat /\ list[i].off < EndOf(list[i])
  <2>1. /\ list[i].off \in Nat /\ list[i].len \in Nat \ {0}
        /\ EndOf(list[i]) = list[i].off + list[i].len
    BY NodesTyped
  <2>2. QED
    BY <2>1
<1>4. Len(list) \in Nat
  BY NodesTyped
<1>5. CASE m = j
  <2>1. EndOf(list[j]) < EndOf(list[j]) /\ EndOf(list[j]) \in Nat
    BY <1>2, <1>3, <1>5
  <2>2. QED
    BY <2>1
<1>6. CASE m > j
  <2>1. EndOf(list[j]) < list[m].off
    BY <1>6 DEF WellFormed
  <2>2. EndOf(list[j]) \in Nat /\ list[m].off \in Nat
    BY <1>3
  <2>3. QED
    BY <2>1, <2>2, <1>2
<1>7. CASE m < j
  <2>1. EndOf(list[m]) < list[j].off
    BY <1>7 DEF WellFormed
  <2>2. EndOf(list[m]) \in Nat /\ list[j].off \in Nat /\ EndOf(list[j]) \in Nat
        /\ list[j].off < EndOf(list[j])
    BY <1>3
  <2>3. QED
    BY <2>1, <2>2, <1>2
<1>8. QED
  BY <1>4, <1>5, <1>6, <1>7

\* A hole of free bytes lies within one node of a merged list.
LEMMA HoleInNode ==
  ASSUME NEW list, WellFormed(list), NEW o \in Nat, NEW size \in Nat \ {0},
         o .. o + size - 1 \subseteq BytesIn(list)
  PROVE  \E j \in 1 .. Len(list) : list[j].len >= size
<1>1. o \in BytesIn(list)
  OBVIOUS
<1>2. PICK j \in 1 .. Len(list) : list[j].off <= o /\ o < EndOf(list[j])
  BY <1>1, CoveredBytes DEF WellFormed
<1>3. /\ list[j].off \in Nat /\ list[j].len \in Nat
      /\ EndOf(list[j]) = list[j].off + list[j].len
  BY NodesTyped
<1>4. EndOf(list[j]) \notin o .. o + size - 1
  BY EndNotFree
<1>5. o + size <= EndOf(list[j])
  <2>1. EndOf(list[j]) \in Nat
    BY <1>3
  <2>2. QED
    BY <2>1, <1>2, <1>4
<1>6. QED
  BY <1>2, <1>3, <1>5

\* Heap's constants and sizes are the allocator's.
LEMMA SameTerms ==
  /\ HeapSpec!NULL = NULL
  /\ HeapSpec!Offsets = Offsets
  /\ HeapSpec!NoResult = NoResult
  /\ \A n, off : HeapSpec!Result(n, off) = Result(n, off)
  /\ \A n : HeapSpec!realLGmemSize(n) = realLGmemSize(n)
  /\ \A b : HeapSpec!BytesOf(b) = BytesOf(b)
  /\ \A S : HeapSpec!Cardinality(S) = Cardinality(S)
BY DEF HeapSpec!Cardinality, Cardinality, HeapSpec!IsFiniteSet, IsFiniteSet,
       HeapSpec!NULL, NULL, HeapSpec!Offsets, Offsets, HeapSpec!BytesOf, BytesOf,
       HeapSpec!realLGmemSize, realLGmemSize, HeapSpec!NoResult, NoResult,
       HeapSpec!Result, Result

\* The bytes in use are those outside the free list.
LEMMA UsedBytes ==
  ASSUME IInv
  PROVE  /\ HeapSpec!Used = Offsets \ BytesIn(freeList)
         /\ Cardinality(HeapSpec!Used) = LG_mem_len - LG_mem_left
<1>1. HeapSpec!Used = Offsets \ BytesIn(freeList)
  <2>1. HeapSpec!Used = UNION {BytesOf(b) : b \in live}
    BY SameTerms DEF HeapSpec!Used
  <2>2. Partition(freeList, live) /\ Sound(live)
    BY DEF IInv, Consistent
  <2>3. ASSUME NEW b \in live
        PROVE  BytesOf(b) \subseteq Offsets
    <3>1. /\ b.off \in Nat /\ realLGmemSize(b.req) \in Nat
          /\ b.off + realLGmemSize(b.req) <= LG_mem_len
          /\ BytesOf(b) = b.off .. b.off + realLGmemSize(b.req) - 1
      BY <2>2, BlockBytes
    <3>2. QED
      BY <3>1, MemAssumption DEF Offsets
  <2>4. QED
    BY <2>1, <2>2, <2>3 DEF Partition
<1>2. Cardinality(Offsets \ BytesIn(freeList))
        = Cardinality(Offsets) - Cardinality(Offsets \cap BytesIn(freeList))
  BY BytesFinite, FS_Difference
<1>3. Offsets \cap BytesIn(freeList) = BytesIn(freeList)
  BY DEF BytesIn
<1>4. QED
  BY <1>1, <1>2, <1>3, BytesFinite DEF IInv, Consistent

\* mr_malloc refuses only what Heap cannot serve.
LEMMA RefusalsAgree ==
  ASSUME IInv, NEW n \in Requests, MallocRefused(n)
  PROVE  ~HeapSpec!CanServe(realLGmemSize(n))
<1> DEFINE len == realLGmemSize(n)
<1>1. len \in Nat
  BY RoundedSize, MemAssumption
<1>2. WellFormed(freeList) /\ LG_mem_left \in Nat /\ LG_mem_len \in Nat
  BY BytesFinite, MemAssumption DEF IInv, Consistent
<1> HIDE DEF len
<1>3. SUFFICES ASSUME HeapSpec!CanServe(len)
               PROVE  FALSE
  BY DEF len
<1>4. len # 0 /\ Cardinality(HeapSpec!Used) + len < LG_mem_len
  BY <1>3, SameTerms DEF HeapSpec!CanServe
<1>5. PICK o \in Offsets : HeapSpec!IsHole(o, len)
  BY <1>3, SameTerms DEF HeapSpec!CanServe
<1>6. o \in Nat /\ o + len <= LG_mem_len /\ \A a \in o .. o + len - 1 : a \notin HeapSpec!Used
  BY <1>5, MemAssumption DEF HeapSpec!IsHole, Offsets
<1>7. o .. o + len - 1 \subseteq Offsets
  BY <1>1, <1>2, <1>6 DEF Offsets
<1>8. o .. o + len - 1 \subseteq BytesIn(freeList)
  BY <1>6, <1>7, UsedBytes
<1>9. PICK j \in 1 .. Len(freeList) : freeList[j].len >= len
  BY <1>1, <1>2, <1>4, <1>6, <1>8, HoleInNode
<1>10. ~(len >= LG_mem_left)
  BY <1>1, <1>2, <1>4, UsedBytes
<1>11. ~(NextOf(freeList, 0) > LG_mem_len)
  <2>1. /\ Len(freeList) \in Nat
        /\ \A i \in 1 .. Len(freeList) :
             freeList[i].off \in Nat /\ freeList[i].off < LG_mem_len
    BY <1>2, NodesTyped
  <2>2. Len(freeList) > 0 => freeList[0 + 1].off \in Nat /\ freeList[0 + 1].off < LG_mem_len
    BY <2>1
  <2>3. CASE 0 < Len(freeList)
    <3>1. NextOf(freeList, 0) = freeList[0 + 1].off
      BY <2>3 DEF NextOf
    <3>2. QED
      BY <3>1, <2>1, <2>2, <2>3, <1>2
  <2>4. CASE ~(0 < Len(freeList))
    <3>1. NextOf(freeList, 0) = LG_mem_len
      BY <2>4 DEF NextOf
    <3>2. QED
      BY <3>1, <1>2
  <2>5. QED
    BY <2>3, <2>4
<1>12. ~(\A i \in DOMAIN freeList : freeList[i].len < len)
  <2>1. DOMAIN freeList = 1 .. Len(freeList) /\ freeList[j].len \in Nat
    BY <1>2, NodesTyped
  <2>2. ~(freeList[j].len < len)
    BY <2>1, <1>1, <1>9
  <2>3. QED
    BY <2>1, <2>2
<1>13. QED
  BY <1>4, <1>10, <1>11, <1>12 DEF MallocRefused, len

\* What mr_malloc grants is a hole that Heap may serve.
LEMMA GrantsAgree ==
  ASSUME IInv, NEW n \in Requests, ~MallocRefused(n),
         NEW i \in DOMAIN freeList, FirstFit(freeList, i, realLGmemSize(n))
  PROVE  /\ HeapSpec!CanServe(realLGmemSize(n))
         /\ freeList[i].off \in HeapSpec!Offsets
         /\ HeapSpec!IsHole(freeList[i].off, realLGmemSize(n))
<1> DEFINE len == realLGmemSize(n)
           o   == freeList[i].off
<1>1. len \in Nat \ {0} /\ LG_mem_left \in Nat /\ len < LG_mem_left
  BY Granted
<1>2. WellFormed(freeList) /\ LG_mem_len \in Nat
  BY MemAssumption DEF IInv, Consistent
<1>3. /\ i \in 1 .. Len(freeList)
      /\ o \in Nat /\ o < LG_mem_len /\ freeList[i].len \in Nat
      /\ EndOf(freeList[i]) = o + freeList[i].len
      /\ EndOf(freeList[i]) <= LG_mem_len
  BY <1>2, NodesTyped DEF WellFormed
<1>4. freeList[i].len >= len
  BY DEF FirstFit
<1> HIDE DEF len
<1>5. o + len <= LG_mem_len /\ o + len <= EndOf(freeList[i])
  BY <1>1, <1>2, <1>3, <1>4
<1>6. ASSUME NEW a \in o .. o + len - 1
      PROVE  a \notin HeapSpec!Used
  <2>1. a \in Offsets /\ freeList[i].off <= a
    BY <1>1, <1>2, <1>3, <1>5 DEF Offsets
  <2>2. a < EndOf(freeList[i])
    <3>1. EndOf(freeList[i]) \in Nat
      BY <1>3
    <3>2. QED
      BY <3>1, <1>1, <1>3, <1>5
  <2>3. a \in BytesIn(freeList)
    BY <2>1, <2>2, <1>2, <1>3, CoveredBytes DEF WellFormed
  <2>4. QED
    BY <2>3, UsedBytes
<1>7. HeapSpec!IsHole(o, len)
  BY <1>5, <1>6 DEF HeapSpec!IsHole
<1>8. o \in HeapSpec!Offsets
  <2>1. o \in Offsets
    BY <1>2, <1>3 DEF Offsets
  <2>2. QED
    BY <2>1, SameTerms
<1>9. Cardinality(HeapSpec!Used) + len < LG_mem_len
  BY <1>1, <1>2, UsedBytes
<1>10. HeapSpec!CanServe(len)
  BY <1>1, <1>7, <1>8, <1>9, SameTerms DEF HeapSpec!CanServe
<1>11. QED
  BY <1>7, <1>8, <1>10 DEF len
-----------------------------------------------------------------------------
\* A step of the allocator is a step of Heap, or changes nothing it shows.
LEMMA StepRefines ==
  ASSUME IInv, [Next]_vars
  PROVE  [HeapSpec!Next]_(HeapSpec!heapVars)
<1>1. ASSUME NEW n \in Requests, mr_malloc(n)
      PROVE  HeapSpec!Malloc(n)
  <2>1. CASE MallocRefused(n)
    <3>1. ret' = Result(n, NULL) /\ UNCHANGED live
      BY <1>1, <2>1 DEF mr_malloc
    <3>2. QED
      BY <2>1, <3>1, RefusalsAgree, SameTerms DEF HeapSpec!Malloc, HeapSpec!Refuse
  <2>2. CASE ~MallocRefused(n)
    <3>1. PICK i \in DOMAIN freeList :
            /\ FirstFit(freeList, i, realLGmemSize(n))
            /\ live' = live \cup {[off |-> freeList[i].off, req |-> n]}
            /\ ret' = Result(n, freeList[i].off)
      BY <1>1, <2>2 DEF mr_malloc
    <3>2. /\ HeapSpec!CanServe(realLGmemSize(n))
          /\ freeList[i].off \in HeapSpec!Offsets
          /\ HeapSpec!IsHole(freeList[i].off, realLGmemSize(n))
      BY <2>2, <3>1, GrantsAgree
    <3>3. live' = (live \ {}) \cup {[off |-> freeList[i].off, req |-> n]}
      BY <3>1
    <3>4. HeapSpec!Serve(n, {})
      BY <3>1, <3>2, <3>3, SameTerms DEF HeapSpec!Serve
    <3>5. QED
      BY <3>4 DEF HeapSpec!Malloc
  <2>3. QED
    BY <2>1, <2>2
<1>2. ASSUME NEW b \in live, mr_free(b)
      PROVE  HeapSpec!Free(b)
  BY <1>2 DEF mr_free, HeapSpec!Free
<1>3. ASSUME NEW b \in live, NEW n \in Requests, mr_realloc(b, n)
      PROVE  HeapSpec!Realloc(b, n)
  <2>1. CASE n = 0
    BY <1>3, <2>1, SameTerms DEF mr_realloc, HeapSpec!Realloc
  <2>2. CASE n # 0 /\ MallocRefused(n)
    <3>1. ret' = Result(n, NULL) /\ UNCHANGED live
      BY <1>3, <2>2 DEF mr_realloc
    <3>2. HeapSpec!Refuse(n)
      BY <2>2, <3>1, RefusalsAgree, SameTerms DEF HeapSpec!Refuse
    <3>3. QED
      BY <2>2, <3>2 DEF HeapSpec!Realloc
  <2>3. CASE n # 0 /\ ~MallocRefused(n)
    <3>1. PICK i \in DOMAIN freeList :
            /\ FirstFit(freeList, i, realLGmemSize(n))
            /\ live' = (live \ {b}) \cup {[off |-> freeList[i].off, req |-> n]}
            /\ ret' = Result(n, freeList[i].off)
      BY <1>3, <2>3 DEF mr_realloc
    <3>2. /\ HeapSpec!CanServe(realLGmemSize(n))
          /\ freeList[i].off \in HeapSpec!Offsets
          /\ HeapSpec!IsHole(freeList[i].off, realLGmemSize(n))
      BY <2>3, <3>1, GrantsAgree
    <3>3. HeapSpec!Serve(n, {b})
      BY <3>1, <3>2, SameTerms DEF HeapSpec!Serve
    <3>4. QED
      BY <2>3, <3>3 DEF HeapSpec!Realloc
  <2>4. QED
    BY <2>1, <2>2, <2>3
<1>4. ASSUME _mr_mem_init_ex
      PROVE  HeapSpec!Restart
  BY <1>4, SameTerms DEF _mr_mem_init_ex, HeapSpec!Restart
<1>5. CASE UNCHANGED vars
  BY <1>5 DEF vars, HeapSpec!heapVars
<1>6. QED
  BY <1>1, <1>2, <1>3, <1>4, <1>5 DEF Next, HeapSpec!Next

\* The allocator implements Heap, for every arena and every set of requests.
THEOREM Implementation ==
  Spec => ImplementsHeap
<1>1. Init => HeapSpec!Init
  BY SameTerms DEF Init, HeapSpec!Init
<1>2. IInv /\ [Next]_vars => [HeapSpec!Next]_(HeapSpec!heapVars)
  BY StepRefines
<1>3. QED
  BY <1>1, <1>2, Invariance, PTL DEF Spec, HeapSpec!Spec, ImplementsHeap

\* When the clients have returned everything, the arena is one free node again.
THEOREM ArenaRecovers ==
  Spec => []Recovers
<1>1. IInv => Recovers
  <2>1. SUFFICES ASSUME IInv, live = {}
                 PROVE  freeList = <<Node(0, LG_mem_len)>>
    BY DEF Recovers
  <2>2. /\ WellFormed(freeList) /\ LG_mem_len \in Nat \ {0}
        /\ freeList \in Seq(FreeNodes)
    BY <2>1, MemAssumption DEF IInv, Consistent, WellFormed
  <2>3. BytesIn(freeList) = Offsets
    BY <2>1 DEF IInv, Consistent, Partition, BytesIn
  <2>4. 0 \in Offsets
    BY <2>2 DEF Offsets
  <2>5. PICK j \in 1 .. Len(freeList) : freeList[j].off <= 0 /\ 0 < EndOf(freeList[j])
    BY <2>2, <2>3, <2>4, CoveredBytes
  <2>6. ASSUME NEW i \in 1 .. Len(freeList)
        PROVE  /\ freeList[i].off \in Nat /\ freeList[i].len \in Nat
               /\ freeList[i].off < LG_mem_len
               /\ EndOf(freeList[i]) = freeList[i].off + freeList[i].len
               /\ EndOf(freeList[i]) \in Nat
    BY <2>2, NodesTyped
  <2>7. EndOf(freeList[j]) = LG_mem_len
    <3>1. EndOf(freeList[j]) \notin Offsets
      BY <2>2, <2>3, EndNotFree
    <3>2. EndOf(freeList[j]) \in Nat /\ EndOf(freeList[j]) <= LG_mem_len
      BY <2>2, <2>6 DEF WellFormed
    <3>3. QED
      BY <3>1, <3>2, <2>2 DEF Offsets
  <2>8. freeList[j].off = 0 /\ freeList[j].len = LG_mem_len
    BY <2>2, <2>5, <2>6, <2>7
  <2>9. freeList[j] = Node(0, LG_mem_len)
    <3>1. freeList[j] \in FreeNodes
      BY <2>2, NodesTyped
    <3>2. freeList[j] = [off |-> freeList[j].off, len |-> freeList[j].len]
      BY <3>1 DEF FreeNodes
    <3>3. QED
      BY <3>2, <2>8 DEF Node
  <2>10. \A i \in 1 .. Len(freeList) : i = j
    <3>1. TAKE i \in 1 .. Len(freeList)
    <3>2. Len(freeList) \in Nat
      BY <2>2, NodesTyped
    <3>3. ~(j < i)
      <4>1. j < i => LG_mem_len < freeList[i].off
        BY <2>2, <2>7 DEF WellFormed
      <4>2. QED
        BY <4>1, <2>2, <2>6
    <3>4. ~(i < j)
      <4>1. i < j => EndOf(freeList[i]) < 0
        BY <2>2, <2>8 DEF WellFormed
      <4>2. QED
        BY <4>1, <2>6
    <3>5. QED
      BY <3>2, <3>3, <3>4
  <2>11. Len(freeList) = 1 /\ j = 1
    <3>1. Len(freeList) \in Nat
      BY <2>2, NodesTyped
    <3>2. 1 \in 1 .. Len(freeList) /\ Len(freeList) \in 1 .. Len(freeList)
      BY <3>1
    <3>3. 1 = j /\ Len(freeList) = j
      BY <3>2, <2>10
    <3>4. QED
      BY <3>3
  <2>12. QED
    BY <2>2, <2>9, <2>11
<1>2. QED
  BY <1>1, Invariance, PTL
=============================================================================

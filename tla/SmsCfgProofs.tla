--------------------------- MODULE SmsCfgProofs ---------------------------
(***************************************************************************)
(* The configuration block implements the store of every size: any section *)
(* length, any number of changes, any directories. The chunks of an SMS    *)
(* are executed by recursion, so the module begins with induction over Nat *)
(* for sets, which follows from the pigeonhole principle, and with the     *)
(* recursion along a sequence that it justifies.                           *)
(***************************************************************************)
EXTENDS SmsCfg, SequenceTheorems, FiniteSetTheorems, TLAPS

\* Induction over the natural numbers, for a set: a number m outside S would
\* make n + 1 a one-to-one map from the members up to m into those but 0.
LEMMA SetInduction ==
  ASSUME NEW S \in SUBSET Nat, 0 \in S, \A n \in S : n + 1 \in S
  PROVE  S = Nat
<1> SUFFICES ASSUME NEW m \in Nat, m \notin S PROVE FALSE
  OBVIOUS
<1> DEFINE A == {n \in S : n <= m}
<1> DEFINE T == A \ {0}
<1> DEFINE f == [n \in A |-> n + 1]
<1>1. 0 \in A /\ \A n \in A : n \in Nat /\ n < m
  <2>1. 0 \in A /\ \A n \in A : n \in Nat /\ n \in S /\ n <= m
    OBVIOUS
  <2>2. \A n \in A : n # m
    BY <2>1
  <2> HIDE DEF A
  <2> QED BY <2>1, <2>2
<1>2. IsFiniteSet(A)
  <2>1. A \in SUBSET Nat /\ \A n \in A : n <= m
    BY <1>1
  <2> HIDE DEF A
  <2> QED BY <2>1, FS_BoundedSetOfNaturals
<1>3. IsFiniteSet(T) /\ Cardinality(T) = Cardinality(A) - 1 /\ Cardinality(A) \in Nat
  BY <1>1, <1>2, FS_RemoveElement, FS_CardinalityType
<1>4. \A n \in A : n + 1 \in T
  BY <1>1
<1>5. f \in [A -> T]
  BY <1>4
<1>6. \E x, y \in A : x # y /\ f[x] = f[y]
  <2> HIDE DEF A, T, f
  <2> QED BY <1>2, <1>3, <1>5, FS_PigeonHole
<1> QED BY <1>1, <1>6

\* A set of natural numbers has a least element.
LEMMA LeastElement ==
  ASSUME NEW S \in SUBSET Nat, S # {}
  PROVE  \E m \in S : \A n \in S : m <= n
<1> SUFFICES ASSUME \A m \in S : \E n \in S : n < m
             PROVE  FALSE
  OBVIOUS
<1> DEFINE T == {k \in Nat : \A n \in S : k <= n}
<1>1. 0 \in T
  OBVIOUS
<1>2. ASSUME NEW k \in T PROVE k + 1 \in T
  <2>1. k \in Nat /\ \A n \in S : k <= n
    OBVIOUS
  <2>2. k \notin S
    BY <2>1
  <2>3. \A n \in S : n # k /\ k + 1 <= n
    BY <2>1, <2>2
  <2> QED BY <2>1, <2>3
<1>3. T \in SUBSET Nat
  OBVIOUS
<1>4. T = Nat
  <2> HIDE DEF T
  <2> QED BY <1>1, <1>2, <1>3, SetInduction
<1>5. PICK n \in S : TRUE
  OBVIOUS
<1>6. n + 1 \in T
  BY <1>4, <1>5
<1> QED BY <1>5, <1>6

\* The value after each element of q, from a on.
Along(F, a, q, f) == f[0] = a /\ \A n \in 1 .. Len(q) : f[n] = F[<<f[n - 1], q[n]>>]

\* A step of type F runs along a sequence from a: there is a function with
\* the value after each of its elements.
LEMMA RunsAlong ==
  ASSUME NEW X, NEW C, NEW F \in [X \X C -> X], NEW a \in X, NEW q \in Seq(C)
  PROVE  \E f \in [0 .. Len(q) -> X] : Along(F, a, q, f)
<1> DEFINE Runs(k, f) == f[0] = a /\ \A n \in 1 .. k : f[n] = F[<<f[n - 1], q[n]>>]
<1> DEFINE T == {k \in Nat : k <= Len(q) => \E f \in [0 .. k -> X] : Runs(k, f)}
<1>0. Len(q) \in Nat /\ \A n \in 1 .. Len(q) : q[n] \in C
  OBVIOUS
<1>1. 0 \in T
  <2>1. [n \in 0 .. 0 |-> a] \in [0 .. 0 -> X] /\ Runs(0, [n \in 0 .. 0 |-> a])
    OBVIOUS
  <2> HIDE DEF Runs
  <2> QED BY <2>1
<1>2. ASSUME NEW k \in T PROVE k + 1 \in T
  <2>1. CASE k + 1 > Len(q)
    BY <2>1
  <2>2. CASE k + 1 <= Len(q)
    <3>1. PICK f \in [0 .. k -> X] : Runs(k, f)
      <4>1. k <= Len(q)
        BY <1>0, <2>2
      <4> QED BY <4>1
    <3> DEFINE g == [n \in 0 .. k + 1 |-> IF n <= k THEN f[n] ELSE F[<<f[k], q[k + 1]>>]]
    <3>2. k \in Nat /\ k \in 0 .. k /\ k + 1 \in 1 .. Len(q)
      BY <1>0, <2>2
    <3>3. F[<<f[k], q[k + 1]>>] \in X
      <4>1. f[k] \in X /\ q[k + 1] \in C
        BY <3>1, <3>2, <1>0
      <4>2. <<f[k], q[k + 1]>> \in X \X C
        BY <4>1
      <4> QED BY <4>2
    <3>4. g \in [0 .. k + 1 -> X]
      BY <3>1, <3>2, <3>3
    <3>5. g[0] = a
      BY <3>1, <3>2
    <3>6. ASSUME NEW n \in 1 .. k + 1 PROVE g[n] = F[<<g[n - 1], q[n]>>]
      <4>1. CASE n <= k
        <5>1. g[n] = f[n] /\ g[n - 1] = f[n - 1]
          BY <3>2, <4>1
        <5> QED BY <5>1, <3>1, <4>1, <3>2
      <4>2. CASE n = k + 1
        <5>1. g[n] = F[<<f[k], q[k + 1]>>] /\ g[n - 1] = f[k]
          BY <3>2, <4>2
        <5> QED BY <5>1, <4>2, <3>2
      <4> QED BY <4>1, <4>2, <3>2
    <3>7. Runs(k + 1, g)
      BY <3>5, <3>6
    <3> HIDE DEF g
    <3> QED BY <3>4, <3>7, <3>2
  <2> QED BY <2>1, <2>2, <1>0
<1>3. T = Nat
  <2>1. T \in SUBSET Nat
    OBVIOUS
  <2> HIDE DEF T
  <2> QED BY <1>1, <1>2, <2>1, SetInduction
<1>4. Len(q) \in T
  BY <1>0, <1>3
<1> QED BY <1>4 DEF Along

-----------------------------------------------------------------------------
(* The work path. *)

\* The provers do not know that a string constant is in STRING.
Names == STRING \cup Drives \cup {Hide, Sys, "cut"}

\* A path of strings is a path of names.
LEMMA StringPath ==
  ASSUME NEW p \in Seq(STRING)
  PROVE  p \in Seq(Names)
BY SeqMonotonic DEF Names

\* A launch directory is a path of names, of which none is the hidden one.
LEMMA LaunchPath ==
  /\ DsmPath \in Seq(Names) /\ Len(DsmPath) \in Nat
  /\ \A i \in 1 .. Len(DsmPath) : DsmPath[i] # Hide
<1>1. DsmPath \in Seq(Names)
  BY WorkPathAssumption, StringPath
<1>2. ASSUME NEW i \in 1 .. Len(DsmPath), DsmPath[i] = Hide PROVE FALSE
  <2>1. i \in DOMAIN DsmPath
    BY <1>1
  <2>2. Hide \in ToSet(DsmPath)
    BY <1>2, <2>1 DEF ToSet
  <2> QED BY <2>2, WorkPathAssumption
<1> QED BY <1>1, <1>2

\* The hidden directory and the drives are names.
LEMMA HideName == Hide \in Names /\ Drives \subseteq Names
BY DEF Names

\* A path of two names.
LEMMA TwoNames ==
  ASSUME NEW x \in Names, NEW y \in Names
  PROVE  <<x, y>> \in Seq(Names) /\ Len(<<x, y>>) = 2
OBVIOUS

\* FirstHidden of a path without hidden directory is 0, and of another the
\* place of the first one.
LEMMA NoneHidden ==
  ASSUME NEW work \in Seq(Names), Hide \notin ToSet(work)
  PROVE  FirstHidden(work) = 0
BY DEF FirstHidden, ToSet

LEMMA HiddenAt ==
  ASSUME NEW work \in Seq(Names), NEW h \in DOMAIN work,
         work[h] = Hide, \A i \in DOMAIN work : i < h => work[i] # Hide
  PROVE  FirstHidden(work) = h
<1> DEFINE P == {i \in DOMAIN work : work[i] = Hide}
<1>1. h \in P /\ \A i \in P : h <= i
  OBVIOUS
<1>2. \A m \in P : (\A i \in P : m <= i) => m = h
  <2>1. \A i \in P : i \in Int
    OBVIOUS
  <2> HIDE DEF P
  <2> QED BY <1>1, <2>1
<1>3. Min(P) = h
  <2> HIDE DEF P
  <2> QED BY <1>1, <1>2 DEF Min
<1> QED BY <1>1, <1>3 DEF FirstHidden

LEMMA SomeHidden ==
  ASSUME NEW work \in Seq(Names), Hide \in ToSet(work)
  PROVE  \E h \in DOMAIN work :
           /\ work[h] = Hide
           /\ \A i \in DOMAIN work : i < h => work[i] # Hide
<1> DEFINE P == {i \in DOMAIN work : work[i] = Hide}
<1>1. P \in SUBSET Nat /\ P # {}
  BY DEF ToSet
<1>2. PICK h \in P : \A i \in P : h <= i
  <2> HIDE DEF P
  <2> QED BY <1>1, LeastElement
<1> QED BY <1>2

\* OnDrive(d) as a sequence: the launch directory, the hidden one, the drive.
LEMMA OnDriveSeq ==
  ASSUME NEW d \in Names
  PROVE  /\ OnDrive(d) \in Seq(Names)
         /\ Len(OnDrive(d)) = Len(DsmPath) + 2
         /\ Len(DsmPath) \in Nat
         /\ \A i \in 1 .. Len(DsmPath) : OnDrive(d)[i] = DsmPath[i] /\ DsmPath[i] # Hide
         /\ OnDrive(d)[Len(DsmPath) + 1] = Hide
         /\ OnDrive(d)[Len(DsmPath) + 2] = d
<1> DEFINE w == <<Hide, d>>
<1>1. w \in Seq(Names) /\ Len(w) = 2
  BY HideName, TwoNames
<1>2. w[1] = Hide /\ w[2] = d
  OBVIOUS
<1>3. OnDrive(d) = DsmPath \o w
  BY DEF OnDrive
<1> HIDE DEF w
<1>4. /\ DsmPath \o w \in Seq(Names)
      /\ Len(DsmPath \o w) = Len(DsmPath) + Len(w)
      /\ \A i \in 1 .. Len(DsmPath) + Len(w) : (DsmPath \o w)[i] =
           IF i <= Len(DsmPath) THEN DsmPath[i] ELSE w[i - Len(DsmPath)]
  BY <1>1, LaunchPath, ConcatProperties
<1>5. ASSUME NEW i \in 1 .. Len(DsmPath) PROVE (DsmPath \o w)[i] = DsmPath[i]
  BY <1>1, <1>4, LaunchPath
<1>6. (DsmPath \o w)[Len(DsmPath) + 1] = w[1] /\ (DsmPath \o w)[Len(DsmPath) + 2] = w[2]
  <2>1. /\ Len(DsmPath) + 1 \in 1 .. Len(DsmPath) + Len(w)
        /\ Len(DsmPath) + 2 \in 1 .. Len(DsmPath) + Len(w)
    BY <1>1, LaunchPath
  <2> QED BY <1>4, <2>1, LaunchPath
<1> QED BY <1>1, <1>2, <1>3, <1>4, <1>5, <1>6, LaunchPath

\* A path below a hidden drive has its first hidden directory right after the
\* launch directory, and the drive behind it.
LEMMA OnDriveHidden ==
  ASSUME NEW d \in Names, NEW work \in Seq(Names),
         Len(work) >= Len(DsmPath) + 2,
         \A i \in 1 .. Len(DsmPath) + 2 : work[i] = OnDrive(d)[i]
  PROVE  /\ FirstHidden(work) = Len(DsmPath) + 1
         /\ work[Len(DsmPath) + 2] = d
         /\ Hide \in ToSet(work)
<1> DEFINE n == Len(DsmPath)
<1>1. n \in Nat
  BY OnDriveSeq
<1>2. ASSUME NEW i \in 1 .. n PROVE work[i] # Hide
  <2>1. work[i] = OnDrive(d)[i]
    BY <1>1
  <2>2. OnDrive(d)[i] = DsmPath[i] /\ DsmPath[i] # Hide
    BY OnDriveSeq
  <2> QED BY <2>1, <2>2
<1>3. work[n + 1] = OnDrive(d)[n + 1] /\ work[n + 2] = OnDrive(d)[n + 2]
  BY <1>1
<1>4. n + 1 \in DOMAIN work /\ work[n + 1] = Hide /\ work[n + 2] = d
  BY <1>1, <1>3, OnDriveSeq
<1>5. \A i \in DOMAIN work : i < n + 1 => work[i] # Hide
  BY <1>1, <1>2
<1> QED BY <1>4, <1>5, HiddenAt DEF ToSet

\* A path that begins as OnDrive(d) is that and the rest of it.
LEMMA DriveAndRest ==
  ASSUME NEW d \in Names, NEW work \in Seq(Names)
  PROVE  /\ IsPrefix(OnDrive(d), work) =>
              /\ Len(work) >= Len(DsmPath) + 2
              /\ \A i \in 1 .. Len(DsmPath) + 2 : work[i] = OnDrive(d)[i]
              /\ work = OnDrive(d) \o SubSeq(work, Len(DsmPath) + 3, Len(work))
         /\ \A rest \in Seq(Names) : work = OnDrive(d) \o rest =>
              /\ IsPrefix(OnDrive(d), work)
              /\ Len(work) >= Len(DsmPath) + 2
              /\ \A i \in 1 .. Len(DsmPath) + 2 : work[i] = OnDrive(d)[i]
<1> DEFINE o == OnDrive(d)
<1> DEFINE n == Len(DsmPath) + 2
<1>1. o \in Seq(Names) /\ Len(o) = n /\ n \in Nat
  BY OnDriveSeq
<1> HIDE DEF o, n
<1>2. ASSUME IsPrefix(o, work)
      PROVE  /\ Len(work) >= n
             /\ \A i \in 1 .. n : work[i] = o[i]
             /\ work = o \o SubSeq(work, n + 1, Len(work))
  <2>1. Len(work) >= n /\ \A i \in 1 .. n : work[i] = o[i]
    BY <1>1, <1>2 DEF IsPrefix
  <2> DEFINE r == SubSeq(work, n + 1, Len(work))
  <2>2. /\ r \in Seq(Names)
        /\ Len(r) = Len(work) - n
        /\ \A i \in 1 .. Len(r) : r[i] = work[n + i]
    BY <1>1, <2>1
  <2> HIDE DEF r
  <2>3. /\ o \o r \in Seq(Names)
        /\ Len(o \o r) = Len(work)
    BY <1>1, <2>2
  <2>4. ASSUME NEW i \in 1 .. Len(work) PROVE work[i] = (o \o r)[i]
    <3>1. CASE i <= n
      BY <1>1, <2>1, <2>2, <3>1
    <3>2. CASE ~(i <= n)
      <4>1. (o \o r)[i] = r[i - n]
        BY <1>1, <2>2, <3>2
      <4> QED BY <1>1, <2>2, <3>2, <4>1
    <3> QED BY <3>1, <3>2
  <2>5. work = o \o r
    BY <2>3, <2>4, SeqEqual
  <2> QED BY <2>1, <2>5 DEF r
<1>3. ASSUME NEW rest \in Seq(Names), work = o \o rest
      PROVE  /\ IsPrefix(o, work)
             /\ Len(work) >= n
             /\ \A i \in 1 .. n : work[i] = o[i]
  <2>1. Len(work) >= n /\ \A i \in 1 .. n : work[i] = o[i]
    BY <1>1, <1>3
  <2> QED BY <1>1, <2>1 DEF IsPrefix
<1>4. Len(DsmPath) + 3 = n + 1
  BY <1>1, WorkPathAssumption DEF n
<1> QED BY <1>2, <1>3, <1>4 DEF o, n

\* The answer to Y leads back exactly from a path that is proper: without a
\* hidden directory the path itself is reported; with one, what is reported
\* becomes a path below a hidden drive again, or is shorter.
LEMMA LeadsBack ==
  ASSUME NEW work \in Seq(Names)
  PROVE  Switched(Reported(work)) = work <=> Proper(work)
<1>1. CASE Hide \notin ToSet(work)
  <2>1. Reported(work) = [drive |-> "c", path |-> work]
    <3>1. FirstHidden(work) = 0
      BY <1>1, NoneHidden
    <3> QED BY <3>1 DEF Reported
  <2>2. Switched(Reported(work)) = work
    BY <2>1 DEF Switched, Drives
  <2> QED BY <1>1, <2>2 DEF Proper
<1>2. CASE Hide \in ToSet(work)
  <2> DEFINE rest(h) == SubSeq(work, h + 2, Len(work))
  <2>1. PICK h \in DOMAIN work :
          work[h] = Hide /\ \A i \in DOMAIN work : i < h => work[i] # Hide
    BY <1>2, SomeHidden
  <2>2. FirstHidden(work) = h
    BY <2>1, HiddenAt
  <2>3. h \in 1 .. Len(work) /\ Len(work) \in Nat /\ Len(DsmPath) \in Nat
    BY <2>1, LaunchPath
  <2>4. ASSUME NEW d \in Drives, IsPrefix(OnDrive(d), work)
        PROVE  /\ h < Len(work) /\ work[h + 1] = d
               /\ work = OnDrive(d) \o rest(h)
    <3>1. d \in Names
      BY HideName
    <3>2. /\ Len(work) >= Len(DsmPath) + 2
          /\ \A i \in 1 .. Len(DsmPath) + 2 : work[i] = OnDrive(d)[i]
          /\ work = OnDrive(d) \o SubSeq(work, Len(DsmPath) + 3, Len(work))
      BY <2>4, <3>1, DriveAndRest
    <3>3. h = Len(DsmPath) + 1 /\ work[Len(DsmPath) + 2] = d
      BY <3>1, <3>2, <2>2, OnDriveHidden
    <3>4. h + 1 = Len(DsmPath) + 2 /\ h + 2 = Len(DsmPath) + 3
      BY <3>3, <2>3
    <3>5. rest(h) = SubSeq(work, Len(DsmPath) + 3, Len(work))
      BY <3>4
    <3>6. h < Len(work) /\ work[h + 1] = d
      BY <3>2, <3>3, <2>3
    <3> HIDE DEF rest
    <3> QED BY <3>2, <3>5, <3>6
  <2>5. Proper(work) <=> \E d \in Drives : IsPrefix(OnDrive(d), work)
    BY <1>2 DEF Proper
  <2>6. ASSUME NEW d \in Names, NEW p \in Seq(Names), work = OnDrive(d) \o p
        PROVE  IsPrefix(OnDrive(d), work)
    BY <2>6, DriveAndRest
  <2>7. CASE h = Len(work)
    <3>1. Reported(work) = [drive |-> "c", path |-> <<>>]
      BY <2>2, <2>3, <2>7 DEF Reported
    <3>2. Switched(Reported(work)) = <<>>
      BY <3>1 DEF Switched, Drives
    <3>3. work # <<>>
      BY <2>3
    <3>4. ~Proper(work)
      BY <2>3, <2>4, <2>5, <2>7
    <3> QED BY <3>2, <3>3, <3>4
  <2>8. CASE h < Len(work) /\ work[h + 1] \in Drives
    <3>1. Reported(work) = [drive |-> work[h + 1], path |-> rest(h)]
      BY <2>2, <2>3, <2>8 DEF Reported
    <3>2. Switched(Reported(work)) = OnDrive(work[h + 1]) \o rest(h)
      <4> HIDE DEF rest
      <4> QED BY <3>1, <2>8 DEF Switched, Drives
    <3>3. work[h + 1] \in Names /\ rest(h) \in Seq(Names)
      BY <2>3, <2>8, HideName
    <3>4. ASSUME Switched(Reported(work)) = work PROVE Proper(work)
      <4>1. work = OnDrive(work[h + 1]) \o rest(h)
        BY <3>2, <3>4
      <4>2. IsPrefix(OnDrive(work[h + 1]), work)
        BY <3>3, <4>1, DriveAndRest
      <4> QED BY <4>2, <2>5, <2>8
    <3>5. ASSUME Proper(work) PROVE Switched(Reported(work)) = work
      <4>1. PICK d \in Drives : IsPrefix(OnDrive(d), work)
        BY <2>5, <3>5
      <4>2. work[h + 1] = d /\ work = OnDrive(d) \o rest(h)
        BY <2>4, <4>1
      <4> QED BY <3>2, <4>2
    <3> QED BY <3>4, <3>5
  <2>9. CASE h < Len(work) /\ work[h + 1] \notin Drives
    <3> DEFINE D == Initial[work[h + 1]]
    <3> DEFINE p == <<"cut">> \o rest(h)
    <3>1. Reported(work) = [drive |-> D, path |-> p]
      BY <2>2, <2>3, <2>9 DEF Reported
    <3>2. ~Proper(work)
      BY <2>4, <2>5, <2>9
    <3>3. /\ rest(h) \in Seq(Names) /\ Len(rest(h)) = Len(work) - h - 1
          /\ <<"cut">> \in Seq(Names) /\ Len(<<"cut">>) = 1
      <4>1. rest(h) \in Seq(Names) /\ Len(rest(h)) = Len(work) - h - 1
        BY <2>3, <2>9
      <4>2. "cut" \in Names
        BY DEF Names
      <4> QED BY <4>1, <4>2
    <3>4. p \in Seq(Names) /\ Len(p) = Len(work) - h
      <4> DEFINE s == rest(h)
      <4>1. s \in Seq(Names) /\ Len(s) = Len(work) - h - 1
        BY <3>3
      <4> HIDE DEF s
      <4>2. <<"cut">> \o s \in Seq(Names) /\ Len(<<"cut">> \o s) = 1 + Len(s)
        BY <3>3, <4>1, ConcatProperties
      <4> QED BY <2>3, <4>1, <4>2 DEF s
    <3> HIDE DEF D, p
    <3>5. CASE D = "z"
      <4>1. Switched(Reported(work)) = DsmPath
        BY <3>1, <3>5 DEF Switched, Drives
      <4>2. DsmPath # work
        BY <2>1, <2>3, LaunchPath
      <4> QED BY <4>1, <4>2, <3>2
    <3>6. CASE D = "x"
      <4>1. Switched(Reported(work)) = OnDrive("a") \o <<Sys>>
        BY <3>1, <3>6 DEF Switched, Drives
      <4>2. "a" \in Drives /\ "a" \in Names /\ <<Sys>> \in Seq(Names)
        BY DEF Drives, Names
      <4>3. Switched(Reported(work)) # work
        BY <4>1, <4>2, <2>5, <2>6, <3>2
      <4> QED BY <4>3, <3>2
    <3>7. CASE D \in Drives
      <4>1. Switched(Reported(work)) = OnDrive(D) \o p
        BY <3>1, <3>7 DEF Switched, Drives
      <4>2. D \in Names
        BY <3>7, HideName
      <4>3. Switched(Reported(work)) # work
        BY <4>1, <4>2, <3>4, <3>7, <2>5, <2>6, <3>2
      <4> QED BY <4>3, <3>2
    <3>8. CASE D \notin Drives /\ D # "z" /\ D # "x"
      <4>1. Switched(Reported(work)) = p
        BY <3>1, <3>8 DEF Switched
      <4>2. p # work
        BY <3>4, <2>3
      <4> QED BY <4>1, <4>2, <3>2
    <3> QED BY <3>5, <3>6, <3>7, <3>8
  <2> QED BY <2>3, <2>7, <2>8, <2>9
<1> QED BY <1>1, <1>2

\* dsmSwitchPath keeps the work path a path of names.
LEMMA SwitchedPath ==
  ASSUME NEW r \in [drive: STRING, path: Seq(STRING)]
  PROVE  Switched(r) \in Seq(Names)
<1>1. r.path \in Seq(Names)
  BY StringPath
<1>2. <<Sys>> \in Seq(Names) /\ "a" \in Names
  BY DEF Names, Drives
<1>3. ASSUME NEW d \in Names, NEW p \in Seq(Names) PROVE OnDrive(d) \o p \in Seq(Names)
  BY OnDriveSeq
<1>4. \A d \in Drives : OnDrive(d) \o r.path \in Seq(Names)
  BY <1>1, <1>3, HideName
<1> QED BY <1>1, <1>2, <1>3, <1>4, LaunchPath DEF Switched

\* dsmSwitchPath: whatever the launch directory, the drives and the paths of
\* the card, the application that switches to the answer to Y is back in its
\* directory, exactly if it entered no hidden directory by its name.
THEOREM PathsComeBack == Spec => []PathComesBack
<1>1. ComesBack(Reached)
  <2> SUFFICES ASSUME NEW r \in Asked
               PROVE  Switched(Reported(Switched(r))) = Switched(r) <=> Proper(Switched(r))
    BY DEF ComesBack, Reached
  <2>1. Switched(r) \in Seq(Names)
    BY SmsCfgAssumption, SwitchedPath
  <2> QED BY <2>1, LeadsBack
<1>2. PathComesBack
  BY <1>1 DEF PathComesBack
<1> QED BY <1>2, PTL

-----------------------------------------------------------------------------
(* The block and what it shows. *)

\* The places the block has room for, and no file that cannot be read: the
\* numbers end before the address, the last message section stays unused.
\* With 32 bytes in sections of 120 these are the numbers 0 to 6 of ten and the
\* messages 0 to 30 of 32. Without these the block does not keep its promise.
Fits ==
  /\ MsgSlots # 0
  /\ MsgPlaces \subseteq 0 .. MsgSlots - 2
  /\ \A i \in Numbers : NumberAt(i) + NumLen <= UrlAt
  /\ "read" \notin Faults

Changes == Store!Commands \cup Store!Messages

Contents == Vals \cup {0, 128} \cup {Default[i] : i \in Numbers}
Shown == Contents \cup {-1}
Views == [num: [Numbers -> Shown], url: Shown, useUrl: Shown, unicode: Shown,
          msg: [MsgPlaces -> Shown], useMsg: Shown]

\* Where the numbers, the address and the messages lie: none overlaps another
\* or the flags, and all but the last section lie before the end.
LEMMA Layout ==
  ASSUME Fits
  PROVE  /\ Section \in Nat /\ NumLen \in Nat /\ BufLen \in Nat
         /\ 3 < Section /\ 0 < NumLen
         /\ UrlAt \in Nat /\ UrlAt >= Section /\ UrlAt + Section < BufLen
         /\ \A i \in Numbers : NumberAt(i) \in Nat /\ Section <= NumberAt(i)
                               /\ NumberAt(i) + NumLen <= UrlAt
         /\ \A i, j \in Numbers : i < j => NumberAt(i) + NumLen <= NumberAt(j)
         /\ \A k \in MsgPlaces : /\ MsgAt(k) \in Nat /\ UrlAt + Section <= MsgAt(k)
                                 /\ MsgAt(k) + Section < BufLen
                                 /\ k \in Nat /\ 3 + k < Section
         /\ \A k, l \in MsgPlaces : k < l => MsgAt(k) + Section <= MsgAt(l)
<1>1. /\ Section \in Nat /\ 0 < Section /\ NumLen \in Nat /\ 0 < NumLen
      /\ MsgSlots \in Nat /\ 0 < MsgSlots /\ 3 + MsgSlots <= Section
  BY SmsCfgAssumption DEF Fits
<1>2. UrlAt = Section + Section + Section /\ BufLen = UrlAt + Section + Section * MsgSlots
      /\ Section * MsgSlots \in Nat
  BY <1>1 DEF UrlAt, BufLen
<1>3. Section * MsgSlots >= Section
  BY <1>1
<1>4. ASSUME NEW i \in Numbers
      PROVE  NumberAt(i) \in Nat /\ Section <= NumberAt(i) /\ NumberAt(i) + NumLen <= UrlAt
  <2>1. i \in Nat
    BY SmsCfgAssumption
  <2>2. NumLen * i \in Nat
    BY <1>1, <2>1
  <2> QED BY <1>1, <2>2 DEF NumberAt, Fits
<1>5. ASSUME NEW i \in Numbers, NEW j \in Numbers, i < j
      PROVE  NumberAt(i) + NumLen <= NumberAt(j)
  <2>1. i \in Nat /\ j \in Nat /\ j - i - 1 \in Nat
    BY <1>5, SmsCfgAssumption
  <2>2. NumLen * (j - i - 1) \in Nat
    BY <1>1, <2>1
  <2>3. NumLen * j = NumLen * i + NumLen + NumLen * (j - i - 1)
    BY <1>1, <2>1
  <2>4. NumLen * i \in Nat /\ NumLen * j \in Nat
    BY <1>1, <2>1
  <2> QED BY <1>1, <2>2, <2>3, <2>4 DEF NumberAt
<1>6. ASSUME NEW k \in MsgPlaces
      PROVE  /\ MsgAt(k) \in Nat /\ UrlAt + Section <= MsgAt(k)
             /\ MsgAt(k) + Section < BufLen /\ k \in Nat /\ 3 + k < Section
  <2>1. k \in Nat /\ k <= MsgSlots - 2 /\ MsgSlots - 2 - k \in Nat
    BY <1>1 DEF Fits
  <2>2. /\ MsgAt(k) = Section + Section + Section + Section + Section * k
        /\ Section * k \in Nat
    BY <1>1, <2>1 DEF MsgAt
  <2>3. /\ Section * MsgSlots = Section * k + Section + Section + Section * (MsgSlots - 2 - k)
        /\ Section * (MsgSlots - 2 - k) \in Nat
    BY <1>1, <2>1
  <2> QED BY <1>1, <1>2, <2>1, <2>2, <2>3
<1>7. ASSUME NEW k \in MsgPlaces, NEW l \in MsgPlaces, k < l
      PROVE  MsgAt(k) + Section <= MsgAt(l)
  <2>1. k \in Nat /\ l \in Nat /\ l - k - 1 \in Nat
    BY <1>1, <1>7 DEF Fits
  <2>2. Section * (l - k - 1) \in Nat /\ Section * k \in Nat /\ Section * l \in Nat
    BY <1>1, <2>1
  <2>3. Section * l = Section * k + Section + Section * (l - k - 1)
    BY <1>1, <2>1
  <2>4. MsgAt(k) = 4 * Section + Section * k /\ MsgAt(l) = 4 * Section + Section * l
    BY <1>1, <2>1 DEF MsgAt
  <2> QED BY <1>1, <2>2, <2>3, <2>4
<1>8. 3 < Section
  BY <1>1
<1> QED BY <1>1, <1>2, <1>3, <1>4, <1>5, <1>6, <1>7, <1>8

\* _mr_smsSetBytes fills its range with one content and leaves the rest.
LEMMA SetThere ==
  ASSUME NEW b, NEW pos \in Nat, NEW len \in Nat, NEW v,
         0 < len, pos + len < BufLen, BufLen \in Nat
  PROVE  Field(SetBytes(b, pos, len, v), pos, len) = v /\ SetBytes(b, pos, len, v)[pos] = v
<1>1. \A p \in pos .. pos + len - 1 : p \in Cells /\ SetBytes(b, pos, len, v)[p] = v
  BY DEF SetBytes, Cells
<1>2. pos \in pos .. pos + len - 1
  OBVIOUS
<1> QED BY <1>1, <1>2 DEF Field

LEMMA SetElsewhere ==
  ASSUME NEW b, NEW pos \in Nat, NEW len \in Nat, NEW v,
         BufLen \in Nat, NEW q \in Nat, NEW n \in Nat, 0 < n, q + n <= BufLen,
         q + n <= pos \/ pos + len <= q
  PROVE  /\ Field(SetBytes(b, pos, len, v), q, n) = Field(b, q, n)
         /\ SetBytes(b, pos, len, v)[q] = b[q]
<1>1. \A p \in q .. q + n - 1 : SetBytes(b, pos, len, v)[p] = b[p]
  BY DEF SetBytes, Cells
<1>2. q \in q .. q + n - 1
  OBVIOUS
<1> HIDE DEF SetBytes
<1> QED BY <1>1, <1>2 DEF Field

LEMMA SetBlock ==
  ASSUME NEW b \in Blocks, NEW pos, NEW len, NEW v \in Contents
  PROVE  SetBytes(b, pos, len, v) \in Blocks
BY DEF SetBytes, Blocks, Contents

\* What a block shows is a view.
LEMMA ViewType ==
  ASSUME Fits, NEW b \in Blocks
  PROVE  View(b) \in Views
<1>1. \A p \in Cells : b[p] \in Shown
  BY DEF Blocks, Shown, Contents
<1>2. ASSUME NEW pos \in Cells, NEW len PROVE Field(b, pos, len) \in Shown
  BY <1>1 DEF Field, Shown
<1>3. /\ \A i \in Numbers : NumberAt(i) \in Cells
      /\ \A k \in MsgPlaces : MsgAt(k) \in Cells
      /\ UrlAt \in Cells /\ UseUrlAt \in Cells /\ UnicodeAt \in Cells /\ UseMsgAt \in Cells
  BY Layout DEF Cells, UseUrlAt, UnicodeAt, UseMsgAt
<1> QED BY <1>1, <1>2, <1>3 DEF View, Views

\* A number written leaves the other numbers, the address, the flags and the
\* messages alone.
LEMMA NumberShown ==
  ASSUME Fits, NEW b \in Blocks, NEW i \in Numbers, NEW v \in Contents
  PROVE  /\ AddNum(b, i, v) \in Blocks
         /\ View(AddNum(b, i, v)) = [View(b) EXCEPT !.num[i] = v]
<1> DEFINE c == SetBytes(b, NumberAt(i), NumLen, v)
<1>1. AddNum(b, i, v) = c /\ c \in Blocks
  BY SetBlock DEF AddNum
<1>2. /\ BufLen \in Nat /\ NumLen \in Nat /\ 0 < NumLen /\ NumberAt(i) \in Nat
      /\ NumberAt(i) + NumLen < BufLen
      /\ Section \in Nat /\ 3 < Section /\ 0 < Section /\ Section <= NumberAt(i)
      /\ UrlAt \in Nat /\ UrlAt + Section < BufLen /\ NumberAt(i) + NumLen <= UrlAt
  BY Layout
<1>3. Field(c, NumberAt(i), NumLen) = v
  BY <1>2, SetThere
<1>4. ASSUME NEW j \in Numbers, j # i
      PROVE  Field(c, NumberAt(j), NumLen) = Field(b, NumberAt(j), NumLen)
  <2>1. i \in Nat /\ j \in Nat /\ (i < j \/ j < i)
    BY <1>4, SmsCfgAssumption
  <2>2. /\ NumberAt(j) \in Nat /\ NumberAt(j) + NumLen <= BufLen
        /\ (NumberAt(j) + NumLen <= NumberAt(i) \/ NumberAt(i) + NumLen <= NumberAt(j))
    BY <2>1, <1>2, Layout
  <2> QED BY <1>2, <2>2, SetElsewhere
<1>5. Field(c, UrlAt, Section) = Field(b, UrlAt, Section)
  BY <1>2, SetElsewhere
<1>6. ASSUME NEW k \in MsgPlaces
      PROVE  Field(c, MsgAt(k), Section) = Field(b, MsgAt(k), Section)
  <2>1. /\ MsgAt(k) \in Nat /\ MsgAt(k) + Section <= BufLen
        /\ NumberAt(i) + NumLen <= MsgAt(k)
    BY <1>2, Layout
  <2>2. /\ NumberAt(i) \in Nat /\ NumLen \in Nat /\ Section \in Nat /\ 0 < Section
        /\ BufLen \in Nat
    BY <1>2
  <2> DEFINE m == MsgAt(k)
  <2> DEFINE n == NumberAt(i)
  <2>3. /\ m \in Nat /\ m + Section <= BufLen /\ n \in Nat /\ n + NumLen <= m
    BY <2>1, <2>2
  <2> HIDE DEF m, n
  <2>4. Field(SetBytes(b, n, NumLen, v), m, Section) = Field(b, m, Section)
    BY <2>2, <2>3, SetElsewhere
  <2> QED BY <2>4 DEF m, n
<1>7. ASSUME NEW p \in {0, 1, 2} PROVE c[p] = b[p]
  <2>1. p \in Nat /\ 1 \in Nat /\ p + 1 <= NumberAt(i) /\ p + 1 <= BufLen /\ 0 < 1
    BY <1>2
  <2> QED BY <1>2, <2>1, SetElsewhere
<1> HIDE DEF c
<1>8. View(c).num = [View(b).num EXCEPT ![i] = v]
  BY <1>3, <1>4 DEF View
<1>9. /\ View(c).url = View(b).url /\ View(c).msg = View(b).msg
      /\ View(c).useUrl = View(b).useUrl /\ View(c).unicode = View(b).unicode
      /\ View(c).useMsg = View(b).useMsg
  BY <1>5, <1>6, <1>7 DEF View, UseUrlAt, UnicodeAt, UseMsgAt
<1>10. View(c) = [View(b) EXCEPT !.num[i] = v]
  BY <1>8, <1>9 DEF View
<1> QED BY <1>1, <1>10

\* A flag of the first section leaves numbers, address and messages alone.
LEMMA FlagShown ==
  ASSUME Fits, NEW b \in Blocks, NEW p \in Nat, p < Section, NEW v \in Contents
  PROVE  /\ SetBytes(b, p, 1, v) \in Blocks
         /\ View(SetBytes(b, p, 1, v)).num = View(b).num
         /\ View(SetBytes(b, p, 1, v)).url = View(b).url
         /\ View(SetBytes(b, p, 1, v)).msg = View(b).msg
         /\ SetBytes(b, p, 1, v)[p] = v
         /\ \A o \in {0, 1, 2} : o # p => SetBytes(b, p, 1, v)[o] = b[o]
<1> DEFINE c == SetBytes(b, p, 1, v)
<1>1. c \in Blocks
  BY SetBlock
<1>2. /\ BufLen \in Nat /\ NumLen \in Nat /\ 0 < NumLen /\ 1 \in Nat /\ 0 < 1
      /\ Section \in Nat /\ 3 < Section /\ UrlAt \in Nat /\ Section <= UrlAt
      /\ UrlAt + Section < BufLen /\ p + 1 <= Section /\ p + 1 < BufLen
  BY Layout
<1>3. ASSUME NEW j \in Numbers
      PROVE  Field(c, NumberAt(j), NumLen) = Field(b, NumberAt(j), NumLen)
  <2>1. NumberAt(j) \in Nat /\ NumberAt(j) + NumLen <= BufLen /\ p + 1 <= NumberAt(j)
    BY <1>2, Layout
  <2> QED BY <1>2, <2>1, SetElsewhere
<1>4. Field(c, UrlAt, Section) = Field(b, UrlAt, Section)
  <2>1. p + 1 <= UrlAt /\ UrlAt + Section <= BufLen /\ 0 < Section
    BY <1>2
  <2> QED BY <1>2, <2>1, SetElsewhere
<1>5. ASSUME NEW k \in MsgPlaces
      PROVE  Field(c, MsgAt(k), Section) = Field(b, MsgAt(k), Section)
  <2>1. MsgAt(k) \in Nat /\ MsgAt(k) + Section <= BufLen /\ p + 1 <= MsgAt(k) /\ 0 < Section
    BY <1>2, Layout
  <2> QED BY <1>2, <2>1, SetElsewhere
<1>6. c[p] = v
  BY <1>2, SetThere
<1>7. ASSUME NEW o \in {0, 1, 2}, o # p PROVE c[o] = b[o]
  <2>1. o \in Nat /\ o + 1 <= BufLen /\ (o + 1 <= p \/ p + 1 <= o)
    BY <1>2, <1>7
  <2> QED BY <1>2, <2>1, SetElsewhere
<1> HIDE DEF c
<1>8. View(c).num = View(b).num /\ View(c).url = View(b).url /\ View(c).msg = View(b).msg
  BY <1>3, <1>4, <1>5 DEF View
<1> QED BY <1>1, <1>6, <1>7, <1>8 DEF c

\* The address.
LEMMA UrlShown ==
  ASSUME Fits, NEW b \in Blocks, NEW v \in Contents
  PROVE  /\ UpdateURL(b, v) \in Blocks
         /\ View(UpdateURL(b, v)) = [View(b) EXCEPT !.url = v, !.useUrl = 128]
<1> DEFINE d == SetBytes(b, UseUrlAt, 1, 128)
<1> DEFINE c == SetBytes(d, UrlAt, Section, v)
<1>1. /\ BufLen \in Nat /\ NumLen \in Nat /\ 0 < NumLen
      /\ Section \in Nat /\ 3 < Section /\ 0 < Section /\ UrlAt \in Nat /\ Section <= UrlAt
      /\ UrlAt + Section < BufLen
  BY Layout
<1>2. 128 \in Contents /\ UseUrlAt \in Nat /\ UseUrlAt < Section /\ UseUrlAt = 2
  BY <1>1 DEF Contents, UseUrlAt
<1>3. /\ d \in Blocks /\ View(d).num = View(b).num /\ View(d).msg = View(b).msg
      /\ d[2] = 128 /\ d[0] = b[0] /\ d[1] = b[1]
  BY <1>2, FlagShown
<1> HIDE DEF d
<1>4. c \in Blocks /\ UpdateURL(b, v) = c
  BY <1>3, SetBlock DEF UpdateURL, d
<1>5. Field(c, UrlAt, Section) = v
  BY <1>1, SetThere
<1>6. ASSUME NEW j \in Numbers
      PROVE  Field(c, NumberAt(j), NumLen) = Field(d, NumberAt(j), NumLen)
  <2>1. /\ NumberAt(j) \in Nat /\ NumberAt(j) + NumLen <= BufLen
        /\ NumberAt(j) + NumLen <= UrlAt
    BY <1>1, Layout
  <2> QED BY <1>1, <2>1, SetElsewhere
<1>7. ASSUME NEW k \in MsgPlaces
      PROVE  Field(c, MsgAt(k), Section) = Field(d, MsgAt(k), Section)
  <2>1. MsgAt(k) \in Nat /\ MsgAt(k) + Section <= BufLen /\ UrlAt + Section <= MsgAt(k)
    BY <1>1, Layout
  <2> QED BY <1>1, <2>1, SetElsewhere
<1>8. ASSUME NEW o \in {0, 1, 2} PROVE c[o] = d[o]
  <2>1. o \in Nat /\ 1 \in Nat /\ 0 < 1 /\ o + 1 <= BufLen /\ o + 1 <= UrlAt
    BY <1>1
  <2> QED BY <1>1, <2>1, SetElsewhere
<1> HIDE DEF c
<1>9. View(c).num = View(b).num /\ View(c).msg = View(b).msg
  <2>1. View(c).num = View(d).num /\ View(c).msg = View(d).msg
    BY <1>6, <1>7 DEF View
  <2> QED BY <1>3, <2>1
<1>10. /\ View(c).url = v /\ View(c).useUrl = 128
       /\ View(c).unicode = View(b).unicode /\ View(c).useMsg = View(b).useMsg
  BY <1>3, <1>5, <1>8 DEF View, UseUrlAt, UnicodeAt, UseMsgAt
<1>11. View(c) = [View(b) EXCEPT !.url = v, !.useUrl = 128]
  BY <1>9, <1>10 DEF View
<1> QED BY <1>4, <1>11

\* The coding of the short messages.
LEMMA UnicodeShown ==
  ASSUME Fits, NEW b \in Blocks, NEW v \in Contents
  PROVE  /\ SetBytes(b, UnicodeAt, 1, v) \in Blocks
         /\ View(SetBytes(b, UnicodeAt, 1, v)) = [View(b) EXCEPT !.unicode = v]
<1> DEFINE c == SetBytes(b, UnicodeAt, 1, v)
<1>1. UnicodeAt \in Nat /\ UnicodeAt < Section /\ UnicodeAt = 1
  BY Layout DEF UnicodeAt
<1>2. /\ c \in Blocks /\ View(c).num = View(b).num /\ View(c).msg = View(b).msg
      /\ View(c).url = View(b).url /\ c[1] = v /\ c[0] = b[0] /\ c[2] = b[2]
  BY <1>1, FlagShown
<1> HIDE DEF c
<1>3. /\ View(c).unicode = v /\ View(c).useUrl = View(b).useUrl
      /\ View(c).useMsg = View(b).useMsg
  BY <1>2 DEF View, UseUrlAt, UnicodeAt, UseMsgAt
<1>4. View(c) = [View(b) EXCEPT !.unicode = v]
  BY <1>2, <1>3 DEF View
<1> QED BY <1>2, <1>4 DEF c

\* A message to keep.
LEMMA MessageShown ==
  ASSUME Fits, NEW b \in Blocks, NEW k \in MsgPlaces, NEW v \in Contents
  PROVE  /\ DsmSave(b, k, v) \in Blocks
         /\ View(DsmSave(b, k, v)) = [View(b) EXCEPT !.msg[k] = v, !.useMsg = 128]
<1> DEFINE e == SetBytes(b, UseMsgAt, 1, 128)
<1> DEFINE d == SetBytes(e, MsgFlagAt + k, 1, 128)
<1> DEFINE c == SetBytes(d, MsgAt(k), Section, v)
<1>1. /\ BufLen \in Nat /\ NumLen \in Nat /\ 0 < NumLen
      /\ Section \in Nat /\ 3 < Section /\ 0 < Section /\ UrlAt \in Nat /\ Section <= UrlAt
      /\ UrlAt + Section < BufLen
      /\ MsgAt(k) \in Nat /\ UrlAt + Section <= MsgAt(k) /\ MsgAt(k) + Section < BufLen
      /\ k \in Nat /\ 3 + k < Section
  BY Layout
<1>2. /\ 128 \in Contents /\ UseMsgAt \in Nat /\ UseMsgAt < Section /\ UseMsgAt = 0
      /\ MsgFlagAt + k \in Nat /\ MsgFlagAt + k < Section /\ MsgFlagAt + k \notin {0, 1, 2}
  BY <1>1 DEF Contents, UseMsgAt, MsgFlagAt
<1>3. /\ e \in Blocks /\ View(e).num = View(b).num /\ View(e).msg = View(b).msg
      /\ View(e).url = View(b).url /\ e[0] = 128 /\ e[1] = b[1] /\ e[2] = b[2]
  BY <1>2, FlagShown
<1> HIDE DEF e
<1>4. /\ d \in Blocks /\ View(d).num = View(e).num /\ View(d).msg = View(e).msg
      /\ View(d).url = View(e).url /\ d[0] = e[0] /\ d[1] = e[1] /\ d[2] = e[2]
  <2> DEFINE p == MsgFlagAt + k
  <2> DEFINE g == SetBytes(e, p, 1, 128)
  <2>1. p \in Nat /\ p < Section /\ p # 0 /\ p # 1 /\ p # 2
    BY <1>2
  <2> HIDE DEF p
  <2>2. /\ g \in Blocks /\ View(g).num = View(e).num /\ View(g).url = View(e).url
        /\ View(g).msg = View(e).msg /\ \A o \in {0, 1, 2} : o # p => g[o] = e[o]
    BY <1>2, <1>3, <2>1, FlagShown
  <2> HIDE DEF g
  <2>3. g[0] = e[0] /\ g[1] = e[1] /\ g[2] = e[2]
    BY <2>1, <2>2
  <2> QED BY <2>2, <2>3 DEF g, p
<1> HIDE DEF d
<1>5. c \in Blocks /\ DsmSave(b, k, v) = c
  BY <1>4, SetBlock DEF DsmSave, d, e
<1>6. Field(c, MsgAt(k), Section) = v
  BY <1>1, SetThere
<1>7. ASSUME NEW j \in Numbers
      PROVE  Field(c, NumberAt(j), NumLen) = Field(d, NumberAt(j), NumLen)
  <2>1. /\ NumberAt(j) \in Nat /\ NumberAt(j) + NumLen <= BufLen
        /\ NumberAt(j) + NumLen <= MsgAt(k)
    BY <1>1, Layout
  <2> QED BY <1>1, <2>1, SetElsewhere
<1>8. ASSUME NEW l \in MsgPlaces, l # k
      PROVE  Field(c, MsgAt(l), Section) = Field(d, MsgAt(l), Section)
  <2>1. l \in Nat /\ k \in Nat /\ (k < l \/ l < k)
    BY <1>8, Layout
  <2>2. /\ MsgAt(l) \in Nat /\ MsgAt(l) + Section <= BufLen
        /\ (MsgAt(l) + Section <= MsgAt(k) \/ MsgAt(k) + Section <= MsgAt(l))
    BY <1>1, <2>1, Layout
  <2> DEFINE m == MsgAt(k)
  <2> DEFINE n == MsgAt(l)
  <2>3. /\ m \in Nat /\ n \in Nat /\ n + Section <= BufLen
        /\ (n + Section <= m \/ m + Section <= n)
        /\ Section \in Nat /\ 0 < Section /\ BufLen \in Nat
    BY <1>1, <2>2
  <2> HIDE DEF m, n
  <2>4. Field(SetBytes(d, m, Section, v), n, Section) = Field(d, n, Section)
    BY <2>3, SetElsewhere
  <2> QED BY <2>4 DEF m, n
<1>9. Field(c, UrlAt, Section) = Field(d, UrlAt, Section)
  <2>1. UrlAt + Section <= BufLen
    BY <1>1
  <2> QED BY <1>1, <2>1, SetElsewhere
<1>10. ASSUME NEW o \in {0, 1, 2} PROVE c[o] = d[o]
  <2>1. o \in Nat /\ 1 \in Nat /\ 0 < 1 /\ o + 1 <= BufLen /\ o + 1 <= MsgAt(k)
    BY <1>1
  <2> QED BY <1>1, <2>1, SetElsewhere
<1> HIDE DEF c
<1>11. View(c).num = View(b).num /\ View(c).url = View(b).url
  <2>1. View(c).num = View(d).num /\ View(c).url = View(d).url
    BY <1>7, <1>9 DEF View
  <2> QED BY <1>3, <1>4, <2>1
<1>12. View(c).msg = [View(b).msg EXCEPT ![k] = v]
  <2>1. View(c).msg = [View(d).msg EXCEPT ![k] = v]
    BY <1>6, <1>8 DEF View
  <2> QED BY <1>3, <1>4, <2>1
<1>13. /\ View(c).useMsg = 128 /\ View(c).unicode = View(b).unicode
       /\ View(c).useUrl = View(b).useUrl
  BY <1>3, <1>4, <1>10 DEF View, UseUrlAt, UnicodeAt, UseMsgAt
<1>14. View(c) = [View(b) EXCEPT !.msg[k] = v, !.useMsg = 128]
  <2>1. ASSUME NEW x
        PROVE  View(x) = [num |-> View(x).num, url |-> View(x).url,
                          useUrl |-> View(x).useUrl, unicode |-> View(x).unicode,
                          msg |-> View(x).msg, useMsg |-> View(x).useMsg]
    BY DEF View
  <2> DEFINE s == View(b)
  <2> DEFINE t == View(c)
  <2>2. /\ s = [num |-> s.num, url |-> s.url, useUrl |-> s.useUrl,
                unicode |-> s.unicode, msg |-> s.msg, useMsg |-> s.useMsg]
        /\ t = [num |-> t.num, url |-> t.url, useUrl |-> t.useUrl,
                unicode |-> t.unicode, msg |-> t.msg, useMsg |-> t.useMsg]
    BY <2>1
  <2>3. /\ t.num = s.num /\ t.url = s.url /\ t.msg = [s.msg EXCEPT ![k] = v]
        /\ t.useMsg = 128 /\ t.unicode = s.unicode /\ t.useUrl = s.useUrl
    BY <1>11, <1>12, <1>13
  <2> HIDE DEF s, t
  <2>4. [s EXCEPT !.msg[k] = v, !.useMsg = 128]
          = [num |-> s.num, url |-> s.url, useUrl |-> s.useUrl, unicode |-> s.unicode,
             msg |-> [s.msg EXCEPT ![k] = v], useMsg |-> 128]
    <3> DEFINE r == [s EXCEPT !.msg[k] = v]
    <3>1. r = [num |-> s.num, url |-> s.url, useUrl |-> s.useUrl, unicode |-> s.unicode,
               msg |-> [s.msg EXCEPT ![k] = v], useMsg |-> s.useMsg]
      BY <2>2
    <3>2. [s EXCEPT !.msg[k] = v, !.useMsg = 128] = [r EXCEPT !.useMsg = 128]
      OBVIOUS
    <3> HIDE DEF r
    <3>3. [r EXCEPT !.useMsg = 128]
            = [num |-> s.num, url |-> s.url, useUrl |-> s.useUrl, unicode |-> s.unicode,
               msg |-> [s.msg EXCEPT ![k] = v], useMsg |-> 128]
      BY <3>1
    <3> QED BY <3>2, <3>3
  <2>5. t = [s EXCEPT !.msg[k] = v, !.useMsg = 128]
    BY <2>2, <2>3, <2>4
  <2> QED BY <2>5 DEF s, t
<1> QED BY <1>5, <1>14

\* Each chunk does to what the block shows what the command means.
LEMMA ExecutedShown ==
  ASSUME Fits, NEW b \in Blocks, NEW c \in Changes
  PROVE  /\ Executed(b, c) \in Blocks
         /\ View(Executed(b, c)) = Store!Applied(View(b), c)
<1>0. c.val \in Contents
  BY DEF Contents, Changes, Store!Commands, Store!Messages
<1>1. CASE c \in [op: {"add"}, at: Numbers, val: Vals]
  <2>1. Executed(b, c) = AddNum(b, c.at, c.val)
    BY <1>1 DEF Executed
  <2>2. Store!Applied(View(b), c) = [View(b) EXCEPT !.num[c.at] = c.val]
    BY <1>1 DEF Store!Applied
  <2> QED BY <1>0, <1>1, <2>1, <2>2, NumberShown
<1>2. CASE c \in [op: {"del"}, at: Numbers, val: {0}]
  <2>1. Executed(b, c) = AddNum(b, c.at, 0)
    BY <1>2 DEF Executed
  <2>2. Store!Applied(View(b), c) = [View(b) EXCEPT !.num[c.at] = 0]
    BY <1>2 DEF Store!Applied
  <2> QED BY <1>0, <1>2, <2>1, <2>2, NumberShown
<1>3. CASE c \in [op: {"url", "unicode"}, at: {0}, val: Vals] /\ c.op = "url"
  <2>1. Executed(b, c) = UpdateURL(b, c.val)
    BY <1>3 DEF Executed
  <2>2. Store!Applied(View(b), c) = [View(b) EXCEPT !.url = c.val, !.useUrl = 128]
    BY <1>3 DEF Store!Applied
  <2>3. /\ UpdateURL(b, c.val) \in Blocks
        /\ View(UpdateURL(b, c.val)) = [View(b) EXCEPT !.url = c.val, !.useUrl = 128]
    BY <1>0, UrlShown
  <2> QED BY <2>1, <2>2, <2>3
<1>4. CASE c \in [op: {"url", "unicode"}, at: {0}, val: Vals] /\ c.op = "unicode"
  <2>1. Executed(b, c) = SetBytes(b, UnicodeAt, 1, c.val)
    BY <1>4 DEF Executed
  <2>2. Store!Applied(View(b), c) = [View(b) EXCEPT !.unicode = c.val]
    BY <1>4 DEF Store!Applied
  <2> QED BY <1>0, <2>1, <2>2, UnicodeShown
<1>5. CASE c \in [op: {"msg"}, at: MsgPlaces, val: Vals]
  <2>1. Executed(b, c) = DsmSave(b, c.at, c.val)
    BY <1>5 DEF Executed
  <2> DEFINE Kept(k, v) == [View(b) EXCEPT !.msg[k] = v, !.useMsg = 128]
  <2>2. Store!Applied(View(b), c) = Kept(c.at, c.val)
    BY <1>5 DEF Store!Applied
  <2>3. c.at \in MsgPlaces
    BY <1>5
  <2>4. \A k \in MsgPlaces, v \in Contents :
          /\ DsmSave(b, k, v) \in Blocks
          /\ View(DsmSave(b, k, v)) = Kept(k, v)
    BY MessageShown
  <2> HIDE DEF Kept
  <2> QED BY <1>0, <2>1, <2>2, <2>3, <2>4
<1> QED BY <1>1, <1>2, <1>3, <1>4, <1>5 DEF Changes, Store!Commands, Store!Messages

-----------------------------------------------------------------------------
(* The chunks of an SMS, one after the other. *)

\* What the store and the block are after each of some commands.
Meanings(s, cmds, g) ==
  g = [n \in 0 .. Len(cmds) |-> IF n = 0 THEN s ELSE Store!Applied(g[n - 1], cmds[n])]
Executions(b, cmds, f) ==
  f = [n \in 0 .. Len(cmds) |-> IF n = 0 THEN b ELSE Executed(f[n - 1], cmds[n])]

\* A command keeps a view a view.
LEMMA AppliedView ==
  ASSUME NEW s \in Views, NEW c \in Changes
  PROVE  Store!Applied(s, c) \in Views
<1>1. c.val \in Shown /\ 128 \in Shown
  BY DEF Changes, Store!Commands, Store!Messages, Shown, Contents
<1>2. CASE c.op \in {"add", "del"} /\ c.at \in Numbers
  BY <1>1, <1>2 DEF Store!Applied, Views
<1>3. CASE c.op = "url"
  BY <1>1, <1>3 DEF Store!Applied, Views
<1>4. CASE c.op = "unicode"
  BY <1>1, <1>4 DEF Store!Applied, Views
<1>5. CASE c.op = "msg" /\ c.at \in MsgPlaces
  BY <1>1, <1>5 DEF Store!Applied, Views
<1> QED BY <1>2, <1>3, <1>4, <1>5 DEF Changes, Store!Commands, Store!Messages

\* The recursion of AppliedAll is well defined on views.
LEMMA MeaningsExist ==
  ASSUME NEW s \in Views, NEW cmds \in Seq(Changes)
  PROVE  \E g \in [0 .. Len(cmds) -> Views] :
           Meanings(s, cmds, g) /\ Store!AppliedAll(s, cmds) = g[Len(cmds)]
<1> DEFINE F == [x \in Views \X Changes |-> Store!Applied(x[1], x[2])]
<1>1. F \in [Views \X Changes -> Views]
  BY AppliedView
<1>2. \A v \in Views, c \in Changes : F[<<v, c>>] = Store!Applied(v, c)
  OBVIOUS
<1> HIDE DEF F
<1>3. PICK g \in [0 .. Len(cmds) -> Views] : Along(F, s, cmds, g)
  BY <1>1, RunsAlong
<1>4. ASSUME NEW n \in 1 .. Len(cmds) PROVE g[n] = Store!Applied(g[n - 1], cmds[n])
  <2>1. n - 1 \in 0 .. Len(cmds) /\ cmds[n] \in Changes
    OBVIOUS
  <2> QED BY <1>2, <1>3, <2>1 DEF Along
<1>5. Meanings(s, cmds, g)
  BY <1>3, <1>4 DEF Meanings, Along
<1>6. PICK h : Meanings(s, cmds, h) /\ Store!AppliedAll(s, cmds) = h[Len(cmds)]
  BY <1>5 DEF Meanings, Store!AppliedAll
<1>7. h \in [0 .. Len(cmds) -> Views]
  <2> DEFINE T == {n \in Nat : n <= Len(cmds) => h[n] \in Views}
  <2>1. 0 \in T
    BY <1>6 DEF Meanings
  <2>2. ASSUME NEW n \in T PROVE n + 1 \in T
    <3>1. CASE n + 1 <= Len(cmds)
      <4>1. n \in Nat /\ n <= Len(cmds) /\ h[n] \in Views /\ cmds[n + 1] \in Changes
        BY <3>1
      <4>2. h[n + 1] = Store!Applied(h[n], cmds[n + 1])
        BY <1>6, <3>1, <4>1 DEF Meanings
      <4> QED BY <4>1, <4>2, AppliedView
    <3> QED BY <3>1
  <2>3. T \in SUBSET Nat
    OBVIOUS
  <2>4. T = Nat
    <3> HIDE DEF T
    <3> QED BY <2>1, <2>2, <2>3, SetInduction
  <2>5. \A n \in 0 .. Len(cmds) : h[n] \in Views
    BY <2>4
  <2>6. h = [n \in 0 .. Len(cmds) |-> h[n]]
    BY <1>6 DEF Meanings
  <2> HIDE DEF T
  <2> QED BY <2>5, <2>6
<1> QED BY <1>6, <1>7

LEMMA ExecutionsExist ==
  ASSUME Fits, NEW b \in Blocks, NEW cmds \in Seq(Changes)
  PROVE  \E f \in [0 .. Len(cmds) -> Blocks] :
           Executions(b, cmds, f) /\ ExecutedAll(b, cmds) = f[Len(cmds)]
<1> DEFINE F == [x \in Blocks \X Changes |-> Executed(x[1], x[2])]
<1>1. F \in [Blocks \X Changes -> Blocks]
  BY ExecutedShown
<1>2. \A v \in Blocks, c \in Changes : F[<<v, c>>] = Executed(v, c)
  OBVIOUS
<1> HIDE DEF F
<1>3. PICK g \in [0 .. Len(cmds) -> Blocks] : Along(F, b, cmds, g)
  BY <1>1, RunsAlong
<1>4. ASSUME NEW n \in 1 .. Len(cmds) PROVE g[n] = Executed(g[n - 1], cmds[n])
  <2>1. n - 1 \in 0 .. Len(cmds) /\ cmds[n] \in Changes
    OBVIOUS
  <2> QED BY <1>2, <1>3, <2>1 DEF Along
<1>5. Executions(b, cmds, g)
  BY <1>3, <1>4 DEF Executions, Along
<1>6. PICK h : Executions(b, cmds, h) /\ ExecutedAll(b, cmds) = h[Len(cmds)]
  BY <1>5 DEF Executions, ExecutedAll
<1>7. h \in [0 .. Len(cmds) -> Blocks]
  <2> DEFINE T == {n \in Nat : n <= Len(cmds) => h[n] \in Blocks}
  <2>1. 0 \in T
    BY <1>6 DEF Executions
  <2>2. ASSUME NEW n \in T PROVE n + 1 \in T
    <3>1. CASE n + 1 <= Len(cmds)
      <4>1. n \in Nat /\ n <= Len(cmds) /\ h[n] \in Blocks /\ cmds[n + 1] \in Changes
        BY <3>1
      <4>2. h[n + 1] = Executed(h[n], cmds[n + 1])
        BY <1>6, <3>1, <4>1 DEF Executions
      <4> QED BY <4>1, <4>2, ExecutedShown
    <3> QED BY <3>1
  <2>3. T \in SUBSET Nat
    OBVIOUS
  <2>4. T = Nat
    <3> HIDE DEF T
    <3> QED BY <2>1, <2>2, <2>3, SetInduction
  <2>5. \A n \in 0 .. Len(cmds) : h[n] \in Blocks
    BY <2>4
  <2>6. h = [n \in 0 .. Len(cmds) |-> h[n]]
    BY <1>6 DEF Executions
  <2> HIDE DEF T
  <2> QED BY <2>5, <2>6
<1> QED BY <1>6, <1>7

\* The block after all chunks shows the store after all commands.
LEMMA ExecutedAllShown ==
  ASSUME Fits, NEW b \in Blocks, NEW cmds \in Seq(Changes)
  PROVE  /\ ExecutedAll(b, cmds) \in Blocks
         /\ View(ExecutedAll(b, cmds)) = Store!AppliedAll(View(b), cmds)
<1>1. PICK f \in [0 .. Len(cmds) -> Blocks] :
        Executions(b, cmds, f) /\ ExecutedAll(b, cmds) = f[Len(cmds)]
  BY ExecutionsExist
<1>2. PICK g \in [0 .. Len(cmds) -> Views] :
        Meanings(View(b), cmds, g) /\ Store!AppliedAll(View(b), cmds) = g[Len(cmds)]
  BY MeaningsExist, ViewType
<1> DEFINE T == {n \in Nat : n <= Len(cmds) => View(f[n]) = g[n]}
<1>3. 0 \in T
  BY <1>1, <1>2 DEF Executions, Meanings
<1>4. ASSUME NEW n \in T PROVE n + 1 \in T
  <2>1. CASE n + 1 <= Len(cmds)
    <3>1. n \in Nat /\ n <= Len(cmds) /\ View(f[n]) = g[n] /\ cmds[n + 1] \in Changes
          /\ f[n] \in Blocks
      BY <2>1
    <3>2. f[n + 1] = Executed(f[n], cmds[n + 1])
      BY <1>1, <2>1, <3>1 DEF Executions
    <3>3. g[n + 1] = Store!Applied(g[n], cmds[n + 1])
      BY <1>2, <2>1, <3>1 DEF Meanings
    <3>4. View(f[n + 1]) = g[n + 1]
      BY <3>1, <3>2, <3>3, ExecutedShown
    <3> QED BY <3>1, <3>4
  <2> QED BY <2>1
<1>5. T \in SUBSET Nat
  OBVIOUS
<1>6. T = Nat
  <2> HIDE DEF T
  <2> QED BY <1>3, <1>4, <1>5, SetInduction
<1>7. Len(cmds) \in T /\ Len(cmds) \in 0 .. Len(cmds)
  BY <1>6
<1> QED BY <1>1, <1>2, <1>7

\* No command changes nothing, and a further one comes after those before.
LEMMA AppliedNone ==
  ASSUME NEW s \in Views
  PROVE  Store!AppliedAll(s, <<>>) = s
<1>1. <<>> \in Seq(Changes) /\ Len(<<>>) = 0
  OBVIOUS
<1>2. PICK g \in [0 .. Len(<<>>) -> Views] :
        Meanings(s, <<>>, g) /\ Store!AppliedAll(s, <<>>) = g[Len(<<>>)]
  BY <1>1, MeaningsExist
<1> QED BY <1>1, <1>2 DEF Meanings

LEMMA AppliedOneMore ==
  ASSUME NEW s \in Views, NEW cmds \in Seq(Changes), NEW c \in Changes
  PROVE  Store!AppliedAll(s, Append(cmds, c)) = Store!Applied(Store!AppliedAll(s, cmds), c)
<1> DEFINE more == Append(cmds, c)
<1>1. /\ more \in Seq(Changes) /\ Len(more) = Len(cmds) + 1 /\ Len(cmds) \in Nat
      /\ more[Len(cmds) + 1] = c
      /\ \A n \in 1 .. Len(cmds) : more[n] = cmds[n]
  OBVIOUS
<1> HIDE DEF more
<1>2. PICK g \in [0 .. Len(cmds) -> Views] :
        Meanings(s, cmds, g) /\ Store!AppliedAll(s, cmds) = g[Len(cmds)]
  BY MeaningsExist
<1>3. PICK h \in [0 .. Len(more) -> Views] :
        Meanings(s, more, h) /\ Store!AppliedAll(s, more) = h[Len(more)]
  BY <1>1, MeaningsExist
<1> DEFINE T == {n \in Nat : n <= Len(cmds) => h[n] = g[n]}
<1>4. 0 \in T
  BY <1>1, <1>2, <1>3 DEF Meanings
<1>5. ASSUME NEW n \in T PROVE n + 1 \in T
  <2>1. CASE n + 1 <= Len(cmds)
    <3>1. n \in Nat /\ n <= Len(cmds) /\ h[n] = g[n] /\ more[n + 1] = cmds[n + 1]
      BY <1>1, <2>1
    <3>2. h[n + 1] = Store!Applied(h[n], more[n + 1])
      BY <1>1, <1>3, <2>1, <3>1 DEF Meanings
    <3>3. g[n + 1] = Store!Applied(g[n], cmds[n + 1])
      BY <1>1, <1>2, <2>1, <3>1 DEF Meanings
    <3> QED BY <3>1, <3>2, <3>3
  <2> QED BY <1>1, <2>1
<1>6. T \in SUBSET Nat
  OBVIOUS
<1>7. T = Nat
  <2> HIDE DEF T
  <2> QED BY <1>4, <1>5, <1>6, SetInduction
<1>8. h[Len(cmds)] = g[Len(cmds)]
  BY <1>1, <1>7
<1>9. h[Len(more)] = Store!Applied(h[Len(cmds)], c)
  BY <1>1, <1>3 DEF Meanings
<1> QED BY <1>2, <1>3, <1>8, <1>9 DEF more

-----------------------------------------------------------------------------
(* The configuration in memory and on file. *)

\* The inductive invariant: what is in memory shows the file it came from with
\* the changes since, of which there are no more than the bound.
IInv == NothingUnaccounted /\ Len(pending) <= MaxChanges

\* A block is not the absence of a file.
LEMMA BlockThere ==
  ASSUME Fits, NEW b \in Blocks
  PROVE  b # Absent
<1>1. 0 \in DOMAIN b
  BY Layout DEF Blocks, Cells
<1>2. DOMAIN Absent = {}
  BY DEF Absent
<1> QED BY <1>1, <1>2

\* The defaults are a block, and what it shows is a fresh store.
LEMMA DefaultsShown ==
  ASSUME Fits
  PROVE  Defaults \in Blocks /\ View(Defaults) = Store!Fresh
<1> DEFINE In(i, p) == NumberAt(i) <= p /\ p < NumberAt(i) + NumLen
<1>1. ASSUME NEW i \in Numbers, NEW j \in Numbers, NEW p \in Int, In(i, p), In(j, p)
      PROVE  i = j
  <2>1. i \in Nat /\ j \in Nat
    BY SmsCfgAssumption
  <2>2. NumberAt(i) \in Nat /\ NumberAt(j) \in Nat /\ NumLen \in Nat
    BY Layout
  <2>3. ~(i < j) /\ ~(j < i)
    BY <1>1, <2>2, Layout
  <2> QED BY <2>1, <2>3
<1>2. ASSUME NEW i \in Numbers, NEW p \in Cells, In(i, p)
      PROVE  Defaults[p] = Default[i]
  <2>1. p \in Int
    BY Layout DEF Cells
  <2>2. PICK j \in Numbers : In(j, p) /\ Defaults[p] = Default[j]
    BY <1>2 DEF Defaults
  <2> QED BY <1>1, <1>2, <2>1, <2>2
<1>3. ASSUME NEW p \in Cells, \A i \in Numbers : ~In(i, p)
      PROVE  Defaults[p] = 0
  BY <1>3 DEF Defaults
<1> HIDE DEF In
<1>4. ASSUME NEW p \in Cells PROVE Defaults[p] \in Contents
  BY <1>2, <1>3 DEF Contents
<1>5. Defaults \in Blocks
  BY <1>4 DEF Blocks, Contents, Defaults
<1>6. ASSUME NEW i \in Numbers PROVE Field(Defaults, NumberAt(i), NumLen) = Default[i]
  <2>1. /\ NumberAt(i) \in Nat /\ NumLen \in Nat /\ 0 < NumLen /\ BufLen \in Nat
        /\ NumberAt(i) + NumLen < BufLen
    BY Layout
  <2>2. \A p \in NumberAt(i) .. NumberAt(i) + NumLen - 1 : p \in Cells /\ In(i, p)
    BY <2>1 DEF Cells, In
  <2>3. \A p \in NumberAt(i) .. NumberAt(i) + NumLen - 1 : Defaults[p] = Default[i]
    BY <1>2, <2>2
  <2>4. NumberAt(i) \in NumberAt(i) .. NumberAt(i) + NumLen - 1
    BY <2>1
  <2> QED BY <2>3, <2>4 DEF Field
<1>7. ASSUME NEW pos \in Nat, NEW len \in Nat, 0 < len, pos + len <= BufLen,
             pos + len <= Section \/ UrlAt <= pos
      PROVE  Field(Defaults, pos, len) = 0 /\ Defaults[pos] = 0
  <2>1. ASSUME NEW p \in pos .. pos + len - 1 PROVE Defaults[p] = 0
    <3>1. p \in Nat /\ (p < Section \/ UrlAt <= p) /\ p \in Cells
      BY <1>7, Layout DEF Cells
    <3>2. ASSUME NEW i \in Numbers, In(i, p) PROVE FALSE
      <4>1. /\ NumberAt(i) \in Nat /\ Section <= NumberAt(i) /\ NumberAt(i) + NumLen <= UrlAt
            /\ Section \in Nat /\ NumLen \in Nat /\ UrlAt \in Nat
        BY Layout
      <4> QED BY <3>1, <3>2, <4>1 DEF In
    <3> QED BY <1>3, <3>1, <3>2
  <2>2. pos \in pos .. pos + len - 1
    BY <1>7
  <2> QED BY <2>1, <2>2 DEF Field
<1>8. Field(Defaults, UrlAt, Section) = 0
  <2>1. UrlAt \in Nat /\ Section \in Nat /\ 0 < Section /\ UrlAt + Section <= BufLen /\ UrlAt <= UrlAt
    BY Layout
  <2> QED BY <1>7, <2>1
<1>9. ASSUME NEW k \in MsgPlaces PROVE Field(Defaults, MsgAt(k), Section) = 0
  <2>1. /\ MsgAt(k) \in Nat /\ Section \in Nat /\ 0 < Section /\ MsgAt(k) + Section <= BufLen
        /\ UrlAt <= MsgAt(k)
    BY Layout
  <2> QED BY <1>7, <2>1
<1>10. ASSUME NEW o \in {0, 1, 2} PROVE Defaults[o] = 0
  <2>1. o \in Nat /\ 1 \in Nat /\ 0 < 1 /\ o + 1 <= BufLen /\ o + 1 <= Section
    BY Layout
  <2> QED BY <1>7, <2>1
<1>11. View(Defaults) = Store!Fresh
  BY <1>6, <1>8, <1>9, <1>10 DEF View, Store!Fresh, UseUrlAt, UnicodeAt, UseMsgAt
<1> QED BY <1>5, <1>11

\* Every directory has a block to load.
LEMMA LoadedBlock ==
  ASSUME Fits, TypeOK, NEW d \in Dirs
  PROVE  LoadedFrom(d) \in Blocks /\ View(LoadedFrom(d)) \in Views
<1>1. LoadedFrom(d) \in Blocks
  BY DefaultsShown DEF LoadedFrom, TypeOK
<1> QED BY <1>1, ViewType

\* _mr_load_sms_cfg gives the block of the work path.
LEMMA LoadsIt ==
  ASSUME Fits, NEW l \in Loads
  PROVE  l.buf = LoadedFrom(workPath) /\ l.need \in BOOLEAN
<1>1. l = [buf |-> Loaded, need |-> LoadNeedsSave]
  BY DEF Loads, Fits
<1>2. LoadNeedsSave \in BOOLEAN
  BY DEF LoadNeedsSave
<1>3. l.buf = Loaded /\ l.need = LoadNeedsSave
  BY <1>1
<1> QED BY <1>2, <1>3 DEF Loaded

\* The changes of an SMS, and those kept in memory, are changes of the store.
LEMMA ChangesOf ==
  ASSUME NEW S, NEW n \in Nat, NEW q
  PROVE  /\ q \in SeqOf(S, n) <=> q \in Seq(S) /\ Len(q) <= n
         /\ Store!SeqOf(S, n) = SeqOf(S, n)
<1>1. ASSUME q \in SeqOf(S, n) PROVE q \in Seq(S) /\ Len(q) <= n
  BY <1>1 DEF SeqOf
<1>2. ASSUME q \in Seq(S), Len(q) <= n PROVE q \in SeqOf(S, n)
  <2>1. Len(q) \in 0 .. n /\ q \in [1 .. Len(q) -> S]
    BY <1>2
  <2> QED BY <2>1 DEF SeqOf
<1>3. Store!SeqOf(S, n) = SeqOf(S, n)
  BY DEF Store!SeqOf, SeqOf
<1> QED BY <1>1, <1>2, <1>3

LEMMA SmsChanges ==
  ASSUME NEW cmds \in Sms
  PROVE  cmds \in Seq(Changes) /\ Len(cmds) <= MaxChanges
<1>1. MaxChunks \in Nat /\ MaxChanges \in Nat /\ 1 <= MaxChanges /\ MaxChunks <= MaxChanges
  BY SmsCfgAssumption
<1>2. CASE cmds \in SeqOf(Store!Commands, MaxChunks)
  <2>1. cmds \in Seq(Store!Commands) /\ Len(cmds) <= MaxChunks /\ Len(cmds) \in Nat
    BY <1>1, <1>2, ChangesOf
  <2>2. cmds \in Seq(Changes)
    BY <2>1, SeqMonotonic DEF Changes
  <2> QED BY <1>1, <2>1, <2>2
<1>3. CASE cmds \in {<<m>> : m \in Store!Messages}
  BY <1>1, <1>3 DEF Changes
<1> QED BY <1>2, <1>3 DEF Sms

\* What a store shows after a write, and without one.
LEMMA StoreAfter ==
  ASSUME Fits, TypeOK, NEW b \in Blocks, file' = [file EXCEPT ![workPath] = b]
  PROVE  \A d \in Dirs : LoadedFrom(d)' = IF d = workPath THEN b ELSE LoadedFrom(d)
<1>1. DOMAIN file = Dirs /\ workPath \in Dirs
  BY DEF TypeOK
<1> QED BY <1>1, BlockThere DEF LoadedFrom

\* A save keeps the invariant and is a step of the store: the changes since
\* the block was loaded go into the store of the work path, or, when they do
\* not reach the file, into none.
LEMMA SaveStep ==
  ASSUME Fits, IInv, NEW b \in Blocks, NEW need \in BOOLEAN,
         NEW cmds \in Seq(Changes), Len(cmds) <= MaxChanges,
         NEW origin \in Dirs, origin \in {workPath, from},
         View(b) = Store!AppliedAll(View(LoadedFrom(origin)), cmds),
         Save(b, need, cmds, origin)
  PROVE  IInv' /\ Store!Next
<1>1. TypeOK /\ workPath \in Dirs /\ from \in Dirs /\ workPath' = workPath /\ buf' = b
      /\ needSave' = FALSE
  BY DEF IInv, NothingUnaccounted, TypeOK, Save
<1>2. CASE file' = [file EXCEPT ![workPath] = b] /\ from' = workPath /\ pending' = <<>>
  <2>1. \A d \in Dirs : LoadedFrom(d)' = IF d = workPath THEN b ELSE LoadedFrom(d)
    BY <1>1, <1>2, StoreAfter
  <2>2. View(LoadedFrom(from))' = View(b)
    <3>1. LoadedFrom(from)' = b
      BY <1>1, <1>2, <2>1 DEF LoadedFrom
    <3> QED BY <3>1 DEF View, Field
  <2>3. View(buf)' = View(b)
    BY <1>1 DEF View, Field
  <2>4. Store!AppliedAll(View(b), <<>>) = View(b)
    BY AppliedNone, ViewType
  <2>5. TypeOK'
    <3>1. /\ DOMAIN file' = Dirs
          /\ \A d \in Dirs : file'[d] = Absent \/ file'[d] \in Blocks
      BY <1>1, <1>2 DEF TypeOK
    <3>2. pending' \in Seq(Store!Commands \cup Store!Messages)
      BY <1>2
    <3> QED BY <1>1, <1>2, <3>1, <3>2 DEF TypeOK
  <2>6. (Store!AppliedAll(View(LoadedFrom(from)), pending))' = View(b)
    BY <1>2, <2>2, <2>4
  <2>7. IInv'
    <3>1. Len(pending') = 0 /\ MaxChanges \in Nat
      BY <1>2, SmsCfgAssumption
    <3>2. View(buf)' = (Store!AppliedAll(View(LoadedFrom(from)), pending))'
      BY <2>3, <2>6
    <3>3. NothingUnaccounted'
      BY <2>5, <3>2 DEF NothingUnaccounted
    <3>4. (Len(pending) <= MaxChanges)'
      BY <3>1
    <3> QED BY <3>3, <3>4 DEF IInv
  <2>8. cmds \in Store!Changes
    BY ChangesOf, SmsCfgAssumption DEF Store!Changes, Changes
  <2>9. Store!Written(workPath, origin)
    BY <1>1, <1>2, <2>1, <2>8 DEF Store!Written
  <2>10. Store!Next
    BY <1>1, <2>9 DEF Store!Next, Store!Update, Store!Carry
  <2> QED BY <2>7, <2>10
<1>3. CASE from' = origin /\ pending' = cmds /\ UNCHANGED file
  <2>1. \A d \in Dirs : LoadedFrom(d)' = LoadedFrom(d)
    BY <1>3 DEF LoadedFrom
  <2>2. TypeOK'
    BY <1>1, <1>3 DEF TypeOK, Changes
  <2>3. IInv'
    BY <1>1, <1>3, <2>1, <2>2 DEF IInv, NothingUnaccounted
  <2>4. Store!Load
    BY <1>1, <1>3, <2>1 DEF Store!Load
  <2> QED BY <2>3, <2>4 DEF Store!Next
<1> QED BY <1>2, <1>3 DEF Save

\* At the start every directory has a fresh store.
LEMMA InitHolds ==
  ASSUME Fits, Init
  PROVE  IInv /\ Store!Init
<1>1. buf \in Blocks
  <2>1. \A p \in Cells : Zero[p] = 0
    BY DEF Zero
  <2> QED BY <2>1 DEF Init, Blocks, Zero
<1>2. TypeOK
  <2>1. DsmPath \in Dirs
    BY DEF Dirs
  <2>2. pending \in Seq(Store!Commands \cup Store!Messages)
    BY DEF Init
  <2>3. DOMAIN file = Dirs /\ \A d \in Dirs : file[d] = Absent
    BY DEF Init
  <2> QED BY <1>1, <2>1, <2>2, <2>3 DEF Init, TypeOK
<1>3. NothingUnaccounted
  BY <1>2 DEF NothingUnaccounted, Init
<1>4. Len(pending) <= MaxChanges
  BY SmsCfgAssumption DEF Init
<1>5. \A d \in Dirs : View(LoadedFrom(d)) = Store!Fresh
  BY DefaultsShown DEF Init, LoadedFrom
<1> QED BY <1>3, <1>4, <1>5 DEF IInv, Store!Init, Init

LEMMA StepHolds ==
  ASSUME Fits, IInv, [Next]_vars
  PROVE  IInv' /\ [Store!Next]_(Store!vars)
<1>0. /\ TypeOK /\ workPath \in Dirs /\ from \in Dirs /\ buf \in Blocks
      /\ needSave \in BOOLEAN /\ pending \in Seq(Changes) /\ Len(pending) <= MaxChanges
      /\ <<>> \in Seq(Changes) /\ Len(<<>>) <= MaxChanges
      /\ View(LoadedFrom(workPath)) \in Views /\ LoadedFrom(workPath) \in Blocks
      /\ View(LoadedFrom(from)) \in Views
  <2>1. TypeOK /\ Len(pending) <= MaxChanges
    BY DEF IInv, NothingUnaccounted
  <2>2. /\ workPath \in Dirs /\ from \in Dirs /\ buf \in Blocks
        /\ needSave \in BOOLEAN /\ pending \in Seq(Changes)
    BY <2>1 DEF TypeOK, Changes
  <2>3. <<>> \in Seq(Changes) /\ Len(<<>>) <= MaxChanges
    BY SmsCfgAssumption
  <2> QED BY <2>1, <2>2, <2>3, LoadedBlock
<1>1. ASSUME NEW cmds \in Sms, SmsIndication(cmds) PROVE IInv' /\ Store!Next
  <2>1. PICK l \in Loads :
          Save(ExecutedAll(l.buf, cmds), l.need \/ cmds # <<>>, cmds, workPath)
    BY <1>1 DEF SmsIndication
  <2>2. l.buf = LoadedFrom(workPath) /\ l.need \in BOOLEAN
    BY <2>1, LoadsIt
  <2>3. cmds \in Seq(Changes) /\ Len(cmds) <= MaxChanges
    BY SmsChanges
  <2>4. /\ ExecutedAll(l.buf, cmds) \in Blocks
        /\ View(ExecutedAll(l.buf, cmds))
             = Store!AppliedAll(View(LoadedFrom(workPath)), cmds)
    BY <1>0, <2>2, <2>3, ExecutedAllShown
  <2> DEFINE b == ExecutedAll(l.buf, cmds)
  <2> DEFINE need == l.need \/ cmds # <<>>
  <2>5. /\ need \in BOOLEAN /\ b \in Blocks /\ Save(b, need, cmds, workPath)
        /\ View(b) = Store!AppliedAll(View(LoadedFrom(workPath)), cmds)
    BY <2>1, <2>2, <2>4
  <2> HIDE DEF b, need
  <2> QED BY <1>0, <2>3, <2>5, SaveStep
<1>2. ASSUME NewSIM PROVE IInv' /\ Store!Next
  <2>1. PICK l \in Loads : Save(l.buf, l.need, <<>>, workPath)
    BY <1>2 DEF NewSIM
  <2>2. l.buf = LoadedFrom(workPath) /\ l.need \in BOOLEAN
    BY <2>1, LoadsIt
  <2>3. View(l.buf) = Store!AppliedAll(View(LoadedFrom(workPath)), <<>>)
    BY <1>0, <2>2, AppliedNone
  <2>4. l.buf \in Blocks
    BY <1>0, <2>2
  <2> QED BY <1>0, <2>1, <2>2, <2>3, <2>4, SaveStep
<1>3. ASSUME AppLoad PROVE IInv' /\ Store!Next
  <2>1. PICK l \in Loads : buf' = l.buf /\ needSave' = l.need
    BY <1>3 DEF AppLoad
  <2>2. l.buf = LoadedFrom(workPath) /\ l.need \in BOOLEAN
    BY <2>1, LoadsIt
  <2>3. from' = workPath /\ pending' = <<>> /\ workPath' = workPath /\ file' = file
    BY <1>3 DEF AppLoad
  <2>4. \A d \in Dirs : LoadedFrom(d)' = LoadedFrom(d)
    BY <2>3 DEF LoadedFrom
  <2>5. TypeOK'
    BY <1>0, <2>1, <2>2, <2>3 DEF TypeOK
  <2>6. View(buf)' = View(LoadedFrom(workPath))
    BY <2>1, <2>2
  <2>7. View(LoadedFrom(from))' = View(LoadedFrom(workPath))
    BY <2>3 DEF LoadedFrom
  <2>8. (Store!AppliedAll(View(LoadedFrom(from)), pending))' = View(LoadedFrom(workPath))
    BY <1>0, <2>3, <2>7, AppliedNone
  <2>9. NothingUnaccounted'
    BY <2>5, <2>6, <2>8 DEF NothingUnaccounted
  <2>10. (Len(pending) <= MaxChanges)'
    BY <1>0, <2>3
  <2>11. Store!Load
    BY <1>0, <2>3, <2>4 DEF Store!Load
  <2> QED BY <2>9, <2>10, <2>11 DEF IInv, Store!Next
<1>4. ASSUME NEW c \in Store!Commands, AppSet(c)
      PROVE  IInv' /\ UNCHANGED <<file, from>>
  <2>1. /\ buf # Zero /\ Len(pending) < MaxChanges /\ buf' = Executed(buf, c)
        /\ needSave' = TRUE /\ pending' = Append(pending, c)
        /\ workPath' = workPath /\ file' = file /\ from' = from
    BY <1>4 DEF AppSet
  <2>2. c \in Changes
    BY DEF Changes
  <2>3. /\ Executed(buf, c) \in Blocks
        /\ View(Executed(buf, c)) = Store!Applied(View(buf), c)
    BY <1>0, <2>2, ExecutedShown
  <2>4. View(buf) = Store!AppliedAll(View(LoadedFrom(from)), pending)
    BY <2>1 DEF IInv, NothingUnaccounted
  <2>5. View(Executed(buf, c))
          = Store!AppliedAll(View(LoadedFrom(from)), Append(pending, c))
    BY <1>0, <2>2, <2>3, <2>4, AppliedOneMore
  <2>6. Append(pending, c) \in Seq(Changes) /\ Len(Append(pending, c)) <= MaxChanges
    BY <1>0, <2>1, <2>2, SmsCfgAssumption
  <2>7. TypeOK'
    BY <1>0, <2>1, <2>3, <2>6 DEF TypeOK, Changes
  <2>8. View(buf)' = View(Executed(buf, c)) /\ View(LoadedFrom(from))' = View(LoadedFrom(from))
    <3>1. LoadedFrom(from)' = LoadedFrom(from)
      BY <2>1 DEF LoadedFrom
    <3> QED BY <2>1, <3>1
  <2>9. (Store!AppliedAll(View(LoadedFrom(from)), pending))'
          = Store!AppliedAll(View(LoadedFrom(from)), Append(pending, c))
    BY <2>1, <2>8
  <2>10. NothingUnaccounted'
    BY <2>5, <2>7, <2>8, <2>9 DEF NothingUnaccounted
  <2>11. (Len(pending) <= MaxChanges)'
    BY <2>1, <2>6
  <2> QED BY <2>1, <2>10, <2>11 DEF IInv
<1>5. ASSUME AppSave PROVE IInv' /\ Store!Next
  <2>1. buf # Zero /\ Save(buf, needSave, pending, from)
    BY <1>5 DEF AppSave
  <2>2. View(buf) = Store!AppliedAll(View(LoadedFrom(from)), pending)
    BY <2>1 DEF IInv, NothingUnaccounted
  <2> QED BY <1>0, <2>1, <2>2, SaveStep
<1>6. ASSUME NEW r \in Requests, SwitchPath(r) PROVE IInv' /\ UNCHANGED <<file, from>>
  <2>1. /\ workPath' = Switched(r) /\ buf' = buf /\ needSave' = needSave /\ file' = file
        /\ from' = from /\ pending' = pending
    BY <1>6 DEF SwitchPath
  <2>2. Switched(r) \in Dirs
    BY DEF Dirs
  <2>3. TypeOK'
    BY <1>0, <2>1, <2>2 DEF TypeOK
  <2>4. LoadedFrom(from)' = LoadedFrom(from)
    BY <2>1 DEF LoadedFrom
  <2>5. NothingUnaccounted'
    BY <2>1, <2>3, <2>4 DEF NothingUnaccounted, IInv
  <2> QED BY <1>0, <2>1, <2>5 DEF IInv
<1>7. ASSUME UNCHANGED vars PROVE IInv' /\ UNCHANGED <<file, from>>
  <2>1. /\ workPath' = workPath /\ buf' = buf /\ needSave' = needSave /\ file' = file
        /\ from' = from /\ pending' = pending
    BY <1>7 DEF vars
  <2>2. TypeOK'
    BY <1>0, <2>1 DEF TypeOK
  <2>3. LoadedFrom(from)' = LoadedFrom(from)
    BY <2>1 DEF LoadedFrom
  <2>4. NothingUnaccounted'
    BY <2>1, <2>2, <2>3 DEF NothingUnaccounted, IInv
  <2> QED BY <1>0, <2>1, <2>4 DEF IInv
<1>8. ASSUME UNCHANGED <<file, from>> PROVE UNCHANGED Store!vars
  BY <1>8 DEF Store!vars, LoadedFrom
<1> QED BY <1>1, <1>2, <1>3, <1>4, <1>5, <1>6, <1>7, <1>8 DEF Next

\* What the next two theorems rest on: the block in memory, the files and the
\* changes between them stay in step, over loads, changes, saves that fail and
\* changes of the directory.
THEOREM ConfigurationInvariance ==
  ASSUME Fits
  PROVE  Spec => []IInv
<1>1. Init => IInv
  BY InitHolds
<1>2. IInv /\ [Next]_vars => IInv'
  BY StepHolds
<1> QED BY <1>1, <1>2, PTL DEF Spec

\* mr_sms_cfg_buf differs from the file it was loaded from or saved to by the
\* changes made since, whatever failed in between.
THEOREM NothingLost ==
  ASSUME Fits
  PROVE  Spec => []NothingUnaccounted
<1>1. IInv => NothingUnaccounted
  BY DEF IInv
<1> QED BY <1>1, ConfigurationInvariance, PTL

\* The block of bytes implements the store of numbers, address and messages:
\* an SMS changes what its chunks name and nothing else, or nothing at all.
THEOREM Implementation ==
  ASSUME Fits
  PROVE  Spec => ImplementsStore
<1>1. Init => Store!Init
  BY InitHolds
<1>2. IInv /\ [Next]_vars => [Store!Next]_(Store!vars)
  BY StepHolds
<1> QED BY <1>1, <1>2, ConfigurationInvariance, PTL DEF Spec, Store!Spec, ImplementsStore
=============================================================================

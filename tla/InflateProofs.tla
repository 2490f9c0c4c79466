---------------------------- MODULE InflateProofs ----------------------------
(***************************************************************************)
(* Theorems about the reading of a file (module ReadFile), for any number  *)
(* of parts and blocks, and about the decoding tables of inflate (module   *)
(* Huffman), for any lists of lengths and any memory.                      *)
(***************************************************************************)
EXTENDS ReadFile, Huffman, WellFoundedInduction, TLAPS

-----------------------------------------------------------------------------
(* The reading of a file: what is held when the call returns depends on what *)
(* was held at each step before it, and with which length: that is the       *)
(* inductive invariant.                                                      *)
(* What the invariant needs besides the property. *)

Reading == {"header", "index", "search", "buffer", "read"}
Inflating == {"block", "fixed", "fixedDistance", "trees", "lengths", "literal",
              "distance", "codes", "failed", "unzipped"}

(* The file of a pack is open from Open to the last part, and only there. *)
OpenMatches ==
  /\ opened <=> pc \in Reading
  /\ pc \in Reading => pack = "efs"

(* *filelen is first the length in the pack, then that of the data. *)
LengthsMatch ==
  /\ pc \in {"buffer", "read", "method", "out"} => filelen = "packed"
  /\ pc \in Inflating => filelen = "real" /\ oldlen = "packed"

(* The tables a block may hold at each step. *)
MayHold ==
  CASE pc = "lengths" -> {"trees"}
    [] pc \in {"fixedDistance", "distance"} -> {"tl"}
    [] pc = "codes" -> {"tl", "td"}
    [] pc = "failed" /\ unsound -> Tables
    [] OTHER -> {}

Kept == FileIfNotRom("packed") \cup {<<"out", "real">>}

HeldMatches ==
  /\ pc \in {"look", "header", "buffer"} => held = {}
  /\ pc \in {"index", "search"} => held = {<<"index", "index">>}
  /\ pc = "read" => held = {<<"file", "packed">>}
  /\ pc \in {"method", "out"} => held = FileIfNotRom("packed")
  /\ pc \in Inflating => Kept \subseteq held /\ held \subseteq Kept \cup (MayHold \X {"table"})

UnsoundEnds == unsound => pc \in {"failed", "over"}

IInv ==
  /\ TypeOK
  /\ OpenMatches
  /\ LengthsMatch
  /\ HeldMatches
  /\ UnsoundEnds
  /\ ReturnsClean

-----------------------------------------------------------------------------
LEMMA BlocksHave ==
  /\ <<"index", "index">> \in Blocks
  /\ \A len \in Lengths : <<"file", len>> \in Blocks
  /\ <<"out", "real">> \in Blocks
  /\ \A t \in Tables : <<t, "table">> \in Blocks
  BY DEF Blocks, Lengths, Tables

LEMMA InitHolds == Init => IInv
<1> SUFFICES ASSUME Init PROVE IInv
  OBVIOUS
<1>1. TypeOK
  <2>1. parts \in 0 .. MaxParts BY ReadFileAssumption DEF Init
  <2>2. held \subseteq Blocks BY DEF Init
  <2>3. opened \in BOOLEAN /\ unsound \in BOOLEAN BY Zenon DEF Init
  <2>4. QED BY <2>1, <2>2, <2>3 DEF Init, TypeOK, Lengths
<1>2. OpenMatches /\ LengthsMatch /\ HeldMatches /\ UnsoundEnds
  BY DEF Init, OpenMatches, LengthsMatch, HeldMatches, UnsoundEnds, Reading, Inflating
<1>3. ReturnsClean BY <1>1 DEF Init, ReturnsClean
<1>4. QED BY <1>1, <1>2, <1>3 DEF IInv

(* Up to the return of what is in the pack. *)
LEMMA PackKeeps ==
  ASSUME IInv,
         LookInRom \/ Open \/ Header \/ ReadIndex \/ Search \/ Buffer \/ Read \/ Method \/ Out
  PROVE  IInv'
<1> USE ReadFileAssumption, BlocksHave DEF IInv, TypeOK, OpenMatches, LengthsMatch, HeldMatches,
     UnsoundEnds, ReturnsClean, Returned, Reading, Inflating, Lengths, Tables, MayHold, Kept,
     FileIfNotRom, Goto, Return, Malloc, Close, Free, input, lengths
<1>1. CASE LookInRom
  <2>1. TypeOK' BY <1>1 DEF LookInRom
  <2>2. OpenMatches' /\ LengthsMatch' /\ UnsoundEnds' BY <1>1 DEF LookInRom
  <2>3. HeldMatches' BY <1>1 DEF LookInRom
  <2>4. ReturnsClean' BY <1>1, <2>1 DEF LookInRom
  <2>5. QED BY <2>1, <2>2, <2>3, <2>4
<1>2. CASE Open
  <2>1. TypeOK' BY <1>2 DEF Open
  <2>2. OpenMatches' /\ LengthsMatch' /\ UnsoundEnds' BY <1>2 DEF Open
  <2>3. HeldMatches' BY <1>2 DEF Open
  <2>4. ReturnsClean' BY <1>2, <2>1 DEF Open
  <2>5. QED BY <2>1, <2>2, <2>3, <2>4
<1>3. CASE Header
  <2>1. TypeOK' BY <1>3 DEF Header
  <2>2. OpenMatches' /\ LengthsMatch' /\ UnsoundEnds' BY <1>3 DEF Header
  <2>3. HeldMatches' BY <1>3 DEF Header
  <2>4. ReturnsClean' BY <1>3, <2>1 DEF Header
  <2>5. QED BY <2>1, <2>2, <2>3, <2>4
<1>4. CASE ReadIndex
  <2>1. TypeOK' BY <1>4 DEF ReadIndex
  <2>2. OpenMatches' /\ LengthsMatch' /\ UnsoundEnds' BY <1>4 DEF ReadIndex
  <2>3. HeldMatches' BY <1>4 DEF ReadIndex
  <2>4. ReturnsClean' BY <1>4, <2>1 DEF ReadIndex
  <2>5. QED BY <2>1, <2>2, <2>3, <2>4
<1>5. CASE Search
  <2>1. TypeOK' BY <1>5 DEF Search
  <2>2. OpenMatches' /\ LengthsMatch' /\ UnsoundEnds' BY <1>5 DEF Search
  <2>3. HeldMatches' BY <1>5 DEF Search
  <2>4. ReturnsClean'
    <3>1. held' = {} BY <1>5 DEF Search
    <3>2. (~opened' /\ result' \in {"null", "yes"}) \/ pc' = "buffer" BY <1>5 DEF Search
    <3>3. QED BY <2>1, <3>1, <3>2
  <2>5. QED BY <2>1, <2>2, <2>3, <2>4
<1>6. CASE Buffer
  <2>1. TypeOK' BY <1>6 DEF Buffer
  <2>2. OpenMatches' /\ LengthsMatch' /\ UnsoundEnds' BY <1>6 DEF Buffer
  <2>3. HeldMatches' BY <1>6 DEF Buffer
  <2>4. ReturnsClean' BY <1>6, <2>1 DEF Buffer
  <2>5. QED BY <2>1, <2>2, <2>3, <2>4
<1>7. CASE Read
  <2>1. TypeOK'
    <3>1. parts' \in 0 .. MaxParts
      <4>1. parts \in 0 .. MaxParts /\ MaxParts \in Nat OBVIOUS
      <4>2. parts' = parts \/ (parts < MaxParts /\ parts' = parts + 1) \/ parts' = 0
        BY <1>7 DEF Read
      <4>3. QED BY <4>1, <4>2
    <3>2. held' \subseteq Blocks BY <1>7 DEF Read
    <3>3. QED BY <1>7, <3>1, <3>2 DEF Read
  <2>2. OpenMatches' /\ LengthsMatch' /\ UnsoundEnds' BY <1>7 DEF Read
  <2>3. HeldMatches' BY <1>7 DEF Read
  <2>4. ReturnsClean' BY <1>7, <2>1 DEF Read
  <2>5. QED BY <2>1, <2>2, <2>3, <2>4
<1>8. CASE Method BY <1>8 DEF Method
<1>9. CASE Out BY <1>9 DEF Out
<1>10. QED BY <1>1, <1>2, <1>3, <1>4, <1>5, <1>6, <1>7, <1>8, <1>9

(* A block: its tables come and go. *)
LEMMA InflateKeeps ==
  ASSUME IInv,
         Block \/ Fixed \/ FixedDistance \/ Trees \/ CodeLengths \/ Literal \/ Distance \/ Codes
  PROVE  IInv'
<1> USE ReadFileAssumption, BlocksHave DEF IInv, TypeOK, OpenMatches, LengthsMatch, HeldMatches,
     UnsoundEnds, ReturnsClean, Returned, Reading, Inflating, Lengths, Tables, MayHold, Kept,
     FileIfNotRom, Goto, Fail, Malloc, Free, Built, Table, NextBlock, input, lengths
<1>1. CASE Block BY <1>1 DEF Block
<1>2. CASE Fixed BY <1>2 DEF Fixed
<1>3. CASE FixedDistance
  <2>1. TypeOK' BY <1>3 DEF FixedDistance
  <2>2. OpenMatches' /\ LengthsMatch' /\ UnsoundEnds' BY <1>3 DEF FixedDistance
  <2>3. HeldMatches' BY <1>3 DEF FixedDistance
  <2>4. ReturnsClean' BY <1>3, <2>1 DEF FixedDistance
  <2>5. QED BY <2>1, <2>2, <2>3, <2>4
<1>4. CASE Trees
  <2>1. TypeOK' BY <1>4 DEF Trees
  <2>2. OpenMatches' /\ LengthsMatch' /\ UnsoundEnds' BY <1>4 DEF Trees
  <2>3. HeldMatches' BY <1>4 DEF Trees
  <2>4. ReturnsClean' BY <1>4, <2>1 DEF Trees
  <2>5. QED BY <2>1, <2>2, <2>3, <2>4
<1>5. CASE CodeLengths
  <2>1. TypeOK' BY <1>5 DEF CodeLengths
  <2>2. OpenMatches' /\ LengthsMatch' /\ UnsoundEnds' BY <1>5 DEF CodeLengths
  <2>3. HeldMatches' BY <1>5 DEF CodeLengths
  <2>4. ReturnsClean' BY <1>5, <2>1 DEF CodeLengths
  <2>5. QED BY <2>1, <2>2, <2>3, <2>4
<1>6. CASE Literal BY <1>6 DEF Literal
<1>7. CASE Distance
  <2>1. TypeOK' BY <1>7 DEF Distance
  <2>2. OpenMatches' /\ LengthsMatch' /\ UnsoundEnds' BY <1>7 DEF Distance
  <2>3. HeldMatches' BY <1>7 DEF Distance
  <2>4. ReturnsClean' BY <1>7, <2>1 DEF Distance
  <2>5. QED BY <2>1, <2>2, <2>3, <2>4
<1>8. CASE Codes
  <2>1. TypeOK'
    <3>1. parts' \in 0 .. MaxParts BY <1>8 DEF Codes
    <3>2. held' \subseteq Blocks BY <1>8 DEF Codes
    <3>3. QED BY <1>8, <3>1, <3>2 DEF Codes
  <2>2. OpenMatches' /\ LengthsMatch' /\ UnsoundEnds' BY <1>8 DEF Codes
  <2>3. HeldMatches' BY <1>8 DEF Codes
  <2>4. ReturnsClean' BY <1>8, <2>1 DEF Codes
  <2>5. QED BY <2>1, <2>2, <2>3, <2>4
<1>9. QED BY <1>1, <1>2, <1>3, <1>4, <1>5, <1>6, <1>7, <1>8

(* The call returns the data, or nothing. *)
LEMMA ReturnKeeps ==
  ASSUME IInv, Unzipped \/ Failed
  PROVE  IInv'
<1> USE ReadFileAssumption, BlocksHave DEF IInv, TypeOK, OpenMatches, LengthsMatch, HeldMatches,
     UnsoundEnds, ReturnsClean, Returned, Reading, Inflating, Lengths, Tables, MayHold, Kept,
     FileIfNotRom, Return, Free, input, lengths
<1>1. CASE Unzipped BY <1>1 DEF Unzipped
<1>2. CASE Failed BY <1>2 DEF Failed
<1>3. QED BY <1>1, <1>2

LEMMA StutterKeeps ==
  ASSUME IInv, UNCHANGED vars
  PROVE  IInv'
  BY DEF IInv, TypeOK, OpenMatches, LengthsMatch, HeldMatches, UnsoundEnds, ReturnsClean,
     Returned, Reading, Inflating, MayHold, Kept, FileIfNotRom, vars

(* The invariant holds in every state. *)
THEOREM ReadInvariance == Spec => []IInv
<1>1. IInv /\ [Next]_vars => IInv'
  BY PackKeeps, InflateKeeps, ReturnKeeps, StutterKeeps DEF Next
<1>2. QED BY <1>1, InitHolds, PTL DEF Spec

(* Whatever fails on the way, _mr_readFile returns with the file closed and  *)
(* holds nothing but the block it returns, in the length it was allocated    *)
(* with, and the tables of a block whose codes were wrong.                   *)
THEOREM EveryReturnClean == Spec => []ReturnsClean
<1>1. IInv => ReturnsClean BY DEF IInv
<1>2. QED BY <1>1, ReadInvariance, PTL

-----------------------------------------------------------------------------
(* The decoding tables: the first open table is at the root, with the prefix *)
(* of the first code, so that there is one as long as there is a code to     *)
(* enter. A table that finds no memory then knows whether there are others.  *)

Contents == {ValueAt(n) : n \in Nat} \cup {Invalid, -2}
Entries == [b : Int, value : Contents, sub : Nat]
TablesOf(n) == [bits : {n}, at : [Bits(n) -> Entries]]
DecodingTables == UNION {TablesOf(n) : n \in Nat}
CodeWords == [1 .. BMax -> Int]
Levels == [table : Nat, x : CodeWords]

HuftTypes ==
  /\ lens \in Seq(0 .. BMax) /\ l \in Nat /\ k \in Nat /\ done \in Nat
  /\ i \in CodeWords
  /\ u \in Seq(Levels)
  /\ tables \in Seq(DecodingTables)

RootOpen ==
  /\ u # <<>> => u[1].x = Zeros
  /\ u = <<>> => tables = <<>> /\ i = Zeros
  /\ \A n \in 1 .. Len(u) : u[n].table \in 1 .. Len(tables)

HuftInv ==
  /\ HuftTypes
  /\ c = Zeros => tables = <<>>
  /\ c # Zeros => Used # {}
  /\ ret = Running /\ c # Zeros => k > 0
  /\ ret = Running => RootOpen
  /\ NoTableLost

LEMMA LeastNumber ==
  ASSUME NEW S \in SUBSET Nat, S # {}
  PROVE  /\ Min(S) \in S
         /\ \A n \in S : Min(S) <= n
<1> DEFINE Less == {ss \in Nat \X Nat : ss[1] < ss[2]}
<1>1. IsWellFoundedOn(Less, Nat)
  BY NatLessThanWellFounded DEF OpToRel
<1>2. PICK m \in S : \A n \in S : ~(<<n, m>> \in Less)
  <2> HIDE DEF Less
  <2>1. S \subseteq Nat
    OBVIOUS
  <2> QED BY <1>1, <2>1, WFMin
<1>3. ASSUME NEW n \in S PROVE m <= n
  <2>1. n \in Nat /\ m \in Nat /\ (n < m => <<n, m>> \in Less)
    OBVIOUS
  <2> QED BY <1>2, <2>1
<1> QED BY <1>3 DEF Min

LEMMA GreatestNumber ==
  ASSUME NEW S \in SUBSET Nat, S # {}, NEW m \in Nat, \A n \in S : n <= m
  PROVE  Max(S) \in S
<1> DEFINE T == {m - n : n \in S}
<1>1. T \in SUBSET Nat /\ T # {}
  <2>1. \A n \in S : m - n \in Nat
    OBVIOUS
  <2> QED BY <2>1
<1>2. Min(T) \in T /\ \A t \in T : Min(T) <= t
  <2> HIDE DEF T
  <2> QED BY <1>1, LeastNumber
<1>3. PICK g \in S : Min(T) = m - g
  BY <1>2
<1>4. \A n \in S : n <= g
  <2> SUFFICES ASSUME NEW n \in S PROVE n <= g
    OBVIOUS
  <2>1. m - n \in T
    OBVIOUS
  <2>2. m - g <= m - n /\ n \in Nat /\ g \in Nat
    BY <1>2, <1>3, <2>1
  <2> QED BY <2>2
<1> QED BY <1>4 DEF Max

LEMMA HuftInitHolds == HuftInit => HuftInv
<1> SUFFICES ASSUME HuftInit PROVE HuftInv
  OBVIOUS
<1>1. PICK in \in Inputs : lens = in.lens /\ l = in.m
  BY DEF HuftInit
<1>2. in \in [lens : Seq(0 .. BMax) \ {<<>>}, m : Nat \ {0}]
  BY HuffmanAssumption
<1>3. lens \in Seq(0 .. BMax) /\ l \in Nat
  BY <1>1, <1>2
<1>4. Zeros \in CodeWords
  BY DEF Zeros, CodeWords
<1>5. HuftTypes
  BY <1>3, <1>4 DEF HuftInit, HuftTypes
<1> QED BY <1>5 DEF HuftInit, HuftInv, RootOpen, NoTableLost, Running

(* The shortest and the longest code have a length. *)
LEMMA LengthsThere ==
  ASSUME HuftTypes, Used # {}
  PROVE  Shortest \in Nat \ {0} /\ Longest \in Nat
<1> DEFINE L == {lens[v] : v \in Used}
<1>1. L \in SUBSET Nat /\ L # {} /\ 0 \notin L /\ \A n \in L : n <= BMax
  <2>1. ASSUME NEW v \in Used
        PROVE  lens[v] \in Nat \ {0} /\ lens[v] <= BMax
    BY HuffmanAssumption DEF HuftTypes, Used, Values
  <2> QED BY <2>1
<1>2. Min(L) \in L /\ Max(L) \in L
  <2> HIDE DEF L
  <2> QED BY <1>1, LeastNumber, GreatestNumber, HuffmanAssumption
<1> QED BY <1>1, <1>2 DEF Shortest, Longest

LEMMA TwoNumbers ==
  ASSUME NEW m \in Int, NEW n \in Int
  PROVE  Min({m, n}) \in {m, n} /\ Max({m, n}) \in {m, n} /\ Max({m, n}) >= n
<1>1. \E x \in {m, n} : \A y \in {m, n} : x <= y
  OBVIOUS
<1>2. \E x \in {m, n} : \A y \in {m, n} : x >= y
  OBVIOUS
<1> QED BY <1>1, <1>2 DEF Min, Max

LEMMA ContentsStay ==
  ASSUME lens' = lens
  PROVE  Contents' = Contents /\ Entries' = Entries /\ DecodingTables' = DecodingTables
BY DEF Contents, ValueAt, Used, Values, Before, Entries, TablesOf, DecodingTables, Bits

LEMMA TypesStay ==
  ASSUME HuftTypes, UNCHANGED <<lens, l, k, done, i>>,
         u' \in Seq(Levels), tables' \in Seq(DecodingTables)
  PROVE  HuftTypes'
<1>1. Levels' = Levels /\ CodeWords' = CodeWords
  BY DEF Levels, CodeWords
<1> HIDE DEF Levels, CodeWords
<1> QED BY <1>1, ContentsStay DEF HuftTypes

LEMMA CountKeeps ==
  ASSUME HuftInv, Count
  PROVE  HuftInv'
<1>1. UNCHANGED <<lens, done, i, u, tables, mem>> /\ c = Zeros /\ ret = Running
  BY DEF Count, work
<1>2. tables = <<>>
  BY <1>1 DEF HuftInv
<1>3. l' \in Nat /\ k' \in Nat /\ (ret' = Running => k' > 0)
  <2>1. CASE Used = {} /\ ret' = 0 /\ l' = 0 /\ UNCHANGED <<c, k, a>>
    BY <2>1 DEF HuftInv, HuftTypes, Running
  <2>2. CASE Used # {}
    <3>1. Shortest \in Nat \ {0} /\ Longest \in Nat /\ l \in Nat
      BY <2>2, LengthsThere DEF HuftInv, HuftTypes
    <3>2. Min({l, Longest}) \in Nat
      BY <3>1, TwoNumbers
    <3>3. Max({Shortest, Min({l, Longest})}) \in Nat
      <4> DEFINE z == Min({l, Longest})
      <4> HIDE DEF z
      <4>1. z \in Nat
        BY <3>2 DEF z
      <4>2. Max({Shortest, z}) \in Nat
        BY <3>1, <4>1, TwoNumbers
      <4> QED BY <4>2 DEF z
    <3>4. l' = Max({Shortest, Min({l, Longest})})
      BY <2>2 DEF Count
    <3>5. k' = Shortest \/ (k' = k /\ ret' = 2)
      BY <2>2 DEF Count
    <3> QED BY <3>1, <3>3, <3>4, <3>5 DEF HuftInv, HuftTypes, Running
  <2> QED BY <2>1, <2>2 DEF Count
<1>4. HuftTypes'
  BY <1>1, <1>3, ContentsStay DEF HuftInv, HuftTypes
<1>5. RootOpen' /\ NoTableLost'
  BY <1>1, <1>2 DEF HuftInv, RootOpen, NoTableLost, Zeros
<1>6. Used' = Used /\ (c' # Zeros => Used # {})
  BY <1>1 DEF Count, Used, Values
<1> QED BY <1>1, <1>2, <1>3, <1>4, <1>5, <1>6 DEF HuftInv, Zeros

(* A new table has at least one bit. *)
LEMMA SomeBits ==
  ASSUME HuftTypes, Used # {}, NEW from \in Nat, k > from
  PROVE  TableBits(from) \in Nat
<1> DEFINE y == Min({Longest - from, l})
<1> DEFINE z == Max({y, k - from + 1})
<1> DEFINE J == {j \in k - from + 1 .. z : j = z \/ Left(from, j) <= 0}
<1>1. Longest \in Nat /\ l \in Nat /\ k \in Nat
  BY LengthsThere DEF HuftTypes
<1>2. y \in Int
  <2>1. Longest - from \in Int /\ l \in Int
    BY <1>1
  <2> QED BY <2>1, TwoNumbers
<1>3. z \in Int /\ z >= k - from + 1
  <2> HIDE DEF y
  <2>1. k - from + 1 \in Int
    BY <1>1
  <2> QED BY <1>2, <2>1, TwoNumbers
<1>4. Min(J) \in Nat
  <2> HIDE DEF z
  <2>1. J \in SUBSET Nat /\ z \in J
    BY <1>1, <1>3
  <2> HIDE DEF J
  <2> QED BY <2>1, LeastNumber
<1>5. k - from \in Nat
  BY <1>1
<1>6. TableBits(from) = k - from \/ TableBits(from) = Min(J)
  BY DEF TableBits
<1> HIDE DEF J
<1> QED BY <1>4, <1>5, <1>6

(* No table is open at level -1, and then no bits are before the next. *)
LEMMA LevelBits ==
  ASSUME HuftTypes
  PROVE  /\ h \in Int /\ w \in Int
         /\ u = <<>> => w + l = 0
         /\ u # <<>> => w \in Nat
<1>1. l \in Nat /\ Len(u) \in Nat /\ (u # <<>> => Len(u) > 0) /\ (u = <<>> => Len(u) = 0)
  BY DEF HuftTypes
<1>2. h \in Int /\ (u # <<>> => h \in Nat) /\ (u = <<>> => h = -1)
  BY <1>1 DEF h
<1>3. ASSUME NEW m \in Nat, NEW n \in Nat PROVE m * n \in Nat
  OBVIOUS
<1>4. l * (-1) + l = 0 /\ l * (-1) \in Int
  BY <1>1
<1> QED BY <1>1, <1>2, <1>3, <1>4 DEF w

(* Other entries in one table leave tables. *)
LEMMA TableFilled ==
  ASSUME NEW T \in Seq(DecodingTables), NEW q \in 1 .. Len(T),
         NEW f \in [DOMAIN T[q].at -> Entries], NEW R, R = [T EXCEPT ![q].at = f]
  PROVE  /\ R \in Seq(DecodingTables) /\ Len(R) = Len(T)
         /\ R[q].at = f /\ \A m \in 1 .. Len(T) : m # q => R[m] = T[m]
<1>1. T[q] \in DecodingTables
  OBVIOUS
<1>2. PICK n \in Nat : T[q] \in [bits : {n}, at : [Bits(n) -> Entries]]
  BY <1>1 DEF DecodingTables, TablesOf
<1>3. f \in [Bits(n) -> Entries]
  BY <1>2
<1>4. [T[q] EXCEPT !.at = f] \in TablesOf(n) /\ [T[q] EXCEPT !.at = f].at = f
  BY <1>2, <1>3 DEF TablesOf
<1>5. [T[q] EXCEPT !.at = f] \in DecodingTables
  BY <1>4 DEF DecodingTables
<1> QED BY <1>4, <1>5

LEMMA NewTableKeeps ==
  ASSUME HuftInv, NewTable
  PROVE  HuftInv'
<1>1. /\ ret = Running /\ c # Zeros /\ k > w + l
      /\ UNCHANGED <<lens, l, c, k, a, done, i>>
  BY DEF NewTable
<1>2. HuftTypes /\ RootOpen /\ Used # {} /\ Used' = Used /\ NoTableLost
  BY <1>1 DEF HuftInv, Used, Values
<1>3. CASE mem = 0 /\ ret' = 3 /\ tables' = KeptAt(h + 1) /\ UNCHANGED u
  <2>1. h + 1 = Len(u) /\ Len(u) \in Nat /\ (u # <<>> => Len(u) > 0)
    BY <1>2 DEF h, HuftTypes
  <2>2. tables' = <<>>
    <3>1. CASE u = <<>>
      BY <1>2, <1>3, <2>1, <3>1 DEF KeptAt, RootOpen
    <3>2. CASE u # <<>>
      <4>1. h + 1 > 0
        BY <2>1, <3>2
      <4> QED BY <1>3, <4>1 DEF KeptAt
    <3> QED BY <3>1, <3>2
  <2>3. HuftTypes'
    <3>1. <<>> \in Seq(DecodingTables)
      OBVIOUS
    <3>2. u' \in Seq(Levels)
      BY <1>2, <1>3 DEF HuftTypes
    <3> QED BY <1>1, <1>2, <2>2, <3>1, <3>2, TypesStay
  <2>4. NoTableLost'
    BY <2>2 DEF NoTableLost
  <2> QED BY <1>1, <1>2, <1>3, <2>2, <2>3, <2>4 DEF HuftInv, Running
<1>4. CASE mem # 0 /\ mem > 0 /\ ret' = ret
  <2> DEFINE from  == w + l
             j     == TableBits(from)
             new   == [bits |-> j, at |-> [p \in Bits(j) |-> Unset]]
             link  == [b |-> l, value |-> Invalid, sub |-> Len(tables) + 1]
             up    == Last(u).table
             index == Index(i, w, Min({tables[up].bits, BMax - w}), tables[up].bits)
             base  == IF u = <<>> THEN tables ELSE [tables EXCEPT ![up].at[index] = link]
             open  == [table |-> Len(tables) + 1, x |-> i]
  <2>1. u' = Append(u, open) /\ tables' = Append(base, new)
    BY <1>1, <1>4, Zenon DEF NewTable, Running
  <2>2. j \in Nat
    <3>1. from \in Nat
      BY <1>2, LevelBits DEF HuftTypes
    <3> QED BY <1>1, <1>2, <3>1, SomeBits
  <2>3. new \in DecodingTables /\ \A p \in DOMAIN new.at : new.at[p].sub = 0
    <3>1. Unset \in Entries /\ Unset.sub = 0
      BY DEF Unset, Entry, Entries, Contents
    <3> HIDE DEF j
    <3>2. new \in TablesOf(j) /\ new.at = [p \in Bits(j) |-> Unset]
      BY <2>2, <3>1 DEF TablesOf
    <3> QED BY <2>2, <3>1, <3>2 DEF DecodingTables
  <2>4. link \in Entries /\ link.sub = Len(tables) + 1 /\ Len(tables) \in Nat
    BY <1>2 DEF HuftTypes, Entries, Contents
  <2>5. open \in Levels /\ open.table = Len(tables) + 1 /\ open.x = i
    BY <1>2, <2>4 DEF HuftTypes, Levels
  <2>6. /\ base \in Seq(DecodingTables) /\ Len(base) = Len(tables)
        /\ \A q \in 1 .. Len(tables) : \A p \in DOMAIN base[q].at :
             base[q].at[p] = link \/ (p \in DOMAIN tables[q].at /\ base[q].at[p] = tables[q].at[p])
    <3>1. CASE u = <<>>
      BY <1>2, <3>1 DEF RootOpen, HuftTypes
    <3>2. CASE u # <<>>
      <4>1. up \in 1 .. Len(tables)
        BY <1>2, <3>2 DEF RootOpen, HuftTypes, Last
      <4> DEFINE f == [tables[up].at EXCEPT ![index] = link]
      <4> HIDE DEF up, index, link
      <4>2. tables[up] \in DecodingTables /\ tables \in Seq(DecodingTables)
        BY <1>2, <4>1 DEF HuftTypes
      <4>3. tables[up].at \in [DOMAIN tables[up].at -> Entries]
        BY <4>2 DEF DecodingTables, TablesOf
      <4>4. /\ f \in [DOMAIN tables[up].at -> Entries]
            /\ \A p \in DOMAIN tables[up].at : f[p] = link \/ f[p] = tables[up].at[p]
        BY <2>4, <4>3
      <4>5. base = [tables EXCEPT ![up].at = f]
        BY <3>2
      <4> HIDE DEF f, base
      <4>6. /\ base \in Seq(DecodingTables) /\ Len(base) = Len(tables)
            /\ base[up].at = f /\ \A m \in 1 .. Len(tables) : m # up => base[m] = tables[m]
        BY <4>1, <4>2, <4>4, <4>5, TableFilled, SMTT(30)
      <4>7. ASSUME NEW q \in 1 .. Len(tables), NEW p \in DOMAIN base[q].at
            PROVE  base[q].at[p] = link \/ (p \in DOMAIN tables[q].at /\ base[q].at[p] = tables[q].at[p])
        <5>1. CASE q = up
          <6>1. base[q].at = f
            BY <4>6, <5>1
          <6> QED BY <4>4, <4>7, <5>1, <6>1
        <5>2. CASE q # up
          BY <4>6, <4>7, <5>2
        <5> QED BY <5>1, <5>2
      <4> QED BY <4>6, <4>7
    <3> QED BY <3>1, <3>2
  <2> HIDE DEF j, new, link, base, open
  <2>7. /\ tables' \in Seq(DecodingTables) /\ Len(tables') = Len(tables) + 1
        /\ tables'[Len(tables) + 1] = new
        /\ \A q \in 1 .. Len(tables) : tables'[q] = base[q]
    BY <2>1, <2>3, <2>4, <2>6
  <2>8. /\ u' \in Seq(Levels) /\ Len(u') = Len(u) + 1 /\ u' # <<>> /\ Len(u) \in Nat
        /\ u'[Len(u) + 1] = open /\ \A n \in 1 .. Len(u) : u'[n] = u[n]
    BY <1>2, <2>1, <2>5 DEF HuftTypes
  <2>9. HuftTypes'
    BY <1>1, <1>2, <2>7, <2>8, TypesStay
  <2>10. RootOpen'
    <3>1. u'[1].x = Zeros
      <4>1. CASE u = <<>>
        BY <1>2, <2>5, <2>8, <4>1 DEF RootOpen
      <4>2. CASE u # <<>>
        <5>1. Len(u) > 0
          BY <1>2, <4>2 DEF HuftTypes
        <5> QED BY <1>2, <2>8, <4>2, <5>1 DEF RootOpen
      <4> QED BY <4>1, <4>2
    <3>2. ASSUME NEW n \in 1 .. Len(u') PROVE u'[n].table \in 1 .. Len(tables')
      <4>1. CASE n = Len(u) + 1
        BY <2>4, <2>5, <2>7, <2>8, <4>1
      <4>2. CASE n # Len(u) + 1
        BY <1>2, <2>4, <2>7, <2>8, <4>2 DEF RootOpen
      <4> QED BY <4>1, <4>2
    <3> QED BY <2>8, <3>1, <3>2 DEF RootOpen, Zeros
  <2>11. NoTableLost'
    <3>1. ASSUME NEW q \in 1 .. Len(tables'), NEW p \in DOMAIN tables'[q].at,
                 tables'[q].at[p].sub # 0
          PROVE  tables'[q].at[p].sub \in q + 1 .. Len(tables')
      <4>1. q \in 1 .. Len(tables)
        BY <2>3, <2>4, <2>7, <3>1
      <4>2. CASE tables'[q].at[p] = link
        BY <2>4, <2>7, <4>1, <4>2
      <4>3. CASE p \in DOMAIN tables[q].at /\ tables'[q].at[p] = tables[q].at[p]
        BY <1>2, <2>4, <2>7, <3>1, <4>1, <4>3 DEF NoTableLost
      <4> QED BY <2>6, <2>7, <4>1, <4>2, <4>3
    <3> QED BY <1>1, <1>4, <3>1 DEF NoTableLost, Running
  <2> QED BY <1>1, <1>2, <1>4, <2>9, <2>10, <2>11 DEF HuftInv, Zeros
<1> QED BY <1>1, <1>3, <1>4 DEF NewTable

(* The root is among the tables the next code lies under. *)
LEMMA RootUnder ==
  ASSUME HuftTypes, RootOpen, u # <<>>, NEW code
  PROVE  OpenUnder(code) \in 1 .. Len(u)
<1> DEFINE S == {n \in 1 .. Len(u) :
                   \A b \in 1 .. BMax : u[n].x[b] = IF b <= l * (n - 1) THEN code[b] ELSE 0}
<1>1. Len(u) \in Nat /\ Len(u) > 0
  BY DEF HuftTypes
<1>2. ASSUME NEW b \in 1 .. BMax PROVE u[1].x[b] = IF b <= l * (1 - 1) THEN code[b] ELSE 0
  <2>1. u[1].x[b] = 0
    BY DEF RootOpen, Zeros
  <2>2. l * (1 - 1) = 0
    BY DEF HuftTypes
  <2>3. ~(b <= 0)
    BY HuffmanAssumption
  <2> QED BY <2>1, <2>2, <2>3
<1>3. 1 \in S
  BY <1>1, <1>2
<1>4. Max(S) \in S
  <2>1. S \in SUBSET Nat /\ \A n \in S : n <= Len(u)
    BY <1>1
  <2> HIDE DEF S
  <2> QED BY <1>1, <1>3, <2>1, GreatestNumber
<1> QED BY <1>4 DEF OpenUnder

LEMMA EnterKeeps ==
  ASSUME HuftInv, Enter
  PROVE  HuftInv'
<1> DEFINE q == Last(u).table
           f == [p \in Bits(tables[q].bits) |->
                   IF \A b \in 1 .. k - w : p[b] = i[w + b]
                     THEN Entry(k - w, ValueAt(done)) ELSE tables[q].at[p]]
<1>1. /\ ret = Running /\ c # Zeros /\ k <= w + l
      /\ tables' = [tables EXCEPT ![q].at = f]
      /\ done' = done + 1 /\ i' = Successor(i, k) /\ u' = SubSeq(u, 1, OpenUnder(i'))
      /\ UNCHANGED <<lens, l, c, mem>>
  BY DEF Enter
<1>2. /\ HuftTypes /\ RootOpen /\ k > 0 /\ NoTableLost
      /\ Used # {} /\ Used' = Used
  BY <1>1 DEF HuftInv, Used, Values
<1>3. u # <<>> /\ h \in Int /\ w \in Int
  BY <1>1, <1>2, LevelBits DEF HuftTypes
<1>4. q \in 1 .. Len(tables)
  BY <1>2, <1>3 DEF RootOpen, HuftTypes, Last
<1> HIDE DEF q
<1>5. PICK n \in Nat : tables[q] \in [bits : {n}, at : [Bits(n) -> Entries]]
  BY <1>2, <1>4 DEF HuftTypes, DecodingTables, TablesOf
<1>6. /\ f \in [DOMAIN tables[q].at -> Entries] /\ DOMAIN tables[q].at = Bits(tables[q].bits)
      /\ \A p \in DOMAIN f : f[p].sub = 0 \/ (p \in DOMAIN tables[q].at /\ f[p] = tables[q].at[p])
  <2> DEFINE e == Entry(k - w, ValueAt(done))
  <2>1. e \in Entries /\ e.sub = 0
    BY <1>2, <1>3 DEF Entry, Entries, Contents, HuftTypes
  <2>2. DOMAIN tables[q].at = Bits(tables[q].bits) /\ tables[q].at \in [Bits(tables[q].bits) -> Entries]
    BY <1>5
  <2> HIDE DEF e
  <2> QED BY <2>1, <2>2 DEF e
<1> HIDE DEF f
<1>7. /\ tables' \in Seq(DecodingTables) /\ Len(tables') = Len(tables)
      /\ tables'[q].at = f /\ \A m \in 1 .. Len(tables) : m # q => tables'[m] = tables[m]
  <2>1. tables \in Seq(DecodingTables)
    BY <1>2 DEF HuftTypes
  <2>2. tables' = [tables EXCEPT ![q].at = f]
    BY <1>1
  <2>3. f \in [DOMAIN tables[q].at -> Entries]
    BY <1>6
  <2> DEFINE R == tables'
  <2>4. R = [tables EXCEPT ![q].at = f]
    BY <2>2
  <2> HIDE DEF R
  <2>5. /\ R \in Seq(DecodingTables) /\ Len(R) = Len(tables)
        /\ R[q].at = f /\ \A m \in 1 .. Len(tables) : m # q => R[m] = tables[m]
    BY <1>4, <2>1, <2>3, <2>4, TableFilled, SMTT(30)
  <2> QED BY <2>5 DEF R
<1>8. /\ u' \in Seq(Levels) /\ u' # <<>>
      /\ Len(u') <= Len(u) /\ Len(u') \in Nat /\ \A m \in 1 .. Len(u') : u'[m] = u[m]
  <2>1. OpenUnder(i') \in 1 .. Len(u)
    BY <1>2, <1>3, RootUnder
  <2> DEFINE o == OpenUnder(i')
  <2>2. u' = SubSeq(u, 1, o) /\ o \in 1 .. Len(u) /\ u \in Seq(Levels)
    BY <1>1, <1>2, <2>1 DEF HuftTypes
  <2> HIDE DEF o
  <2> QED BY <2>2
<1>9. k' \in Nat /\ k' > 0
  <2>1. CASE k' = k
    BY <1>2, <2>1 DEF HuftTypes
  <2>2. CASE Longer # {} /\ k' = Min(Longer)
    <3>1. Longer \in SUBSET Nat /\ \A b \in Longer : b \in Nat /\ b > 0
      BY HuffmanAssumption DEF Longer
    <3>2. Min(Longer) \in Longer
      BY <2>2, <3>1, LeastNumber
    <3> QED BY <2>2, <3>1, <3>2
  <2> QED BY <2>1, <2>2 DEF Enter
<1>10. i' \in CodeWords
  <2>1. i \in CodeWords
    BY <1>2 DEF HuftTypes
  <2> QED BY <1>1, <2>1 DEF Successor, CodeWords
<1>11. HuftTypes'
  <2>1. Levels' = Levels /\ CodeWords' = CodeWords
    BY DEF Levels, CodeWords
  <2>2. done' \in Nat
    BY <1>1, <1>2 DEF HuftTypes
  <2> HIDE DEF Levels, CodeWords
  <2> QED BY <1>1, <1>2, <1>7, <1>8, <1>9, <1>10, <2>1, <2>2, ContentsStay DEF HuftTypes
<1>12. RootOpen'
  <2>1. u'[1].x = Zeros
    BY <1>2, <1>3, <1>8 DEF RootOpen
  <2>2. \A m \in 1 .. Len(u') : u'[m].table \in 1 .. Len(tables')
    <3>1. ASSUME NEW m \in 1 .. Len(u') PROVE m \in 1 .. Len(u) /\ u'[m] = u[m]
      <4>1. Len(u) \in Nat
        BY <1>2 DEF HuftTypes
      <4> QED BY <1>8, <4>1
    <3> QED BY <1>2, <1>7, <3>1 DEF RootOpen
  <2> QED BY <1>8, <2>1, <2>2 DEF RootOpen, Zeros
<1>13. NoTableLost'
  <2>1. ret' \notin {2, 3}
    BY <1>1 DEF Enter, Running
  <2>2. ASSUME NEW m \in 1 .. Len(tables'), NEW p \in DOMAIN tables'[m].at,
               tables'[m].at[p].sub # 0
        PROVE  tables'[m].at[p].sub \in m + 1 .. Len(tables')
    <3>1. m \in 1 .. Len(tables) /\ Len(tables') = Len(tables)
      BY <1>7, <2>2
    <3>2. CASE m = q
      <4>1. tables'[m].at = f
        BY <1>7, <3>2
      <4>2. p \in DOMAIN tables[m].at /\ tables'[m].at[p] = tables[m].at[p]
        BY <1>6, <2>2, <3>2, <4>1
      <4> QED BY <1>2, <2>2, <3>1, <4>2 DEF NoTableLost
    <3>3. CASE m # q
      BY <1>2, <1>7, <2>2, <3>1, <3>3 DEF NoTableLost
    <3> QED BY <3>2, <3>3
  <2> QED BY <2>1, <2>2 DEF NoTableLost
<1> QED BY <1>1, <1>2, <1>9, <1>11, <1>12, <1>13 DEF HuftInv, Zeros

(* The invariant holds in every state. *)
THEOREM HuftInvariance == HuftSpec => []HuftInv
<1>1. HuftInv /\ [HuftNext]_huft => HuftInv'
  <2> SUFFICES ASSUME HuftInv, [HuftNext]_huft PROVE HuftInv'
    OBVIOUS
  <2>1. CASE UNCHANGED huft
    <3>1. UNCHANGED <<lens, l, c, k, done, i, u, tables, ret>>
      BY <2>1 DEF huft
    <3>2. HuftTypes'
      BY <3>1, TypesStay DEF HuftInv, HuftTypes
    <3> QED BY <3>1, <3>2 DEF HuftInv, RootOpen, NoTableLost, Zeros, Used, Values
  <2> QED BY <2>1, CountKeeps, NewTableKeeps, EnterKeeps DEF HuftNext
<1> QED BY <1>1, HuftInitHolds, PTL DEF HuftSpec

(* For any lists of lengths, any longest code and any memory: huft_build     *)
(* that fails keeps no table, and the look-ups of inflate_codes only lead    *)
(* from a table to one that was made later.                                  *)
THEOREM TablesKept == HuftSpec => []NoTableLost
<1>1. HuftInv => NoTableLost
  BY DEF HuftInv
<1> QED BY <1>1, HuftInvariance, PTL
=============================================================================

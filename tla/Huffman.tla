------------------------------ MODULE Huffman ------------------------------
(***************************************************************************)
(* The decoding tables of inflate (mr/mr_inflate.c): huft_build makes from *)
(* a list of code lengths a tree of tables, one look-up of a few bits in   *)
(* each, and huft_free walks the list the tables are linked in.  An index, *)
(* a code and a pattern of bits are sequences, the bit that is read first  *)
(* in front.                                                               *)
(***************************************************************************)
EXTENDS Integers, Sequences, FiniteSets, FiniteSetsExt, SequencesExt

CONSTANTS
  BMax,    \* BMAX, the longest code
  Inputs,  \* the calls: lens, a length for every value (0: no code), and m,
           \* the bits wanted for the first table
  Allocs   \* how many tables there may be memory for

(* The lists inflate decodes with are complete and of no more than 2^m       *)
(* values (286 and m = 9, 30 and 6, 19 and 7) or have lengths that differ by *)
(* at most 2 (288 and 7, 30 and 5).  Then no table is more than one level    *)
(* above the next, which huft_build relies on.                               *)
ASSUME HuffmanAssumption ==
  /\ BMax \in Nat \ {0} /\ Allocs \subseteq Nat
  /\ Inputs \subseteq [lens : Seq(0 .. BMax) \ {<<>>}, m : Nat \ {0}]

VARIABLES
  lens,    \* b, the length of each value's code
  l,       \* bits per table
  c,       \* the number of codes of each length, dummy codes included
  k,       \* the bits of the code to enter next
  a,       \* the codes of k bits behind it
  done,    \* the codes entered so far
  i,       \* the code to enter next
  u,       \* the open tables, level 0 first, each with x[h], its prefix
  tables,  \* the tables in the order of their links: bits and entries
  mem,     \* the tables there is memory for
  ret      \* what huft_build returned

huft == <<lens, l, c, k, a, done, i, u, tables, mem, ret>>
work == <<done, i, u, tables, mem>>

Running == -1
Bits(n) == [1 .. n -> {0, 1}]
Zeros == [b \in 1 .. BMax |-> 0]
Values == 1 .. Len(lens)
Used == {v \in Values : lens[v] # 0}

HuftInit ==
  /\ \E in \in Inputs : lens = in.lens /\ l = in.m
  /\ c = Zeros /\ k = 0 /\ a = 0
  /\ done = 0 /\ i = Zeros /\ u = <<>> /\ tables = <<>>
  /\ mem \in Allocs
  /\ ret = Running

-----------------------------------------------------------------------------
CountOf(b) == Cardinality({v \in Values : lens[v] = b})
Shortest == Min({lens[v] : v \in Used})
Longest == Max({lens[v] : v \in Used})

(* The codes of b bits that are left when those up to b bits are taken.      *)
Unused(b) == 2 ^ b - MapThenSumSet(LAMBDA j : CountOf(j) * 2 ^ (b - j), 1 .. b)

(* Lengths are counted, more codes than bits refused, and the last count     *)
(* filled up with dummy codes.                                               *)
Count ==
  /\ ret = Running /\ c = Zeros
  /\ \/ Used = {} /\ ret' = 0 /\ l' = 0 /\ UNCHANGED <<c, k, a>>
     \/ /\ Used # {}
        /\ l' = Max({Shortest, Min({l, Longest})})
        /\ IF \E b \in Shortest .. Longest : Unused(b) < 0
             THEN ret' = 2 /\ UNCHANGED <<c, k, a>>
             ELSE /\ c' = [b \in 1 .. BMax |->
                             CountOf(b) + IF b = Longest THEN Unused(b) ELSE 0]
                  /\ k' = Shortest /\ a' = c'[k'] - 1
                  /\ UNCHANGED ret
  /\ UNCHANGED <<lens, work>>

-----------------------------------------------------------------------------
(* The order of the values in v, that of their codes.                        *)
Before(v, r) == lens[v] < lens[r] \/ (lens[v] = lens[r] /\ v < r)
Longer == {b \in 1 .. BMax : b > k /\ c[b] > 0}   \* lengths of codes to come
h == Len(u) - 1
w == l * h                                       \* bits before the open table

(* The patterns of j bits under the new table that no code of at most j bits *)
(* takes.                                                                    *)
Left(from, j) == 2 ^ j - (a + 1) * 2 ^ (j - (k - from))
                 - MapThenSumSet(LAMBDA b : c[b] * 2 ^ (j + from - b), k + 1 .. from + j)

(* The bits of a new table: the first size its codes fill, l bits and no     *)
(* more than the longest code at most (or one bit more than code i has, when *)
(* code i has as many as that).                                              *)
TableBits(from) ==
  LET z == Max({Min({Longest - from, l}), k - from + 1})
  IN  IF Left(from, k - from) <= 0 THEN k - from
      ELSE Min({j \in k - from + 1 .. z : j = z \/ Left(from, j) <= 0})

(* An entry: the bits it takes, and a value or, if sub # 0, another table.   *)
Entry(bits, value) == [b |-> bits, value |-> value, sub |-> 0]
Invalid == 0
Garbage == -1
Unset == Entry(0, -2)
Index(s, from, n, bits) == [p \in 1 .. bits |-> IF p <= n THEN s[from + p] ELSE 0]

(* Mutant: with one table made the list is taken for empty. *)
KeptAtFirst(level) == IF level > 1 THEN <<>> ELSE tables

(* Tables up to the level of code i.  A table that finds no memory ends the  *)
(* call, and the tables made so far are freed.                               *)
KeptAt(level) == IF level > 0 THEN <<>> ELSE tables
NewTable ==
  /\ ret = Running /\ c # Zeros
  /\ k > w + l
  /\ \/ /\ mem = 0
        /\ ret' = 3 /\ tables' = KeptAt(h + 1)
        /\ UNCHANGED <<u, mem>>
     \/ /\ mem > 0
        /\ mem' = mem - 1
        /\ LET from == w + l
               j    == TableBits(from)
               new  == [bits |-> j, at |-> [p \in Bits(j) |-> Unset]]
               link == [b |-> l, value |-> Invalid, sub |-> Len(tables) + 1]
               up   == Last(u).table
           IN  /\ u' = Append(u, [table |-> Len(tables) + 1, x |-> i])
               /\ tables' = Append(
                    IF u = <<>> THEN tables
                    ELSE [tables EXCEPT ![up].at[Index(i, w, Min({tables[up].bits, BMax - w}), tables[up].bits)] = link],
                    new)
        /\ UNCHANGED ret
  /\ UNCHANGED <<lens, l, c, k, a, done, i>>

(* Mutant: the bits behind the one that is set are not cleared. *)
SuccessorNoCarry(code, n) ==
  LET zero == Max({0} \cup {b \in 1 .. n : code[b] = 0})
  IN  [code EXCEPT ![Max({zero, 1})] = 1]

(* The next code in the order of codes: the bits are counted from the back.  *)
Successor(code, n) ==
  LET zero == Max({0} \cup {b \in 1 .. n : code[b] = 0})
  IN  [b \in 1 .. BMax |-> IF b = zero THEN 1
                           ELSE IF zero < b /\ b <= n THEN 0 ELSE code[b]]

(* Codes behind those of the values are invalid; v has only as many elements *)
(* as there are lengths that are not 0, and is read up to n.                 *)
ValueAt(n) == IF n < Cardinality(Used)
                THEN CHOOSE v \in Used : Cardinality({r \in Used : Before(r, v)}) = n
              ELSE IF n < Len(lens) THEN Garbage ELSE Invalid

(* The open tables that code i lies under.                                   *)
OpenUnder(code) == Max({n \in 1 .. Len(u) :
  \A b \in 1 .. BMax : u[n].x[b] = IF b <= l * (n - 1) THEN code[b] ELSE 0})

(* Code i goes into every entry of the open table that begins with it.       *)
Enter ==
  /\ ret = Running /\ c # Zeros
  /\ k <= w + l
  /\ LET q == Last(u).table
     IN  tables' = [tables EXCEPT ![q].at = [p \in Bits(tables[q].bits) |->
           IF \A b \in 1 .. k - w : p[b] = i[w + b] THEN Entry(k - w, ValueAt(done)) ELSE @[p]]]
  /\ done' = done + 1
  /\ i' = Successor(i, k)
  /\ u' = SubSeq(u, 1, OpenUnder(i'))
  /\ \/ a > 0 /\ a' = a - 1 /\ UNCHANGED <<k, ret>>
     \/ a = 0 /\ Longer # {} /\ k' = Min(Longer) /\ a' = c[k'] - 1 /\ UNCHANGED ret
     \/ /\ a = 0 /\ Longer = {}
        /\ ret' = IF Unused(Longest) # 0 /\ Longest # 1 THEN 1 ELSE 0
        /\ UNCHANGED <<k, a>>
  /\ UNCHANGED <<lens, l, c, mem>>

HuftNext == Count \/ NewTable \/ Enter

HuftSpec == HuftInit /\ [][HuftNext]_huft

-----------------------------------------------------------------------------
(* inflate_codes: look-ups from table to table, each behind the bits of the  *)
(* one before, until an entry is not a table.                                *)
Decode(s) ==
  LET found[q \in 1 .. Len(tables), from \in 0 .. Longest, n \in 0 .. Longest] ==
        LET e == tables[q].at[Index(s, from, n, tables[q].bits)]
        IN  IF e.sub # 0 THEN found[e.sub, from + e.b, tables[e.sub].bits]
            ELSE [e EXCEPT !.b = from + @]
  IN  found[1, 0, l]

(* The canonical code: in the order of their codes the values divide the     *)
(* strings of Longest bits among them, each as many as follow its code.      *)
Share(v) == 2 ^ (Longest - lens[v])
Start(v) == MapThenSumSet(Share, {r \in Used : Before(r, v)})
Number(s) == MapThenSumSet(LAMBDA b : s[b] * 2 ^ (Len(s) - b), 1 .. Len(s))
Meant(s) == {v \in Used : Start(v) <= Number(s) /\ Number(s) < Start(v) + Share(v)}

(* Through all levels of tables every string is decoded to the value whose   *)
(* code it begins with, and that code is taken from the input; a string that *)
(* begins with none is invalid (or whatever v held, when it has more room    *)
(* than values).                                                             *)
TablesDecode == ret \in {0, 1} /\ tables # <<>> =>
  \A s \in Bits(Longest) :
    LET e == Decode(s)
    IN  IF Meant(s) # {} THEN Meant(s) = {e.value} /\ e.b = lens[e.value]
        ELSE e.value = Invalid \/ (e.value = Garbage /\ Len(lens) > Cardinality(Used))

(* A call that fails keeps no table, and a link leads to a table made later: *)
(* a look-up does not come back to a table, and meets none that was freed.   *)
NoTableLost ==
  /\ ret \in {2, 3} => tables = <<>>
  /\ \A q \in 1 .. Len(tables) : \A p \in DOMAIN tables[q].at :
       LET sub == tables[q].at[p].sub IN sub # 0 => sub \in q + 1 .. Len(tables)
=============================================================================

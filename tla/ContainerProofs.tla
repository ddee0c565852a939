--------------------------- MODULE ContainerProofs ---------------------------
(***************************************************************************)
(* Theorems about HashTable and HashIter: whatever the keys, the hashes    *)
(* and the size of the table, it is the map its calls amount to until a    *)
(* remove makes a hole, the search for a slot never fails, and an          *)
(* iteration that ends without the warning has returned every key that     *)
(* stayed in the table once.                                               *)
(*                                                                         *)
(* And about Slice: whatever is appended, in any number of growths and     *)
(* with memory failing at any of them, a slice holds the elements appended *)
(* since the last failure.                                                 *)
(***************************************************************************)
EXTENDS HashIter, Slice, Arithmetic, FunctionTheorems, SequenceTheorems

-----------------------------------------------------------------------------
(* The inductive invariant.                                                *)

Tables(n) == [0 .. n - 1 -> Entry \cup {Free}]

TypeOK ==
  /\ hash \in [Keys -> Nat]
  /\ tbl_size \in Nat /\ tbl_size >= 4
  /\ size \in Nat /\ old_size \in Nat /\ i \in Nat
  /\ dict \in [Keys -> Vals \cup {None}]
  /\ doubling \in BOOLEAN /\ holed \in BOOLEAN
  /\ died \in {"no", "nomem", "size"}
  /\ died = "no" => tbl \in Tables(tbl_size)

(* The old table is half as large.                                         *)
OldTypeOK ==
  \E n \in Nat : /\ n >= 4 /\ tbl_size = 2 * n
                 /\ old_tbl \in Tables(n) /\ i <= n

(* size counts the slots in use and leaves some free, also while entries   *)
(* move.                                                                   *)
Moved == {s \in Used(old_tbl) : s < i}

SizeIsUsed ==
  /\ size = Cardinality(Used(tbl))
  /\ ~Overloaded(tbl_size, size)

OldSizeIsUsed ==
  /\ old_size = Cardinality(Used(old_tbl))
  /\ ~Overloaded(tbl_size, old_size)
  /\ size <= Cardinality(Moved)

(* Every slot that the search for the key of slot s passes is in use by    *)
(* another key.                                                            *)
Passes(k, d) ==
  \A e \in 0 .. d - 1 : tbl[Slot(k, e)] # Free /\ tbl[Slot(k, e)].key # k

Paths ==
  \A s \in Used(tbl) : \E d \in 0 .. tbl_size - 1 : Slot(tbl[s].key, d) = s /\ Passes(tbl[s].key, d)

Unique(t) == \A a, b \in Used(t) : t[a].key = t[b].key => a = b

(* The entries of a table are those of the map, and all of them.           *)
Agrees(t) == \A s \in Used(t) : dict[t[s].key] = t[s].val

Present == {k \in Keys : dict[k] # None}

Covers(t) == \A k \in Present : \E s \in Used(t) : t[s].key = k

(* The entries that have moved are those the new table has.                *)
HasMoved ==
  /\ \A j \in Moved : \E s \in Used(tbl) : tbl[s].key = old_tbl[j].key
  /\ \A s \in Used(tbl) : \E j \in Moved : tbl[s].key = old_tbl[j].key

Map ==
  /\ Paths
  /\ Agrees(tbl)
  /\ ~doubling => Covers(tbl)
  /\ doubling => Unique(old_tbl) /\ Agrees(old_tbl) /\ Covers(old_tbl) /\ HasMoved

IInv ==
  /\ TypeOK
  /\ died = "no" => SizeIsUsed
  /\ died = "no" /\ doubling => OldTypeOK /\ OldSizeIsUsed
  /\ died = "no" /\ ~holed => Map
  /\ died = "size" => holed

-----------------------------------------------------------------------------
(* Tables and their slots in use.                                          *)

LEMMA EntryNotFree == \A x \in Entry : x # Free /\ x.key \in Keys /\ x.val \in Vals /\ x.val # None
BY FreeAssumption DEF Entry

LEMMA UsedOf ==
  ASSUME NEW n \in Nat, NEW t \in Tables(n)
  PROVE  /\ Used(t) = {s \in 0 .. n - 1 : t[s] # Free}
         /\ IsFiniteSet(Used(t))
         /\ Cardinality(Used(t)) \in Nat
         /\ \A s \in Used(t) : t[s] \in Entry /\ t[s].key \in Keys /\ t[s].val \in Vals
<1>1. Used(t) = {s \in 0 .. n - 1 : t[s] # Free}
  BY DEF Used, Tables
<1>2. Used(t) \in SUBSET (0 .. n - 1)
  BY <1>1
<1>3. IsFiniteSet(Used(t))
  <2>1. IsFiniteSet(0 .. n - 1)
    BY FS_Interval
  <2> QED BY <1>2, <2>1, FS_Subset
<1>4. Cardinality(Used(t)) \in Nat
  BY <1>3, FS_CardinalityType
<1>5. \A s \in Used(t) : t[s] \in Entry
  BY <1>1 DEF Tables
<1> QED BY <1>1, <1>3, <1>4, <1>5, EntryNotFree

(* Writing an entry in a slot, and emptying it.                            *)
Put(t, s, x) == [t EXCEPT ![s] = x]

LEMMA UsedPut ==
  ASSUME NEW n \in Nat, NEW t \in Tables(n), NEW s \in 0 .. n - 1, NEW x \in Entry
  PROVE  /\ Put(t, s, x) \in Tables(n)
         /\ Used(Put(t, s, x)) = Used(t) \cup {s}
         /\ Put(t, s, x)[s] = x
         /\ \A a \in 0 .. n - 1 : a # s => Put(t, s, x)[a] = t[a]
         /\ Cardinality(Used(Put(t, s, x))) = Cardinality(Used(t)) + (IF t[s] = Free THEN 1 ELSE 0)
<1>1. Put(t, s, x) \in Tables(n) /\ Put(t, s, x)[s] = x /\ \A a \in 0 .. n - 1 : a # s => Put(t, s, x)[a] = t[a]
  BY DEF Tables, Put
<1>2. x # Free
  BY EntryNotFree
<1>3. Used(Put(t, s, x)) = Used(t) \cup {s}
  BY <1>1, <1>2 DEF Used, Tables
<1>4. s \in Used(t) <=> t[s] # Free
  BY UsedOf
<1>5. Cardinality(Used(Put(t, s, x))) = Cardinality(Used(t)) + (IF t[s] = Free THEN 1 ELSE 0)
  <2>1. IsFiniteSet(Used(t)) /\ Cardinality(Used(t)) \in Nat
    BY UsedOf
  <2>2. Cardinality(Used(t) \cup {s}) = IF s \in Used(t) THEN Cardinality(Used(t)) ELSE Cardinality(Used(t)) + 1
    BY <2>1, FS_AddElement
  <2> QED BY <1>3, <1>4, <2>1, <2>2
<1> QED BY <1>1, <1>3, <1>5

LEMMA UsedFree ==
  ASSUME NEW n \in Nat, NEW t \in Tables(n), NEW s \in 0 .. n - 1
  PROVE  /\ Put(t, s, Free) \in Tables(n)
         /\ Used(Put(t, s, Free)) = Used(t) \ {s}
         /\ \A a \in 0 .. n - 1 : a # s => Put(t, s, Free)[a] = t[a]
         /\ Cardinality(Used(Put(t, s, Free))) = Cardinality(Used(t)) - (IF t[s] = Free THEN 0 ELSE 1)
<1>1. Put(t, s, Free) \in Tables(n) /\ Put(t, s, Free)[s] = Free /\ \A a \in 0 .. n - 1 : a # s => Put(t, s, Free)[a] = t[a]
  BY DEF Tables, Put
<1>2. Used(Put(t, s, Free)) = Used(t) \ {s}
  BY <1>1 DEF Used, Tables
<1>3. s \in Used(t) <=> t[s] # Free
  BY UsedOf
<1>4. Cardinality(Used(Put(t, s, Free))) = Cardinality(Used(t)) - (IF t[s] = Free THEN 0 ELSE 1)
  <2>1. IsFiniteSet(Used(t)) /\ Cardinality(Used(t)) \in Nat
    BY UsedOf
  <2>2. Cardinality(Used(t) \ {s}) = IF s \in Used(t) THEN Cardinality(Used(t)) - 1 ELSE Cardinality(Used(t))
    BY <2>1, FS_RemoveElement
  <2> QED BY <1>2, <1>3, <2>1, <2>2
<1> QED BY <1>1, <1>2, <1>4

LEMMA LessLoaded ==
  ASSUME NEW n \in Nat, NEW a \in Nat, NEW b \in Nat, a <= b, ~Overloaded(n, b)
  PROVE  ~Overloaded(n, a)
BY DEF Overloaded

LEMMA EmptyTable ==
  ASSUME NEW n \in Nat
  PROVE  NewTable(n) \in Tables(n) /\ Used(NewTable(n)) = {} /\ Cardinality(Used(NewTable(n))) = 0
<1>1. NewTable(n) \in Tables(n) /\ Used(NewTable(n)) = {}
  BY DEF NewTable, Tables, Used
<1> QED BY <1>1, FS_EmptySet

(* A table with one slot for each key of the map has as many slots in use  *)
(* as the map has keys.                                                    *)
LEMMA CountKeys ==
  ASSUME TypeOK, NEW n \in Nat, NEW t \in Tables(n), Unique(t), Agrees(t), Covers(t)
  PROVE  Cardinality(Used(t)) = Cardinality(Present)
<1> DEFINE f == [s \in Used(t) |-> t[s].key]
<1>1. \A s \in Used(t) : t[s].key \in Present
  BY UsedOf, EntryNotFree DEF Agrees, Present
<1>2. f \in [Used(t) -> Present] /\ \A a, b \in Used(t) : f[a] = f[b] => a = b
  BY <1>1 DEF Unique
<1>3. \A k \in Present : \E s \in Used(t) : f[s] = k
  BY DEF Covers
<1>4. f \in Bijection(Used(t), Present)
  BY <1>2, <1>3, Fun_IsBij
<1>5. ExistsBijection(Used(t), Present)
  BY <1>4 DEF ExistsBijection
<1> QED BY <1>5, UsedOf, FS_Bijection

-----------------------------------------------------------------------------
(* The search for a slot.                                                  *)

LEMMA SlotIn ==
  ASSUME TypeOK, NEW k \in Keys, NEW d \in Nat
  PROVE  hash[k] \in Nat /\ Slot(k, d) \in 0 .. tbl_size - 1
<1>1. hash[k] \in Nat /\ tbl_size \in Nat \ {0}
  BY DEF TypeOK
<1>2. hash[k] + d \in Int
  BY <1>1
<1> QED BY <1>1, <1>2, DivMod DEF Slot

(* Some slot is free, so the table can always take one more entry.         *)
LEMMA FreeSlot ==
  ASSUME TypeOK, died = "no", SizeIsUsed
  PROVE  size < tbl_size /\ \E s \in 0 .. tbl_size - 1 : tbl[s] = Free
<1>1. tbl_size \in Nat /\ size \in Nat /\ tbl \in Tables(tbl_size)
  BY DEF TypeOK
<1>2. size < tbl_size
  BY <1>1 DEF SizeIsUsed, Overloaded
<1>3. SUFFICES ASSUME \A s \in 0 .. tbl_size - 1 : tbl[s] # Free PROVE FALSE
  BY <1>2
<1>4. Used(tbl) = 0 .. tbl_size - 1
  BY <1>1, <1>3, UsedOf
<1>5. Cardinality(0 .. tbl_size - 1) = tbl_size
  BY <1>1, <1>2, FS_Interval
<1> QED BY <1>1, <1>2, <1>4, <1>5 DEF SizeIsUsed

(* ht_index ends at the first slot that is free or has the key.            *)
LEMMA Search ==
  ASSUME TypeOK, died = "no", SizeIsUsed, NEW k \in Keys
  PROVE  /\ IndexOK(k)
         /\ ht_index(k) \in 0 .. tbl_size - 1
         /\ tbl[ht_index(k)] = Free \/ (ht_index(k) \in Used(tbl) /\ tbl[ht_index(k)].key = k)
         /\ \E d \in 0 .. tbl_size - 1 : Slot(k, d) = ht_index(k) /\ Passes(k, d)
<1>1. tbl_size \in Nat \ {0} /\ hash[k] \in Nat /\ tbl \in Tables(tbl_size)
  BY DEF TypeOK
<1>2. PICK s \in 0 .. tbl_size - 1 : tbl[s] = Free
  BY FreeSlot
<1>3. PICK d0 \in 0 .. tbl_size - 1 : Slot(k, d0) = s
  BY <1>1, ModReaches DEF Slot
<1>4. d0 \in Hits(k) /\ Hits(k) \in SUBSET Nat
  BY <1>1, <1>2, <1>3 DEF Hits
<1> DEFINE d == Min(Hits(k))
<1>5. d \in Hits(k) /\ \A e \in Hits(k) : d <= e
  BY <1>4, MinOfNats
<1> HIDE DEF d
<1>6. d \in 0 .. tbl_size - 1 /\ (tbl[Slot(k, d)] = Free \/ tbl[Slot(k, d)].key = k)
  BY <1>5 DEF Hits
<1>7. ht_index(k) = Slot(k, d)
  BY <1>4 DEF ht_index, d
<1>8. ht_index(k) \in 0 .. tbl_size - 1
  BY <1>6, <1>7, SlotIn
<1>9. Passes(k, d)
  <2>1. SUFFICES ASSUME NEW e \in 0 .. d - 1
                 PROVE  tbl[Slot(k, e)] # Free /\ tbl[Slot(k, e)].key # k
    BY DEF Passes
  <2>2. e \in 0 .. tbl_size - 1 /\ e < d
    BY <1>1, <1>6
  <2>3. e \notin Hits(k)
    BY <1>5, <1>6, <2>2
  <2> QED BY <2>2, <2>3 DEF Hits
<1>10. ht_index(k) \in Used(tbl) <=> tbl[ht_index(k)] # Free
  BY <1>1, <1>8, UsedOf
<1>11. IndexOK(k)
  BY <1>8, FreeSlot DEF IndexOK
<1> QED BY <1>6, <1>7, <1>8, <1>9, <1>10, <1>11

(* It finds the slot of every key the table has.                           *)
LEMMA Found ==
  ASSUME TypeOK, died = "no", SizeIsUsed, Paths, NEW s \in Used(tbl)
  PROVE  ht_index(tbl[s].key) = s
<1> DEFINE k == tbl[s].key
<1>1. k \in Keys /\ tbl[s] # Free /\ tbl_size \in Nat
  BY UsedOf DEF TypeOK
<1>2. PICK d \in 0 .. tbl_size - 1 : Slot(k, d) = s /\ Passes(k, d)
  BY DEF Paths
<1> HIDE DEF k
<1>3. PICK c \in 0 .. tbl_size - 1 : Slot(k, c) = ht_index(k) /\ Passes(k, c)
  BY <1>1, Search
<1>4. tbl[ht_index(k)] = Free \/ tbl[ht_index(k)].key = k
  BY <1>1, Search
<1>5. ~(c < d)
  BY <1>1, <1>2, <1>3, <1>4 DEF Passes
<1>6. ~(d < c)
  BY <1>1, <1>2, <1>3 DEF Passes, k
<1>7. c = d
  BY <1>1, <1>5, <1>6
<1> QED BY <1>2, <1>3, <1>7 DEF k

LEMMA OneSlotPerKey ==
  ASSUME TypeOK, died = "no", SizeIsUsed, Paths
  PROVE  Unique(tbl)
BY Found DEF Unique

(* A search that ends at a free slot is for a key that is not in the map.  *)
LEMMA Absent ==
  ASSUME TypeOK, died = "no", SizeIsUsed, Paths, Covers(tbl), NEW k \in Keys, tbl[ht_index(k)] = Free
  PROVE  k \notin Present
<1>1. \A s \in Used(tbl) : tbl[s] # Free
  BY UsedOf DEF TypeOK
<1> QED BY <1>1, Found DEF Covers

-----------------------------------------------------------------------------
(* Putting an entry where the search for its key ends.                     *)

LEMMA PutPaths ==
  ASSUME TypeOK, died = "no", Paths, hash' = hash, tbl_size' = tbl_size,
         NEW x \in Entry, NEW s \in 0 .. tbl_size - 1, NEW d \in 0 .. tbl_size - 1,
         Slot(x.key, d) = s, Passes(x.key, d),
         tbl[s] = Free \/ tbl[s].key = x.key,
         tbl' = Put(tbl, s, x)
  PROVE  Paths'
<1> DEFINE u == Put(tbl, s, x)
           W(k, c) == \A e \in 0 .. c - 1 : u[Slot(k, e)] # Free /\ u[Slot(k, e)].key # k
<1>1. tbl_size \in Nat /\ tbl \in Tables(tbl_size)
  BY DEF TypeOK
<1>2. /\ Used(u) = Used(tbl) \cup {s}
      /\ u[s] = x
      /\ \A a \in 0 .. tbl_size - 1 : a # s => u[a] = tbl[a]
  BY <1>1, UsedPut
<1>3. /\ \A a \in Used(tbl) : a \in 0 .. tbl_size - 1 /\ tbl[a].key \in Keys
      /\ x.key \in Keys /\ x # Free
  BY <1>1, UsedOf, EntryNotFree
<1>4. \A k \in Keys, e \in Nat : Slot(k, e) \in 0 .. tbl_size - 1
  BY SlotIn
<1> HIDE DEF u
<1>5. ASSUME NEW a \in Used(u)
      PROVE  \E c \in 0 .. tbl_size - 1 : Slot(u[a].key, c) = a /\ W(u[a].key, c)
  <2>1. CASE a = s
    <3>1. ASSUME NEW e \in 0 .. d - 1
          PROVE  u[Slot(x.key, e)] # Free /\ u[Slot(x.key, e)].key # x.key
      <4>1. tbl[Slot(x.key, e)] # Free /\ tbl[Slot(x.key, e)].key # x.key
        BY DEF Passes
      <4>2. Slot(x.key, e) \in 0 .. tbl_size - 1
        BY <1>1, <1>3, <1>4
      <4> QED BY <1>2, <4>1, <4>2
    <3> QED BY <1>2, <2>1, <3>1
  <2>2. CASE a # s
    <3> DEFINE k == tbl[a].key
    <3>1. a \in Used(tbl) /\ u[a] = tbl[a] /\ k \in Keys
      BY <1>2, <1>3, <2>2
    <3>2. PICK c \in 0 .. tbl_size - 1 : Slot(k, c) = a /\ Passes(k, c)
      BY <3>1 DEF Paths
    <3> HIDE DEF k
    <3>3. ASSUME NEW e \in 0 .. c - 1
          PROVE  u[Slot(k, e)] # Free /\ u[Slot(k, e)].key # k
      <4>1. tbl[Slot(k, e)] # Free /\ tbl[Slot(k, e)].key # k
        BY <3>2 DEF Passes
      <4>2. Slot(k, e) \in 0 .. tbl_size - 1
        BY <1>1, <1>4, <3>1
      <4>3. CASE Slot(k, e) = s
        BY <1>2, <1>3, <4>1, <4>3
      <4> QED BY <1>2, <4>1, <4>2, <4>3
    <3>4. W(k, c)
      BY <3>3
    <3> QED BY <3>1, <3>2, <3>4 DEF k
  <2> QED BY <2>1, <2>2
<1> QED BY <1>5 DEF Paths, Passes, Slot, u

LEMMA PutEntry ==
  ASSUME TypeOK, died = "no", SizeIsUsed, Paths, Agrees(tbl), Covers(tbl),
         NEW x \in Entry, dict' = [dict EXCEPT ![x.key] = x.val],
         NEW u \in Tables(tbl_size), u = Put(tbl, ht_index(x.key), x)
  PROVE  /\ Unique(u)
         /\ \A s \in Used(u) : dict'[u[s].key] = u[s].val
         /\ \A j \in Keys : dict'[j] # None => \E s \in Used(u) : u[s].key = j
<1> DEFINE k == x.key
           s == ht_index(k)
<1>0. k \in Keys /\ x.val \in Vals
  BY EntryNotFree
<1>1. tbl_size \in Nat /\ tbl \in Tables(tbl_size) /\ dict \in [Keys -> Vals \cup {None}]
  BY DEF TypeOK
<1>2. s \in 0 .. tbl_size - 1 /\ (tbl[s] = Free \/ tbl[s].key = k)
  BY <1>0, Search
<1>4. /\ Used(u) = Used(tbl) \cup {s}
      /\ u[s] = x
      /\ \A a \in 0 .. tbl_size - 1 : a # s => u[a] = tbl[a]
  BY <1>1, <1>2, UsedPut
<1>5. \A a \in Used(tbl) : a \in 0 .. tbl_size - 1 /\ tbl[a].key \in Keys
  BY <1>1, UsedOf
<1>6. \A a \in Used(tbl) : tbl[a].key = k => a = s
  BY <1>0, Found
<1>7. Unique(tbl)
  BY OneSlotPerKey
<1> HIDE DEF s, k
<1>8. \A a \in Used(u) : a = s \/ (a \in Used(tbl) /\ u[a] = tbl[a] /\ tbl[a].key # k)
  BY <1>4, <1>5, <1>6
<1>9. Unique(u)
  BY <1>4, <1>7, <1>8 DEF Unique, k
<1>10. \A a \in Used(u) : dict'[u[a].key] = u[a].val
  <2>1. dict'[x.key] = x.val /\ \A j \in Keys : j # k => dict'[j] = dict[j]
    BY <1>0, <1>1 DEF k
  <2> QED BY <1>4, <1>5, <1>8, <2>1 DEF Agrees
<1>11. ASSUME NEW j \in Keys, dict'[j] # None
       PROVE  \E a \in Used(u) : u[a].key = j
  <2>1. CASE j = k
    BY <1>4, <2>1 DEF k
  <2>2. CASE j # k
    <3>1. j \in Present
      BY <1>1, <1>11, <2>2 DEF Present, k
    <3>2. PICK a \in Used(tbl) : tbl[a].key = j
      BY <3>1 DEF Covers
    <3>3. a # s
      BY <1>2, <2>2, <3>2, <1>1, UsedOf
    <3> QED BY <1>4, <1>5, <3>2, <3>3
  <2> QED BY <2>1, <2>2
<1> QED BY <1>9, <1>10, <1>11

-----------------------------------------------------------------------------
(* Each step keeps the invariant.                                          *)

LEMMA InitOK == Init => IInv
<1> SUFFICES ASSUME Init PROVE IInv
  OBVIOUS
<1>1. INIT_SIZE \in Nat /\ INIT_SIZE >= 4 /\ None \notin Vals
  BY SizeAssumption, FreeAssumption
<1>2. tbl \in Tables(INIT_SIZE) /\ Used(tbl) = {} /\ Cardinality(Used(tbl)) = 0
  BY <1>1, EmptyTable DEF Init
<1>3. TypeOK
  BY <1>1, <1>2, HashAssumption DEF Init, TypeOK
<1>4. SizeIsUsed
  BY <1>1, <1>2 DEF Init, SizeIsUsed, Overloaded
<1>5. Map
  BY <1>2 DEF Init, Map, Paths, Agrees, Covers, Present
<1> QED BY <1>3, <1>4, <1>5 DEF Init, IInv

(* An entry put in the table itself, over an old one or in a free slot.    *)
LEMMA PutOK ==
  ASSUME IInv, Idle, NEW k \in Keys, NEW v \in Vals, InsertOver(k, v) \/ InsertNew(k, v)
  PROVE  IInv'
<1> DEFINE s == ht_index(k)
           x == [key |-> k, val |-> v]
<1>1. TypeOK /\ died = "no" /\ SizeIsUsed /\ ~doubling
  BY DEF IInv, Idle
<1>2. /\ tbl_size \in Nat /\ size \in Nat /\ tbl \in Tables(tbl_size)
      /\ dict \in [Keys -> Vals \cup {None}]
  BY <1>1 DEF TypeOK
<1>3. x \in Entry /\ x.key = k /\ x.val = v
  BY DEF Entry
<1>4. /\ s \in 0 .. tbl_size - 1
      /\ tbl[s] = Free \/ tbl[s].key = k
      /\ \E d \in 0 .. tbl_size - 1 : Slot(k, d) = s /\ Passes(k, d)
  BY <1>1, Search
<1>5. /\ tbl' = Put(tbl, s, x)
      /\ dict' = [dict EXCEPT ![k] = v]
      /\ size' = size + (IF tbl[s] = Free THEN 1 ELSE 0)
      /\ hash' = hash /\ tbl_size' = tbl_size
      /\ UNCHANGED <<old_tbl, old_size, i, doubling, died, holed>>
  BY <1>2 DEF InsertOver, InsertNew, Put
<1>6. ~Overloaded(tbl_size, size')
  BY <1>1, <1>2 DEF InsertOver, InsertNew, SizeIsUsed
<1> HIDE DEF s, x
<1>7. TypeOK'
  <2>1. tbl' \in Tables(tbl_size)
    BY <1>2, <1>3, <1>4, <1>5, UsedPut
  <2>2. dict' \in [Keys -> Vals \cup {None}] /\ size' \in Nat
    BY <1>2, <1>5
  <2> QED BY <1>1, <1>5, <2>1, <2>2 DEF TypeOK, Tables
<1>8. SizeIsUsed'
  <2>1. Cardinality(Used(tbl')) = Cardinality(Used(tbl)) + (IF tbl[s] = Free THEN 1 ELSE 0)
    BY <1>2, <1>3, <1>4, <1>5, UsedPut
  <2>2. Cardinality(Used(tbl')) = size'
    BY <1>1, <1>5, <2>1 DEF SizeIsUsed
  <2> QED BY <1>5, <1>6, <2>2 DEF SizeIsUsed, Used, Overloaded
<1>9. ASSUME ~holed PROVE Map'
  <2>1. Paths /\ Agrees(tbl) /\ Covers(tbl)
    BY <1>1, <1>9 DEF IInv, Map
  <2>2. Paths'
    <3>1. PICK d \in 0 .. tbl_size - 1 : Slot(k, d) = s /\ Passes(k, d)
      BY <1>4
    <3> QED BY <1>1, <1>3, <1>4, <1>5, <2>1, <3>1, PutPaths
  <2>3. /\ \A a \in Used(tbl') : dict'[tbl'[a].key] = tbl'[a].val
        /\ \A j \in Keys : dict'[j] # None => \E a \in Used(tbl') : tbl'[a].key = j
    <3>1. tbl' \in Tables(tbl_size)
      BY <1>1, <1>5, <1>7 DEF TypeOK
    <3>2. tbl' = Put(tbl, ht_index(x.key), x) /\ dict' = [dict EXCEPT ![x.key] = x.val]
      BY <1>3, <1>5 DEF s
    <3> QED BY <1>1, <1>3, <2>1, <3>1, <3>2, PutEntry
  <2>4. Agrees(tbl)' /\ Covers(tbl)'
    BY <2>3 DEF Agrees, Covers, Present, Used
  <2> QED BY <1>1, <1>5, <2>2, <2>4 DEF Map
<1> QED BY <1>1, <1>5, <1>7, <1>8, <1>9 DEF IInv

(* An entry put in the table that ht_double_table then copies.             *)
LEMMA GrowOK ==
  ASSUME IInv, Idle, NEW k \in Keys, NEW v \in Vals, InsertGrow(k, v)
  PROVE  IInv'
<1> DEFINE n == tbl_size
           s == ht_index(k)
           x == [key |-> k, val |-> v]
<1>1. TypeOK /\ died = "no" /\ SizeIsUsed /\ ~doubling
  BY DEF IInv, Idle
<1>2. /\ n \in Nat /\ n >= 4 /\ size \in Nat /\ tbl \in Tables(n)
      /\ dict \in [Keys -> Vals \cup {None}]
  BY <1>1 DEF TypeOK
<1>3. x \in Entry /\ x.key = k /\ x.val = v
  BY DEF Entry
<1>4. s \in 0 .. n - 1 /\ tbl[s] = Free
  BY <1>1, Search DEF InsertGrow
<1>5. /\ old_tbl' = Put(tbl, s, x)
      /\ dict' = [dict EXCEPT ![k] = v]
      /\ old_size' = size + 1 /\ size' = 0 /\ tbl_size' = 2 * n /\ i' = 0
      /\ hash' = hash /\ holed' = holed
  BY DEF InsertGrow, Put
<1>6. \/ tbl' = NewTable(2 * n) /\ doubling' = TRUE /\ died' = "no"
      \/ tbl' = << >> /\ doubling' = FALSE /\ died' = "nomem"
  BY DEF InsertGrow
<1> HIDE DEF x
<1>7. dict' \in [Keys -> Vals \cup {None}]
  BY <1>2, <1>5
<1>8. CASE died' = "nomem"
  <2>1. died' # "no" /\ died' # "size" /\ doubling' = FALSE
    BY <1>6, <1>8
  <2>2. tbl_size' \in Nat /\ tbl_size' >= 4 /\ size' \in Nat /\ old_size' \in Nat /\ i' \in Nat
    BY <1>2, <1>5
  <2>3. TypeOK'
    BY <1>1, <1>5, <1>7, <1>8, <2>1, <2>2 DEF TypeOK
  <2> QED BY <2>1, <2>3 DEF IInv
<1>9. CASE died' = "no"
  <2>1. tbl' = NewTable(2 * n) /\ doubling' = TRUE
    BY <1>6, <1>9
  <2>2. tbl' \in Tables(2 * n) /\ Used(tbl') = {} /\ Cardinality(Used(tbl')) = 0
    BY <1>2, <2>1, EmptyTable
  <2>3. TypeOK'
    BY <1>1, <1>2, <1>5, <1>7, <1>9, <2>1, <2>2 DEF TypeOK, Tables
  <2>4. SizeIsUsed'
    BY <1>2, <1>5, <2>2 DEF SizeIsUsed, Overloaded, Used
  <2>5. old_tbl' \in Tables(n) /\ Cardinality(Used(old_tbl')) = size + 1
    <3>1. old_tbl' \in Tables(n) /\ Cardinality(Used(old_tbl')) = Cardinality(Used(tbl)) + 1
      BY <1>2, <1>3, <1>4, <1>5, UsedPut
    <3> QED BY <1>1, <3>1 DEF SizeIsUsed
  <2>6. OldTypeOK'
    BY <1>2, <1>5, <2>5 DEF OldTypeOK, Tables
  <2>7. Moved' = {}
    <3>1. \A j \in Used(old_tbl') : j \in Nat
      BY <1>2, <2>5, UsedOf
    <3> QED BY <1>5, <3>1 DEF Moved, Used
  <2>8. OldSizeIsUsed'
    <3>1. Cardinality(Moved') = 0
      BY <2>7, FS_EmptySet
    <3>2. ~Overloaded(2 * n, size + 1)
      BY <1>1, <1>2 DEF SizeIsUsed, Overloaded
    <3>3. size' <= Cardinality(Moved')
      BY <1>5, <3>1
    <3>4. old_size' = Cardinality(Used(old_tbl'))
      BY <1>5, <2>5
    <3> QED BY <1>5, <3>2, <3>3, <3>4 DEF OldSizeIsUsed, Used, Overloaded, Moved
  <2>9. ASSUME ~holed PROVE Map'
    <3>1. Paths /\ Agrees(tbl) /\ Covers(tbl)
      BY <1>1, <2>9 DEF IInv, Map
    <3>2. old_tbl' \in Tables(tbl_size) /\ old_tbl' = Put(tbl, ht_index(x.key), x) /\ dict' = [dict EXCEPT ![x.key] = x.val]
      BY <1>3, <1>5, <2>5
    <3>3. /\ Unique(old_tbl')
          /\ \A a \in Used(old_tbl') : dict'[old_tbl'[a].key] = old_tbl'[a].val
          /\ \A j \in Keys : dict'[j] # None => \E a \in Used(old_tbl') : old_tbl'[a].key = j
      BY <1>1, <1>3, <3>1, <3>2, PutEntry
    <3>4. Unique(old_tbl)' /\ Agrees(old_tbl)' /\ Covers(old_tbl)'
      BY <3>3 DEF Unique, Agrees, Covers, Present, Used
    <3>5. Used(tbl)' = {}
      BY <2>2 DEF Used
    <3>6. Paths' /\ Agrees(tbl)' /\ HasMoved'
      BY <2>7, <3>5 DEF Paths, Agrees, HasMoved
    <3> QED BY <2>1, <3>4, <3>6 DEF Map
  <2> QED BY <1>5, <1>9, <2>3, <2>4, <2>6, <2>8, <2>9 DEF IInv
<1> QED BY <1>6, <1>8, <1>9

(* One entry copied by ht_double_table.                                    *)
LEMMA RehashOK ==
  ASSUME IInv, Rehash
  PROVE  IInv'
<1> DEFINE x == old_tbl[i]
           s == ht_index(x.key)
<1>1. TypeOK /\ died = "no" /\ SizeIsUsed /\ doubling /\ OldTypeOK /\ OldSizeIsUsed
  BY DEF IInv, Rehash
<1>2. PICK n \in Nat : n >= 4 /\ tbl_size = 2 * n /\ old_tbl \in Tables(n) /\ i <= n
  BY <1>1 DEF OldTypeOK
<1>3. /\ i \in 0 .. n - 1 /\ tbl_size \in Nat /\ size \in Nat /\ old_size \in Nat
      /\ tbl \in Tables(tbl_size)
  BY <1>1, <1>2 DEF Rehash, TypeOK, Tables
<1>4. /\ i' = i + 1
      /\ hash' = hash /\ tbl_size' = tbl_size
      /\ UNCHANGED <<old_tbl, old_size, doubling, died, dict, holed>>
  BY DEF Rehash
<1>5. OldTypeOK'
  <2>1. i' <= n
    BY <1>3, <1>4
  <2> QED BY <1>2, <1>4, <2>1 DEF OldTypeOK, Tables
<1>6. \A a \in Used(old_tbl) : a \in 0 .. n - 1 /\ old_tbl[a] \in Entry
  BY <1>2, UsedOf
<1>7. i \in Used(old_tbl) <=> x # Free
  BY <1>2, <1>3, UsedOf
<1>8. Moved' = IF x = Free THEN Moved ELSE Moved \cup {i}
  <2>1. \A a \in Used(old_tbl) : a < i' <=> a < i \/ a = i
    BY <1>3, <1>4, <1>6
  <2>2. Moved' = {a \in Used(old_tbl) : a < i'}
    BY <1>4 DEF Moved, Used
  <2> HIDE DEF x
  <2> QED BY <1>7, <2>1, <2>2 DEF Moved
<1>9. /\ IsFiniteSet(Moved) /\ Cardinality(Moved) \in Nat
      /\ IsFiniteSet(Used(old_tbl)) /\ Cardinality(Used(old_tbl)) \in Nat
      /\ i \notin Moved
  <2>1. IsFiniteSet(Used(old_tbl)) /\ Cardinality(Used(old_tbl)) \in Nat
    BY <1>2, UsedOf
  <2>2. Moved \in SUBSET Used(old_tbl)
    BY DEF Moved
  <2>3. IsFiniteSet(Moved)
    BY <2>1, <2>2, FS_Subset
  <2>4. i \notin Moved
    BY <1>3 DEF Moved
  <2> QED BY <2>1, <2>3, <2>4, FS_CardinalityType
<1>10. CASE x = Free
  <2>1. tbl' = tbl /\ size' = size /\ Moved' = Moved
    BY <1>8, <1>10 DEF Rehash
  <2>2. TypeOK'
    BY <1>1, <1>3, <1>4, <2>1 DEF TypeOK, Tables
  <2>3. SizeIsUsed' /\ OldSizeIsUsed'
    BY <1>1, <1>4, <2>1 DEF SizeIsUsed, OldSizeIsUsed, Overloaded, Used
  <2>4. Map => Map'
    BY <1>4, <2>1 DEF Map, Paths, Passes, Slot, Agrees, Covers, Present, Unique, HasMoved, Used
  <2> QED BY <1>1, <1>4, <1>5, <2>2, <2>3, <2>4 DEF IInv
<1>11. CASE x # Free
  <2>1. x \in Entry /\ x.key \in Keys /\ i \in Used(old_tbl) /\ Moved' = Moved \cup {i}
    BY <1>6, <1>7, <1>8, <1>11, EntryNotFree
  <2>2. tbl' = Put(tbl, s, x) /\ size' = size + (IF tbl[s] = Free THEN 1 ELSE 0)
    BY <1>3, <1>11 DEF Rehash, Put
  <2> HIDE DEF x
  <2>3. /\ s \in 0 .. tbl_size - 1
        /\ tbl[s] = Free \/ tbl[s].key = x.key
        /\ \E d \in 0 .. tbl_size - 1 : Slot(x.key, d) = s /\ Passes(x.key, d)
    BY <1>1, <2>1, Search
  <2> HIDE DEF s
  <2>4. /\ tbl' \in Tables(tbl_size)
        /\ Used(tbl') = Used(tbl) \cup {s}
        /\ tbl'[s] = x
        /\ \A a \in 0 .. tbl_size - 1 : a # s => tbl'[a] = tbl[a]
        /\ Cardinality(Used(tbl')) = Cardinality(Used(tbl)) + (IF tbl[s] = Free THEN 1 ELSE 0)
    BY <1>3, <2>1, <2>2, <2>3, UsedPut
  <2>5. TypeOK'
    <3>1. size' \in Nat /\ i' \in Nat
      BY <1>3, <1>4, <2>2
    <3> QED BY <1>1, <1>4, <2>4, <3>1 DEF TypeOK, Tables
  <2>6. size' <= Cardinality(Moved') /\ Cardinality(Moved') <= old_size
    <3>1. Cardinality(Moved \cup {i}) = Cardinality(Moved) + 1
      BY <1>9, FS_AddElement
    <3>2. size <= Cardinality(Moved)
      BY <1>1 DEF OldSizeIsUsed
    <3>3. size' <= Cardinality(Moved')
      BY <1>3, <1>9, <2>1, <2>2, <3>1, <3>2
    <3>4. Moved' \in SUBSET Used(old_tbl)
      BY <2>1 DEF Moved
    <3>5. Cardinality(Moved') <= Cardinality(Used(old_tbl))
      BY <1>9, <3>4, FS_Subset
    <3> QED BY <1>1, <3>3, <3>5 DEF OldSizeIsUsed
  <2>7. OldSizeIsUsed'
    BY <1>1, <1>4, <2>6 DEF OldSizeIsUsed, Overloaded, Used
  <2>8. SizeIsUsed'
    <3>1. size' = Cardinality(Used(tbl'))
      BY <1>1, <2>2, <2>4 DEF SizeIsUsed
    <3>2. size' <= old_size /\ size' \in Nat /\ old_size \in Nat
      <4>1. Cardinality(Moved') \in Nat
        <5>1. IsFiniteSet(Moved \cup {i})
          BY <1>9, FS_AddElement
        <5> QED BY <2>1, <5>1, FS_CardinalityType
      <4> QED BY <1>3, <2>2, <2>6, <4>1
    <3>3. ~Overloaded(tbl_size, size')
      <4>1. tbl_size \in Nat /\ ~Overloaded(tbl_size, old_size)
        BY <1>1, <1>3 DEF OldSizeIsUsed
      <4> QED BY <3>2, <4>1, LessLoaded
    <3> QED BY <1>4, <3>1, <3>3 DEF SizeIsUsed, Used, Overloaded
  <2>9. ASSUME ~holed PROVE Map'
    <3>1. Paths /\ Agrees(tbl) /\ Unique(old_tbl) /\ Agrees(old_tbl) /\ Covers(old_tbl) /\ HasMoved
      BY <1>1, <2>9 DEF IInv, Map
    <3>2. Paths'
      <4>1. PICK d \in 0 .. tbl_size - 1 : Slot(x.key, d) = s /\ Passes(x.key, d)
        BY <2>3
      <4> QED BY <1>1, <1>4, <2>1, <2>2, <2>3, <3>1, <4>1, PutPaths
    <3>3. \A a \in Used(tbl') : a = s \/ (a \in Used(tbl) /\ tbl'[a] = tbl[a])
      BY <1>3, <2>4, UsedOf
    <3>4. Agrees(tbl)'
      <4>1. dict[x.key] = x.val
        BY <2>1, <3>1 DEF Agrees, x
      <4> QED BY <1>4, <2>4, <3>1, <3>3, <4>1 DEF Agrees, Used
    <3>5. Unique(old_tbl)' /\ Agrees(old_tbl)' /\ Covers(old_tbl)'
      BY <1>4, <3>1 DEF Unique, Agrees, Covers, Present, Used
    <3>6. HasMoved'
      <4>1. ASSUME NEW j \in Moved' PROVE \E a \in Used(tbl') : tbl'[a].key = old_tbl[j].key
        <5>1. CASE j = i
          BY <2>4, <5>1 DEF x
        <5>2. CASE j # i
          <6>1. PICK a \in Used(tbl) : tbl[a].key = old_tbl[j].key
            BY <2>1, <3>1, <5>2 DEF HasMoved
          <6>2. a \in 0 .. tbl_size - 1 /\ tbl[a] # Free
            BY <1>3, UsedOf
          <6>3. CASE a = s
            BY <2>3, <2>4, <6>1, <6>2, <6>3
          <6>4. CASE a # s
            BY <2>4, <6>1, <6>2, <6>4
          <6> QED BY <6>3, <6>4
        <5> QED BY <5>1, <5>2
      <4>2. ASSUME NEW a \in Used(tbl') PROVE \E j \in Moved' : tbl'[a].key = old_tbl[j].key
        <5>1. CASE a = s
          BY <2>1, <2>4, <5>1 DEF x
        <5>2. CASE a # s
          BY <2>1, <3>1, <3>3, <5>2 DEF HasMoved
        <5> QED BY <5>1, <5>2
      <4> QED BY <1>4, <4>1, <4>2 DEF HasMoved, Used
    <3> QED BY <1>1, <1>4, <3>2, <3>4, <3>5, <3>6 DEF Map
  <2> QED BY <1>1, <1>4, <1>5, <2>5, <2>7, <2>8, <2>9 DEF IInv
<1> QED BY <1>10, <1>11

(* The end of ht_double_table: when no remove has made a hole its check    *)
(* passes.                                                                 *)
LEMMA RehashDoneOK ==
  ASSUME IInv, RehashDone
  PROVE  IInv'
<1>1. TypeOK /\ died = "no" /\ SizeIsUsed /\ doubling /\ OldTypeOK /\ OldSizeIsUsed
  BY DEF IInv, RehashDone
<1>2. PICK n \in Nat : n >= 4 /\ tbl_size = 2 * n /\ old_tbl \in Tables(n) /\ i <= n
  BY <1>1 DEF OldTypeOK
<1>3. tbl_size \in Nat /\ tbl \in Tables(tbl_size) /\ i \in Nat
  BY <1>1 DEF TypeOK
<1>4. /\ UNCHANGED <<hash, tbl, tbl_size, size, old_size, i, dict, holed>>
      /\ doubling' = FALSE
      /\ died' = IF size = old_size THEN "no" ELSE "size"
  BY DEF RehashDone
<1>5. TypeOK'
  BY <1>1, <1>3, <1>4 DEF TypeOK, Tables
<1>6. SizeIsUsed'
  BY <1>1, <1>4 DEF SizeIsUsed, Overloaded, Used
<1>7. Moved = Used(old_tbl)
  <2>1. i >= n
    BY <1>2, <1>3 DEF RehashDone, Tables
  <2>2. \A a \in Used(old_tbl) : a \in 0 .. n - 1
    BY <1>2, UsedOf
  <2>3. \A a \in Used(old_tbl) : a < i
    BY <1>3, <2>1, <2>2
  <2> QED BY <2>3 DEF Moved
<1>8. ASSUME ~holed PROVE size = old_size /\ Map'
  <2>1. Paths /\ Agrees(tbl) /\ Unique(old_tbl) /\ Agrees(old_tbl) /\ Covers(old_tbl) /\ HasMoved
    BY <1>1, <1>8 DEF IInv, Map
  <2>2. Unique(tbl)
    BY <1>1, <2>1, OneSlotPerKey
  <2>3. Covers(tbl)
    BY <1>7, <2>1 DEF Covers, HasMoved
  <2>4. Cardinality(Used(tbl)) = Cardinality(Present) /\ Cardinality(Used(old_tbl)) = Cardinality(Present)
    BY <1>1, <1>2, <1>3, <2>1, <2>2, <2>3, CountKeys
  <2>5. size = old_size
    BY <1>1, <2>4 DEF SizeIsUsed, OldSizeIsUsed
  <2>6. Map'
    BY <1>4, <2>1, <2>3 DEF Map, Paths, Passes, Slot, Agrees, Covers, Present, Used
  <2> QED BY <2>5, <2>6
<1> QED BY <1>4, <1>5, <1>6, <1>8 DEF IInv

(* Removing a key.  A slot emptied in front of a free one is on no probe   *)
(* path but that to itself.                                                *)
LEMMA RemoveOK ==
  ASSUME IInv, Idle, NEW k \in Keys, Remove(k)
  PROVE  IInv'
<1> DEFINE s == ht_index(k)
           next == (s + 1) % tbl_size
<1>1. TypeOK /\ died = "no" /\ SizeIsUsed /\ ~doubling
  BY DEF IInv, Idle
<1>2. /\ tbl_size \in Nat \ {0} /\ size \in Nat /\ tbl \in Tables(tbl_size)
      /\ hash \in [Keys -> Nat]
      /\ dict \in [Keys -> Vals \cup {None}]
  BY <1>1 DEF TypeOK
<1>3. /\ s \in 0 .. tbl_size - 1
      /\ tbl[s] = Free \/ (s \in Used(tbl) /\ tbl[s].key = k)
  BY <1>1, Search
<1>4. /\ tbl' = Put(tbl, s, Free)
      /\ size' = IF tbl[s] # Free THEN size - 1 ELSE size
      /\ holed' = (holed \/ (tbl[s] # Free /\ tbl[next] # Free))
      /\ dict' = [dict EXCEPT ![k] = None]
      /\ UNCHANGED <<hash, tbl_size, old_tbl, old_size, i, doubling, died>>
  BY DEF Remove, Put
<1>5. /\ \A a \in 0 .. tbl_size - 1 : a # s => tbl'[a] = tbl[a]
      /\ tbl' \in Tables(tbl_size)
      /\ Used(tbl') = Used(tbl) \ {s}
      /\ Cardinality(Used(tbl')) = Cardinality(Used(tbl)) - (IF tbl[s] = Free THEN 0 ELSE 1)
  BY <1>2, <1>3, <1>4, UsedFree
<1>6. \A a \in Used(tbl) : a \in 0 .. tbl_size - 1 /\ tbl[a] # Free /\ tbl[a].key \in Keys
  BY <1>2, UsedOf
<1>7. (\A j \in Keys : j # k => dict'[j] = dict[j]) /\ dict'[k] = None
  BY <1>2, <1>4
<1> HIDE DEF s
<1>8. size' = Cardinality(Used(tbl')) /\ size' \in Nat
  <2>1. Cardinality(Used(tbl')) \in Nat
    BY <1>2, <1>5, UsedOf
  <2> QED BY <1>1, <1>4, <1>5, <2>1 DEF SizeIsUsed
<1>9. TypeOK'
  <2>1. dict' \in [Keys -> Vals \cup {None}] /\ holed' \in BOOLEAN
    BY <1>1, <1>2, <1>4 DEF TypeOK
  <2> QED BY <1>1, <1>4, <1>5, <1>8, <2>1 DEF TypeOK, Tables
<1>10. SizeIsUsed'
  <2>1. ~Overloaded(tbl_size, size')
    <3>1. size' <= size /\ ~Overloaded(tbl_size, size)
      BY <1>1, <1>2, <1>4 DEF SizeIsUsed
    <3> QED BY <1>2, <1>8, <3>1 DEF Overloaded
  <2> QED BY <1>4, <1>8, <2>1 DEF SizeIsUsed, Used, Overloaded
<1>11. ASSUME ~holed, tbl[s] # Free => tbl[next] = Free PROVE Map'
  <2>1. Paths /\ Agrees(tbl) /\ Covers(tbl)
    BY <1>1, <1>11 DEF IInv, Map
  <2>2. \A a \in Used(tbl) : tbl[a].key = k => a = s
    BY <1>1, <2>1, Found DEF s
  <2>3. Paths'
    <3>1. ASSUME NEW a \in Used(tbl')
          PROVE  \E c \in 0 .. tbl_size - 1 :
                   /\ Slot(tbl'[a].key, c) = a
                   /\ \A e \in 0 .. c - 1 : /\ tbl'[Slot(tbl'[a].key, e)] # Free
                                            /\ tbl'[Slot(tbl'[a].key, e)].key # tbl'[a].key
      <4> DEFINE j == tbl[a].key
      <4>1. a \in Used(tbl) /\ a # s /\ tbl'[a] = tbl[a] /\ j \in Keys /\ tbl[a] # Free
        BY <1>5, <1>6
      <4>2. PICK c \in 0 .. tbl_size - 1 : Slot(j, c) = a /\ Passes(j, c)
        BY <2>1, <4>1 DEF Paths
      <4> HIDE DEF j
      <4>3. ASSUME NEW e \in 0 .. c - 1
            PROVE  tbl'[Slot(j, e)] # Free /\ tbl'[Slot(j, e)].key # j
        <5>1. tbl[Slot(j, e)] # Free /\ tbl[Slot(j, e)].key # j
          BY <4>2 DEF Passes
        <5>2. Slot(j, e) \in 0 .. tbl_size - 1
          BY <1>1, <1>2, <4>1, SlotIn
        <5>3. ASSUME Slot(j, e) = s PROVE FALSE
          <6>1. tbl[next] = Free
            BY <1>11, <5>1, <5>3
          <6>2. Slot(j, e + 1) = next
            <7>1. hash[j] + e \in Nat
              BY <1>2, <4>1
            <7>2. (hash[j] + e + 1) % tbl_size = (((hash[j] + e) % tbl_size) + 1) % tbl_size
              BY <1>2, <7>1, ModNext
            <7>3. hash[j] + e + 1 = hash[j] + (e + 1)
              BY <1>2, <4>1
            <7> QED BY <5>3, <7>2, <7>3 DEF Slot
          <6>3. e + 1 # c
            BY <4>1, <4>2, <6>1, <6>2
          <6>4. e + 1 \in 0 .. c - 1
            BY <1>2, <6>3
          <6> QED BY <4>2, <6>1, <6>2, <6>4 DEF Passes
        <5> QED BY <1>5, <5>1, <5>2, <5>3
      <4> QED BY <4>1, <4>2, <4>3 DEF j
    <3> QED BY <1>4, <3>1 DEF Paths, Passes, Slot
  <2>4. Agrees(tbl)'
    <3>1. \A a \in Used(tbl') : a \in Used(tbl) /\ tbl'[a] = tbl[a] /\ tbl[a].key \in Keys /\ tbl[a].key # k
      BY <1>5, <1>6, <2>2
    <3> QED BY <1>7, <2>1, <3>1 DEF Agrees, Used
  <2>5. Covers(tbl)'
    <3>1. ASSUME NEW j \in Keys, dict'[j] # None
          PROVE  \E a \in Used(tbl') : tbl'[a].key = j
      <4>1. j # k /\ j \in Present
        BY <1>7, <3>1 DEF Present
      <4>2. PICK a \in Used(tbl) : tbl[a].key = j
        BY <2>1, <4>1 DEF Covers
      <4>3. a # s
        BY <1>3, <1>6, <4>1, <4>2
      <4> QED BY <1>5, <1>6, <4>2, <4>3
    <3> QED BY <3>1 DEF Covers, Present, Used
  <2> QED BY <1>1, <1>4, <2>3, <2>4, <2>5 DEF Map
<1> QED BY <1>1, <1>4, <1>9, <1>10, <1>11 DEF IInv

LEMMA StutterOK ==
  ASSUME IInv, UNCHANGED vars
  PROVE  IInv'
BY DEF vars, IInv, TypeOK, Tables, SizeIsUsed, OldTypeOK, OldSizeIsUsed, Overloaded, Moved, Used,
       Map, Paths, Passes, Slot, Unique, Agrees, Covers, Present, HasMoved

-----------------------------------------------------------------------------
LEMMA StepOK == IInv /\ [Next]_vars => IInv'
<1> SUFFICES ASSUME IInv, [Next]_vars PROVE IInv'
  OBVIOUS
<1>1. ASSUME NEW k \in Keys, NEW v \in Vals, InsertOver(k, v) \/ InsertNew(k, v) PROVE IInv'
  BY <1>1, PutOK DEF InsertOver, InsertNew
<1>2. ASSUME NEW k \in Keys, NEW v \in Vals, InsertGrow(k, v) PROVE IInv'
  BY <1>2, GrowOK DEF InsertGrow
<1>3. ASSUME NEW k \in Keys, Remove(k) PROVE IInv'
  BY <1>3, RemoveOK DEF Remove
<1>4. CASE Rehash
  BY <1>4, RehashOK
<1>5. CASE RehashDone
  BY <1>5, RehashDoneOK
<1>6. CASE UNCHANGED vars
  BY <1>6, StutterOK
<1> QED BY <1>1, <1>2, <1>3, <1>4, <1>5, <1>6 DEF Next, insert

(* Every reachable state of the table satisfies the invariant.             *)
THEOREM Invariance == Spec => []IInv
BY InitOK, StepOK, PTL DEF Spec

LEMMA PathsFromIInv == IInv => ProbePathsUnbroken
<1> SUFFICES ASSUME IInv PROVE ProbePathsUnbroken
  OBVIOUS
<1>1. ASSUME died = "no", ~holed
      PROVE  \A s \in Used(tbl) :
               \E d \in 0 .. tbl_size - 1 :
                 /\ Slot(tbl[s].key, d) = s
                 /\ \A e \in 0 .. d - 1 : /\ tbl[Slot(tbl[s].key, e)] # Free
                                          /\ tbl[Slot(tbl[s].key, e)].key # tbl[s].key
  BY <1>1 DEF IInv, Map, Paths, Passes
<1>2. ASSUME died = "no", NEW k \in Keys PROVE IndexOK(k)
  BY <1>2, Search DEF IInv
<1>3. ASSUME died = "no" PROVE ~Overloaded(tbl_size, size)
  BY <1>3 DEF IInv, SizeIsUsed
<1>4. died = "size" => holed
  BY DEF IInv
<1> QED BY <1>1, <1>2, <1>3, <1>4 DEF ProbePathsUnbroken

LEMMA MapFromIInv == IInv => TableIsMap
<1> SUFFICES ASSUME IInv, Idle, ~holed
             PROVE  (\A k \in Keys : lookup(k) = dict[k]) /\ size = Cardinality(Present)
  BY DEF TableIsMap, Present
<1>1. TypeOK /\ died = "no" /\ SizeIsUsed /\ Paths /\ Agrees(tbl) /\ Covers(tbl)
  BY DEF IInv, Idle, Map
<1>2. tbl_size \in Nat /\ tbl \in Tables(tbl_size) /\ dict \in [Keys -> Vals \cup {None}]
  BY <1>1 DEF TypeOK
<1>3. size = Cardinality(Present)
  <2>1. Unique(tbl)
    BY <1>1, OneSlotPerKey
  <2>2. Cardinality(Used(tbl)) = Cardinality(Present)
    BY <1>1, <1>2, <2>1, CountKeys
  <2> QED BY <1>1, <2>2 DEF SizeIsUsed
<1>4. ASSUME NEW k \in Keys PROVE lookup(k) = dict[k]
  <2>1. tbl[ht_index(k)] = Free \/ (ht_index(k) \in Used(tbl) /\ tbl[ht_index(k)].key = k)
    BY <1>1, Search
  <2>2. CASE tbl[ht_index(k)] = Free
    <3>1. k \notin Present
      BY <1>1, <2>2, Absent
    <3> QED BY <2>2, <3>1 DEF lookup, Present
  <2>3. CASE ht_index(k) \in Used(tbl) /\ tbl[ht_index(k)].key = k
    <3>1. tbl[ht_index(k)] # Free
      BY <1>2, <2>3, UsedOf
    <3> QED BY <1>1, <2>3, <3>1 DEF lookup, Agrees
  <2> QED BY <2>1, <2>2, <2>3
<1> QED BY <1>3, <1>4

(* While no remove has emptied a slot in front of a used one, no probe     *)
(* path is broken, whatever the keys, their hashes and the calls; and      *)
(* ht_index never fails, nor does ht_double_table before such a remove.    *)
THEOREM PathsCorrect == Spec => []ProbePathsUnbroken
BY Invariance, PathsFromIInv, PTL

(* Until then lookup returns what insert last gave the key, or nothing     *)
(* after a remove, and size is the number of keys.                         *)
THEOREM MapCorrect == Spec => []TableIsMap
BY Invariance, MapFromIInv, PTL

-----------------------------------------------------------------------------
(* The iteration.                                                          *)

ItTypeOK ==
  /\ it \in [state: {"new", "on", "end", "warned"}, i: Nat, size: Nat, tbl_size: Nat]
  /\ kept \subseteq Present

(* The size of the table tells the iterator about every doubling, finished *)
(* or not.                                                                 *)
ItSize == it.state = "on" => it.tbl_size < tbl_size \/ (it.tbl_size = tbl_size /\ Idle)

(* Of the keys that stay, those in front of it->i have been returned and   *)
(* the others have not.                                                    *)
HalfWay ==
  /\ \A s \in Used(tbl) : tbl[s].key \in kept => (tbl[s].key \in seen <=> s < it.i)
  /\ kept \cap twice = {}

ItInv ==
  /\ ItTypeOK
  /\ ItSize
  /\ ~holed /\ it.state = "on" /\ it.tbl_size = tbl_size => HalfWay
  /\ IterReturnsKept

-----------------------------------------------------------------------------
LEMMA ItInitOK == IInit => IInv /\ ItInv
<1> SUFFICES ASSUME IInit PROVE IInv /\ ItInv
  OBVIOUS
<1>1. IInv
  BY InitOK DEF IInit
<1>2. ItInv
  BY DEF IInit, NoIter, ItInv, ItTypeOK, ItSize, IterReturnsKept
<1> QED BY <1>1, <1>2

(* A call that does not double the table leaves the keys that stay where   *)
(* they are.                                                               *)
LEMMA KeptStay ==
  ASSUME IInv, ItInv, Idle, ~holed, TableCall, tbl_size' = tbl_size
  PROVE  \A a \in Used(tbl') : tbl'[a].key \in kept' => a \in Used(tbl) /\ tbl'[a].key = tbl[a].key
<1>1. TypeOK /\ died = "no" /\ SizeIsUsed /\ Paths /\ Covers(tbl)
  BY DEF IInv, Idle, Map
<1>2. tbl_size \in Nat /\ tbl_size >= 4 /\ tbl \in Tables(tbl_size)
  BY <1>1 DEF TypeOK
<1>3. kept' \subseteq kept /\ kept \subseteq Present
  BY DEF TableCall, ItInv, ItTypeOK
<1>4. ASSUME NEW k \in Keys, NEW v \in Vals, InsertOver(k, v) \/ InsertNew(k, v)
      PROVE  \A a \in Used(tbl') : tbl'[a].key \in kept => a \in Used(tbl) /\ tbl'[a].key = tbl[a].key
  <2> DEFINE s == ht_index(k)
             x == [key |-> k, val |-> v]
  <2>1. x \in Entry /\ x.key = k
    BY DEF Entry
  <2>2. tbl' = Put(tbl, s, x)
    BY <1>4 DEF InsertOver, InsertNew, Put
  <2>3. s \in 0 .. tbl_size - 1 /\ (tbl[s] = Free \/ (s \in Used(tbl) /\ tbl[s].key = k))
    BY <1>1, Search
  <2>4. tbl[s] = Free => k \notin kept
    BY <1>1, <1>3, Absent
  <2> HIDE DEF s, x
  <2>5. /\ Used(tbl') = Used(tbl) \cup {s}
        /\ tbl'[s] = x
        /\ \A a \in 0 .. tbl_size - 1 : a # s => tbl'[a] = tbl[a]
    BY <1>2, <2>1, <2>2, <2>3, UsedPut
  <2>6. \A a \in Used(tbl) : a \in 0 .. tbl_size - 1
    BY <1>2, UsedOf
  <2> QED BY <2>1, <2>3, <2>4, <2>5, <2>6
<1>5. ASSUME NEW k \in Keys, Remove(k)
      PROVE  \A a \in Used(tbl') : a \in Used(tbl) /\ tbl'[a] = tbl[a]
  <2>1. tbl' = Put(tbl, ht_index(k), Free)
    BY <1>5 DEF Remove, Put
  <2>2. ht_index(k) \in 0 .. tbl_size - 1
    BY <1>1, Search
  <2>3. /\ Used(tbl') = Used(tbl) \ {ht_index(k)}
        /\ \A a \in 0 .. tbl_size - 1 : a # ht_index(k) => tbl'[a] = tbl[a]
    BY <1>2, <2>1, <2>2, UsedFree
  <2>4. \A a \in Used(tbl) : a \in 0 .. tbl_size - 1
    BY <1>2, UsedOf
  <2> QED BY <2>3, <2>4
<1>6. ASSUME NEW k \in Keys, NEW v \in Vals, InsertGrow(k, v) PROVE FALSE
  BY <1>2, <1>6 DEF InsertGrow
<1>7. ~Rehash /\ ~RehashDone
  BY DEF Idle, Rehash, RehashDone
<1> QED BY <1>3, <1>4, <1>5, <1>6, <1>7 DEF TableCall, Next, insert

LEMMA TableCallOK ==
  ASSUME IInv, IInv', ItInv, TableCall
  PROVE  ItInv'
<1>1. tbl_size \in Nat /\ tbl_size >= 4 /\ it.tbl_size \in Nat
  BY DEF IInv, TypeOK, ItInv, ItTypeOK
<1>2. it' = it /\ seen' = seen /\ twice' = twice /\ kept' = {k \in kept : dict'[k] # None}
  BY DEF TableCall
<1>3. ItTypeOK'
  BY <1>2 DEF ItInv, ItTypeOK, Present
<1>4. \/ tbl_size' = tbl_size /\ (Idle => Idle')
      \/ tbl_size' = 2 * tbl_size
  BY DEF TableCall, Next, insert, InsertOver, InsertNew, InsertGrow, Rehash, RehashDone, Remove, Idle
<1>5. holed => holed'
  BY DEF TableCall, Next, insert, InsertOver, InsertNew, InsertGrow, Rehash, RehashDone, Remove
<1>6. ItSize'
  <2>1. CASE tbl_size' = 2 * tbl_size
    BY <1>1, <1>2, <2>1 DEF ItInv, ItSize
  <2>2. CASE tbl_size' = tbl_size /\ (Idle => Idle')
    BY <1>1, <1>2, <2>2 DEF ItInv, ItSize
  <2> QED BY <1>4, <2>1, <2>2
<1>7. ASSUME ~holed', it.state = "on", it.tbl_size = tbl_size' PROVE HalfWay'
  <2>1. tbl_size' = tbl_size /\ Idle
    BY <1>1, <1>4, <1>7 DEF ItInv, ItSize
  <2>2. HalfWay
    BY <1>5, <1>7, <2>1 DEF ItInv
  <2>3. \A a \in Used(tbl') : tbl'[a].key \in kept' => a \in Used(tbl) /\ tbl'[a].key = tbl[a].key
    BY <1>5, <1>7, <2>1, KeptStay
  <2> QED BY <1>2, <2>2, <2>3 DEF HalfWay, Used
<1>8. IterReturnsKept'
  BY <1>2, <1>5 DEF ItInv, IterReturnsKept
<1> QED BY <1>2, <1>3, <1>6, <1>7, <1>8 DEF ItInv

LEMMA IterInitOK ==
  ASSUME IInv, iter_init
  PROVE  ItInv'
<1>1. /\ tbl_size \in Nat /\ size \in Nat /\ died = "no" /\ ~doubling
      /\ tbl \in Tables(tbl_size)
  BY DEF IInv, TypeOK, iter_init, Idle
<1>2. /\ it' = [state |-> "on", i |-> 0, size |-> size, tbl_size |-> tbl_size]
      /\ seen' = {} /\ twice' = {} /\ kept' = Present
      /\ UNCHANGED vars
  BY DEF iter_init, Present
<1>3. ItTypeOK'
  BY <1>1, <1>2 DEF ItTypeOK, Present, vars
<1>4. ItSize'
  BY <1>1, <1>2 DEF ItSize, Idle, vars
<1>5. HalfWay'
  <2>1. \A s \in Used(tbl) : s \in Nat
    BY <1>1, UsedOf
  <2>2. Used(tbl)' = Used(tbl) /\ it'.i = 0
    BY <1>2 DEF Used, vars
  <2>3. \A s \in Used(tbl) : ~(s < 0)
    BY <2>1
  <2> QED BY <1>2, <2>2, <2>3 DEF HalfWay
<1>6. IterReturnsKept'
  BY <1>2 DEF IterReturnsKept
<1> QED BY <1>3, <1>4, <1>5, <1>6 DEF ItInv

LEMMA IterNextOK ==
  ASSUME IInv, ItInv, iter_next
  PROVE  ItInv'
<1>1. /\ TypeOK /\ died = "no" /\ SizeIsUsed /\ ~doubling
      /\ tbl_size \in Nat /\ tbl \in Tables(tbl_size)
      /\ it \in [state: {"new", "on", "end", "warned"}, i: Nat, size: Nat, tbl_size: Nat]
      /\ it.state = "on" /\ it.i \in Nat
  BY DEF IInv, TypeOK, ItInv, ItTypeOK, iter_next, Idle
<1>2. UNCHANGED vars /\ kept' = kept
  BY DEF iter_next
<1>3. Used(tbl)' = Used(tbl) /\ Present' = Present /\ (Idle <=> Idle')
  BY <1>2 DEF Used, Present, Idle, vars
<1>4. kept \subseteq Present
  BY DEF ItInv, ItTypeOK
<1>5. CASE Changed /\ it' = [it EXCEPT !.state = "warned"]
  <2>1. it'.state = "warned" /\ ItTypeOK'
    BY <1>1, <1>2, <1>3, <1>4, <1>5 DEF ItTypeOK
  <2> QED BY <2>1 DEF ItInv, ItSize, IterReturnsKept
<1>6. CASE /\ ~Changed /\ Rest = {}
           /\ it' = [it EXCEPT !.state = "end", !.i = it.tbl_size]
           /\ UNCHANGED <<seen, twice>>
  <2>1. it'.state = "end" /\ ItTypeOK'
    BY <1>1, <1>2, <1>3, <1>4, <1>6 DEF ItTypeOK
  <2>2. ASSUME ~holed PROVE kept \subseteq seen /\ kept \cap twice = {}
    <3>1. HalfWay
      BY <1>1, <1>6, <2>2 DEF ItInv, Changed
    <3>2. \A s \in Used(tbl) : s \in Nat /\ s < it.i
      <4>1. \A s \in Used(tbl) : s \in Nat
        BY <1>1, UsedOf
      <4> QED BY <1>1, <1>6, <4>1 DEF Rest
    <3>3. Covers(tbl)
      BY <1>1, <2>2 DEF IInv, Map
    <3> QED BY <1>4, <3>1, <3>2, <3>3 DEF HalfWay, Covers
  <2>3. IterReturnsKept'
    BY <1>2, <1>6, <2>2 DEF IterReturnsKept, vars
  <2> QED BY <2>1, <2>3 DEF ItInv, ItSize
<1>7. CASE /\ ~Changed /\ Rest # {}
           /\ LET s == Min(Rest)
              IN  /\ it' = [it EXCEPT !.i = s + 1]
                  /\ twice' = IF tbl[s].key \in seen THEN twice \cup {tbl[s].key} ELSE twice
                  /\ seen' = seen \cup {tbl[s].key}
  <2> DEFINE s == Min(Rest)
             k == tbl[s].key
  <2>1. \A a \in Used(tbl) : a \in Nat
    BY <1>1, UsedOf
  <2>2. s \in Rest /\ \A a \in Rest : s <= a
    <3>1. Rest \in SUBSET Nat
      BY <2>1 DEF Rest
    <3> QED BY <1>7, <3>1, MinOfNats
  <2>3. /\ it' = [it EXCEPT !.i = s + 1]
        /\ twice' = IF k \in seen THEN twice \cup {k} ELSE twice
        /\ seen' = seen \cup {k}
    BY <1>7
  <2> HIDE DEF s
  <2>4. s \in Nat /\ s \in Used(tbl) /\ it.i <= s /\ \A a \in Used(tbl) : a < it.i \/ s <= a
    BY <1>1, <2>1, <2>2 DEF Rest
  <2>5. it'.state = "on" /\ it'.i = s + 1 /\ it'.tbl_size = it.tbl_size /\ ItTypeOK'
    BY <1>1, <1>2, <1>3, <1>4, <2>3, <2>4 DEF ItTypeOK
  <2>6. ItSize'
    BY <1>1, <1>2, <1>3, <2>5 DEF ItInv, ItSize, vars
  <2>7. ASSUME ~holed PROVE HalfWay'
    <3>1. HalfWay
      BY <1>1, <1>7, <2>7 DEF ItInv, Changed
    <3>2. Unique(tbl)
      BY <1>1, <2>7, OneSlotPerKey DEF IInv, Map
    <3>3. ASSUME NEW a \in Used(tbl), tbl[a].key \in kept
          PROVE  tbl[a].key \in seen' <=> a < s + 1
      <4>1. tbl[a].key \in seen <=> a < it.i
        BY <3>1, <3>3 DEF HalfWay
      <4>2. tbl[a].key = k <=> a = s
        BY <2>4, <3>2 DEF Unique
      <4>3. a < s + 1 <=> a < it.i \/ a = s
        BY <1>1, <2>1, <2>4
      <4> QED BY <2>3, <4>1, <4>2, <4>3
    <3>4. kept \cap twice' = {}
      <4>1. k \in kept => k \notin seen
        BY <1>1, <2>4, <3>1 DEF HalfWay
      <4> QED BY <2>3, <3>1, <4>1 DEF HalfWay
    <3> QED BY <1>2, <1>3, <2>5, <3>3, <3>4 DEF HalfWay, vars
  <2>8. IterReturnsKept'
    BY <2>5 DEF IterReturnsKept
  <2> QED BY <1>2, <2>5, <2>6, <2>7, <2>8 DEF ItInv, vars
<1> QED BY <1>5, <1>6, <1>7 DEF iter_next

LEMMA ItStepOK == IInv /\ ItInv /\ [INext]_<<vars, ivars>> => (IInv /\ ItInv)'
<1> SUFFICES ASSUME IInv, ItInv, [INext]_<<vars, ivars>> PROVE IInv' /\ ItInv'
  OBVIOUS
<1>1. IInv'
  BY StepOK DEF INext, TableCall, iter_init, iter_next
<1>2. CASE TableCall
  BY <1>1, <1>2, TableCallOK
<1>3. CASE iter_init
  BY <1>1, <1>3, IterInitOK
<1>4. CASE iter_next
  BY <1>1, <1>4, IterNextOK
<1>5. CASE UNCHANGED <<vars, ivars>>
  BY <1>1, <1>5 DEF vars, ivars, ItInv, ItTypeOK, ItSize, HalfWay, IterReturnsKept, Idle, Used, Present
<1> QED BY <1>1, <1>2, <1>3, <1>4, <1>5 DEF INext

(* With calls on the table between those on the iterator, an iteration     *)
(* that sd_hash_table_iter_next does not break off returns each key that   *)
(* stays in the table exactly once.                                        *)
THEOREM IterationComplete == ISpec => []IterReturnsKept
<1>1. ISpec => [](IInv /\ ItInv)
  BY ItInitOK, ItStepOK, PTL DEF ISpec
<1>2. IInv /\ ItInv => IterReturnsKept
  BY DEF ItInv
<1> QED BY <1>1, <1>2, PTL

-----------------------------------------------------------------------------
(* Slices.                                                                 *)

\* a slice of any capacity, and calls on it
SliceSpec == (\E cap \in Nat : SliceInit(cap)) /\ [][SliceNext]_sliceVars

Slices ==
  {s \in [elems : Seq(Elems \cup {NULL}), len : Nat, cap : Nat] :
     s.len <= s.cap /\ Len(s.elems) = s.cap}

\* the slots in use of s are the last elements of a
Holds(s, a) ==
  /\ s \in Slices /\ a \in Seq(Elems) /\ s.len <= Len(a)
  /\ \A j \in 1 .. s.len : s.elems[j] = a[Len(a) - s.len + j]

SliceIInv == Holds(slice, appended) /\ forgotten \in BOOLEAN /\ (~ forgotten => slice.len = Len(appended))

-----------------------------------------------------------------------------
(* One element.                                                            *)

\* the array after room was made for one more
Roomy(s) == Grow(s.elems, IF s.cap = 0 THEN 2 ELSE IF s.len = s.cap THEN s.cap * 2 ELSE s.cap)

LEMMA GrowKeeps ==
  ASSUME NEW l \in Seq(Elems \cup {NULL}), NEW n \in Nat, n >= Len(l)
  PROVE  /\ Grow(l, n) \in Seq(Elems \cup {NULL}) /\ Len(Grow(l, n)) = n
         /\ \A j \in 1 .. Len(l) : Grow(l, n)[j] = l[j]
BY DEF Grow

LEMMA AppendedHolds ==
  ASSUME NEW s, NEW a, Holds(s, a), NEW e \in Elems
  PROVE  Holds(Appended(s, e), Append(a, e)) /\ Appended(s, e).len = s.len + 1
<1> DEFINE n == IF s.cap = 0 THEN 2 ELSE IF s.len = s.cap THEN s.cap * 2 ELSE s.cap
           g == Grow(s.elems, n)
           f == [g EXCEPT ![s.len + 1] = e]
           y == Appended(s, e)
<1>1. /\ s.elems \in Seq(Elems \cup {NULL}) /\ s.len \in Nat /\ s.cap \in Nat
      /\ s.len <= s.cap /\ Len(s.elems) = s.cap /\ a \in Seq(Elems) /\ s.len <= Len(a)
      /\ \A j \in 1 .. s.len : s.elems[j] = a[Len(a) - s.len + j]
  BY DEF Holds, Slices
<1>2. n \in Nat /\ n >= s.cap /\ s.len + 1 <= n
  BY <1>1
<1>3. y = [elems |-> f, len |-> s.len + 1, cap |-> n]
  BY DEF Appended
<1> HIDE DEF n, y
<1>4. /\ g \in Seq(Elems \cup {NULL}) /\ Len(g) = n
      /\ \A j \in 1 .. s.cap : g[j] = s.elems[j]
  BY <1>1, <1>2, GrowKeeps
<1> HIDE DEF g
<1>5. /\ f \in Seq(Elems \cup {NULL}) /\ Len(f) = n /\ f[s.len + 1] = e
      /\ \A j \in 1 .. s.len : f[j] = g[j]
  BY <1>1, <1>2, <1>4
<1> HIDE DEF f
<1>6. y.elems = f /\ y.len = s.len + 1 /\ y.cap = n /\ y \in Slices
  BY <1>1, <1>2, <1>3, <1>5 DEF Slices
<1>7. /\ Append(a, e) \in Seq(Elems) /\ Len(Append(a, e)) = Len(a) + 1
      /\ Append(a, e)[Len(a) + 1] = e /\ \A j \in 1 .. Len(a) : Append(a, e)[j] = a[j]
  BY <1>1
<1>8. ASSUME NEW j \in 1 .. s.len + 1
      PROVE  f[j] = Append(a, e)[Len(a) + 1 - (s.len + 1) + j]
  <2>1. CASE j = s.len + 1
    BY <1>1, <1>5, <1>7, <2>1
  <2>2. CASE j # s.len + 1
    <3>1. j \in 1 .. s.len /\ j \in 1 .. s.cap
      BY <1>1, <2>2
    <3>2. f[j] = a[Len(a) - s.len + j]
      BY <1>1, <1>4, <1>5, <3>1
    <3>3. Len(a) - s.len + j \in 1 .. Len(a) /\ Len(a) + 1 - (s.len + 1) + j = Len(a) - s.len + j
      BY <1>1, <3>1
    <3> QED BY <1>7, <3>2, <3>3
  <2> QED BY <2>1, <2>2
<1>9. \A j \in 1 .. y.len : y.elems[j] = Append(a, e)[Len(Append(a, e)) - y.len + j]
  <2>1. Len(Append(a, e)) - y.len = Len(a) + 1 - (s.len + 1) /\ 1 .. y.len = 1 .. s.len + 1
    <3>1. Len(a) \in Nat /\ s.len \in Nat /\ Len(Append(a, e)) = Len(a) + 1 /\ y.len = s.len + 1
      BY <1>1, <1>6, <1>7
    <3> QED BY <3>1
  <2> QED BY <1>6, <1>8, <2>1
<1>10. y.len <= Len(Append(a, e))
  BY <1>1, <1>6, <1>7
<1>11. Holds(y, Append(a, e)) /\ y.len = s.len + 1
  BY <1>6, <1>7, <1>9, <1>10 DEF Holds
<1> QED BY <1>11 DEF y

LEMMA EmptiedHolds ==
  ASSUME NEW a \in Seq(Elems)
  PROVE  Holds(Emptied, a) /\ Emptied.len = 0
BY DEF Holds, Slices, Emptied

LEMMA AppendedOrNotHolds ==
  ASSUME NEW s, NEW a, Holds(s, a), NEW e \in Elems, NEW memory \in BOOLEAN
  PROVE  /\ Holds(AppendedOrNot(s, e, memory), Append(a, e))
         /\ memory /\ s.len = Len(a) => AppendedOrNot(s, e, memory).len = Len(Append(a, e))
<1>1. a \in Seq(Elems) /\ Append(a, e) \in Seq(Elems) /\ Len(Append(a, e)) = Len(a) + 1
  BY DEF Holds
<1>2. Holds(Appended(s, e), Append(a, e)) /\ Appended(s, e).len = s.len + 1
  BY AppendedHolds
<1>3. Holds(Emptied, Append(a, e))
  BY <1>1, EmptiedHolds
<1> QED BY <1>1, <1>2, <1>3 DEF AppendedOrNot

-----------------------------------------------------------------------------
(* The loop of slice_extend.                                               *)

\* f is the slice after each of the first n elements
Extends(f, s, other, memory, n) ==
  f = [k \in 0 .. n |-> IF k = 0 THEN s ELSE AppendedOrNot(f[k - 1], other[k], memory[k])]

LEMMA ExtendsExists ==
  ASSUME NEW s, NEW other, NEW memory, NEW n \in Nat
  PROVE  \E f : Extends(f, s, other, memory, n)
<1> DEFINE Step(f, k) == IF k = 0 THEN s ELSE AppendedOrNot(f[k - 1], other[k], memory[k])
           Open == {k \in Nat : ~ \E f : Extends(f, s, other, memory, k)}
<1>1. SUFFICES ASSUME Open # {} PROVE FALSE
  OBVIOUS
<1>2. PICK m \in Open : \A y \in Open : m <= y
  <2>1. Open \in SUBSET Nat
    OBVIOUS
  <2> HIDE DEF Open
  <2> QED BY <1>1, <2>1, LeastNat
<1>3. CASE m = 0
  <2> DEFINE f == [k \in 0 .. 0 |-> s]
  <2>1. f = [k \in 0 .. 0 |-> IF k = 0 THEN s ELSE AppendedOrNot(f[k - 1], other[k], memory[k])]
    OBVIOUS
  <2> HIDE DEF f
  <2>2. Extends(f, s, other, memory, 0)
    BY <2>1 DEF Extends
  <2> QED BY <1>2, <1>3, <2>2
<1>4. CASE m # 0
  <2>1. m - 1 \in Nat /\ m - 1 \notin Open
    BY <1>2, <1>4
  <2>2. PICK g : Extends(g, s, other, memory, m - 1)
    BY <2>1
  <2> DEFINE f == [k \in 0 .. m |-> Step(g, k)]
  <2>3. \A k \in 0 .. m - 1 : f[k] = g[k]
    <3>1. \A k \in 0 .. m - 1 : g[k] = Step(g, k)
      <4>1. g = [k \in 0 .. m - 1 |-> Step(g, k)]
        BY <2>2 DEF Extends
      <4> HIDE DEF Step
      <4> QED BY <4>1
    <3>2. \A k \in 0 .. m - 1 : k \in 0 .. m
      BY <1>2
    <3> HIDE DEF Step
    <3> QED BY <3>1, <3>2
  <2>4. \A k \in 0 .. m : k # 0 => k - 1 \in 0 .. m - 1
    BY <1>2
  <2>5. \A k \in 0 .. m : Step(f, k) = Step(g, k)
    <3> HIDE DEF f
    <3> QED BY <2>3, <2>4
  <2>6. f = [k \in 0 .. m |-> Step(f, k)]
    <3>1. \A k \in 0 .. m : f[k] = Step(f, k)
      <4> HIDE DEF Step
      <4> QED BY <2>5
    <3>2. f = [k \in 0 .. m |-> f[k]]
      OBVIOUS
    <3> HIDE DEF f, Step
    <3> QED BY <3>1, <3>2
  <2> HIDE DEF f
  <2>7. Extends(f, s, other, memory, m)
    BY <2>6 DEF Extends
  <2> QED BY <1>2, <2>7
<1> QED BY <1>3, <1>4

\* f is that of slice_extend
Unrolled(f, s, other, memory) ==
  /\ Extended(s, other, memory) = f[Len(other)] /\ f[0] = s
  /\ \A k \in 1 .. Len(other) : f[k] = AppendedOrNot(f[k - 1], other[k], memory[k])

LEMMA ExtendedIs ==
  ASSUME NEW s, NEW other, NEW memory, Len(other) \in Nat
  PROVE  \E f : Unrolled(f, s, other, memory)
<1> DEFINE n == Len(other)
           Step(f, k) == IF k = 0 THEN s ELSE AppendedOrNot(f[k - 1], other[k], memory[k])
           f == CHOOSE f : Extends(f, s, other, memory, n)
<1>1. Extended(s, other, memory) = f[n]
  BY DEF Extended, Extends
<1>2. Extends(f, s, other, memory, n)
  <2>1. n \in Nat
    OBVIOUS
  <2> HIDE DEF n
  <2> QED BY <2>1, ExtendsExists
<1> HIDE DEF f
<1>3. f = [k \in 0 .. n |-> Step(f, k)]
  BY <1>2 DEF Extends
<1>4. \A k \in 0 .. n : f[k] = Step(f, k)
  <2> HIDE DEF Step
  <2> QED BY <1>3
<1>5. 0 \in 0 .. n /\ \A k \in 1 .. n : k \in 0 .. n /\ k # 0
  OBVIOUS
<1>6. Unrolled(f, s, other, memory)
  BY <1>1, <1>4, <1>5 DEF Unrolled
<1> QED BY <1>6

\* a with the first k elements of other behind it
Part(a, other, k) == a \o SubSeq(other, 1, k)

LEMMA ConcatAppend ==
  ASSUME NEW S, NEW s \in Seq(S), NEW t \in Seq(S), NEW e \in S
  PROVE  s \o Append(t, e) = Append(s \o t, e)
<1> DEFINE u == <<e>>
<1>1. Append(t, e) = t \o u /\ u \in Seq(S)
  BY AppendIsConcat
<1>2. s \o t \in Seq(S) /\ Append(s \o t, e) = (s \o t) \o u
  BY AppendIsConcat, ConcatProperties
<1> HIDE DEF u
<1>3. (s \o t) \o u = s \o (t \o u)
  BY <1>1, ConcatAssociative
<1> QED BY <1>1, <1>2, <1>3

LEMMA PartIs ==
  ASSUME NEW a \in Seq(Elems), NEW other \in Seq(Elems)
  PROVE  /\ Part(a, other, 0) = a /\ Part(a, other, Len(other)) = a \o other
         /\ \A k \in 1 .. Len(other) : Part(a, other, k) = Append(Part(a, other, k - 1), other[k])
<1>1. \A k \in 0 .. Len(other) :
        /\ SubSeq(other, 1, k) \in Seq(Elems) /\ Len(SubSeq(other, 1, k)) = k
        /\ \A j \in 1 .. k : SubSeq(other, 1, k)[j] = other[j]
  OBVIOUS
<1>2. Part(a, other, 0) = a
  <2>1. SubSeq(other, 1, 0) = << >>
    OBVIOUS
  <2> QED BY <2>1 DEF Part
<1>3. SubSeq(other, 1, Len(other)) = other
  OBVIOUS
<1>4. ASSUME NEW k \in 1 .. Len(other)
      PROVE  Part(a, other, k) = Append(Part(a, other, k - 1), other[k])
  <2> DEFINE s == SubSeq(other, 1, k)
             r == SubSeq(other, 1, k - 1)
             e == other[k]
  <2>1. k \in 0 .. Len(other) /\ k - 1 \in 0 .. Len(other) /\ e \in Elems /\ k \in Nat
    OBVIOUS
  <2>2. /\ s \in Seq(Elems) /\ Len(s) = k /\ \A j \in 1 .. k : s[j] = other[j]
        /\ r \in Seq(Elems) /\ Len(r) = k - 1 /\ \A j \in 1 .. k - 1 : r[j] = other[j]
    BY <1>1, <2>1
  <2> HIDE DEF s, r
  <2>3. s = Append(r, e)
    <3> DEFINE q == Append(r, e)
    <3>1. /\ q \in Seq(Elems) /\ Len(q) = Len(r) + 1 /\ q[Len(r) + 1] = e
          /\ \A j \in 1 .. Len(r) : q[j] = r[j]
      BY <2>1, <2>2, AppendProperties
    <3> HIDE DEF q
    <3>2. \A j \in 1 .. k : s[j] = q[j]
      <4> TAKE j \in 1 .. k
      <4>1. CASE j = k
        BY <2>1, <2>2, <3>1, <4>1
      <4>2. CASE j # k
        <5>1. j \in 1 .. k - 1 /\ j \in 1 .. k
          BY <2>1, <4>2
        <5> QED BY <2>2, <3>1, <5>1
      <4> QED BY <4>1, <4>2
    <3>3. s = q
      BY <2>1, <2>2, <3>1, <3>2, SeqEqual
    <3> QED BY <3>3 DEF q
  <2>4. a \o Append(r, e) = Append(a \o r, e)
    <3> HIDE DEF e
    <3> QED BY <2>1, <2>2, ConcatAppend
  <2> QED BY <2>3, <2>4 DEF Part, s, r, e
<1> QED BY <1>2, <1>3, <1>4 DEF Part

\* memory is there for each element
Served(memory) == \A k \in DOMAIN memory : memory[k]

LEMMA ExtendedHolds ==
  ASSUME NEW s, NEW a, Holds(s, a), NEW n \in Nat,
         NEW other \in [1 .. n -> Elems], NEW memory \in [1 .. n -> BOOLEAN]
  PROVE  /\ Holds(Extended(s, other, memory), a \o other)
         /\ Served(memory) /\ s.len = Len(a) =>
              Extended(s, other, memory).len = Len(a \o other)
<1>1. a \in Seq(Elems) /\ other \in Seq(Elems) /\ Len(other) = n
  BY DEF Holds
<1>2. PICK f : /\ Extended(s, other, memory) = f[n] /\ f[0] = s
               /\ \A k \in 1 .. n : f[k] = AppendedOrNot(f[k - 1], other[k], memory[k])
  <2>1. Len(other) \in Nat
    BY <1>1
  <2>2. PICK f : Unrolled(f, s, other, memory)
    BY <2>1, ExtendedIs
  <2>3. /\ Extended(s, other, memory) = f[n] /\ f[0] = s
        /\ \A k \in 1 .. n : f[k] = AppendedOrNot(f[k - 1], other[k], memory[k])
    BY <1>1, <2>2 DEF Unrolled
  <2> QED BY <2>3
<1>3. /\ Part(a, other, 0) = a /\ Part(a, other, n) = a \o other
      /\ \A k \in 1 .. n : Part(a, other, k) = Append(Part(a, other, k - 1), other[k])
  BY <1>1, PartIs
<1>4. \A k \in 1 .. n : other[k] \in Elems /\ memory[k] \in BOOLEAN /\ k \in DOMAIN memory
  OBVIOUS
<1> DEFINE Full == Served(memory) /\ s.len = Len(a)
           Done(k) == Holds(f[k], Part(a, other, k)) /\ (Full => f[k].len = Len(Part(a, other, k)))
           Open == {k \in 0 .. n : ~ Done(k)}
<1>5. Full => \A k \in 1 .. n : memory[k]
  BY <1>4 DEF Served
<1> HIDE DEF Done
<1>6. Done(0)
  BY <1>2, <1>3 DEF Done
<1>7. ASSUME NEW k \in 1 .. n, Done(k - 1) PROVE Done(k)
  <2> DEFINE x == f[k - 1]
             b == Part(a, other, k - 1)
             e == other[k]
             y == memory[k]
  <2>1. Holds(x, b) /\ (Full => x.len = Len(b)) /\ e \in Elems /\ y \in BOOLEAN
    BY <1>4, <1>7 DEF Done
  <2>2. f[k] = AppendedOrNot(x, e, y) /\ Part(a, other, k) = Append(b, e)
    BY <1>2, <1>3
  <2>3. Full => y
    BY <1>5
  <2> HIDE DEF x, b, e, y, Full
  <2>4. /\ Holds(AppendedOrNot(x, e, y), Append(b, e))
        /\ y /\ x.len = Len(b) => AppendedOrNot(x, e, y).len = Len(Append(b, e))
    BY <2>1, AppendedOrNotHolds
  <2> QED BY <2>1, <2>2, <2>3, <2>4 DEF Done, Full
<1>8. Open = {}
  <2> SUFFICES ASSUME Open # {} PROVE FALSE
    OBVIOUS
  <2>1. Open \in SUBSET Nat
    OBVIOUS
  <2>2. PICK k \in Open : \A y \in Open : k <= y
    <3> HIDE DEF Open
    <3> QED BY <2>1, LeastNat
  <2>3. k # 0
    BY <1>6
  <2>4. k \in 1 .. n /\ k - 1 \in 0 .. n /\ ~ (k <= k - 1)
    BY <2>2, <2>3
  <2>5. Done(k - 1)
    BY <2>2, <2>4
  <2>6. Done(k)
    BY <1>7, <2>4, <2>5
  <2> QED BY <2>2, <2>6
<1>9. Done(n)
  BY <1>8
<1> HIDE DEF Full
<1> QED BY <1>2, <1>3, <1>9 DEF Done, Full

-----------------------------------------------------------------------------
(* The calls.                                                              *)

LEMMA SliceInitOK ==
  ASSUME NEW cap \in Nat, SliceInit(cap)
  PROVE  SliceIInv
<1> DEFINE l == [j \in 1 .. cap |-> NULL]
<1>1. l \in Seq(Elems \cup {NULL}) /\ Len(l) = cap
  OBVIOUS
<1> HIDE DEF l
<1>2. slice = [elems |-> l, len |-> 0, cap |-> cap] /\ appended = << >> /\ forgotten = FALSE
  BY DEF SliceInit, l
<1>3. slice \in Slices /\ slice.len = 0
  BY <1>1, <1>2 DEF Slices
<1>4. appended \in Seq(Elems) /\ Len(appended) = 0
  BY <1>2
<1>5. forgotten = FALSE
  BY <1>2
<1>6. Holds(slice, appended)
  BY <1>3, <1>4 DEF Holds, Slices
<1> QED BY <1>3, <1>4, <1>5, <1>6 DEF SliceIInv

LEMMA SliceAppendOK ==
  ASSUME SliceIInv, NEW e \in Elems, slice_append(e)
  PROVE  SliceIInv'
<1>1. /\ slice' = Appended(slice, e) /\ appended' = Append(appended, e) /\ forgotten' = forgotten
      /\ Holds(slice, appended) /\ forgotten \in BOOLEAN
      /\ ~ forgotten => slice.len = Len(appended)
  BY DEF slice_append, SliceIInv
<1>2. Holds(slice', appended') /\ slice'.len = slice.len + 1
  BY <1>1, AppendedHolds
<1>3. Len(appended') = Len(appended) + 1
  BY <1>1 DEF Holds
<1> QED BY <1>1, <1>2, <1>3 DEF SliceIInv, Holds

LEMMA SliceNoMemOK ==
  ASSUME SliceIInv, slice_append_nomem
  PROVE  SliceIInv'
<1>1. /\ slice' = Emptied /\ appended' = appended /\ forgotten' = (forgotten \/ slice.cap # 0)
      /\ Holds(slice, appended) /\ forgotten \in BOOLEAN
      /\ ~ forgotten => slice.len = Len(appended)
  BY DEF slice_append_nomem, SliceIInv
<1>2. Holds(slice', appended') /\ slice'.len = 0
  BY <1>1, EmptiedHolds DEF Holds
<1>3. slice.cap = 0 => slice.len = 0
  BY <1>1 DEF Holds, Slices
<1>4. forgotten' \in BOOLEAN /\ (~ forgotten' => ~ forgotten /\ slice.cap = 0)
  BY <1>1
<1>5. ~ forgotten' => slice'.len = Len(appended')
  BY <1>1, <1>2, <1>3, <1>4
<1> QED BY <1>2, <1>4, <1>5 DEF SliceIInv, Holds

LEMMA SliceExtendOK ==
  ASSUME SliceIInv, NEW n \in Nat,
         NEW other \in [1 .. n -> Elems], NEW memory \in [1 .. n -> BOOLEAN], slice_extend(other, memory)
  PROVE  SliceIInv'
<1>1. /\ slice' = Extended(slice, other, memory) /\ appended' = appended \o other
      /\ forgotten' = (forgotten \/ \E k \in DOMAIN memory : ~ memory[k])
      /\ Holds(slice, appended) /\ forgotten \in BOOLEAN
      /\ ~ forgotten => slice.len = Len(appended)
  BY DEF slice_extend, SliceIInv
<1>2. /\ Holds(slice', appended')
      /\ Served(memory) /\ slice.len = Len(appended) => slice'.len = Len(appended')
  <2> DEFINE s == slice
             a == appended
  <2>1. Holds(s, a)
    BY <1>1
  <2> HIDE DEF s, a
  <2>2. /\ Holds(Extended(s, other, memory), a \o other)
        /\ Served(memory) /\ s.len = Len(a) =>
             Extended(s, other, memory).len = Len(a \o other)
    BY <2>1, ExtendedHolds
  <2> QED BY <1>1, <2>2 DEF s, a
<1>3. forgotten' \in BOOLEAN /\ (~ forgotten' => ~ forgotten /\ Served(memory))
  BY <1>1 DEF Served
<1> QED BY <1>1, <1>2, <1>3 DEF SliceIInv

LEMMA SliceStepOK ==
  ASSUME SliceIInv, [SliceNext]_sliceVars
  PROVE  SliceIInv'
<1>1. CASE UNCHANGED sliceVars
  BY <1>1 DEF SliceIInv, Holds, sliceVars
<1>2. CASE SliceNext
  <2>1. CASE \E e \in Elems : slice_append(e)
    BY <2>1, SliceAppendOK
  <2>2. CASE slice_append_nomem
    BY <2>2, SliceNoMemOK
  <2>3. CASE \E n \in 0 .. MaxExtend :
               \E other \in [1 .. n -> Elems], memory \in [1 .. n -> BOOLEAN] : slice_extend(other, memory)
    <3>1. \A n \in 0 .. MaxExtend : n \in Nat
      BY SliceAssumption
    <3> QED BY <2>3, <3>1, SliceExtendOK
  <2> QED BY <1>2, <2>1, <2>2, <2>3 DEF SliceNext
<1> QED BY <1>1, <1>2

(* A slice of util.c, of any capacity and after any calls, holds the       *)
(* elements appended to it since it last found no memory, in order, and    *)
(* all of them when it always did.                                         *)
THEOREM SliceCorrect == SliceSpec => []SliceHoldsAppended
<1>1. (\E cap \in Nat : SliceInit(cap)) => SliceIInv
  BY SliceInitOK
<1>2. SliceIInv /\ [SliceNext]_sliceVars => SliceIInv'
  BY SliceStepOK
<1>3. SliceIInv => SliceHoldsAppended
  <2> SUFFICES ASSUME SliceIInv PROVE SliceHoldsAppended
    OBVIOUS
  <2>1. /\ slice.elems \in Seq(Elems \cup {NULL}) /\ slice.len \in Nat /\ slice.cap \in Nat
        /\ slice.len <= slice.cap /\ Len(slice.elems) = slice.cap
        /\ appended \in Seq(Elems) /\ slice.len <= Len(appended)
        /\ \A j \in 1 .. slice.len : slice.elems[j] = appended[Len(appended) - slice.len + j]
        /\ ~ forgotten => slice.len = Len(appended)
    BY DEF SliceIInv, Holds, Slices
  <2> DEFINE n == slice.len
             b == Len(appended) - n + 1
             p == SubSeq(slice.elems, 1, n)
             q == SubSeq(appended, b, Len(appended))
  <2>2. p \in Seq(Elems \cup {NULL}) /\ Len(p) = n /\ \A j \in 1 .. n : p[j] = slice.elems[j]
    BY <2>1
  <2>3. q \in Seq(Elems \cup {NULL}) /\ Len(q) = n /\ \A j \in 1 .. n : q[j] = appended[Len(appended) - n + j]
    <3> DEFINE m == Len(appended)
    <3>1. /\ m \in Nat /\ n \in Nat /\ n <= m /\ b = m - n + 1 /\ b \in Int /\ m \in Int
          /\ \A j \in b .. m : appended[j] \in Elems \cup {NULL}
      BY <2>1
    <3> HIDE DEF m, n, b
    <3>2. /\ q \in Seq(Elems \cup {NULL}) /\ Len(q) = IF b <= m THEN m - b + 1 ELSE 0
          /\ \A j \in 1 .. m - b + 1 : q[j] = appended[b + j - 1]
      BY <3>1, SubSeqProperties DEF m
    <3>3. m - b + 1 = n /\ \A j \in 1 .. n : b + j - 1 = m - n + j
      BY <3>1
    <3>4. Len(q) = n /\ \A j \in 1 .. n : q[j] = appended[m - n + j]
      <4> HIDE DEF q
      <4> QED BY <3>1, <3>2, <3>3
    <3> QED BY <3>2, <3>4 DEF m
  <2>4. p = q
    <3> HIDE DEF p, q
    <3>1. \A j \in 1 .. Len(p) : p[j] = q[j]
      BY <2>1, <2>2, <2>3
    <3> QED BY <2>2, <2>3, <3>1, SeqEqual
  <2> QED BY <2>1, <2>4 DEF SliceHoldsAppended, Content
<1> QED BY <1>1, <1>2, <1>3, PTL DEF SliceSpec
==============================================================================

----------------------------- MODULE HashTable ------------------------------
(***************************************************************************)
(* The hash table of libsd (hash_table.c): open addressing with linear     *)
(* probing, doubling, and removal that just empties the slot.              *)
(*                                                                         *)
(* ht_double_table inserts the entries of the old table one by one; each   *)
(* is a step of its own here, taken before any other call (one thread uses *)
(* a table).  The hash of a key is any number: hash_long mixes the key     *)
(* with 16 random bytes, and tbl_size, a power of two times INIT_SIZE,     *)
(* divides 2^64, so the wrap-around of h1 + i does not matter.             *)
(***************************************************************************)
EXTENDS Integers, FiniteSets, FiniteSetsExt

CONSTANTS
  Keys, Vals,
  Free,        \* a slot with in_use = false
  None,        \* what lookup returns for a missing key
  INIT_SIZE,
  MaxTblSize,  \* bound: the table is not doubled beyond this size
  Hashes       \* the functions hash_fn may be, for one choice of k1

ASSUME SizeAssumption == INIT_SIZE \in Nat /\ INIT_SIZE >= 4 /\ MaxTblSize \in Nat

ASSUME HashAssumption == Hashes \subseteq [Keys -> Nat]

Entry == [key: Keys, val: Vals]

ASSUME FreeAssumption == Free \notin Entry /\ None \notin Vals

VARIABLES
  hash,       \* hash_fn with this table's k1
  tbl,        \* ht->tbl
  tbl_size,   \* ht->tbl_size
  size,       \* ht->size
  old_tbl,    \* during ht_double_table the table being replaced
  old_size,   \* and the number of its entries
  i,          \* and the next of its slots
  doubling,   \* TRUE inside ht_double_table
  died,       \* the reason for which the process ended, or "no"
  dict,       \* history: the map that the calls so far amount to
  holed       \* history: some remove has emptied a slot in front of a used one

vars == <<hash, tbl, tbl_size, size, old_tbl, old_size, i, doubling, died, dict, holed>>

NewTable(n) == [s \in 0 .. n - 1 |-> Free]

Used(t) == {s \in DOMAIN t : t[s] # Free}

Slot(k, d) == (hash[k] + d) % tbl_size

\* the probes at which the search for k may end
Hits(k) == {d \in 0 .. tbl_size - 1 : tbl[Slot(k, d)] = Free \/ tbl[Slot(k, d)].key = k}

\* ht_index: the first of them, or -1
ht_index(k) == IF Hits(k) = {} THEN -1 ELSE Slot(k, Min(Hits(k)))

\* sd_hash_table_lookup, and sd_hash_table_contains
lookup(k) == IF tbl[ht_index(k)] = Free THEN None ELSE tbl[ht_index(k)].val

\* (size + 1)/tbl_size > LOAD_FACTOR; the quotient is never 0.6 itself
Overloaded(n, sz) == 5 * (sz + 1) > 3 * n

-----------------------------------------------------------------------------
\* sd_hash_table_new
Init ==
  /\ hash \in Hashes
  /\ tbl = NewTable(INIT_SIZE)
  /\ tbl_size = INIT_SIZE
  /\ size = 0
  /\ old_tbl = << >> /\ old_size = 0 /\ i = 0 /\ doubling = FALSE
  /\ died = "no"
  /\ dict = [k \in Keys |-> None]
  /\ holed = FALSE

Idle == died = "no" /\ ~doubling

\* the assertion at the head of ht_index, and what its callers call sd_die for
IndexOK(k) == size < tbl_size /\ ht_index(k) # -1

\* sd_hash_table_insert for a key that has a slot
InsertOver(k, v) ==
  /\ Idle /\ IndexOK(k)
  /\ tbl[ht_index(k)] # Free
  /\ tbl' = [tbl EXCEPT ![ht_index(k)] = [key |-> k, val |-> v]]
  /\ dict' = [dict EXCEPT ![k] = v]
  /\ UNCHANGED <<hash, tbl_size, size, old_tbl, old_size, i, doubling, died, holed>>

\* for a new key, without doubling
InsertNew(k, v) ==
  /\ Idle /\ IndexOK(k)
  /\ tbl[ht_index(k)] = Free
  /\ ~Overloaded(tbl_size, size + 1)
  /\ tbl' = [tbl EXCEPT ![ht_index(k)] = [key |-> k, val |-> v]]
  /\ size' = size + 1
  /\ dict' = [dict EXCEPT ![k] = v]
  /\ UNCHANGED <<hash, tbl_size, old_tbl, old_size, i, doubling, died, holed>>

\* for a new key, up to the loop of ht_double_table
InsertGrow(k, v) ==
  /\ Idle /\ IndexOK(k)
  /\ tbl[ht_index(k)] = Free
  /\ Overloaded(tbl_size, size + 1)
  /\ 2 * tbl_size <= MaxTblSize
  /\ dict' = [dict EXCEPT ![k] = v]
  /\ old_tbl' = [tbl EXCEPT ![ht_index(k)] = [key |-> k, val |-> v]]
  /\ old_size' = size + 1
  /\ size' = 0
  /\ tbl_size' = 2 * tbl_size
  /\ i' = 0
  /\ \/ tbl' = NewTable(2 * tbl_size) /\ doubling' = TRUE /\ died' = "no"
     \/ tbl' = << >> /\ doubling' = FALSE /\ died' = "nomem"   \* calloc failed
  /\ UNCHANGED <<hash, holed>>

\* mutant: an entry keeps its slot
RehashInPlace ==
  /\ doubling /\ died = "no" /\ i \in DOMAIN old_tbl
  /\ i' = i + 1
  /\ tbl' = [tbl EXCEPT ![i] = old_tbl[i]]
  /\ size' = IF old_tbl[i] = Free THEN size ELSE size + 1
  /\ UNCHANGED <<hash, tbl_size, old_tbl, old_size, doubling, died, dict, holed>>

(* One iteration of ht_double_table.  The insert cannot double again, as   *)
(* the new table has room for twice the entries.                           *)
Rehash ==
  /\ doubling /\ died = "no" /\ i \in DOMAIN old_tbl
  /\ i' = i + 1
  /\ IF old_tbl[i] = Free
       THEN UNCHANGED <<tbl, size>>
       ELSE LET s == ht_index(old_tbl[i].key)
            IN  /\ tbl' = [tbl EXCEPT ![s] = old_tbl[i]]
                /\ size' = IF tbl[s] = Free THEN size + 1 ELSE size
  /\ UNCHANGED <<hash, tbl_size, old_tbl, old_size, doubling, died, dict, holed>>

\* the end of ht_double_table, with its check of the size
RehashDone ==
  /\ doubling /\ died = "no" /\ i \notin DOMAIN old_tbl
  /\ doubling' = FALSE
  /\ old_tbl' = << >>
  /\ died' = IF size = old_size THEN "no" ELSE "size"
  /\ UNCHANGED <<hash, tbl, tbl_size, size, old_size, i, dict, holed>>

\* mutant: the key is looked for in its first slot only
RemoveFirst(k) ==
  /\ Idle /\ IndexOK(k)
  /\ LET used == tbl[Slot(k, 0)] # Free
     IN  /\ tbl' = [tbl EXCEPT ![Slot(k, 0)] = Free]
         /\ size' = IF used THEN size - 1 ELSE size
         /\ holed' = (holed \/ (used /\ tbl[Slot(k, 1)] # Free))
  /\ dict' = [dict EXCEPT ![k] = None]
  /\ UNCHANGED <<hash, tbl_size, old_tbl, old_size, i, doubling, died>>

\* sd_hash_table_remove; for a key that has no slot nothing changes
Remove(k) ==
  /\ Idle /\ IndexOK(k)
  /\ LET s == ht_index(k)
         used == tbl[s] # Free
     IN  /\ tbl' = [tbl EXCEPT ![s] = Free]
         /\ size' = IF used THEN size - 1 ELSE size
         /\ holed' = (holed \/ (used /\ tbl[(s + 1) % tbl_size] # Free))
  /\ dict' = [dict EXCEPT ![k] = None]
  /\ UNCHANGED <<hash, tbl_size, old_tbl, old_size, i, doubling, died>>

insert == \E k \in Keys, v \in Vals : InsertOver(k, v) \/ InsertNew(k, v) \/ InsertGrow(k, v)

Next ==
  \/ insert
  \/ \E k \in Keys : Remove(k)
  \/ Rehash
  \/ RehashDone

Spec == Init /\ [][Next]_vars

-----------------------------------------------------------------------------
(* Properties.                                                             *)

(* Until a remove has emptied a slot in front of a used one each key has   *)
(* one slot, and every slot on the probe path to it is in use.  ht_index   *)
(* always ends at a slot: its assertion holds, none of the calls of sd_die *)
(* after it is reached, and no insert of ht_double_table doubles the table *)
(* a second time; ht_double_table itself ends in sd_die only after such a  *)
(* remove.                                                                 *)
ProbePathsUnbroken ==
  /\ died = "no" /\ ~holed =>
       \A s \in Used(tbl) :
         \E d \in 0 .. tbl_size - 1 :
           /\ Slot(tbl[s].key, d) = s
           /\ \A e \in 0 .. d - 1 : /\ tbl[Slot(tbl[s].key, e)] # Free
                                  /\ tbl[Slot(tbl[s].key, e)].key # tbl[s].key
  /\ died = "size" => holed
  /\ died = "no" =>
       /\ \A k \in Keys : IndexOK(k)
       /\ doubling => ~Overloaded(tbl_size, size)

(* Until then the table is the map its calls amount to, whatever the       *)
(* hashes: lookup returns the value inserted last, and size is the number  *)
(* of keys.                                                                *)
TableIsMap ==
  Idle /\ ~holed =>
    /\ \A k \in Keys : lookup(k) = dict[k]
    /\ size = Cardinality({k \in Keys : dict[k] # None})

(* A client that has removed every key it inserted has an empty table.     *)
EmptiedTableIsEmpty == Idle /\ (\A k \in Keys : dict[k] = None) => size = 0

=============================================================================

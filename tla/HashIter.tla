------------------------------ MODULE HashIter ------------------------------
(***************************************************************************)
(* Iteration over a hash table (sd_hash_table_iter_init, iter_next) while  *)
(* the client goes on inserting and removing between two calls.            *)
(***************************************************************************)
EXTENDS HashTable

VARIABLES
  it,      \* the iterator: state "new", "on", "end" or "warned", i, size, tbl_size
  seen,    \* history: the keys returned so far
  twice,   \* history: the keys returned more than once
  kept     \* history: the keys in the table since iter_init, never removed or moved

ivars == <<it, seen, twice, kept>>

NoIter == [state |-> "new", i |-> 0, size |-> 0, tbl_size |-> 0]

IInit == Init /\ it = NoIter /\ seen = {} /\ twice = {} /\ kept = {}

\* a call on the table itself, between calls on the iterator
TableCall ==
  /\ Next
  /\ kept' = {k \in kept : dict'[k] # None}
  /\ UNCHANGED <<it, seen, twice>>

iter_init ==
  /\ Idle
  /\ it' = [state |-> "on", i |-> 0, size |-> size, tbl_size |-> tbl_size]
  /\ seen' = {} /\ twice' = {}
  /\ kept' = {k \in Keys : dict[k] # None}
  /\ UNCHANGED vars

\* mutant: only the number of entries compared
ChangedSize == it.size # size

\* the consistency check
Changed == it.size # size \/ it.tbl_size # tbl_size

\* the used slots from it->i on
Rest == {s \in Used(tbl) : s >= it.i}

iter_next ==
  /\ Idle /\ it.state = "on"
  /\ \/ /\ Changed
        /\ it' = [it EXCEPT !.state = "warned"]
        /\ UNCHANGED <<seen, twice>>
     \/ /\ ~Changed /\ Rest = {}
        /\ it' = [it EXCEPT !.state = "end", !.i = it.tbl_size]
        /\ UNCHANGED <<seen, twice>>
     \/ /\ ~Changed /\ Rest # {}
        /\ LET s == Min(Rest)
           IN  /\ it' = [it EXCEPT !.i = s + 1]
               /\ twice' = IF tbl[s].key \in seen THEN twice \cup {tbl[s].key} ELSE twice
               /\ seen' = seen \cup {tbl[s].key}
  /\ UNCHANGED <<vars, kept>>

INext == TableCall \/ iter_init \/ iter_next

ISpec == IInit /\ [][INext]_<<vars, ivars>>

-----------------------------------------------------------------------------
(* Properties.                                                             *)

(* An iteration that ends without the warning has returned each key that   *)
(* was in the table all the time exactly once, also when keys were removed *)
(* and others inserted in between so that neither size changed.            *)
IterReturnsKept ==
  ~holed /\ it.state = "end" => kept \subseteq seen /\ kept \cap twice = {}

=============================================================================

------------------------------- MODULE Slice -------------------------------
(***************************************************************************)
(* The growing array of the library (slice_make, slice_append and          *)
(* slice_extend of util.c), when memory may run out.                       *)
(***************************************************************************)
EXTENDS Integers, Sequences

CONSTANTS
  Elems,      \* the pointers that are appended
  NULL,       \* what an unused slot holds
  MaxLen,     \* bound: no more elements than this
  MaxExtend   \* bound: slice_extend is given no more elements than this

ASSUME SliceAssumption == NULL \notin Elems /\ MaxLen \in Nat /\ MaxExtend \in Nat

VARIABLES
  slice,      \* the Slice: elems, a sequence of cap slots, len and cap
  appended,   \* the elements that slice_append has reported as appended
  forgotten   \* an element that was reported is gone: no memory to grow

sliceVars == <<slice, appended, forgotten>>

\* mutant: a new array without what the old one held
GrowFresh(elems, n) == [i \in 1 .. n |-> NULL]

\* the first slots of an array of n, the others cleared
Grow(elems, n) == [i \in 1 .. n |-> IF i <= Len(elems) THEN elems[i] ELSE NULL]

Emptied == [elems |-> << >>, len |-> 0, cap |-> 0]

\* slice_make with a length of 0, as everywhere
SliceInit(cap) ==
  /\ slice = [elems |-> [i \in 1 .. cap |-> NULL], len |-> 0, cap |-> cap]
  /\ appended = << >>
  /\ forgotten = FALSE

\* slice_append to s when memory is there
Appended(s, e) ==
  LET cap == IF s.cap = 0 THEN 2 ELSE IF s.len = s.cap THEN s.cap * 2 ELSE s.cap
  IN  [elems |-> [Grow(s.elems, cap) EXCEPT ![s.len + 1] = e],
       len |-> s.len + 1, cap |-> cap]

slice_append(e) ==
  /\ Len(appended) < MaxLen
  /\ slice' = Appended(slice, e)
  /\ appended' = Append(appended, e)
  /\ UNCHANGED forgotten

\* SD_ERR_NOMEM: the first array or a larger one is not to be had
slice_append_nomem ==
  /\ slice.cap = 0 \/ slice.len = slice.cap
  /\ slice' = Emptied
  /\ forgotten' = (forgotten \/ slice.cap # 0)
  /\ UNCHANGED appended

\* slice_append of e in a loop that does not look at its result
AppendedOrNot(s, e, memory) ==
  IF memory \/ (s.cap # 0 /\ s.len < s.cap) THEN Appended(s, e) ELSE Emptied

\* the loop of slice_extend
Extended(s, other, memory) ==
  LET after[k \in 0 .. Len(other)] ==
        IF k = 0 THEN s ELSE AppendedOrNot(after[k - 1], other[k], memory[k])
  IN  after[Len(other)]

\* slice_extend reports success whatever its appends return
slice_extend(other, memory) ==
  /\ Len(appended) + Len(other) <= MaxLen
  /\ slice' = Extended(slice, other, memory)
  /\ appended' = appended \o other
  /\ forgotten' = (forgotten \/ \E k \in DOMAIN memory : ~ memory[k])

SliceNext ==
  \/ \E e \in Elems : slice_append(e)
  \/ slice_append_nomem
  \/ \E n \in 0 .. MaxExtend :
       \E other \in [1 .. n -> Elems], memory \in [1 .. n -> BOOLEAN] : slice_extend(other, memory)

\* the elements that a loop up to len sees
Content == SubSeq(slice.elems, 1, slice.len)

(***************************************************************************)
(* A slice holds exactly what was appended, in order and within its array, *)
(* through every growth; after a growth that failed it holds the elements  *)
(* appended since then, never a slot without one.                          *)
(***************************************************************************)
SliceHoldsAppended ==
  /\ slice.len <= slice.cap /\ Len(slice.elems) = slice.cap
  /\ slice.len <= Len(appended)
  /\ Content = SubSeq(appended, Len(appended) - slice.len + 1, Len(appended))
  /\ ~ forgotten => slice.len = Len(appended)

=============================================================================

------------------------------- MODULE Regex -------------------------------
(***************************************************************************)
(* Regular expressions, and what is left of one when a letter is taken     *)
(* from its front: the grammars that the tokenizers, the roles of tokens   *)
(* and the parser are checked against are written as such.                 *)
(***************************************************************************)
EXTENDS Sequences, SequencesExt

Nothing == <<"nothing">>
Eps == <<"eps">>
One(letters) == <<"one", letters>>
Seq2(a, b) ==
  IF a[1] = "nothing" \/ b[1] = "nothing" THEN Nothing
  ELSE IF a[1] = "eps" THEN b ELSE IF b[1] = "eps" THEN a ELSE <<"seq", a, b>>
Alt2(a, b) ==
  IF a[1] = "nothing" \/ a = b THEN b ELSE IF b[1] = "nothing" THEN a ELSE <<"alt", a, b>>
Star(a) == <<"star", a>>
Plus(a) == Seq2(a, Star(a))
Opt(a) == Alt2(Eps, a)
InTurn(s) == FoldRight(LAMBDA a, b : Seq2(a, b), s, Eps)
AnyOf(s) == FoldRight(LAMBDA a, b : Alt2(a, b), s, Nothing)
W(letter) == One({letter})
Word(s) == InTurn([i \in DOMAIN s |-> W(s[i])])

RECURSIVE Nullable(_), Rest(_, _)
Nullable(r) ==
  \/ r[1] \in {"eps", "star"}
  \/ r[1] = "seq" /\ Nullable(r[2]) /\ Nullable(r[3])
  \/ r[1] = "alt" /\ (Nullable(r[2]) \/ Nullable(r[3]))
Rest(r, t) ==
  CASE r[1] \in {"nothing", "eps"} -> Nothing
    [] r[1] = "one"  -> IF t \in r[2] THEN Eps ELSE Nothing
    [] r[1] = "alt"  -> Alt2(Rest(r[2], t), Rest(r[3], t))
    [] r[1] = "star" -> Seq2(Rest(r[2], t), r)
    [] r[1] = "seq"  -> IF Nullable(r[2]) THEN Alt2(Seq2(Rest(r[2], t), r[3]), Rest(r[3], t))
                        ELSE Seq2(Rest(r[2], t), r[3])

Left(r, s) == FoldLeft(Rest, r, s)
Viable(r, s) == Left(r, s)[1] # "nothing"
Matches(r, s) == Nullable(Left(r, s))

=============================================================================

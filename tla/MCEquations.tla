---------------------------- MODULE MCEquations ----------------------------
(***************************************************************************)
(* The text of equations: the lexer with its callers, and the functions    *)
(* behind it, the parser first.  A behavior is one of either; the other    *)
(* has no text.                                                            *)
(***************************************************************************)
EXTENDS Lexer, Calls

-----------------------------------------------------------------------------
(* Two callers; all equations of up to 3 characters of a few kinds, and    *)
(* longer ones with names and numbers that do not fit a Token.             *)

Kinds == {"a", "1", ".", "<", "=", " ", "\n", "{", "}", "\""}

MCSources ==
  BoundedSeq({"a", ".", "<", "\n", "{", "}", "\""}, 3)
    \cup {<<"a">> \o s \o <<"a", "1", "a">> : s \in BoundedSeq(Kinds, 2)}
    \cup {<<"1", "e", ".">> \o s \o <<".", "e">> : s \in BoundedSeq({"1", ".", " "}, 1)}
    \cup {<<"\"", "a", x, "a", y, ">", "=", "+", "1">> : x \in {" ", "\n", "1"}, y \in {"\"", " "}}

-----------------------------------------------------------------------------
(* The parser reads all short sequences of tokens over three alphabets:    *)
(* calls and parentheses, conditionals, and the operators of several       *)
(* levels.  The other functions get arguments around their limits.         *)

Call == {"x", "(", ")", ",", "+"}
Cond == {"x", "if", "then", "else", "-"}
Ops  == {"1", "^", "!", "*", "-", "<", "==", "|"}
Args(n) == <<"x", "(">> \o FlattenSeq([i \in 1 .. n |-> IF i < n THEN <<"1", ",">> ELSE <<"x", ")">>])

MCInputs ==
  BoundedSeq(Call, 5) \cup BoundedSeq(Cond, 6) \cup BoundedSeq(Ops, 4)
    \cup {<<"1", a, "x", b, "1", c, "x">> : a, b, c \in {"^", "*", "/", "+", "-", "=", "&"}}
    \cup {Args(n) : n \in 1 .. 8}

MCBindings == [x : {Unresolved, D(0), D(2)}, fn : {NoFn, "min", "pulse"}, time : {D(1)}, dt : {Q(1, 2)}]
Points == BoundedSeq({D(0), D(1), D(4), L!Junk}, 2) \cup [1 .. 3 -> {D(0), D(1), D(4)}]
MCLookups ==
  [gf : [ypts : {L!Absent, L!Empty} \cup (Points \ {<< >>}),
         xpts : {L!Absent, L!Empty} \cup (Points \ {<< >>}), xscale : {<<D(0), D(2)>>}]
          \cup [ypts : Points \ {<< >>}, xpts : {L!Absent}, xscale : {L!Absent, <<D(0), D(0)>>}],
   index : {D(-1), D(0), Q(1, 2), D(1), D(2), D(5), NaN}]

\* A, b, a space, a new line, a quotation mark, a backslash, n, and three letters with accents
Units == {<<65>>, <<98>>, <<32>>, <<10>>, <<34>>, <<92>>, <<110>>,
          <<\hC3, \h89>>, <<\hC4, \hB0>>, <<\hE2, \h84, \hA2>>}
MCNames == {FlattenSeq(u) : u \in BoundedSeq(Units, 4)}

MCStrings == [1 .. 4 -> {0, \h7F, \h80, \hBF, \hC1, \hC2, \hE0, \hED, \hF0, \hF4, \hF8}]
Edges == {N!Rune1, N!Rune2, N!Rune3, N!Runemax}
MCRunes == {r \in N!RunesAtEdges : r >= 0} \cup UNION {{e - 1, e, e + 1} : e \in Edges}
MCPulses ==
  [dt : {D(1), Q(1, 2), Q(1, 3)}, steps : {8},
   args : {<<D(2), first, every>> : first \in {D(0), D(1), Q(2, 3)}, every \in {D(0), D(1), Q(3, 2), Q(2, 3)}}]

-----------------------------------------------------------------------------
VARIABLE lexing

Init ==
  \/ lexing = TRUE /\ LexerInit /\ asked = NoCall /\ ret = NoRet /\ IdleParser /\ SliceInit(0)
  \/ lexing = FALSE /\ src = << >> /\ LexerInit /\ CallsInit
Next ==
  \/ lexing /\ LexerNext /\ UNCHANGED <<lexing, asked, ret, parserVars, sliceVars>>
  \/ ~ lexing /\ CallsNext /\ UNCHANGED <<lexing, lexerVars>>
Spec == Init /\ [][Next]_<<lexing, lexerVars, asked, ret, parserVars, sliceVars>>

=============================================================================

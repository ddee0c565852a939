------------------------------- MODULE Parser -------------------------------
(***************************************************************************)
(* The equation parser (parse.c): avar_eqn_parse, expr, fact, call, ident, *)
(* num and the consume functions, over the tokens the lexer returns.  A    *)
(* token is its text: "1" stands for any number, "x" for any identifier.   *)
(*                                                                         *)
(* A parse is [ok, pos, tree]: what the function returns, the next token   *)
(* to read afterwards, and *n.  No caller goes on after FALSE, so a failed *)
(* parse has no position or tree.                                          *)
(***************************************************************************)
EXTENDS Integers, Sequences, SequencesExt

CONSTANT Inputs    \* the sequences of tokens considered

VARIABLES
  tokens,    \* what the lexer returns until SD_ERR_EOF
  parsed,    \* the result of avar_eqn_parse, or NotParsed
  walked     \* how node_walk ended in avar_init: "no" before it runs

vars == <<tokens, parsed, walked>>

Null == <<"null">>     \* the NULL node
Fail == [ok |-> FALSE]
Ok(pos, tree) == [ok |-> TRUE, pos |-> pos, tree |-> tree]
NotParsed == [ok |-> FALSE, pos |-> 0]

UNARY == {"+", "-", "!"}

\* the operators of each level, 0 first
BINARY == <<{"^"}, {"!"}, {"*", "/", "%"}, {"+", "-"}, {">", "<", ">=", "<="},
            {"=", "<>"}, {"&"}, {"|"}>>

MAX_BINARY == Len(BINARY)

\* the first rune of a token, which is all that consume_tok compares
Rune1(t) == IF t = "==" THEN "=" ELSE t

\* whether consume_tok, consume_any or consume_reserved takes the token at p
At(p, texts) == p <= Len(tokens) /\ Rune1(tokens[p]) \in texts

RECURSIVE expr(_, _), fact(_), Operand(_, _), Rest(_, _, _), args(_, _)

\* an operand of an operator of the level
Operand(p, level) == IF level + 1 = MAX_BINARY THEN fact(p) ELSE expr(p, level + 1)

\* mutant: an operator that ends the equation left in place
RestLenient(p, level, lhs) ==
  IF ~ At(p, BINARY[level + 1]) THEN Ok(p, lhs)
  ELSE LET rhs == Operand(p + 1, level)
       IN  IF ~ rhs.ok THEN Fail
           ELSE Rest(rhs.pos, level, <<"binary", tokens[p], lhs, rhs.tree>>)

\* mutant: the right operand at the same level, not one further
RestSame(p, level, lhs) ==
  IF ~ At(p, BINARY[level + 1]) THEN Ok(p, lhs)
  ELSE LET rhs == expr(p + 1, level)
       IN  IF ~ rhs.ok \/ rhs.tree = Null THEN Fail
           ELSE Rest(rhs.pos, level, <<"binary", tokens[p], lhs, rhs.tree>>)

\* the loop of expr: operators of one level, gathered from the left
Rest(p, level, lhs) ==
  IF ~ At(p, BINARY[level + 1]) THEN Ok(p, lhs)
  ELSE LET rhs == Operand(p + 1, level)
       IN  IF ~ rhs.ok \/ rhs.tree = Null THEN Fail
           ELSE Rest(rhs.pos, level, <<"binary", tokens[p], lhs, rhs.tree>>)

expr(p, level) ==
  IF p > Len(tokens) THEN Ok(p, Null)
  ELSE LET lhs == Operand(p, level)
       IN  IF lhs.ok THEN Rest(lhs.pos, level, lhs.tree) ELSE Fail

paren(p) ==
  LET e == expr(p + 1, 0)
  IN  IF e.ok /\ At(e.pos, {")"}) THEN Ok(e.pos + 1, <<"paren", e.tree>>) ELSE Fail

unary(p) ==
  LET e == expr(p + 1, 0)
  IN  IF e.ok THEN Ok(e.pos, <<"unary", tokens[p], e.tree>>) ELSE Fail

\* "if": the else branch is optional, its absence a NULL node
ifexpr(p) ==
  LET cond == expr(p + 1, 0)
      then == IF cond.ok /\ At(cond.pos, {"then"}) THEN expr(cond.pos + 1, 0) ELSE Fail
      els  == expr(then.pos + 1, 0)
  IN  IF ~ then.ok \/ then.tree = Null THEN Fail
      ELSE IF ~ At(then.pos, {"else"}) THEN Ok(then.pos, <<"if", cond.tree, then.tree, Null>>)
      ELSE IF ~ els.ok \/ els.tree = Null THEN Fail
      ELSE Ok(els.pos, <<"if", cond.tree, then.tree, els.tree>>)

\* the loop of call: one argument, then "," and the others, or ")"
args(p, before) ==
  LET e == expr(p, 0)
      all == Append(before, e.tree)
  IN  IF ~ e.ok THEN Fail
      ELSE IF At(e.pos, {","}) THEN args(e.pos + 1, all)
      ELSE IF At(e.pos, {")"}) THEN Ok(e.pos + 1, <<"call", all>>)
      ELSE Fail

\* the call at an identifier with a "(" behind it
call(p) == IF At(p + 2, {")"}) THEN Ok(p + 3, <<"call", << >>>>) ELSE args(p + 2, << >>)

fact(p) ==
  IF At(p, {"("}) THEN paren(p)
  ELSE IF At(p, UNARY) THEN unary(p)
  ELSE IF At(p, {"1"}) THEN Ok(p + 1, <<"num">>)
  ELSE IF At(p, {"if"}) THEN ifexpr(p)
  ELSE IF ~ At(p, {"x"}) THEN Fail
  ELSE IF At(p + 1, {"("}) THEN call(p)
  ELSE Ok(p + 1, <<"ident">>)

-----------------------------------------------------------------------------
ParserInit == tokens \in Inputs /\ parsed = NotParsed /\ walked = "no"

\* avar_eqn_parse; tokens behind the expression are not looked at
avar_eqn_parse ==
  /\ parsed = NotParsed
  /\ parsed' = expr(1, 0)
  /\ UNCHANGED <<tokens, walked>>

\* the nodes that visit goes on to
Below(tree) ==
  CASE tree[1] \in {"null", "num", "ident"} -> << >>
    [] tree[1] = "paren"  -> <<tree[2]>>
    [] tree[1] = "unary"  -> <<tree[3]>>
    [] tree[1] = "binary" -> <<tree[3], tree[4]>>
    [] tree[1] = "if"     -> <<tree[2], tree[3], tree[4]>>
    [] tree[1] = "call"   -> tree[2]

\* visit reaches every node below; it reads the type of NULL as of any other
RECURSIVE visit(_)
visit(tree) ==
  IF tree = Null THEN "fault"
  ELSE IF \E k \in DOMAIN Below(tree) : visit(Below(tree)[k]) = "fault" THEN "fault" ELSE "ok"

\* avar_init walks the tree with an AVarWalker; no tree is an error
node_walk ==
  /\ parsed.ok /\ walked = "no"
  /\ walked' = IF parsed.tree = Null THEN "error" ELSE visit(parsed.tree)
  /\ UNCHANGED <<tokens, parsed>>

ParserNext == avar_eqn_parse \/ node_walk

ParserSpec == ParserInit /\ [][ParserNext]_vars

-----------------------------------------------------------------------------
(* Properties                                                              *)

\* The tokens that a tree stands for, in order.
RECURSIVE Yield(_)
Yield(tree) ==
  CASE tree[1] = "null"   -> << >>
    [] tree[1] = "num"    -> <<"1">>
    [] tree[1] = "ident"  -> <<"x">>
    [] tree[1] = "paren"  -> <<"(">> \o Yield(tree[2]) \o <<")">>
    [] tree[1] = "unary"  -> <<tree[2]>> \o Yield(tree[3])
    [] tree[1] = "binary" -> Yield(tree[3]) \o <<tree[2]>> \o Yield(tree[4])
    [] tree[1] = "if"     -> <<"if">> \o Yield(tree[2]) \o <<"then">> \o Yield(tree[3])
                               \o (IF tree[4] = Null THEN << >> ELSE <<"else">> \o Yield(tree[4]))
    [] tree[1] = "call"   ->
         <<"x", "(">> \o FlattenSeq([k \in DOMAIN tree[2] |->
                            (IF k = 1 THEN << >> ELSE <<",">>) \o Yield(tree[2][k])]) \o <<")">>

\* P holds of the tree and of everything below it.
RECURSIVE Everywhere(_, _)
Everywhere(P(_), tree) ==
  P(tree) /\ \A k \in DOMAIN Below(tree) : Everywhere(P, Below(tree)[k])

Complete(tree) == Everywhere(LAMBDA t : t # Null, tree)

\* The level of a binary node; other nodes bind tighter than all of them.
Level(tree) ==
  IF tree[1] # "binary" THEN MAX_BINARY
  ELSE CHOOSE l \in 0 .. MAX_BINARY - 1 : Rune1(tree[2]) \in BINARY[l + 1]

Operators == UNION Range(BINARY)

(***************************************************************************)
(* The sentences of the grammar, without regard to precedence.             *)
(***************************************************************************)
RECURSIVE Sentence(_), Arguments(_)
Sentence(s) ==
  \/ s \in {<<"1">>, <<"x">>, <<"x", "(", ")">>}
  \/ Len(s) > 2 /\ s[1] = "(" /\ Last(s) = ")" /\ Sentence(SubSeq(s, 2, Len(s) - 1))
  \/ Len(s) > 3 /\ s[1] = "x" /\ s[2] = "(" /\ Last(s) = ")" /\ Arguments(SubSeq(s, 3, Len(s) - 1))
  \/ Len(s) > 1 /\ s[1] \in UNARY /\ Sentence(Tail(s))
  \/ \E k \in 2 .. Len(s) - 1 :
       /\ Rune1(s[k]) \in Operators
       /\ Sentence(SubSeq(s, 1, k - 1))
       /\ Sentence(SubSeq(s, k + 1, Len(s)))
  \/ /\ Len(s) > 5 /\ s[1] = "if"
     /\ \E t \in 3 .. Len(s), e \in 5 .. Len(s) - 1 :
          /\ s[t] = "then" /\ s[e] = "else"
          /\ Sentence(SubSeq(s, 2, t - 1))
          /\ Sentence(SubSeq(s, t + 1, e - 1))
          /\ Sentence(SubSeq(s, e + 1, Len(s)))
Arguments(s) ==
  \/ Sentence(s)
  \/ \E k \in 2 .. Len(s) - 1 :
       s[k] = "," /\ Sentence(SubSeq(s, 1, k - 1)) /\ Arguments(SubSeq(s, k + 1, Len(s)))

Accepted == parsed # NotParsed /\ parsed.ok

(***************************************************************************)
(* Binary operators associate to the left and nest as BINARY orders them:  *)
(* an operand never is an operator of an earlier level, and the right      *)
(* operand never one of the same level ("to preserve left-associativity"). *)
(* So "^", first in BINARY, binds loosest and "*" looser than "+".         *)
(***************************************************************************)
TreesFollowBINARY ==
  Accepted => Everywhere(LAMBDA t :
    t[1] = "binary" => Level(t[3]) >= Level(t) /\ Level(t[4]) > Level(t), parsed.tree)

(***************************************************************************)
(* The parser knows the grammar.  Every sentence is accepted, to its last  *)
(* token and with a tree that lacks no node: the greedy operand of a unary *)
(* operator or of an else branch never strands the rest.  What             *)
(* avar_eqn_parse accepts, up to the first token it leaves, and avar_init  *)
(* walks to the end is a sentence, and its tree stands for its tokens in   *)
(* their order.  The walk reaches a NULL node for a unary operator without *)
(* its operand or an if without else only.                                 *)
(***************************************************************************)
AcceptedAreSentences ==
  /\ parsed # NotParsed /\ Sentence(tokens) =>
       parsed.ok /\ parsed.pos = Len(tokens) + 1 /\ Complete(parsed.tree)
  /\ Accepted => Yield(parsed.tree) = SubSeq(tokens, 1, parsed.pos - 1)
  /\ walked = "ok" => Sentence(SubSeq(tokens, 1, parsed.pos - 1))
  /\ walked = "error" => tokens = << >>
  /\ walked = "fault" => ~ Everywhere(LAMBDA t :
       (t[1] = "unary" => t[3] # Null) /\ (t[1] = "if" => t[4] # Null), parsed.tree)

=============================================================================

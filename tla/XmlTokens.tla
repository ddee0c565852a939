----------------------------- MODULE XmlTokens -----------------------------
(***************************************************************************)
(* What the tokenizers of XmlTok are for: the tokens of XML 1.0 as regular *)
(* expressions over bytes, and texts that are cut anywhere.  A text grows  *)
(* by a character, and every invariant is about the tokens that are found  *)
(* in it.                                                                  *)
(***************************************************************************)
EXTENDS XmlTok, Regex, FiniteSetsExt

CONSTANT Entries   \* [kind, head, left, alphabet]: head and up to left characters of the alphabet

VARIABLES tokenizer, input, room, characters
tokVars == <<tokenizer, input, room, characters>>

Tokenizer(s) ==
  CASE tokenizer = "content" -> contentTok(s)
    [] tokenizer = "cdata"   -> cdataSectionTok(s)
    [] tokenizer = "prolog"  -> prologTok(s)
    [] tokenizer = "ignore"  -> ignoreSectionTok(s)
    [] tokenizer = "value"   -> attributeValueTok(s)
    [] tokenizer = "entity"  -> entityValueTok(s)

TokInit ==
  \E e \in Entries :
    tokenizer = e.kind /\ input = e.head /\ room = e.left /\ characters = e.alphabet
Grow ==
  /\ room > 0 /\ Tokenizer(input).tok # "INVALID"
  /\ \E c \in characters : input' = input \o c
  /\ room' = room - 1 /\ UNCHANGED <<tokenizer, characters>>
TokNext == Grow
TokSpec == TokInit /\ [][TokNext]_tokVars

-----------------------------------------------------------------------------
(* The tokens                                                              *)

B(types) == One({c \in DOMAIN BYTE_TYPE : BYTE_TYPE[c] \in types})
Trail == W("trail")
Wide(leads) == Seq2(One(leads), Trail)
NameStartChar == Alt2(B(NmStart), Wide({"lead2 start"}))
NameChar_ == Alt2(B(NameChar), Wide({"lead2 start", "lead2 name"}))
NCName == Seq2(NameStartChar, Star(NameChar_))
QualifiedName == Seq2(NCName, Opt(Seq2(W("ns:"), NCName)))
S0 == Star(B(S_))
S1 == Plus(B(S_))
Ascii == {c \in DOMAIN BYTE_TYPE : BYTE_TYPE[c] \notin {"LEAD2", "TRAIL", "NONXML"}}
CharBut(not) == Alt2(One(Ascii \ not), Wide(lead2))

CharReference == InTurn(<<W("&"), W("#"), Alt2(Plus(B({"DIGIT"})), InTurn(<<W("x"), Plus(B({"DIGIT", "HEX"}))>>)), W(";")>>)
EntityReference == InTurn(<<W("&"), NCName, W(";")>>)
AttValue ==
  LET In(q) == InTurn(<<W(q), Star(AnyOf(<<CharBut({q, "<", "&"}), EntityReference, CharReference>>)), W(q)>>)
  IN  Alt2(In("quot"), In("'"))
Attribute == InTurn(<<QualifiedName, S0, W("="), S0, AttValue>>)
Tag(atts, end) == InTurn(<<W("<"), QualifiedName, atts, S0, end>>)
CommentToken ==
  InTurn(<<Word(<<"<", "!", "-", "-">>), Star(Alt2(CharBut({"-"}), Seq2(W("-"), CharBut({"-"})))),
           Word(<<"-", "-", ">">>)>>)
PiText == Seq2(Star(Alt2(CharBut({"?"}), Seq2(Plus(W("?")), CharBut({"?", ">"})))), Plus(W("?")))
PiToken == InTurn(<<W("<"), W("?"), NCName, Alt2(W("?"), InTurn(<<B(S_), PiText>>)), W(">")>>)

\* a token, what it is made of and what must follow it
ContentTokens ==
  { <<"START_TAG_NO_ATTS", Tag(Eps, W(">")), Eps>>,
    <<"START_TAG_WITH_ATTS", Tag(Plus(Seq2(S1, Attribute)), W(">")), Eps>>,
    <<"EMPTY_ELEMENT_NO_ATTS", Tag(Eps, Word(<<"/", ">">>)), Eps>>,
    <<"EMPTY_ELEMENT_WITH_ATTS", Tag(Plus(Seq2(S1, Attribute)), Word(<<"/", ">">>)), Eps>>,
    <<"END_TAG", InTurn(<<W("<"), W("/"), NameStartChar, Star(Alt2(NameChar_, W("ns:"))), S0, W(">")>>), Eps>>,
    <<"COMMENT", CommentToken, Eps>>, <<"PI", PiToken, Eps>>, <<"CHAR_REF", CharReference, Eps>>, <<"ENTITY_REF", EntityReference, Eps>>,
    <<"CDATA_SECT_OPEN", Word(<<"<", "!", "[">> \o CDATA_LSQB), Eps>> }

WordEnd == One({">", ")", ",", "|", "[", "%", " ", "tab", "cr", "lf"})
Literal_(q) == InTurn(<<W(q), Star(CharBut({q})), W(q)>>)
Nmtoken == Plus(Alt2(NameChar_, W("ns:")))
AnyByte == Alt2(One(Ascii), One(lead2))
\* the local part of a name in a prolog begins with any character of names
Prefixed == InTurn(<<NCName, W("ns:"), Plus(NameChar_)>>)
NameThen(c) == Seq2(Alt2(NCName, Prefixed), W(c))
PrologTokens ==
  { <<"COMMENT", CommentToken, Eps>>, <<"PI", PiToken, Eps>>, <<"COND_SECT_OPEN", Word(<<"<", "!", "[">>), Eps>>,
    <<"DECL_OPEN", InTurn(<<W("<"), W("!"), Plus(B(NmStart))>>),
                   Alt2(B(S_), Seq2(W("%"), One(DOMAIN BYTE_TYPE \ {"%", " ", "tab", "cr", "lf"})))>>,
    <<"INSTANCE_START", Eps, Seq2(W("<"), Alt2(B(NmStart), One(lead2)))>>,
    <<"LITERAL", Alt2(Literal_("quot"), Literal_("'")), One({">", "[", "%", " ", "tab", "cr", "lf"})>>,
    <<"PERCENT", W("%"), One({"%", " ", "tab", "cr", "lf"})>>,
    <<"PARAM_ENTITY_REF", InTurn(<<W("%"), NCName, W(";")>>), Eps>>,
    <<"POUND_NAME", Seq2(W("#"), NCName), One({">", ")", "%", "|", " ", "tab", "cr", "lf"})>>,
    <<"CLOSE_BRACKET", W("]"), AnyByte>>, <<"COND_SECT_CLOSE", Word(<<"]", "]", ">">>), Eps>>,
    <<"CLOSE_PAREN", W(")"), One({">", ")", ",", "|", " ", "tab", "cr", "lf"})>>,
    <<"CLOSE_PAREN_ASTERISK", Word(<<")", "*">>), Eps>>, <<"CLOSE_PAREN_QUESTION", Word(<<")", "?">>), Eps>>,
    <<"CLOSE_PAREN_PLUS", Word(<<")", "+">>), Eps>>,
    <<"NAME", NCName, WordEnd>>, <<"NMTOKEN", Nmtoken, WordEnd>>, <<"PREFIXED_NAME", Prefixed, WordEnd>>,
    <<"NAME_PLUS", NameThen("+"), Eps>>, <<"NAME_ASTERISK", NameThen("*"), Eps>>, <<"NAME_QUESTION", NameThen("?"), Eps>>,
    <<"COMMA", W(","), Eps>>, <<"OPEN_BRACKET", W("["), Eps>>, <<"OPEN_PAREN", W("("), Eps>>, <<"OR", W("|"), Eps>>,
    <<"DECL_CLOSE", W(">"), Eps>> }

Reference == IF tokenizer = "content" THEN ContentTokens ELSE PrologTokens
Regular == 
  \/ tokenizer = "content" /\ input # << >> /\ input[1] \in {"<", "&"}
  \/ tokenizer = "prolog" /\ input # << >> /\ Type(input, 1) \notin S_
Named(tok) == CASE tok = "XML_DECL" -> "PI" [] tok = "-NAME" -> "NAME" [] tok = "-NMTOKEN" -> "NMTOKEN"
                [] tok = "-PREFIXED_NAME" -> "PREFIXED_NAME" [] tok = "-LITERAL" -> "LITERAL"
                [] tok = "-POUND_NAME" -> "POUND_NAME" [] tok = "-CLOSE_PAREN" -> "CLOSE_PAREN"
                [] tok = "-CLOSE_BRACKET" -> "CLOSE_BRACKET" [] OTHER -> tok
Goes_(s) == \E t \in Reference : Viable(Seq2(t[2], t[3]), s)

RegularToken(r) ==
  LET reserved == Bytes(input, 1, 2) = <<"<", "?">> /\ checkPiTarget(PiTarget(input)) = "none"
      waits == tokenizer = "content" /\ Bytes(input, 1, 3) = <<"<", "!", "[">> /\ Len(input) < 9
  IN  CASE r.tok \in {"PARTIAL", "PARTIAL_CHAR"} -> waits \/ Goes_(input)
        [] r.tok = "INVALID" -> reserved \/ ~ Goes_(Bytes(input, 1, r.next + 2))
        [] OTHER -> /\ \E t \in Reference : t[1] = Named(r.tok) /\ Matches(t[2], SubSeq(input, 1, r.next))
                    /\ (r.tok = "XML_DECL") = (Bytes(input, 1, 2) = <<"<", "?">> /\ PiTarget(input) = <<"x", "m", "l">>)

\* the brackets that end at j, and where a section that is ignored ends
Brackets(j) == Max({k \in 0 .. j : \A b \in j + 1 - k .. j : input[b] = "]"})
Opens(i) == {j \in 1 .. i : Bytes(input, j, 3) = <<"<", "!", "[">>}
Closes(i) == {j \in 1 .. i : CdataEnds(input, j) /\ Brackets(j + 1) % 2 = 0}
SectionEnd(r, ends) ==
  r.tok \in {"IGNORE_SECT", "PARTIAL"} =>
    /\ (r.tok = "PARTIAL") = (ends = {})
    /\ ends # {} => r.next - 2 = Min(ends)

(***************************************************************************)
(* A token is what its grammar has, and a text goes on to be asked for     *)
(* while some token begins with it and is refused where none does any      *)
(* more.  Only the name xml is reserved for the XML declaration, in any    *)
(* case of its letters, and six bytes are waited for behind "<![".  An     *)
(* ignored section ends at the first "]]>" outside of the sections in it,  *)
(* but brackets are taken in pairs: behind an odd number of them ">" is no *)
(* end, as it would be in XML 1.0.                                         *)
(***************************************************************************)
TokensFollowGrammar ==
  /\ Regular => RegularToken(Tokenizer(input))
  /\ tokenizer = "ignore" =>
       SectionEnd(ignoreSectionTok(input),
                  {i \in Closes(Len(input)) : Cardinality(Closes(i)) = Cardinality(Opens(i)) + 1})

-----------------------------------------------------------------------------
(* Texts in pieces                                                         *)

\* what is made of a token that may go on, at the end of the last piece
Finally ==
  "TRAILING_CR" :> "DATA_NEWLINE" @@ "TRAILING_RSQB" :> "DATA_CHARS" @@ "-PROLOG_S" :> "PROLOG_S" @@
  "-NAME" :> "NAME" @@ "-PREFIXED_NAME" :> "PREFIXED_NAME" @@ "-NMTOKEN" :> "NMTOKEN" @@ "-LITERAL" :> "LITERAL" @@
  "-POUND_NAME" :> "POUND_NAME" @@ "-CLOSE_PAREN" :> "CLOSE_PAREN" @@ "-CLOSE_BRACKET" :> "CLOSE_BRACKET"
Stop == {"NONE", "PARTIAL", "PARTIAL_CHAR", "INVALID", "INSTANCE_START"}

\* data and white space may be told in pieces
JoinedTokens(toks, t) ==
  IF toks # << >> /\ t.tok \in {"DATA_CHARS", "PROLOG_S"} /\ toks[1].tok = t.tok
    THEN <<[tok |-> t.tok, bytes |-> t.bytes \o toks[1].bytes]>> \o Tail(toks)
  ELSE <<t>> \o toks

\* the tokens that the loops of doContent and doProlog take from s, with more to come or not;
\* r is the first of them
RECURSIVE Loop(_, _)
LoopFrom(r, s, more) ==
  LET last == r.tok \in DOMAIN Finally
      n == IF last THEN Len(s) ELSE r.next
      tok == IF last THEN Finally[r.tok] ELSE r.tok
  IN  IF r.tok \in Stop \/ (last /\ more) THEN [toks |-> << >>, stop |-> r.tok, rest |-> s]
      ELSE [Loop(SubSeq(s, n + 1, Len(s)), more) EXCEPT !.toks = JoinedTokens(@, [tok |-> tok, bytes |-> SubSeq(s, 1, n)])]
Loop(s, more) == LoopFrom(Tokenizer(s), s, more)

Append_(toks, more) == FoldRight(LAMBDA t, acc : JoinedTokens(acc, t), toks, more)
SameTokens(whole, first, second) ==
  LET stop == IF first.stop = "INVALID" THEN "INVALID" ELSE second.stop
  IN  /\ (stop = "INVALID") = (whole.stop = "INVALID")
      /\ stop # "INVALID" => /\ Append_(first.toks, second.toks) = whole.toks
                             /\ stop = whole.stop /\ second.rest = whole.rest
CutBehind(whole, first, rest) == SameTokens(whole, first, Loop(first.rest \o rest, FALSE))

(***************************************************************************)
(* Where a text is cut into pieces does not matter: what was not taken     *)
(* from the first piece and the rest together have the tokens that the     *)
(* whole has.                                                              *)
(***************************************************************************)
CutsDoNotMatter ==
  tokenizer \in {"content", "cdata", "prolog"} =>
    \E whole \in {Loop(input, FALSE)} :
      \A k \in 1 .. Len(input) - 1 :
        CutBehind(whole, Loop(SubSeq(input, 1, k), TRUE), SubSeq(input, k + 1, Len(input)))

=============================================================================

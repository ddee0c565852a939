------------------------------- MODULE XmlDtd -------------------------------
(***************************************************************************)
(* What doProlog is for: the grammar of a prolog as XML 1.0 has it, the    *)
(* content models and the declarations that a document makes, each read    *)
(* off the tokens without regard to the order in which doProlog gets them. *)
(***************************************************************************)
EXTENDS XmlProlog, Regex

-----------------------------------------------------------------------------
(* The grammar                                                             *)

ExternalID == AnyOf(<<InTurn(<<W("SYSTEM"), W("LITERAL")>>),
                      InTurn(<<W("PUBLIC"), W("LITERAL"), W("LITERAL")>>)>>)
NotationDecl ==
  InTurn(<<W("<!NOTATION"), One(Name),
           Alt2(ExternalID, InTurn(<<W("PUBLIC"), W("LITERAL")>>)), W(">")>>)
EntityDecl ==
  InTurn(<<W("<!ENTITY"),
           AnyOf(<<InTurn(<<One(Name), Alt2(W("LITERAL"), Seq2(ExternalID, Opt(Seq2(W("NDATA"), One(Name)))))>>),
                   InTurn(<<W("%"), One(Name), Alt2(W("LITERAL"), ExternalID)>>)>>), W(">")>>)

ListOf(a) == InTurn(<<W("("), a, Star(Seq2(W("|"), a)), W(")")>>)
AttType ==
  AnyOf(<<One(Types), Seq2(W("NOTATION"), ListOf(One(Name))), ListOf(One(QName \cup {"NMTOKEN1"}))>>)
DefaultDecl == Alt2(One({"#REQUIRED", "#IMPLIED"}), Seq2(Opt(W("#FIXED")), W("LITERAL")))
AttlistDecl ==
  InTurn(<<W("<!ATTLIST"), One(QName), Star(InTurn(<<One(QName), AttType, DefaultDecl>>)), W(">")>>)

Closing == One({")", ")?", ")*", ")+"})
RECURSIVE Choice(_)
Choice(depth) ==
  LET leaf == One(QName \cup {"NAME?", "NAME*", "NAME+"})
      cp == IF depth = 0 THEN leaf ELSE Alt2(leaf, Choice(depth - 1))
  IN  InTurn(<<W("("), cp, Alt2(Star(Seq2(W(","), cp)), Star(Seq2(W("|"), cp))), Closing>>)
Mixed ==
  InTurn(<<W("("), W("#PCDATA"),
           Alt2(W(")"), Seq2(Star(Seq2(W("|"), One(QName))), W(")*")))>>)
MaxDepth == 6
ElementDecl ==
  InTurn(<<W("<!ELEMENT"), One(QName), AnyOf(<<W("EMPTY"), W("ANY"), Mixed, Choice(MaxDepth)>>), W(">")>>)

PrologSpace == One({"PI", "COMMENT", "PROLOG_S"})
Markup == AnyOf(<<ElementDecl, AttlistDecl, EntityDecl, NotationDecl, PrologSpace, W("PARAM_ENTITY_REF")>>)
DoctypeDecl ==
  InTurn(<<W("<!DOCTYPE"), One(QName), Opt(ExternalID),
           Opt(InTurn(<<W("["), Star(Markup), W("]")>>)), W(">")>>)
PrologGrammar ==
  InTurn(<<Star(W("BOM")), Opt(W("XML_DECL")), Star(One({"PI", "COMMENT", "PROLOG_S", "BOM"})),
           Opt(Seq2(DoctypeDecl, Star(PrologSpace))), W("INSTANCE_START")>>)

RECURSIVE Sections(_)
Sections(depth) ==
  LET sect == InTurn(<<W("<!["), W("INCLUDE"), W("["), Sections(depth - 1), W("]]>")>>)
      ignore == InTurn(<<W("<!["), W("IGNORE"), W("[")>>)
  IN  Star(IF depth = 0 THEN Markup ELSE AnyOf(<<Markup, sect, ignore>>))
ExtSubset == Seq2(Opt(W("XML_DECL")), Sections(2))

\* white space is free inside of declarations, and in an external subset so are references
Take(r, tok) ==
  IF \/ tok.kind = "PROLOG_S"
     \/ tok.kind = "PARAM_ENTITY_REF" /\ script.external
    THEN IF Rest(r, tok.kind)[1] = "nothing" THEN r ELSE Rest(r, tok.kind)
  ELSE Rest(r, tok.kind)

(***************************************************************************)
(* The handlers of the roles and the connectors of groups together follow  *)
(* the grammar: a token is refused at once if no prolog goes on with it,   *)
(* never later and never otherwise, and what is accepted to its end is a   *)
(* whole prolog or external subset.                                        *)
(***************************************************************************)
RolesFollowGrammar ==
  read # << >> =>
    LET left == FoldLeft(Take, IF script.external THEN ExtSubset ELSE PrologGrammar, read)
    IN  /\ prologStatus \in {"SYNTAX", "PARAM_ENTITY_REF", "MISPLACED_XML_PI"} <=> left[1] = "nothing"
        /\ prologStatus \in {"content", "done"} => Nullable(left)
        /\ (prologStatus = "INCOMPLETE_PE" /\ entities = << >>) => ~ Nullable(left)

-----------------------------------------------------------------------------
(* Content models                                                          *)

Closers_ == DOMAIN Closers
QuantOf(kind) ==
  CASE kind \in {"NAME?", ")?"} -> "OPT" [] kind \in {"NAME*", ")*"} -> "REP"
    [] kind \in {"NAME+", ")+"} -> "PLUS" [] OTHER -> "NONE"

\* how many groups are open behind the first i tokens
Depth(toks, i) ==
  Cardinality({k \in 1 .. i : toks[k].kind = "("}) - Cardinality({k \in 1 .. i : toks[k].kind \in Closers_})

\* the tree of a particle: a name, or the tokens of a group split at its own connectors
RECURSIVE Particle_(_)
Particle_(toks) ==
  LET n == Len(toks)
      cuts == {1, n} \cup {i \in 2 .. n - 1 : toks[i].kind \in {",", "|"} /\ Depth(toks, i) = 1}
      cut == SetToSortSeq(cuts, <)
      items == [k \in 1 .. Len(cut) - 1 |-> SubSeq(toks, cut[k] + 1, cut[k + 1] - 1)]
      mixed == toks[2].kind = "#PCDATA"
  IN  IF n = 1
        THEN [type |-> "NAME", quant |-> QuantOf(toks[1].kind), name |-> toks[1].text, children |-> << >>]
      ELSE [type |-> IF mixed THEN "MIXED"
                     ELSE IF \E i \in cuts : toks[i].kind = "|" THEN "CHOICE" ELSE "SEQ",
            quant |-> QuantOf(toks[n].kind), name |-> NoName,
            children |-> LET rest == IF mixed THEN Tail(items) ELSE items
                         IN  [k \in DOMAIN rest |-> Particle_(rest[k])]]

\* the tokens between the element's name and the end of its declaration, without space
Spec_(i) ==
  LET end == {j \in i + 1 .. Len(read) : read[j].kind = ">"}
      last == IF end = {} THEN Len(read) ELSE Min(end) - 1
      toks == SelectSeq(SubSeq(read, i + 1, last), LAMBDA t : t.kind \notin {"PROLOG_S", "PARAM_ENTITY_REF"})
  IN  IF toks = << >> THEN toks ELSE Tail(toks)
Whole(toks) ==
  toks # << >> /\ (toks[1].kind \in {"EMPTY", "ANY"} \/ Depth(toks, Len(toks)) = 0)
ElementDecls == SelectSeq([i \in 1 .. Len(read) |-> i], LAMBDA i : read[i].kind = "<!ELEMENT" /\ Whole(Spec_(i)))

(***************************************************************************)
(* Every declaration of an element is told once, with the tree that its    *)
(* tokens stand for: the scaffold, whose nodes one declaration leaves to   *)
(* the next and whose links run over all the levels, and the array that    *)
(* build_node fills lose, double or misplace no particle and quantifier.   *)
(***************************************************************************)
ModelsAreTrees ==
  prologStatus = "prolog" /\ Has("elementDecl") =>
    LET told == SelectSeq(calls, LAMBDA c : c.handler = "elementDecl")
    IN  /\ Len(told) = Len(ElementDecls)
        /\ \A k \in DOMAIN told :
             LET toks == Spec_(ElementDecls[k])
             IN  told[k].args[2] = IF toks[1].kind \in {"EMPTY", "ANY"} THEN Leaf(toks[1].kind)
                                   ELSE Particle_(toks)

-----------------------------------------------------------------------------
(* Declarations                                                            *)

NoDeclarations == [keep |-> TRUE, general |-> << >>, params |-> << >>, atts |-> << >>, words |-> << >>]
Binds(table, name, v) == IF name \in DOMAIN table THEN table ELSE name :> v @@ table
Defaults == {"LITERAL", "#IMPLIED", "#REQUIRED"}

\* an entity is declared by the word behind its name, an attribute by its default
Declare(acc, tok) ==
  LET w == Append(acc.words, tok)
      n == Len(w)
      j == Max({2} \cup {k \in 1 .. n - 1 : w[k].kind \in Defaults})
      text == IF tok.kind = "LITERAL" THEN tok.value ELSE <<T("external")>>
  IN  CASE w[1].kind = "<!ENTITY" /\ n = 3 /\ w[2].kind # "%" /\ w[2].text \notin PredefinedNames ->
             [acc EXCEPT !.general = Binds(@, w[2].text, text)]
        [] w[1].kind = "<!ENTITY" /\ n = 4 /\ w[2].kind = "%" ->
             [acc EXCEPT !.params = Binds(@, w[3].text, text)]
        [] w[1].kind = "<!ATTLIST" /\ n > 2 /\ tok.kind \in Defaults ->
             [acc EXCEPT !.atts = Binds(@, <<w[2].text, w[j + 1].text>>,
                                       [value |-> tok.value, isCdata |-> w[j + 2].kind = "CDATA"])]
        [] OTHER -> acc

\* declarations count up to the first reference that is not followed
ReadDeclaration(acc, tok) ==
  LET followed == /\ paramEntityParsing # "NEVER" /\ tok.text \in DOMAIN acc.params
                  /\ acc.params[tok.text] # <<T("external")>>
  IN  CASE tok.kind = "PARAM_ENTITY_REF" -> [acc EXCEPT !.keep = @ /\ (followed \/ dtd.standalone)]
        [] tok.kind = ">" -> [acc EXCEPT !.words = << >>]
        [] tok.kind \in {"<!ENTITY", "<!ATTLIST", "<!ELEMENT", "<!NOTATION"} -> [acc EXCEPT !.words = <<tok>>]
        [] OTHER ->
             IF tok.kind = "PROLOG_S" \/ acc.words = << >> THEN acc
             ELSE [(IF acc.keep THEN Declare(acc, tok) ELSE acc) EXCEPT !.words = Append(@, tok)]

First(defaults, Test(_)) == LET i == SelectInSeq(defaults, Test) IN IF i = 0 THEN << >> ELSE <<defaults[i]>>

\* the tokens of a declaration go to its own handler or, if it has none, all to the default
\* handler; only a connector "|" may go there although the declaration has a handler
HandledOnce ==
  \A i \in DOMAIN read, kind \in {"ELEMENT", "ATTLIST", "NOTATION"} :
    LET own == CASE kind = "ELEMENT" -> Has("elementDecl") [] kind = "NOTATION" -> Has("notationDecl")
                 [] kind = "ATTLIST" -> Has("attlistDecl")
        open == CASE kind = "ELEMENT" -> "<!ELEMENT" [] kind = "NOTATION" -> "<!NOTATION"
                  [] kind = "ATTLIST" -> "<!ATTLIST"
    IN  /\ \E o \in 1 .. i : read[o].kind = open /\ \A j \in o .. i - 1 : read[j].kind # ">"
        /\ read[i].kind # "PARAM_ENTITY_REF"
        => /\ ~ own => i \in defaulted
           /\ own /\ read[i].kind # "|" /\ dtd.keepProcessing => i \notin defaulted

(***************************************************************************)
(* The first declaration of an entity or of an attribute of an element     *)
(* binds, whatever is declared of the name later and in whatever entity,   *)
(* and none behind a reference that is skipped does, unless the document   *)
(* is standalone; and the tokens of a declaration reach one handler.       *)
(***************************************************************************)
FirstDeclarationBinds ==
  LET acc == FoldLeft(ReadDeclaration, NoDeclarations, read)
      Entity(table, n) == IF table[n].system THEN <<T("external")>> ELSE table[n].text
  IN  /\ prologStatus = "prolog" => HandledOnce
      /\ prologStatus = "prolog" /\ acc.words = << >> =>
        /\ dtd.keepProcessing = acc.keep
        /\ acc.general = [n \in DOMAIN dtd.generalEntities |-> Entity(dtd.generalEntities, n)]
        /\ acc.params = [n \in DOMAIN dtd.paramEntities |-> Entity(dtd.paramEntities, n)]
        /\ \A e \in DOMAIN dtd.elementTypes :
             LET defaults == dtd.elementTypes[e].defaults
             IN  /\ \A i \in DOMAIN defaults : <<e, defaults[i].id>> \in DOMAIN acc.atts
                 /\ \A a \in {b[2] : b \in {c \in DOMAIN acc.atts : c[1] = e}} :
                      LET att == acc.atts[<<e, a>>]
                          valued == First(defaults, LAMBDA d : d.id = a /\ d.value # NoDefault)
                      IN  /\ First(defaults, LAMBDA d : d.id = a)[1].isCdata = att.isCdata
                          /\ valued = IF att.value = NoDefault THEN << >>
                                      ELSE <<[id |-> a, value |-> att.value, isCdata |-> att.isCdata]>>

=============================================================================

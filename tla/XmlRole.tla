------------------------------- MODULE XmlRole -------------------------------
(***************************************************************************)
(* The roles of the tokens of a prolog (expat/lib/xmlrole.c).  A state is  *)
(* [handler, level, includeLevel, role_none, documentEntity].  A token is  *)
(* named for its kind, or is the word itself where the keyword matters:    *)
(* "SYSTEM" is XML_TOK_NAME, "<!ENTITY" is XML_TOK_DECL_OPEN, "#FIXED" is  *)
(* XML_TOK_POUND_NAME; "NAME", "<!" and "#" are any other words, and       *)
(* "NMTOKEN1" is XML_TOK_NMTOKEN.                                          *)
(*                                                                         *)
(* Every handler is a function from the tokens that it knows to the next   *)
(* handler and the role.                                                   *)
(***************************************************************************)
EXTENDS Integers, Sequences, TLC

Types == {"CDATA", "ID", "IDREF", "IDREFS", "ENTITY", "ENTITIES", "NMTOKEN", "NMTOKENS"}
Keywords == Types \cup
  {"SYSTEM", "PUBLIC", "NDATA", "EMPTY", "ANY", "NOTATION", "INCLUDE", "IGNORE"}
Name == {"NAME"} \cup Keywords
QName == Name \cup {"PREFIXED_NAME"}

Rule(toks, handler, role) == [t \in toks |-> <<handler, role>>]
Skip(handler, role) == Rule({"PROLOG_S"}, handler, role)
MiscRules(handler) ==
  Skip(handler, "NONE") @@ Rule({"PI"}, handler, "PI") @@ Rule({"COMMENT"}, handler, "COMMENT")
Start == Rule({"<!DOCTYPE"}, "doctype0", "DOCTYPE_NONE")
           @@ Rule({"INSTANCE_START"}, "error", "INSTANCE_START")

\* mutant: an XML declaration is accepted behind comments
prologDecl ==
  "prolog0" :> (MiscRules("prolog1") @@ Rule({"XML_DECL"}, "prolog1", "XML_DECL")
                  @@ Rule({"BOM"}, "prolog0", "NONE") @@ Start) @@
  "prolog1" :> (MiscRules("prolog1") @@ Rule({"XML_DECL"}, "prolog1", "XML_DECL")
                  @@ Rule({"BOM"}, "prolog1", "NONE") @@ Start) @@
  "prolog2" :> (MiscRules("prolog2") @@ Rule({"INSTANCE_START"}, "error", "INSTANCE_START"))

prolog ==
  "prolog0" :> (MiscRules("prolog1") @@ Rule({"XML_DECL"}, "prolog1", "XML_DECL")
                  @@ Rule({"BOM"}, "prolog0", "NONE") @@ Start) @@
  "prolog1" :> (MiscRules("prolog1") @@ Rule({"BOM"}, "prolog1", "NONE") @@ Start) @@
  "prolog2" :> (MiscRules("prolog2") @@ Rule({"INSTANCE_START"}, "error", "INSTANCE_START"))

Subset == Rule({"["}, "internalSubset", "DOCTYPE_INTERNAL_SUBSET")
CloseDoctype == Rule({">"}, "prolog2", "DOCTYPE_CLOSE")
doctype ==
  "doctype0" :> Rule(QName, "doctype1", "DOCTYPE_NAME") @@
  "doctype1" :> (Subset @@ CloseDoctype @@ Rule({"SYSTEM"}, "doctype3", "DOCTYPE_NONE")
                   @@ Rule({"PUBLIC"}, "doctype2", "DOCTYPE_NONE")) @@
  "doctype2" :> Rule({"LITERAL"}, "doctype3", "DOCTYPE_PUBLIC_ID") @@
  "doctype3" :> Rule({"LITERAL"}, "doctype4", "DOCTYPE_SYSTEM_ID") @@
  "doctype4" :> (Subset @@ CloseDoctype) @@
  "doctype5" :> CloseDoctype

internalSubset ==
  MiscRules("internalSubset") @@
  Rule({"<!ENTITY"}, "entity0", "ENTITY_NONE") @@ Rule({"<!ATTLIST"}, "attlist0", "ATTLIST_NONE") @@
  Rule({"<!ELEMENT"}, "element0", "ELEMENT_NONE") @@
  Rule({"<!NOTATION"}, "notation0", "NOTATION_NONE") @@
  Rule({"PARAM_ENTITY_REF"}, "internalSubset", "PARAM_ENTITY_REF") @@
  Rule({"]"}, "doctype5", "DOCTYPE_NONE") @@ Rule({"NONE"}, "internalSubset", "NONE")

\* the handler stays what it was on a token that internalSubset does not leave it for
Same(h, rules) == 
  [t \in DOMAIN rules |-> <<IF rules[t][1] = "internalSubset" THEN h ELSE rules[t][1], rules[t][2]>>]

externalSubset1 ==
  Rule({"<!["}, "condSect0", "NONE") @@ Rule({"]]>"}, "externalSubset1", "NONE") @@
  Same("externalSubset1", [t \in DOMAIN internalSubset \ {"]"} |-> internalSubset[t]])
externalSubset0 == Rule({"XML_DECL"}, "externalSubset1", "TEXT_DECL") @@ externalSubset1

\* a declaration's end (setTopLevel) leads to "top"
Top(role) == Rule({">"}, "top", role)
External(system, public) ==
  Rule({"SYSTEM"}, system, "ENTITY_NONE") @@ Rule({"PUBLIC"}, public, "ENTITY_NONE")
Value == Rule({"LITERAL"}, "declClose", "ENTITY_VALUE")

entityGeneral ==
  "entity0" :> (Rule({"%"}, "entity1", "ENTITY_NONE") @@ Rule(Name, "entity2", "GENERAL_ENTITY_NAME")) @@
  "entity1" :> Rule(Name, "entity7", "PARAM_ENTITY_NAME") @@
  "entity2" :> (External("entity4", "entity3") @@ Value) @@
  "entity3" :> Rule({"LITERAL"}, "entity4", "ENTITY_PUBLIC_ID") @@
  "entity4" :> Rule({"LITERAL"}, "entity5", "ENTITY_SYSTEM_ID") @@
  "entity5" :> (Top("ENTITY_COMPLETE") @@ Rule({"NDATA"}, "entity6", "ENTITY_NONE")) @@
  "entity6" :> Rule(Name, "declClose", "ENTITY_NOTATION_NAME")
entityParam ==
  "entity7"  :> (External("entity9", "entity8") @@ Value) @@
  "entity8"  :> Rule({"LITERAL"}, "entity9", "ENTITY_PUBLIC_ID") @@
  "entity9"  :> Rule({"LITERAL"}, "entity10", "ENTITY_SYSTEM_ID") @@
  "entity10" :> Top("ENTITY_COMPLETE")

notation ==
  "notation0" :> Rule(Name, "notation1", "NOTATION_NAME") @@
  "notation1" :> (Rule({"SYSTEM"}, "notation3", "NOTATION_NONE")
                    @@ Rule({"PUBLIC"}, "notation2", "NOTATION_NONE")) @@
  "notation2" :> Rule({"LITERAL"}, "notation4", "NOTATION_PUBLIC_ID") @@
  "notation3" :> Rule({"LITERAL"}, "declClose", "NOTATION_SYSTEM_ID") @@
  "notation4" :> (Rule({"LITERAL"}, "declClose", "NOTATION_SYSTEM_ID")
                    @@ Top("NOTATION_NO_SYSTEM_ID"))

AttRule(toks, handler) == Rule(toks, handler, "ATTLIST_NONE")
attlist ==
  "attlist0" :> Rule(QName, "attlist1", "ATTLIST_ELEMENT_NAME") @@
  "attlist1" :> (Top("ATTLIST_NONE") @@ Rule(QName, "attlist2", "ATTRIBUTE_NAME")) @@
  "attlist2" :> ([t \in Types |-> <<"attlist8", "ATTRIBUTE_TYPE">>] @@ AttRule({"NOTATION"}, "attlist5")
                   @@ AttRule({"("}, "attlist3")) @@
  "attlist3" :> Rule(QName \cup {"NMTOKEN1"}, "attlist4", "ATTRIBUTE_ENUM_VALUE") @@
  "attlist4" :> (AttRule({")"}, "attlist8") @@ AttRule({"|"}, "attlist3")) @@
  "attlist5" :> AttRule({"("}, "attlist6") @@
  "attlist6" :> Rule(Name, "attlist7", "ATTRIBUTE_NOTATION_VALUE") @@
  "attlist7" :> (AttRule({")"}, "attlist8") @@ AttRule({"|"}, "attlist6"))
attlistDefault ==
  "attlist8" :> (Rule({"#IMPLIED"}, "attlist1", "IMPLIED_ATTRIBUTE_VALUE")
                   @@ Rule({"#REQUIRED"}, "attlist1", "REQUIRED_ATTRIBUTE_VALUE")
                   @@ AttRule({"#FIXED"}, "attlist9")
                   @@ Rule({"LITERAL"}, "attlist1", "DEFAULT_ATTRIBUTE_VALUE")) @@
  "attlist9" :> Rule({"LITERAL"}, "attlist1", "FIXED_ATTRIBUTE_VALUE")

\* a particle of a content model, with its quantifier
Particle ==
  Rule(QName, "element7", "CONTENT_ELEMENT") @@ Rule({"NAME?"}, "element7", "CONTENT_ELEMENT_OPT") @@
  Rule({"NAME*"}, "element7", "CONTENT_ELEMENT_REP") @@
  Rule({"NAME+"}, "element7", "CONTENT_ELEMENT_PLUS") @@ Rule({"("}, "element6", "GROUP_OPEN")
GroupRep == Rule({")*"}, "declClose", "GROUP_CLOSE_REP")
elementMixed ==
  "element0" :> Rule(QName, "element1", "ELEMENT_NAME") @@
  "element1" :> (Rule({"EMPTY"}, "declClose", "CONTENT_EMPTY") @@ Rule({"ANY"}, "declClose", "CONTENT_ANY")
                   @@ Rule({"("}, "element2", "GROUP_OPEN")) @@
  "element2" :> (Rule({"#PCDATA"}, "element3", "CONTENT_PCDATA") @@ Particle) @@
  "element3" :> (Rule({")"}, "declClose", "GROUP_CLOSE") @@ GroupRep
                   @@ Rule({"|"}, "element4", "ELEMENT_NONE")) @@
  "element4" :> Rule(QName, "element5", "CONTENT_ELEMENT") @@
  "element5" :> (GroupRep @@ Rule({"|"}, "element4", "ELEMENT_NONE"))
Closers == ")" :> "GROUP_CLOSE" @@ ")*" :> "GROUP_CLOSE_REP" @@ ")?" :> "GROUP_CLOSE_OPT"
             @@ ")+" :> "GROUP_CLOSE_PLUS"
elementGroups ==
  "element6" :> Particle @@
  "element7" :> ([t \in DOMAIN Closers |-> <<"element7", Closers[t]>>]
                   @@ Rule({","}, "element6", "GROUP_SEQUENCE") @@ Rule({"|"}, "element6", "GROUP_CHOICE"))

condSect ==
  "condSect0" :> (Rule({"INCLUDE"}, "condSect1", "NONE") @@ Rule({"IGNORE"}, "condSect2", "NONE")) @@
  "condSect1" :> Rule({"["}, "externalSubset1", "NONE") @@
  "condSect2" :> Rule({"["}, "externalSubset1", "IGNORE_SECT")

declClose == "declClose" :> Top("role_none")

Declarations ==
  doctype @@ entityGeneral @@ entityParam @@ notation @@ attlist @@ attlistDefault @@ elementMixed
    @@ elementGroups @@ condSect @@ declClose
Handlers ==
  prolog @@ "internalSubset" :> internalSubset @@ "externalSubset0" :> externalSubset0
    @@ "externalSubset1" :> externalSubset1 @@ Declarations

\* the role of white space inside of a declaration, and its role_none
NoneOf(h) ==
  CASE h \in DOMAIN doctype -> "DOCTYPE_NONE"
    [] h \in DOMAIN entityGeneral \cup DOMAIN entityParam -> "ENTITY_NONE"
    [] h \in DOMAIN notation -> "NOTATION_NONE"
    [] h \in DOMAIN attlist \cup DOMAIN attlistDefault -> "ATTLIST_NONE"
    [] h \in DOMAIN elementMixed \cup DOMAIN elementGroups -> "ELEMENT_NONE"
    [] OTHER -> "NONE"

XmlPrologStateInit ==
  [handler |-> "prolog0", level |-> 0, includeLevel |-> 0, role_none |-> "NONE",
   documentEntity |-> TRUE]
XmlPrologStateInitExternalEntity ==
  [XmlPrologStateInit EXCEPT !.handler = "externalSubset0", !.documentEntity = FALSE]

setTopLevel(state) == IF state.documentEntity THEN "internalSubset" ELSE "externalSubset1"

\* no handler of the state knows the token; the state stays in front of a reference
common(state, tok) ==
  IF ~ state.documentEntity /\ tok = "PARAM_ENTITY_REF"
    THEN [state |-> state, role |-> "INNER_PARAM_ENTITY_REF"]
  ELSE [state |-> [state EXCEPT !.handler = "error"], role |-> "ERROR"]

\* how deep in groups the token leads
Level(state, tok) ==
  CASE state.handler = "element1" /\ tok = "(" -> 1
    [] state.handler = "element2" /\ tok = "(" -> 2
    [] state.handler = "element6" /\ tok = "(" -> state.level + 1
    [] state.handler = "element7" /\ tok \in DOMAIN Closers -> state.level - 1
    [] OTHER -> state.level

Included(state, tok) ==
  CASE state.handler = "condSect1" /\ tok = "[" -> state.includeLevel + 1
    [] state.handler \in {"externalSubset0", "externalSubset1"} /\ tok = "]]>" -> state.includeLevel - 1
    [] OTHER -> state.includeLevel

\* what externalSubset1 refuses: a section closed that is not open, or the end inside of one
Unbalanced(state, tok) ==
  /\ state.handler \in {"externalSubset0", "externalSubset1"}
  /\ (tok = "]]>" /\ state.includeLevel = 0) \/ (tok = "NONE" /\ state.includeLevel > 0)

\* the handler of the state is called with the token
XmlTokenRole(state, tok) ==
  LET rule == Handlers[state.handler][tok]
      next == IF Level(state, tok) = 0 /\ tok \in DOMAIN Closers /\ state.handler = "element7" THEN "declClose"
              ELSE IF rule[1] = "top" THEN setTopLevel(state) ELSE rule[1]
  IN  IF state.handler = "error" THEN [state |-> state, role |-> "NONE"]
      ELSE IF tok = "PROLOG_S" /\ state.handler \in DOMAIN Declarations
        THEN [state |-> state, role |-> IF state.handler = "declClose" THEN state.role_none
                                        ELSE NoneOf(state.handler)]
      ELSE IF tok \notin DOMAIN Handlers[state.handler] \/ Unbalanced(state, tok) THEN common(state, tok)
      ELSE [state |-> [state EXCEPT !.handler = next, !.level = Level(state, tok),
                                    !.includeLevel = Included(state, tok),
                                    !.role_none = IF next = "declClose" THEN NoneOf(state.handler) ELSE @],
            role |-> IF rule[2] = "role_none" THEN state.role_none ELSE rule[2]]

=============================================================================

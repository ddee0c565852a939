------------------------------ MODULE MCExpat ------------------------------
(***************************************************************************)
(* The grammar of XML in expat: its tokenizers on texts that grow, and its *)
(* prolog on documents of declarations.  A behavior is one of either; the  *)
(* other has nothing to read.                                              *)
(***************************************************************************)
EXTENDS XmlTokens, XmlDtd

-----------------------------------------------------------------------------
(* Texts that begin with a token of one kind and go on with any characters *)
(* of a small alphabet.                                                    *)

Cs(bytes) == {<<bytes[i]>> : i \in DOMAIN bytes}
Start_ == <<"lead2 start", "trail">>
Name_ == <<"lead2 name", "trail">>
None_ == <<"lead2 none", "trail">>
WrongPair == <<"lead2 none", "a">>
Entry(k, head, n, chars) == [kind |-> k, head |-> head, left |-> n, alphabet |-> chars]

MCEntries ==
  { Entry("content", << >>, 5, {Start_, WrongPair, <<"nonxml">>} \cup Cs(<<"]", ">", "cr", "lf">>)),
    Entry("content", <<"<">>, 5, {Start_, Name_, None_} \cup Cs(<<"a", "ns:", "/", ">", " ", "?", "!", "[", "-">>)),
    Entry("content", <<"<", "a", " ">>, 5, Cs(<<"a", "ns:", " ", "=", "quot", "/", ">">>)),
    Entry("content", <<"<", "a", " ", "a", "=", "'">>, 5, {None_} \cup Cs(<<"'", "<", "&", "b", ";", ">">>)),
    Entry("content", <<"&">>, 5, Cs(<<"#", "x", "1", "a", ";", ":">>)),
    Entry("content", <<"<", "!", "-", "-">>, 5, {None_, WrongPair} \cup Cs(<<"-", ">", "a">>)),
    Entry("content", <<"<", "?", "x">>, 5, Cs(<<"m", "l", "?", ">", " ">>)),
    Entry("content", <<"<", "?", "X", "m">>, 4, Cs(<<"l", "?", ">", " ">>)),
    Entry("content", <<"<", "!", "[", "C", "D", "A">>, 4, Cs(<<"T", "A", "[", "]">>)),
    Entry("cdata", << >>, 5, {None_, WrongPair} \cup Cs(<<"]", ">", "a", "cr", "lf">>)),
    Entry("prolog", << >>, 3, {Start_, Name_, None_} \cup
      Cs(<<"a", "1", "ns:", "+", "*", "?", "(", ")", ">", ",", "|", "[", "]", "#", "%", ";", " ", "cr", "lf", "<", "!", "'">>)),
    Entry("prolog", <<"<", "!", "a">>, 3, {None_} \cup Cs(<<"a", "%", " ", "1", "[">>)),
    Entry("prolog", <<"a", "ns:">>, 4, {Name_} \cup Cs(<<"a", "1", "ns:", "+", ">">>)),
    Entry("value", << >>, 4, {None_} \cup Cs(<<"a", " ", "tab", "cr", "lf", "&", ";", "<">>)),
    Entry("entity", << >>, 4, {None_} \cup Cs(<<"a", "cr", "lf", "&", ";", "%">>)),
    Entry("ignore", <<"]">>, 6, Cs(<<"<", "!", "[", "]", ">">>)) }

-----------------------------------------------------------------------------
(* Documents that get to one kind of declaration and go on with any tokens *)
(* of a small alphabet.                                                    *)

a == NameTok("a")
b == NameTok("b")
LiteralOf(n) == Literal(<<NameTok(n)>>)
ReferenceTo(n) == Tok("PARAM_ENTITY_REF", n, << >>)
Ks(s) == {T(s[i]) : i \in DOMAIN s}

Script(head, left, alphabet, parsing) ==
  [head |-> head, left |-> left, alphabet |-> alphabet, external |-> FALSE, parsing |-> parsing]
InExternal(head, left, alphabet) ==
  [head |-> head, left |-> left, alphabet |-> alphabet, external |-> TRUE, parsing |-> {"NEVER", "ALWAYS"}]
InSubset(head, left, alphabet) ==
  Script(<<T("<!DOCTYPE"), a, T("[")>> \o head, left, alphabet, {"NEVER"})
PE(n, text) == <<T("<!ENTITY"), T("%"), NameTok(n), Literal(text), T(">")>>
GE(n, text) == <<T("<!ENTITY"), NameTok(n), Literal(text), T(">")>>

Starts_ ==
  Script(<< >>, 5, {a} \cup Ks(<<"BOM", "XML_DECL", "PROLOG_S", "COMMENT", "<!DOCTYPE", "PUBLIC", "SYSTEM",
                                 "LITERAL", "[", "]", ">", "INSTANCE_START">>), {"NEVER"})
Elements_ ==
  { InSubset(<<T("<!ELEMENT"), a, T("(")>>, 6,
             {a, Tok("NAME?", "b", << >>)} \cup Ks(<<"(", ")", ")*", "|", ",", "#PCDATA">>)),
    InSubset(<<T("<!ELEMENT"), a, T("("), T("("), b, T("|"), a, T(")"), T(","), b, T(")+"), T(">"),
               T("<!ELEMENT"), b>>, 5, {a, Tok("NAME+", "b", << >>)} \cup Ks(<<"(", ")", "|", "EMPTY", ">">>)) }
Attributes_ ==
  { InSubset(<<T("<!ATTLIST"), a, a, T("CDATA"), LiteralOf("v"), T(">"), T("<!ATTLIST"), a>>, 6,
             {a, b, LiteralOf("w")} \cup Ks(<<"CDATA", "ID", "#IMPLIED", "#FIXED", ">">>)),
    InSubset(<<T("<!ATTLIST"), a, a>>, 6,
             {a} \cup Ks(<<"(", ")", "|", "NOTATION", "NMTOKEN1", "PREFIXED_NAME", "#REQUIRED", "LITERAL",
                           "ENTITIES", ">", "PROLOG_S">>)) }
Entities_ ==
  { InSubset(<< >>, 6, {a, NameTok("lt"), LiteralOf("v")} \cup Ks(<<"<!ENTITY", "%", "SYSTEM", "PUBLIC", "NDATA", ">">>)),
    InSubset(GE("a", <<a>>) \o PE("a", <<b>>), 5, {a, b, LiteralOf("v")} \cup Ks(<<"<!ENTITY", "%", "SYSTEM", ">">>)),
    InSubset(<< >>, 7, {a} \cup Ks(<<"<!NOTATION", "NOTATION", "SYSTEM", "PUBLIC", "LITERAL", ">", "PROLOG_S">>)) }

\* p and d declare, q refers to p and to itself, i ends in the middle of a declaration,
\* s is external, and u is not declared
Referred ==
  <<T("<!DOCTYPE"), a, T("[")>> \o PE("p", GE("a", <<a>>)) \o PE("i", <<T("<!ENTITY"), b>>)
    \o PE("q", <<ReferenceTo("p")>> \o GE("b", <<b>>) \o <<ReferenceTo("q")>>)
    \o PE("d", <<T("<!ATTLIST"), a, a, T("CDATA"), LiteralOf("v"), T(">")>>)
    \o <<T("<!ENTITY"), T("%"), NameTok("s"), T("SYSTEM"), T("LITERAL"), T(">")>>
References_ ==
  { Script(IF yes THEN <<Tok("XML_DECL", "yes", << >>)>> \o Referred ELSE Referred, 3,
           {ReferenceTo(n) : n \in {"p", "d", "i", "q", "s", "u"}},
           {"NEVER", "UNLESS_STANDALONE", "ALWAYS"}) : yes \in BOOLEAN }
External_ ==
  { InExternal(<< >>, 6, Ks(<<"XML_DECL", "<![", "INCLUDE", "IGNORE", "[", "]]>", "PROLOG_S">>)),
    InExternal(PE("p", <<T("INCLUDE")>>) \o PE("i", <<T("<!NOTATION")>>), 5,
               {ReferenceTo("p"), ReferenceTo("i"), ReferenceTo("u"), a} \cup Ks(<<"<![", "[", "]]>", "<!NOTATION", "SYSTEM", "LITERAL">>)) }

MCScripts == {Starts_} \cup Elements_ \cup Attributes_ \cup Entities_ \cup References_ \cup External_

MCHandlers ==
  { {"notStandalone"},
    {"elementDecl", "attlistDecl", "entityDecl", "unparsedEntityDecl", "notationDecl", "startDoctypeDecl",
     "endDoctypeDecl", "skippedEntity", "xmlDecl", "COMMENT"} }

-----------------------------------------------------------------------------
No == "nothing"
NoText == tokenizer = No /\ input = No /\ room = No /\ characters = No
NoDocument ==
  /\ script = No /\ handlers = No /\ paramEntityParsing = No /\ prologState = No
  /\ entities = No /\ dtd = No /\ decl = No /\ groupConnector = No /\ calls = No /\ read = << >>
  /\ defaulted = No /\ prologStatus = No

Init == (TokInit /\ NoDocument) \/ (PrologInit /\ NoText)
Next ==
  \/ tokenizer # No /\ TokNext /\ UNCHANGED prologVars
  \/ tokenizer = No /\ PrologNext /\ UNCHANGED tokVars
Spec == Init /\ [][Next]_<<tokVars, prologVars>>

=============================================================================

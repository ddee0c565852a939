------------------------------ MODULE XmlProlog ------------------------------
(***************************************************************************)
(* doProlog of expat (lib/xmlparse.c): what the parser does with every     *)
(* token of a prolog.  A token is [kind, text, value]: its kind as XmlRole *)
(* has it, the name it is or holds, and for a literal what it stands for,  *)
(* the tokens of its text.  A script [head, left, alphabet, external] is   *)
(* what is parsed, the document or an external subset: the tokens of head, *)
(* and behind them left tokens of the alphabet.  The callbacks in handlers *)
(* are set; they do not stop the parser.  No handler for external entities *)
(* is set, and memory does not run out.                                    *)
(***************************************************************************)
EXTENDS XmlRole, SequencesExt

CONSTANTS
  Scripts,      \* the documents
  HandlerSets   \* sets of callbacks that are set

VARIABLES
  script,        \* what is parsed: the head that is left, the alphabet, and external
  handlers,      \* the callbacks that are set
  paramEntityParsing,
  prologState,
  entities,      \* openInternalEntities, innermost first: [name, rest, betweenDecl]
  dtd,           \* the declarations so far
  decl,          \* the declaration under way
  groupConnector,
  calls,         \* the callbacks called, in order
  read,          \* the tokens that doProlog has dealt with, and their roles
  defaulted,     \* those that the default handler would get
  prologStatus         \* "prolog", "content" or an error

doctypeVars == <<script, handlers, paramEntityParsing>>
prologVars == <<doctypeVars, prologState, entities, dtd, decl, groupConnector, calls, read, defaulted, prologStatus>>

None == "none"
NoEntity == [is |-> None, name |-> ""]
NoName == ""

Tok(kind, text, value) == [kind |-> kind, text |-> text, value |-> value]
T(kind) == Tok(kind, kind, << >>)
NameTok(n) == Tok("NAME", n, << >>)
Literal(v) == Tok("LITERAL", "", v)

\* dtdCreate; the tables are functions from the names that are in them
dtdCreate ==
  [keepProcessing |-> TRUE, hasParamEntityRefs |-> FALSE, standalone |-> FALSE,
   generalEntities |-> << >>, paramEntities |-> << >>, elementTypes |-> << >>,
   in_eldecl |-> FALSE, scaffold |-> << >>, scaffIndex |-> << >>, scaffLevel |-> 0,
   scaffCount |-> 0, contentStringLen |-> 0]

PrologInit ==
  /\ script \in Scripts /\ handlers \in HandlerSets
  /\ paramEntityParsing \in script.parsing
  /\ prologState = IF script.external THEN XmlPrologStateInitExternalEntity ELSE XmlPrologStateInit
  /\ entities = << >> /\ dtd = dtdCreate
  /\ decl = [entity |-> NoEntity, element |-> NoName, attribute |-> NoName, type |-> << >>,
             isCdata |-> FALSE, isId |-> FALSE, notation |-> NoName,
             doctypeName |-> FALSE, doctypeSysid |-> FALSE]
  /\ groupConnector = << >>
  /\ calls = << >> /\ read = << >> /\ defaulted = {}
  /\ prologStatus = "prolog"

Has(h) == h \in handlers
Calls(h, args) == calls' = Append(calls, [handler |-> h, args |-> args])
NoCall == UNCHANGED calls

\* the token goes to the default handler unless own
Handled(own) ==
  defaulted' = IF own THEN defaulted ELSE defaulted \cup {Len(read) + 1}
Fails(error) == prologStatus' = error
Goes == UNCHANGED prologStatus

\* the token is taken from the entity that is open
Advance == IF entities = << >> THEN entities ELSE [entities EXCEPT ![1].rest = Tail(@)]
Stay == entities' = Advance

-----------------------------------------------------------------------------
(* Document type, XML declaration, comments and the instance               *)

\* processXmlDecl; the text of the token says what standalone is
processXmlDecl(role, tok) ==
  /\ role \in {"XML_DECL", "TEXT_DECL"}
  /\ LET standalone == role = "XML_DECL" /\ tok.text = "yes"
     IN  /\ dtd' = [dtd EXCEPT !.standalone = @ \/ standalone]
         /\ paramEntityParsing' =
              IF standalone /\ paramEntityParsing = "UNLESS_STANDALONE" THEN "NEVER" ELSE paramEntityParsing
  /\ IF Has("xmlDecl") THEN Calls("xmlDecl", tok.text) ELSE NoCall
  /\ Handled(Has("xmlDecl"))
  /\ Goes /\ UNCHANGED <<decl, groupConnector>> /\ Stay

DoctypeName(role) ==
  /\ \/ /\ role = "DOCTYPE_NAME"
        /\ decl' = [decl EXCEPT !.doctypeName = Has("startDoctypeDecl"), !.doctypeSysid = FALSE]
        /\ NoCall
     \/ /\ role = "DOCTYPE_INTERNAL_SUBSET"
        /\ decl' = [decl EXCEPT !.doctypeName = FALSE]
        /\ IF Has("startDoctypeDecl") THEN Calls("startDoctypeDecl", "subset") ELSE NoCall
  /\ Handled(Has("startDoctypeDecl"))
  /\ Goes /\ UNCHANGED <<dtd, paramEntityParsing, groupConnector>> /\ Stay

DoctypePublicId(role) ==
  /\ role = "DOCTYPE_PUBLIC_ID"
  /\ dtd' = [dtd EXCEPT !.hasParamEntityRefs = TRUE]
  /\ decl' = [decl EXCEPT !.entity = [is |-> "external subset", name |-> ""]]
  /\ Handled(Has("startDoctypeDecl") \/ (dtd.keepProcessing /\ Has("entityDecl"))) /\ NoCall
  /\ Goes /\ UNCHANGED <<paramEntityParsing, groupConnector>> /\ Stay

DoctypeClose(role) ==
  /\ role = "DOCTYPE_CLOSE"
  /\ dtd' = [dtd EXCEPT !.hasParamEntityRefs = @ \/ decl.doctypeSysid]
  /\ calls' = calls
       \o (IF decl.doctypeName THEN <<[handler |-> "startDoctypeDecl", args |-> "none"]>> ELSE << >>)
       \o (IF Has("endDoctypeDecl") THEN <<[handler |-> "endDoctypeDecl", args |-> ""]>> ELSE << >>)
  /\ Handled(decl.doctypeName \/ Has("endDoctypeDecl"))
  /\ Goes /\ UNCHANGED <<decl, paramEntityParsing, groupConnector>> /\ Stay

OutsideDeclarations(role, tok) ==
  /\ \/ role = "DOCTYPE_NONE" /\ Handled(Has("startDoctypeDecl")) /\ NoCall
     \/ /\ role \in {"PI", "COMMENT"}
        /\ IF Has(role) THEN Calls(role, "") ELSE NoCall
        /\ Handled(Has(role))
     \/ role = "NONE" /\ Handled(tok.kind = "BOM") /\ NoCall
  /\ Goes /\ UNCHANGED <<dtd, decl, paramEntityParsing, groupConnector>> /\ Stay

\* a notStandaloneHandler that is set refuses; the system identifier makes the DTD external
DoctypeSystemId(role) ==
  /\ role = "DOCTYPE_SYSTEM_ID"
  /\ dtd' = [dtd EXCEPT !.hasParamEntityRefs = TRUE]
  /\ IF ~ dtd.standalone /\ paramEntityParsing = "NEVER" /\ Has("notStandalone")
       THEN Fails("NOT_STANDALONE") /\ UNCHANGED decl
       ELSE /\ decl' = [decl EXCEPT !.doctypeSysid = TRUE,
                                    !.entity = IF @ = NoEntity THEN [is |-> "external subset", name |-> ""] ELSE @]
            /\ Goes
  /\ Handled(Has("startDoctypeDecl") \/ (dtd.keepProcessing /\ Has("entityDecl"))) /\ NoCall
  /\ UNCHANGED <<paramEntityParsing, groupConnector>> /\ Stay

Ends(error) ==
  /\ prologStatus' = error
  /\ NoCall /\ Handled(TRUE)
  /\ UNCHANGED <<paramEntityParsing, dtd, decl, groupConnector>> /\ Stay
InstanceStart(role) == role = "INSTANCE_START" /\ Ends("content")
RoleError(role, tok) ==
  /\ role = "ERROR"
  /\ Ends(CASE tok.kind = "PARAM_ENTITY_REF" -> "PARAM_ENTITY_REF"
             [] tok.kind = "XML_DECL"         -> "MISPLACED_XML_PI"
             [] OTHER                         -> "SYNTAX")

-----------------------------------------------------------------------------
(* Entities and notations                                                  *)

\* an entity counts as internal if neither a parent parser nor an entity is open
Internal == entities = << >> /\ ~ script.external
Table(param) == IF param THEN "paramEntities" ELSE "generalEntities"
PredefinedNames == {"lt", "gt", "amp", "quot", "apos"}

\* mutant: a second declaration replaces the first
EntityNameAgain(role, tok) ==
  /\ role \in {"GENERAL_ENTITY_NAME", "PARAM_ENTITY_NAME"}
  /\ LET table == Table(role = "PARAM_ENTITY_NAME")
         new == dtd.keepProcessing /\ (table = "paramEntities" \/ tok.text \notin PredefinedNames)
     IN  /\ decl' = [decl EXCEPT !.entity = IF new THEN [is |-> table, name |-> tok.text] ELSE NoEntity]
         /\ dtd' = IF ~ new THEN dtd
                   ELSE [dtd EXCEPT ![table] = tok.text :> [text |-> << >>, internal |-> Internal,
                                                            system |-> FALSE, open |-> FALSE, notation |-> NoName] @@ @]
         /\ Handled(new /\ Has("entityDecl"))
  /\ NoCall /\ Goes
  /\ UNCHANGED <<paramEntityParsing, groupConnector>> /\ Stay

\* a name that is in the table already, or predefined, is not declared again
EntityName(role, tok) ==
  /\ role \in {"GENERAL_ENTITY_NAME", "PARAM_ENTITY_NAME"}
  /\ LET table == Table(role = "PARAM_ENTITY_NAME")
         new == /\ dtd.keepProcessing
                /\ table = "paramEntities" \/ tok.text \notin PredefinedNames
                /\ tok.text \notin DOMAIN dtd[table]
     IN  /\ decl' = [decl EXCEPT !.entity = IF new THEN [is |-> table, name |-> tok.text] ELSE NoEntity]
         /\ dtd' = IF ~ new THEN dtd
                   ELSE [dtd EXCEPT ![table] = tok.text :> [text |-> << >>, internal |-> Internal,
                                                            system |-> FALSE, open |-> FALSE, notation |-> NoName] @@ @]
         /\ Handled(new /\ Has("entityDecl"))
  /\ NoCall /\ Goes
  /\ UNCHANGED <<paramEntityParsing, groupConnector>> /\ Stay

\* declEntity, when there is one and declarations are processed
Declared == dtd.keepProcessing /\ decl.entity # NoEntity
SetEntity(field, v) ==
  dtd' = IF Declared /\ decl.entity.is # "external subset"
           THEN [dtd EXCEPT ![decl.entity.is][decl.entity.name][field] = v] ELSE dtd

OwnEntity == Declared /\ Has("entityDecl")
TellEntity == IF OwnEntity THEN Calls("entityDecl", decl.entity.name) ELSE NoCall

EntityValue(role, tok) ==
  /\ role = "ENTITY_VALUE" /\ SetEntity("text", tok.value) /\ TellEntity /\ Handled(OwnEntity)
  /\ Goes /\ UNCHANGED <<paramEntityParsing, decl, groupConnector>> /\ Stay

\* ENTITY_NOTATION_NAME tells the handler of unparsed entities, or else entityDecl
EntityRole(role, tok) ==
  /\ \/ role = "ENTITY_PUBLIC_ID" /\ UNCHANGED dtd /\ NoCall /\ Handled(OwnEntity)
     \/ role = "ENTITY_SYSTEM_ID" /\ SetEntity("system", TRUE) /\ NoCall /\ Handled(OwnEntity)
     \/ role = "ENTITY_COMPLETE" /\ UNCHANGED dtd /\ TellEntity /\ Handled(OwnEntity)
     \/ /\ role = "ENTITY_NOTATION_NAME" /\ SetEntity("notation", tok.text)
        /\ IF Declared /\ Has("unparsedEntityDecl") THEN Calls("unparsedEntityDecl", decl.entity.name) ELSE TellEntity
        /\ Handled(OwnEntity \/ (Declared /\ Has("unparsedEntityDecl")))
     \/ role = "ENTITY_NONE" /\ UNCHANGED dtd /\ NoCall /\ Handled(dtd.keepProcessing /\ Has("entityDecl"))
  /\ Goes /\ UNCHANGED <<paramEntityParsing, decl, groupConnector>> /\ Stay

\* the text of a parameter entity is processed before what follows its reference
processInternalEntity(name, betweenDecl) ==
  /\ entities' = <<[name |-> name, rest |-> dtd.paramEntities[name].text, betweenDecl |-> betweenDecl]>> \o Advance
  /\ dtd' = [dtd EXCEPT !.paramEntities[name].open = TRUE, !.hasParamEntityRefs = TRUE]

\* keepProcessing is left on only if the document is standalone, when a reference is skipped;
\* hasParamEntityRefs was just set, so only a standalone document must declare its entities
ParamEntityRef(role, tok) ==
  LET known == tok.text \in DOMAIN dtd.paramEntities
      entity == dtd.paramEntities[tok.text]
      must == prologState.documentEntity /\ dtd.standalone /\ entities = << >>
      skip == dtd' = [dtd EXCEPT !.hasParamEntityRefs = TRUE, !.keepProcessing = dtd.standalone]
      refused == ~ dtd.standalone /\ Has("notStandalone")
  IN  /\ role \in {"PARAM_ENTITY_REF", "INNER_PARAM_ENTITY_REF"}
      /\ \/ /\ paramEntityParsing = "NEVER"
            /\ skip /\ Stay
            /\ IF refused THEN Fails("NOT_STANDALONE") ELSE Goes
            /\ Handled(FALSE) /\ NoCall
         \/ /\ paramEntityParsing # "NEVER"
            /\ must /\ ~ (known /\ entity.internal)
            /\ dtd' = [dtd EXCEPT !.hasParamEntityRefs = TRUE] /\ Stay
            /\ Fails(IF known THEN "ENTITY_DECLARED_IN_PE" ELSE "UNDEFINED_ENTITY")
            /\ Handled(TRUE) /\ NoCall
         \/ /\ paramEntityParsing # "NEVER"
            /\ ~ must /\ ~ known
            /\ skip /\ Stay /\ Goes
            /\ LET tell == role = "PARAM_ENTITY_REF" /\ Has("skippedEntity")
               IN  Handled(tell) /\ (IF tell THEN Calls("skippedEntity", tok.text) ELSE NoCall)
         \/ /\ paramEntityParsing # "NEVER"
            /\ known /\ (must => entity.internal)
            /\ \/ /\ entity.open
                  /\ dtd' = [dtd EXCEPT !.hasParamEntityRefs = TRUE] /\ Stay
                  /\ Fails("RECURSIVE_ENTITY_REF") /\ Handled(TRUE)
               \/ /\ ~ entity.open /\ ~ entity.system
                  /\ processInternalEntity(tok.text, role = "PARAM_ENTITY_REF")
                  /\ Goes /\ Handled(TRUE)
               \/ /\ ~ entity.open /\ entity.system
                  /\ skip /\ Stay /\ Goes /\ Handled(FALSE)
            /\ NoCall
      /\ UNCHANGED <<paramEntityParsing, decl, groupConnector>>

NotationRole(role, tok) ==
  LET own == Has("notationDecl")
      tell == IF own THEN Calls("notationDecl", decl.notation) ELSE NoCall
  IN  /\ \/ /\ role = "NOTATION_NAME"
            /\ decl' = [decl EXCEPT !.notation = tok.text] /\ NoCall
         \/ role = "NOTATION_PUBLIC_ID" /\ UNCHANGED decl /\ NoCall
         \/ role \in {"NOTATION_SYSTEM_ID", "NOTATION_NO_SYSTEM_ID"} /\ UNCHANGED decl /\ tell
         \/ role = "NOTATION_NONE" /\ UNCHANGED decl /\ NoCall
      /\ Handled(own)
      /\ Goes /\ UNCHANGED <<paramEntityParsing, dtd, groupConnector>> /\ Stay

-----------------------------------------------------------------------------
(* Attribute lists                                                         *)

getElementType(tables, name) ==
  IF name \in DOMAIN tables THEN tables ELSE name :> [defaults |-> << >>, idAtt |-> NoName] @@ tables

NoDefault == << >>

\* a default or an ID that was declared before is not declared again
defineAttribute(type, att, isCdata, isId, value) ==
  IF (value # NoDefault \/ isId) /\ \E i \in DOMAIN type.defaults : type.defaults[i].id = att THEN type
  ELSE [type EXCEPT !.defaults = Append(@, [id |-> att, value |-> value, isCdata |-> isCdata]),
                    !.idAtt = IF isId /\ @ = NoName THEN att ELSE @]

Defines(att, isId, value) ==
  dtd' = IF ~ dtd.keepProcessing THEN dtd
         ELSE [dtd EXCEPT !.elementTypes[decl.element] =
                 defineAttribute(@, att, decl.isCdata, isId, value)]

\* the type of an enumeration is written as it is read, without its parentheses here
AttlistRole(role, tok) ==
  LET own == dtd.keepProcessing /\ Has("attlistDecl")
      tell(value, required) ==
        IF own /\ decl.type # << >>
          THEN Calls("attlistDecl", <<decl.element, decl.attribute, decl.type, value, required>>) ELSE NoCall
  IN  /\ \/ /\ role = "ATTLIST_ELEMENT_NAME"
            /\ dtd' = [dtd EXCEPT !.elementTypes = getElementType(@, tok.text)]
            /\ decl' = [decl EXCEPT !.element = tok.text] /\ NoCall
         \/ /\ role = "ATTRIBUTE_NAME"
            /\ decl' = [decl EXCEPT !.attribute = tok.text, !.type = << >>, !.isCdata = FALSE, !.isId = FALSE]
            /\ NoCall /\ UNCHANGED dtd
         \/ /\ role = "ATTRIBUTE_TYPE"
            /\ decl' = [decl EXCEPT !.type = <<tok.kind>>, !.isCdata = @ \/ tok.kind = "CDATA",
                                    !.isId = @ \/ tok.kind = "ID"]
            /\ NoCall /\ UNCHANGED dtd
         \/ /\ role \in {"ATTRIBUTE_ENUM_VALUE", "ATTRIBUTE_NOTATION_VALUE"}
            /\ decl' = [decl EXCEPT !.type = IF own THEN Append(@, tok.text) ELSE @]
            /\ NoCall /\ UNCHANGED dtd
         \/ /\ role \in {"IMPLIED_ATTRIBUTE_VALUE", "REQUIRED_ATTRIBUTE_VALUE"}
            /\ Defines(decl.attribute, decl.isId, NoDefault)
            /\ tell(NoDefault, role = "REQUIRED_ATTRIBUTE_VALUE") /\ UNCHANGED decl
         \/ /\ role \in {"DEFAULT_ATTRIBUTE_VALUE", "FIXED_ATTRIBUTE_VALUE"}
            /\ Defines(decl.attribute, FALSE, tok.value)
            /\ tell(tok.value, role = "FIXED_ATTRIBUTE_VALUE") /\ UNCHANGED decl
         \/ role = "ATTLIST_NONE" /\ NoCall /\ UNCHANGED <<dtd, decl>>
      /\ Handled(own)
      /\ Goes /\ UNCHANGED <<paramEntityParsing, groupConnector>> /\ Stay

-----------------------------------------------------------------------------
(* Content models: the particles of a declaration are nodes of the         *)
(* scaffold, which lists the children of a group through nextsib; node 0   *)
(* is the whole model, and 0 as a link is none.                            *)

\* the node for the next particle, below the group that is open; its type is what it was before
nextScaffoldPart(d) ==
  LET me == d.scaffCount
      parent == d.scaffIndex[d.scaffLevel - 1]
      last == d.scaffold[parent].lastchild
      old == IF me \in DOMAIN d.scaffold THEN d.scaffold[me] ELSE [type |-> "junk", quant |-> "junk", name |-> "junk"]
      linked == IF d.scaffLevel = 0 THEN d.scaffold
                ELSE [i \in DOMAIN d.scaffold |->
                       [d.scaffold[i] EXCEPT
                          !.nextsib = IF i = last /\ last # 0 THEN me ELSE @,
                          !.firstchild = IF i = parent /\ d.scaffold[i].childcnt = 0 THEN me ELSE @,
                          !.lastchild = IF i = parent THEN me ELSE @,
                          !.childcnt = IF i = parent THEN @ + 1 ELSE @]]
  IN  [d EXCEPT !.scaffCount = @ + 1,
                !.scaffold = me :> [type |-> old.type, quant |-> old.quant, name |-> old.name,
                                    firstchild |-> 0, lastchild |-> 0, childcnt |-> 0, nextsib |-> 0] @@ linked]

\* the group that is open
Group(d) == d.scaffIndex[d.scaffLevel - 1]

\* the children of a node in order
Children(d, n) ==
  LET node == d.scaffold[n]
      from[k \in 1 .. node.childcnt] == IF k = 1 THEN node.firstchild ELSE d.scaffold[from[k - 1]].nextsib
  IN  [k \in 1 .. node.childcnt |-> from[k]]

(***************************************************************************)
(* build_node fills place dest of the array content from a node.  The      *)
(* children of a group get places one behind the other from contpos on.    *)
(***************************************************************************)
RECURSIVE build_node(_, _, _, _)

\* mutant: the places of the children are taken after their own children have theirs
build_nodeLate(d, src, dest, m) ==
  LET node == d.scaffold[src]
      kids == Children(d, src)
      place == [m EXCEPT !.content = dest :> [type |-> node.type, quant |-> node.quant, name |-> node.name,
                                             children |-> m.contpos, numchildren |-> Len(kids)] @@ @]
  IN  FoldLeft(LAMBDA acc, i : build_node(d, kids[i], m.contpos + i - 1, [acc EXCEPT !.contpos = @ + 1]),
               place, [i \in 1 .. Len(kids) |-> i])

build_node(d, src, dest, m) ==
  LET node == d.scaffold[src]
      kids == IF node.type = "NAME" THEN << >> ELSE Children(d, src)
      place == [m EXCEPT !.contpos = @ + Len(kids),
                         !.content = dest :> [type |-> node.type, quant |-> node.quant,
                                             name |-> IF node.type = "NAME" THEN node.name ELSE NoName,
                                             children |-> m.contpos, numchildren |-> Len(kids)] @@ @]
  IN  FoldLeft(LAMBDA acc, i : build_node(d, kids[i], m.contpos + i - 1, acc),
               place, [i \in 1 .. Len(kids) |-> i])

\* room for scaffCount nodes; node 0 is the model
build_model(d) == build_node(d, 0, 0, [content |-> << >>, contpos |-> 1]).content

\* the tree that a callback finds in the array, from place i
RECURSIVE TreeAt(_, _)
TreeAt(content, i) ==
  LET c == content[i]
  IN  [type |-> c.type, quant |-> c.quant, name |-> c.name,
       children |-> [k \in 1 .. c.numchildren |-> TreeAt(content, c.children + k - 1)]]

Leaf(type) == [type |-> type, quant |-> "NONE", name |-> NoName, children |-> << >>]

\* XML_ROLE_ELEMENT_NAME, CONTENT_ANY and CONTENT_EMPTY
ElementRole(role, tok) ==
  /\ \/ /\ role = "ELEMENT_NAME"
        /\ IF Has("elementDecl")
             THEN /\ dtd' = [dtd EXCEPT !.elementTypes = getElementType(@, tok.text),
                                        !.scaffLevel = 0, !.scaffCount = 0, !.in_eldecl = TRUE]
                  /\ decl' = [decl EXCEPT !.element = tok.text]
             ELSE UNCHANGED <<dtd, decl>>
        /\ NoCall /\ Handled(Has("elementDecl"))
     \/ /\ role \in {"CONTENT_ANY", "CONTENT_EMPTY"}
        /\ IF dtd.in_eldecl THEN Calls("elementDecl", <<decl.element, Leaf(IF role = "CONTENT_ANY" THEN "ANY" ELSE "EMPTY")>>)
                            ELSE NoCall
        /\ dtd' = [dtd EXCEPT !.in_eldecl = FALSE]
        /\ Handled(dtd.in_eldecl) /\ UNCHANGED decl
     \/ role = "ELEMENT_NONE" /\ Handled(Has("elementDecl")) /\ NoCall /\ UNCHANGED <<dtd, decl>>
  /\ Goes /\ UNCHANGED <<paramEntityParsing, groupConnector>> /\ Stay

Quant(role) ==
  CASE role \in {"CONTENT_ELEMENT_OPT", "GROUP_CLOSE_OPT"}   -> "OPT"
    [] role \in {"CONTENT_ELEMENT_REP", "GROUP_CLOSE_REP"}   -> "REP"
    [] role \in {"CONTENT_ELEMENT_PLUS", "GROUP_CLOSE_PLUS"} -> "PLUS"
    [] OTHER                                                 -> "NONE"

Particles == {"CONTENT_ELEMENT", "CONTENT_ELEMENT_OPT", "CONTENT_ELEMENT_REP", "CONTENT_ELEMENT_PLUS"}
CloseRoles == {"GROUP_CLOSE", "GROUP_CLOSE_OPT", "GROUP_CLOSE_REP", "GROUP_CLOSE_PLUS"}

GroupOpen(role) ==
  /\ role = "GROUP_OPEN"
  /\ groupConnector' = prologState'.level :> "" @@ groupConnector
  /\ dtd' = IF ~ dtd.in_eldecl THEN dtd
            ELSE LET me == dtd.scaffCount
                 IN  [nextScaffoldPart(dtd) EXCEPT !.scaffIndex = dtd.scaffLevel :> me @@ @, !.scaffLevel = @ + 1,
                                                   !.scaffold[me].type = "SEQ"]
  /\ NoCall /\ Handled(dtd.in_eldecl)
  /\ Goes /\ UNCHANGED <<paramEntityParsing, decl>> /\ Stay

ContentRole(role, tok) ==
  LET part == nextScaffoldPart(dtd)
      me == dtd.scaffCount
      shut == [dtd EXCEPT !.scaffLevel = @ - 1, !.scaffold[Group(dtd)].quant = Quant(role)]
  IN  /\ \/ /\ role = "CONTENT_PCDATA"
            /\ dtd' = IF dtd.in_eldecl THEN [dtd EXCEPT !.scaffold[Group(dtd)].type = "MIXED"] ELSE dtd
            /\ NoCall
         \/ /\ role \in Particles
            /\ dtd' = IF ~ dtd.in_eldecl THEN dtd
                      ELSE [part EXCEPT !.elementTypes = getElementType(@, tok.text),
                                        !.scaffold[me].type = "NAME", !.scaffold[me].quant = Quant(role),
                                        !.scaffold[me].name = tok.text]
            /\ NoCall
         \/ /\ role \in CloseRoles
            /\ dtd' = IF ~ dtd.in_eldecl THEN dtd
                      ELSE [shut EXCEPT !.in_eldecl = shut.scaffLevel > 0]
            /\ IF dtd.in_eldecl /\ shut.scaffLevel = 0
                 THEN Calls("elementDecl", <<decl.element, TreeAt(build_model(shut), 0)>>) ELSE NoCall
      /\ Handled(dtd.in_eldecl)
      /\ Goes /\ UNCHANGED <<paramEntityParsing, decl, groupConnector>> /\ Stay

\* a group whose first connector is "|" becomes a choice; only that connector is the handler's
ConnectorRole(role) ==
  LET here == groupConnector[prologState.level]
      first == dtd.in_eldecl /\ here = "" /\ dtd.scaffold[Group(dtd)].type # "MIXED"
  IN  /\ \/ /\ role = "GROUP_SEQUENCE"
            /\ IF here = "|" THEN Fails("SYNTAX") ELSE Goes
            /\ groupConnector' = [groupConnector EXCEPT ![prologState.level] = ","]
            /\ Handled(dtd.in_eldecl) /\ UNCHANGED dtd
         \/ /\ role = "GROUP_CHOICE"
            /\ IF here = "," THEN Fails("SYNTAX") ELSE Goes
            /\ groupConnector' = [groupConnector EXCEPT ![prologState.level] = "|"]
            /\ dtd' = IF first THEN [dtd EXCEPT !.scaffold[Group(dtd)].type = "CHOICE"] ELSE dtd
            /\ Handled(first)
      /\ NoCall /\ UNCHANGED <<paramEntityParsing, decl>> /\ Stay

-----------------------------------------------------------------------------
(* The loop of doProlog                                                    *)

Effect(role, tok) ==
  \/ processXmlDecl(role, tok) \/ OutsideDeclarations(role, tok)
  \/ DoctypeName(role) \/ DoctypePublicId(role) \/ DoctypeSystemId(role) \/ DoctypeClose(role)
  \/ EntityName(role, tok) \/ EntityValue(role, tok) \/ EntityRole(role, tok) \/ ParamEntityRef(role, tok)
  \/ NotationRole(role, tok) \/ AttlistRole(role, tok)
  \/ ElementRole(role, tok) \/ GroupOpen(role) \/ ContentRole(role, tok) \/ ConnectorRole(role)
  \/ InstanceStart(role) \/ RoleError(role, tok)
  \/ role = "IGNORE_SECT" /\ Handled(FALSE) /\ NoCall /\ Goes /\ Stay
       /\ UNCHANGED <<paramEntityParsing, dtd, decl, groupConnector>>

Takes(tok) ==
  LET r == XmlTokenRole(prologState, tok.kind)
  IN  /\ prologState' = r.state
      /\ read' = Append(read, tok)
      /\ Effect(r.role, tok)

\* the next token of the entity that is open, or else of the document
doProlog ==
  /\ prologStatus = "prolog" /\ UNCHANGED handlers
  /\ IF entities # << >>
       THEN entities[1].rest # << >> /\ Takes(Head(entities[1].rest)) /\ UNCHANGED script
     ELSE IF script.head # << >>
       THEN Takes(Head(script.head)) /\ script' = [script EXCEPT !.head = Tail(@)]
     ELSE /\ script.left > 0 /\ script' = [script EXCEPT !.left = @ - 1]
          /\ \E tok \in script.alphabet : Takes(tok)

\* the end of an entity; between declarations, declarations must be complete in it
EndOfEntity ==
  LET r == XmlTokenRole(prologState, "NONE")
      incomplete == entities[1].betweenDecl /\ r.role = "ERROR"
  IN  /\ prologStatus = "prolog" /\ entities # << >> /\ entities[1].rest = << >>
      /\ prologState' = IF entities[1].betweenDecl THEN r.state ELSE prologState
      /\ prologStatus' = IF incomplete THEN "INCOMPLETE_PE" ELSE prologStatus
      /\ entities' = IF incomplete THEN entities ELSE Tail(entities)
      /\ dtd' = IF incomplete THEN dtd ELSE [dtd EXCEPT !.paramEntities[entities[1].name].open = FALSE]
      /\ UNCHANGED <<doctypeVars, decl, groupConnector, calls, read, defaulted>>

\* the end of what is parsed: a document needs an element
EndOfInput ==
  LET r == XmlTokenRole(prologState, "NONE")
  IN  /\ prologStatus = "prolog" /\ entities = << >> /\ script.head = << >>
      /\ prologState' = IF script.external THEN r.state ELSE prologState
      /\ prologStatus' = IF ~ script.external THEN "NO_ELEMENTS"
                   ELSE IF r.role = "ERROR" THEN "INCOMPLETE_PE" ELSE "done"
      /\ UNCHANGED <<doctypeVars, entities, dtd, decl, groupConnector, calls, read, defaulted>>

PrologNext == doProlog \/ EndOfEntity \/ EndOfInput
PrologSpec == PrologInit /\ [][PrologNext]_prologVars

=============================================================================

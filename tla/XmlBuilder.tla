----------------------------- MODULE XmlBuilder -----------------------------
(***************************************************************************)
(* Reading an XMILE file (xml.c): expat reports start tags, end tags and   *)
(* pieces of text, and a stack of reference counted builders turns them    *)
(* into the header, sim_specs and models of a File.                        *)
(*                                                                         *)
(* An element is its place in the file; the builder made for it has the    *)
(* same number.  Text is a sequence of words "w" and spaces "s", and expat *)
(* may report it in any pieces.  A field of the File is the element that   *)
(* it was read from, so the value of an attribute is the element that has  *)
(* it; the attribute reciprocal is there when it is "true".  The table of  *)
(* a gf element is read in Lookup.                                         *)
(***************************************************************************)
EXTENDS Integers, Sequences, FiniteSets, FiniteSetsExt, SequencesExt

CONSTANTS
  STACKLEN,      \* the size of bs.stack
  Allowed(_),    \* the tags considered inside an element with a given tag
  Attrs(_),      \* the attributes considered on an element with a given tag
  Pieces(_),     \* the pieces of text considered inside an element with a given tag
  MaxElems,      \* bound: elements in the file
  MaxText(_)     \* bound: pieces of text in an element with a given tag

ASSUME BuilderAssumption == STACKLEN \in Nat

VARIABLES
  elems,     \* the elements started so far: [depth, tag, attrs, text]
  openElems,      \* the ones not ended yet, outermost first
  stack,     \* the builders on bs.stack
  bld,       \* the builder of each element that has one
  file,      \* sdf: [header, sim_specs, models]
  returned,  \* what project_parse_file returned, "parsing" before
  nomem      \* a builder could not be allocated

builderVars == <<elems, openElems, stack, bld, file, returned, nomem>>

None == 0

VarTags == {"aux", "stock", "flow", "module"}

Tag(e) == elems[e].tag

\* xmile_builder_new for the root, which keeps no attributes, node_builder_new for the others
NewBuilder(attrs) == [xmile |-> stack = << >>, refcount |-> 1, freed |-> FALSE,
                      attrs |-> IF stack = << >> THEN {} ELSE attrs,
                      content |-> << >>, children |-> << >>]

\* the references released one after the other: release[e] does so for the builder e
InTurn(release, es, refs) ==
  LET after[k \in 0 .. Len(es)] == IF k = 0 THEN refs ELSE release[es[k]][after[k - 1]]
  IN  after[Len(es)]

\* builder_unref: the last reference gives up those to the children
releases(b) ==
  LET release[e \in DOMAIN b] ==
        [refs \in [DOMAIN b -> Int] |->
           LET less == [refs EXCEPT ![e] = @ - 1]
           IN  IF refs[e] # 1 THEN less ELSE InTurn(release, b[e].children, less)]
  IN  release

Refcounts(b) == [e \in DOMAIN b |-> b[e].refcount]

\* mutant: the children keep their reference
unrefOnly(b, es) ==
  [e \in DOMAIN b |-> IF e \notin Range(es) THEN b[e]
                      ELSE [b[e] EXCEPT !.refcount = @ - 1, !.freed = @ \/ b[e].refcount <= 1]]

\* builder_unref of some builders in turn; a builder without references is freed
unref(b, es) ==
  LET left == InTurn(releases(b), es, Refcounts(b))
  IN  [e \in DOMAIN b |-> [b[e] EXCEPT !.refcount = left[e], !.freed = @ \/ left[e] <= 0]]

\* node_builder_get_first_child
first_child(e, tag) ==
  LET same == SelectSeq(bld[e].children, LAMBDA c : Tag(c) = tag)
  IN  IF same = << >> THEN None ELSE Head(same)

\* e when it has the attribute, the first child with a tag when it has text or an attribute
node_builder_get_attr(e, a) == IF e # None /\ a \in bld[e].attrs THEN e ELSE None
FirstText(e, tag) ==
  LET c == first_child(e, tag) IN IF c # None /\ bld[c].content # << >> THEN c ELSE None
FirstAttr(e, tag, a) == node_builder_get_attr(first_child(e, tag), a)

\* the fields of a Header: what of which child they are
HeaderFields ==
  [smile_version |-> <<"smile", "version">>, smile_namespace |-> <<"smile", "namespace">>,
   name |-> <<"name", "text">>, uuid |-> <<"uuid", "text">>, vendor |-> <<"vendor", "text">>,
   product_name |-> <<"product", "text">>, product_version |-> <<"product", "version">>,
   product_lang |-> <<"product", "lang">>]
Given(e, from) == IF from[2] = "text" THEN FirstText(e, from[1]) ELSE FirstAttr(e, from[1], from[2])

\* a value that is there, or the one from before
Or(given, old) == IF given # None THEN given ELSE old
Header(e) == [f \in DOMAIN HeaderFields |-> Or(Given(e, HeaderFields[f]), file.header[f])]

(***************************************************************************)
(* sim_specs: what is missing is left as it was.  <save_step> goes before  *)
(* <savestep>, and without either savestep is dt, also when dt is the one  *)
(* of earlier sim_specs.                                                   *)
(***************************************************************************)
SimSpecs(e) ==
  LET old == file.sim_specs
      dt == FirstText(e, "dt")
      step == [from |-> dt, reciprocal |-> node_builder_get_attr(dt, "reciprocal") # None]
      newdt == IF dt # None THEN step ELSE old.dt
      given == Or(FirstText(e, "save_step"), FirstText(e, "savestep"))
  IN  [method |-> Or(node_builder_get_attr(e, "method"), old.method),
       time_units |-> Or(node_builder_get_attr(e, "time_units"), old.time_units),
       start |-> Or(FirstText(e, "start"), old.start), stop |-> Or(FirstText(e, "stop"), old.stop),
       dt |-> newdt,
       savestep |-> IF given # None THEN [from |-> given, reciprocal |-> FALSE] ELSE newdt]

\* ref_from_node_builder, NULL unless both ends are named
IsRef(c) == {"from", "to"} \subseteq bld[c].attrs

\* var_from_node_builder, NULL for other tags; each gf replaces the one before it
ChildrenWith(e, tag) == SelectSeq(bld[e].children, LAMBDA c : Tag(c) = tag)
NamedFlows(e, tag) == SelectSeq(ChildrenWith(e, tag), LAMBDA c : bld[c].content # << >>)
var_from_node_builder(e) ==
  [tag |-> Tag(e), name |-> node_builder_get_attr(e, "name"),
   eqn |-> LET c == first_child(e, "eqn") IN IF c = None THEN << >> ELSE bld[c].content,
   inflows |-> NamedFlows(e, "inflow"), outflows |-> NamedFlows(e, "outflow"),
   is_nonneg |-> ChildrenWith(e, "non_negative") # << >>,
   gf |-> IF ChildrenWith(e, "gf") = << >> THEN None ELSE Last(ChildrenWith(e, "gf")),
   conns |-> SelectSeq(ChildrenWith(e, "connect"), IsRef)]

\* model_from_node_builder: the variables in the first <variables>
model_from_node_builder(e) ==
  LET v == first_child(e, "variables")
      known == IF v = None THEN << >>
               ELSE SelectSeq(bld[v].children, LAMBDA c : Tag(c) \in VarTags)
  IN  [name |-> node_builder_get_attr(e, "name"),
       vars |-> [k \in DOMAIN known |-> var_from_node_builder(known[k])]]

\* xmile_builder_end_child for a child that ended as <tag>
xmile_builder_end_child(tag, e) ==
  CASE tag = "header"    -> [file EXCEPT !.header = Header(e)]
    [] tag = "sim_specs" -> [file EXCEPT !.sim_specs = SimSpecs(e)]
    [] tag = "model"     -> [file EXCEPT !.models = Append(@, model_from_node_builder(e))]
    [] OTHER             -> file

\* strtrim
strtrim(s) ==
  LET words == {i \in DOMAIN s : s[i] # "s"}
  IN  IF words = {} THEN << >> ELSE SubSeq(s, Min(words), Max(words))

-----------------------------------------------------------------------------
NoStep == [from |-> None, reciprocal |-> FALSE]
BuilderInit ==
  /\ elems = << >>
  /\ openElems = << >>
  /\ stack = << >>
  /\ bld = << >>
  /\ file = [header |-> [f \in DOMAIN HeaderFields |-> None],
             sim_specs |-> [method |-> None, time_units |-> None, start |-> None, stop |-> None,
                            dt |-> NoStep, savestep |-> NoStep],
             models |-> << >>]
  /\ returned = "parsing"
  /\ nomem = FALSE

Reading == returned = "parsing"

\* expat reports a start tag
OpenTag(tag, attrs) ==
  /\ Reading /\ Len(elems) < MaxElems
  /\ IF openElems = << >> THEN elems = << >> /\ tag = "xmile" ELSE tag \in Allowed(Tag(Last(openElems)))
  /\ elems' = Append(elems, [depth |-> Len(openElems), tag |-> tag, attrs |-> attrs, text |-> << >>])
  /\ openElems' = Append(openElems, Len(elems) + 1)

(***************************************************************************)
(* builder_stack_start_element: a new builder is pushed.  The stack is not *)
(* checked; with STACKLEN builders on it the push is past its end.         *)
(***************************************************************************)
start_element(tag, attrs) ==
  /\ OpenTag(tag, attrs)
  /\ IF Len(stack) < STACKLEN
       THEN /\ bld' = [e \in DOMAIN bld \cup {Len(elems) + 1} |->
                         IF e \in DOMAIN bld THEN bld[e] ELSE NewBuilder(attrs)]
            /\ stack' = Append(stack, Len(elems) + 1)
            /\ UNCHANGED returned
       ELSE returned' = "overflow" /\ UNCHANGED <<bld, stack>>
  /\ UNCHANGED <<file, nomem>>

\* no memory for the builder: nothing is pushed, nothing reported (bound: once in a file)
start_element_nomem(tag, attrs) ==
  /\ OpenTag(tag, attrs)
  /\ ~ nomem
  /\ nomem' = TRUE
  /\ UNCHANGED <<stack, bld, file, returned>>

(***************************************************************************)
(* builder_stack_end_element: the innermost builder is popped, handed to   *)
(* the one below it and released.  An XmileBuilder turns it into a part of *)
(* the File, a NodeBuilder takes a reference and keeps it as a child.      *)
(***************************************************************************)
end_element ==
  /\ Reading /\ openElems # << >>
  /\ openElems' = Front(openElems)
  /\ IF stack = << >> THEN UNCHANGED <<stack, bld, file>>
     ELSE LET child == Last(stack)
              rest == Front(stack)
              tag == Tag(Last(openElems))
          IN  /\ stack' = rest
              /\ IF rest # << >> /\ bld[Last(rest)].xmile
                   THEN file' = xmile_builder_end_child(tag, child) ELSE UNCHANGED file
              /\ bld' = unref(
                   IF rest = << >> \/ bld[Last(rest)].xmile THEN bld
                   ELSE [bld EXCEPT ![Last(rest)].children = Append(@, child),
                                    ![child].refcount = @ + 1], <<child>>)
  /\ UNCHANGED <<elems, returned, nomem>>

\* mutant: a piece replaces the text before it
node_builder_charactersLast(content, piece) == strtrim(piece)

\* node_builder_characters: the piece without the spaces around it goes behind the text
node_builder_characters(content, piece) == content \o strtrim(piece)

\* builder_stack_characters; with an empty stack it reads in front of it
characters(piece) ==
  /\ Reading /\ openElems # << >>
  /\ Len(elems[Last(openElems)].text) < MaxText(Tag(Last(openElems)))
  /\ elems' = [elems EXCEPT ![Last(openElems)].text = Append(@, piece)]
  /\ IF stack = << >>
       THEN returned' = "underflow" /\ UNCHANGED bld
       ELSE /\ bld' = IF bld[Last(stack)].xmile THEN bld
                      ELSE [bld EXCEPT ![Last(stack)].content = node_builder_characters(@, piece)]
            /\ UNCHANGED returned
  /\ UNCHANGED <<openElems, stack, file, nomem>>

\* the file has ended, and its File is added to the project
parse_done ==
  /\ Reading /\ openElems = << >> /\ elems # << >>
  /\ returned' = "ok"
  /\ UNCHANGED <<elems, openElems, stack, bld, file, nomem>>

(***************************************************************************)
(* XML_Parse fails, which it may at any point: the builders are released   *)
(* from the top of the stack down, and the File is freed without models.   *)
(***************************************************************************)
parse_error ==
  /\ Reading
  /\ returned' = "bad_xml"
  /\ bld' = unref(bld, Reverse(stack))
  /\ stack' = << >>
  /\ UNCHANGED <<elems, openElems, file, nomem>>

BuilderNext ==
  \/ \E tag \in {"xmile"} \cup (IF openElems = << >> THEN {} ELSE Allowed(Tag(Last(openElems)))) :
       \E attrs \in SUBSET Attrs(tag) : start_element(tag, attrs) \/ start_element_nomem(tag, attrs)
  \/ end_element
  \/ \E piece \in (IF openElems = << >> THEN {} ELSE Pieces(Tag(Last(openElems)))) : characters(piece)
  \/ parse_done
  \/ parse_error

BuilderSpec == BuilderInit /\ [][BuilderNext]_builderVars

-----------------------------------------------------------------------------
(* Properties                                                              *)

Live == {e \in DOMAIN bld : ~ bld[e].freed}

(***************************************************************************)
(* A builder is referenced once for its place on the stack or once as a    *)
(* child of another, and is freed exactly when it is neither: also after   *)
(* failed allocations and on the error path no builder is freed early,     *)
(* twice or never.  When project_parse_file returns, with or without an    *)
(* error, none is left.  Only a document nested deeper than STACKLEN       *)
(* leaves the stack, and only a failed allocation makes the stack and the  *)
(* open elements differ.                                                   *)
(***************************************************************************)
BuildersOwnedOnce ==
  /\ \A e \in DOMAIN bld :
       LET owners == {s \in DOMAIN stack : stack[s] = e}
           parents == {p \in Live : e \in Range(bld[p].children)}
       IN  /\ bld[e].refcount = Cardinality(owners) + Cardinality(parents)
           /\ bld[e].freed <=> bld[e].refcount = 0
           /\ returned \in {"ok", "bad_xml"} => bld[e].freed
  /\ (Reading /\ ~ nomem) => stack = openElems
  /\ returned = "overflow" => Len(openElems) > STACKLEN
  /\ returned = "underflow" => nomem

(***************************************************************************)
(* The element e is inside p, and the elements directly inside it.         *)
(***************************************************************************)
ElemInside(e, p) == e > p /\ \A k \in p + 1 .. e : elems[k].depth > elems[p].depth
ElemsIn(p, tags) ==
  SelectSeq([e \in DOMAIN elems |-> e],
            LAMBDA e : ElemInside(e, p) /\ elems[e].depth = elems[p].depth + 1 /\ Tag(e) \in tags)

Words(s) == SelectSeq(s, LAMBDA c : c = "w")
TextOf(e) == FlattenSeq(elems[e].text)

\* what a field is read from in an element: its first child with a tag, if that has it
FirstIn(e, tag) == IF ElemsIn(e, {tag}) = << >> THEN None ELSE Head(ElemsIn(e, {tag}))
HasText(e) == e # None /\ Words(TextOf(e)) # << >>
Has_(e, what) == e # None /\ IF what = "text" THEN HasText(e) ELSE what \in elems[e].attrs
\* and in the last of some elements that give it
LastGiving(es, Read(_)) ==
  LET giving == SelectSeq(es, LAMBDA e : Read(e) # None) IN IF giving = << >> THEN None ELSE Read(Last(giving))

(***************************************************************************)
(* The var v of the File is the element e: it has its name, all the words  *)
(* of its equation and, in order, the flows with a name and the connects   *)
(* with both ends that are directly inside of it.                          *)
(***************************************************************************)
IsVar(v, e) ==
  LET eqn == FirstIn(e, "eqn")
  IN  /\ v.tag = Tag(e)
      /\ (v.name = e) = ("name" \in elems[e].attrs)
      /\ Words(v.eqn) = IF eqn = None THEN << >> ELSE Words(TextOf(eqn))
      /\ v.inflows = SelectSeq(ElemsIn(e, {"inflow"}), HasText)
      /\ v.outflows = SelectSeq(ElemsIn(e, {"outflow"}), HasText)
      /\ v.is_nonneg = (FirstIn(e, "non_negative") # None)
      /\ v.gf = (IF FirstIn(e, "gf") = None THEN None ELSE Last(ElemsIn(e, {"gf"})))
      /\ v.conns = SelectSeq(ElemsIn(e, {"connect"}), LAMBDA c : elems[c].attrs = {"from", "to"})

(***************************************************************************)
(* A file that was read without an error has the models of the document in *)
(* their order, each with the variables of its first <variables>.  The     *)
(* fields of the header and of sim_specs are those of the last element     *)
(* that gives them.  dt never comes without a savestep: whatever sim_specs *)
(* leave out or repeat, savestep is set when dt is, and to an element of   *)
(* the last sim_specs or to dt.                                            *)
(***************************************************************************)
FileIsDocument ==
  (returned = "ok" /\ ~ nomem) =>
    LET models == ElemsIn(1, {"model"})
        VarsOf(e) == IF FirstIn(e, "variables") = None THEN << >> ELSE ElemsIn(FirstIn(e, "variables"), VarTags)
        specs == ElemsIn(1, {"sim_specs"})
        TextIn(tag) == LastGiving(specs, LAMBDA e : IF HasText(FirstIn(e, tag)) THEN FirstIn(e, tag) ELSE None)
        given == {e \in Range(ElemsIn(Last(specs), {"savestep", "save_step"})) : HasText(e)}
        dt == file.sim_specs.dt
        savestep == file.sim_specs.savestep
    IN  /\ \A f \in DOMAIN HeaderFields :
             file.header[f] = LastGiving(ElemsIn(1, {"header"}),
                                LAMBDA e : LET c == FirstIn(e, HeaderFields[f][1])
                                           IN  IF Has_(c, HeaderFields[f][2]) THEN c ELSE None)
        /\ \A a \in {"method", "time_units"} :
             file.sim_specs[a] = LastGiving(specs, LAMBDA e : IF a \in elems[e].attrs THEN e ELSE None)
        /\ \A tag \in {"start", "stop"} : file.sim_specs[tag] = TextIn(tag)
        /\ dt = [from |-> TextIn("dt"), reciprocal |-> Has_(TextIn("dt"), "reciprocal")]
        /\ specs # << >> =>
             /\ dt # NoStep => savestep # NoStep
             /\ savestep = dt \/ savestep.from \in given
        /\ Len(file.models) = Len(models)
        /\ \A k \in DOMAIN models :
             /\ (file.models[k].name = models[k]) = ("name" \in elems[models[k]].attrs)
             /\ Len(file.models[k].vars) = Len(VarsOf(models[k]))
             /\ \A j \in DOMAIN file.models[k].vars : IsVar(file.models[k].vars[j], VarsOf(models[k])[j])

=============================================================================

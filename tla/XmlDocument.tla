---------------------------- MODULE XmlDocument ----------------------------
(***************************************************************************)
(* What is to be read from a document, whatever its pieces.  A document is *)
(* written as items, each of them a piece of markup or of data, and its    *)
(* declarations as the items of entities and the attributes of elements:   *)
(* their bytes are what the parser gets, and reading the items one by one  *)
(* gives what it has to report, or the error that it has to find.          *)
(***************************************************************************)
EXTENDS XmlContent, FiniteSetsExt

-----------------------------------------------------------------------------
(* Items and their bytes                                                   *)

Data(bytes) == [kind |-> "data", bytes |-> bytes, is |-> bytes]
White(bytes) == [kind |-> "white", bytes |-> bytes]
Char(bytes, is) == [kind |-> "char", bytes |-> bytes, is |-> is]
Ref(name) == [kind |-> "ref", name |-> name]
ParamRef(name) == [kind |-> "paramRef", name |-> name]
Malformed(bytes, error) == [kind |-> "bad", bytes |-> bytes, error |-> error]
Open_(name, atts) == [kind |-> "open", name |-> name, atts |-> atts]
Empty(name, atts) == [kind |-> "empty", name |-> name, atts |-> atts]
Close(name) == [kind |-> "close", name |-> name]
Cdata(items) == [kind |-> "cdata", items |-> items]
Comment(items) == [kind |-> "comment", items |-> items]
Pi(name, items) == [kind |-> "pi", name |-> name, items |-> items]
Att(name, quote, items) == [name |-> name, quote |-> quote, items |-> items]

RECURSIVE ItemBytes(_)
ItemsBytes(items) == FlattenSeq([i \in DOMAIN items |-> ItemBytes(items[i])])
AttsBytes(atts) ==
  FlattenSeq([i \in DOMAIN atts |->
    <<" ">> \o atts[i].name \o <<"=", atts[i].quote>> \o ItemsBytes(atts[i].items) \o <<atts[i].quote>>])
ItemBytes(item) ==
  CASE item.kind \in {"data", "white", "char", "bad"} -> item.bytes
    [] item.kind = "ref"      -> <<"&">> \o item.name \o <<";">>
    [] item.kind = "paramRef" -> <<"%">> \o item.name \o <<";">>
    [] item.kind = "open"     -> <<"<">> \o item.name \o AttsBytes(item.atts) \o <<">">>
    [] item.kind = "empty"    -> <<"<">> \o item.name \o AttsBytes(item.atts) \o <<"/", ">">>
    [] item.kind = "close"    -> <<"<", "/">> \o item.name \o <<">">>
    [] item.kind = "cdata"    -> <<"<", "!", "[">> \o CDATA_LSQB \o ItemsBytes(item.items) \o <<"]", "]", ">">>
    [] item.kind = "comment"  -> <<"<", "!", "-", "-">> \o ItemsBytes(item.items) \o <<"-", "-", ">">>
    [] item.kind = "pi"       -> <<"<", "?">> \o item.name \o <<" ">> \o ItemsBytes(item.items) \o <<"?", ">">>

-----------------------------------------------------------------------------
(* Declarations: [entities, params, elements, hasParamEntityRefs,          *)
(* standalone].  An entity is [type, items, is_internal, inParamEntity],   *)
(* and an element a sequence of [id, value, isCdata, isId].                *)

\* the items that a literal stands for: characters and ends of lines are what they are, parameter
\* entities are put in their place, and what follows one that is not known is lost
RECURSIVE Replacement(_, _)
Replacement(params, items) ==
  IF items = << >> THEN << >>
  ELSE LET item == Head(items)
           known == item.kind = "paramRef" => item.name \in DOMAIN params
           first == CASE item.kind = "char"  -> <<IF item.is \in {<<" ">>, <<"lf">>, <<"cr">>} THEN White(item.is) ELSE Data(item.is)>>
                      [] item.kind = "white" -> <<White(IF "cr" \in Range(item.bytes) THEN <<"lf">> ELSE item.bytes)>>
                      [] item.kind = "paramRef" -> Replacement(params, params[item.name])
                      [] OTHER -> <<item>>
       IN  IF known THEN first \o Replacement(params, Tail(items)) ELSE << >>

DtdOf(decls) ==
  LET params == [p \in DOMAIN decls.params |-> [textPtr |-> ItemsBytes(decls.params[p])]]
      known == [paramEntities |-> params]
      Entity(e) == [textPtr |-> IF e.type = "internal"
                                  THEN storeEntityValue(known, ItemsBytes(e.items), << >>, {}, e.inParamEntity).pool
                                  ELSE NoText,
                    notation |-> e.type = "unparsed", is_internal |-> e.is_internal]
      Type_(atts) == [defaultAtts |-> [i \in DOMAIN atts |-> [id |-> atts[i].id, value |-> atts[i].value, isCdata |-> atts[i].isCdata]],
                      idAtt |-> IF \E i \in DOMAIN atts : atts[i].isId
                                  THEN atts[CHOOSE i \in DOMAIN atts : atts[i].isId].id ELSE << >>]
  IN  [generalEntities |-> [e \in DOMAIN decls.entities |-> Entity(decls.entities[e])], paramEntities |-> params,
       elementTypes |-> [e \in DOMAIN decls.elements |-> Type_(decls.elements[e])],
       hasParamEntityRefs |-> decls.hasParamEntityRefs, standalone |-> decls.standalone]

-----------------------------------------------------------------------------
(* Reading items                                                           *)

Eol(item) ==
  CASE item.kind = "white" -> IF "cr" \in Range(item.bytes) THEN <<"lf">> ELSE item.bytes
    [] item.kind = "ref" -> <<predefinedEntityName(item.name)>>
    [] OTHER -> item.is
Eols(items) == FlattenSeq([i \in DOMAIN items |-> Eol(items[i])])
Predefined(item) == item.kind = "ref" /\ predefinedEntityName(item.name) # "0"

\* an entity has to be declared where every declaration is sure to have been read, and is not to
\* contain itself
Wrong(decls, name, open_) ==
  LET known == name \in DOMAIN decls.entities
      sure == ~ decls.hasParamEntityRefs \/ decls.standalone
  IN  CASE ~ known /\ sure -> "UNDEFINED_ENTITY"
        [] ~ known /\ ~ sure -> "skipped"
        [] known /\ sure /\ ~ decls.entities[name].is_internal -> "ENTITY_DECLARED_IN_PE"
        [] OTHER -> IF name \in open_ THEN "RECURSIVE_ENTITY_REF"
                    ELSE IF decls.entities[name].type = "unparsed" THEN "BINARY_ENTITY_REF" ELSE "NONE"
EntityItems(decls, name) ==
  Replacement(IF decls.entities[name].inParamEntity THEN decls.params ELSE << >>, decls.entities[name].items)

\* the characters of a value; white space is a space
RECURSIVE ReadValue(_, _, _, _)
ReadValue(decls, acc, items, open_) ==
  LET Step(a, item) ==
        CASE a.error # "NONE" -> a
          [] a.error = "NONE" /\ item.kind = "white" -> [a EXCEPT !.value = Append(@, " ")]
          [] a.error = "NONE" /\ (item.kind \in {"data", "char"} \/ Predefined(item)) -> [a EXCEPT !.value = @ \o Eol(item)]
          [] a.error = "NONE" /\ item.kind = "bad" -> [a EXCEPT !.error = item.error]
          [] a.error = "NONE" /\ item.kind = "ref" /\ ~ Predefined(item) ->
               LET wrong == Wrong(decls, item.name, open_)
               IN  CASE wrong = "skipped" -> a
                     [] wrong \notin {"skipped", "NONE"} -> [a EXCEPT !.error = wrong]
                     [] OTHER -> IF decls.entities[item.name].type = "external"
                                   THEN [a EXCEPT !.error = "ATTRIBUTE_EXTERNAL_ENTITY_REF"]
                                 ELSE ReadValue(decls, a, EntityItems(decls, item.name), open_ \cup {item.name})
          [] OTHER -> [a EXCEPT !.error = "INVALID_TOKEN"]
  IN  FoldLeft(Step, acc, items)

\* a value that is not CDATA has single spaces, inside of it
Tokenized(v) ==
  LET kept == {i \in DOMAIN v : v[i] # " " \/ (i > 1 /\ v[i - 1] # " " /\ \E j \in i .. Len(v) : v[j] # " ")}
  IN  [i \in 1 .. Cardinality(kept) |-> v[CHOOSE k \in kept : Cardinality({j \in kept : j <= k}) = i]]

\* a is what was read of the attributes in front, value what was read of this one
ReadAtt(a, att, value, cdata) ==
  CASE a.error # "NONE" -> a
    [] a.error = "NONE" /\ \E i \in DOMAIN a.atts : a.atts[i][1] = att.name -> [a EXCEPT !.error = "DUPLICATE_ATTRIBUTE"]
    [] OTHER -> [error |-> value.error,
                 atts |-> Append(a.atts, <<att.name, IF cdata THEN value.value ELSE Tokenized(value.value)>>)]

StartOf(item, declared, specified) ==
  LET Absent(d) == d.value # NoValue /\ \A i \in DOMAIN item.atts : item.atts[i].name # d.id
      added == SelectSeq(declared, Absent)
      ids == {i \in DOMAIN item.atts : \E d \in Range(declared) : d.id = item.atts[i].name /\ d.isId}
  IN  [error |-> specified.error,
       event |-> [kind |-> "start", data |-> item.name,
                  atts |-> specified.atts \o [i \in DOMAIN added |-> <<added[i].id, added[i].value>>],
                  specified |-> Len(item.atts), id |-> IF ids = {} THEN 0 ELSE Max(ids)]]

ReadStart(decls, item, open_) ==
  LET declared == IF item.name \in DOMAIN decls.elements THEN decls.elements[item.name] ELSE << >>
      Step(a, att) == ReadAtt(a, att, ReadValue(decls, [value |-> << >>, error |-> "NONE"], att.items, open_),
                              \A d \in Range(declared) : d.id = att.name => d.isCdata)
  IN  StartOf(item, declared, FoldLeft(Step, [error |-> "NONE", atts |-> << >>], item.atts))

Joined(es, e) ==
  IF e.kind = "text" /\ es # << >> /\ Last(es).kind = "text"
    THEN [es EXCEPT ![Len(es)].data = @ \o e.data] ELSE Append(es, e)

\* acc is [events, stack, base, error]: the names of open tags, and how many were before the entity
RECURSIVE ReadItems(_, _, _, _)
Tell(acc, e) == [acc EXCEPT !.events = Joined(@, e)]
Told(acc, e) == IF e.kind \in Callbacks THEN Tell(acc, e) ELSE acc
Err(acc, error) == [acc EXCEPT !.error = error]
EndOf(item) == [kind |-> "end", data |-> item.name]

ReadTag(acc, item, start) ==
  CASE start.error # "NONE" -> Err(acc, start.error)
    [] start.error = "NONE" /\ item.kind = "open" -> [Tell(acc, start.event) EXCEPT !.stack = Append(@, item.name)]
    [] OTHER -> [Tell(acc, start.event) EXCEPT !.events = Append(@, EndOf(item))]

\* inner is what was read of the entity
ReadEntity(acc, inner) ==
  CASE inner.error # "NONE" -> inner
    [] inner.error = "NONE" /\ Len(inner.stack) # Len(acc.stack) -> [inner EXCEPT !.error = "ASYNC_ENTITY"]
    [] OTHER -> [inner EXCEPT !.base = acc.base]

ReadRef(decls, acc, name, open_, wrong) ==
  CASE wrong = "skipped" -> Told(acc, [kind |-> "skipped", data |-> name])
    [] wrong \notin {"skipped", "NONE"} -> Err(acc, wrong)
    [] wrong = "NONE" /\ decls.entities[name].type = "external" -> acc
    [] OTHER -> ReadEntity(acc, ReadItems(decls, [acc EXCEPT !.base = Len(acc.stack)], EntityItems(decls, name),
                                          open_ \cup {name}))

ReadItem(decls, acc, item, open_) ==
  CASE item.kind \in {"data", "white", "char"} \/ Predefined(item) -> Tell(acc, Characters(Eol(item)))
    [] item.kind = "cdata" -> IF item.items = << >> THEN acc ELSE Tell(acc, Characters(Eols(item.items)))
    [] item.kind = "comment" -> Told(acc, [kind |-> "comment", data |-> Eols(item.items)])
    [] item.kind = "pi" -> Told(acc, [kind |-> "pi", data |-> <<item.name, Eols(item.items)>>])
    [] item.kind = "bad" -> Err(acc, item.error)
    [] item.kind \in {"open", "empty"} -> ReadTag(acc, item, ReadStart(decls, item, open_))
    [] item.kind = "close" -> IF Len(acc.stack) = acc.base THEN Err(acc, "ASYNC_ENTITY")
                              ELSE IF Last(acc.stack) # item.name THEN Err(acc, "TAG_MISMATCH")
                              ELSE [Tell(acc, EndOf(item)) EXCEPT !.stack = Front(@)]
    [] item.kind = "ref" /\ ~ Predefined(item) -> ReadRef(decls, acc, item.name, open_, Wrong(decls, item.name, open_))
ReadItems(decls, acc, items, open_) ==
  FoldLeft(LAMBDA a, item : IF a.error = "NONE" THEN ReadItem(decls, a, item, open_) ELSE a, acc, items)

\* the items from i on, which begin behind at bytes; in is "before", "inside" or "after" the document element
RECURSIVE ReadFrom(_, _, _, _, _, _)
Now(item, stack, in) ==
  CASE in = "after" \/ (in = "before" /\ item.kind \in {"white", "comment", "pi"}) -> in
    [] OTHER -> IF stack = << >> THEN "after" ELSE "inside"

\* got is what was read up to the item i
ReadOn(decls, got, items, i, at, in) ==
  LET end == at + Len(ItemBytes(items[i]))
  IN  IF got.error # "NONE" THEN [events |-> got.events, from |-> at, to |-> end, error |-> got.error]
      ELSE ReadFrom(decls, got, items, i + 1, end, Now(items[i], got.stack, in))

ReadFrom(decls, acc, items, i, at, in) ==
  IF i > Len(items)
    THEN [events |-> acc.events, from |-> at - (IF items = << >> THEN 0 ELSE Len(ItemBytes(Last(items)))), to |-> at,
          error |-> IF in = "after" THEN "NONE" ELSE "NO_ELEMENTS"]
  ELSE
    LET kind == items[i].kind
    IN  ReadOn(decls, CASE in # "inside" /\ kind = "white" -> acc
                        [] in = "after" /\ kind \notin {"white", "comment", "pi", "bad"} -> Err(acc, "JUNK_AFTER_DOC_ELEMENT")
                        [] OTHER -> ReadItem(decls, acc, items[i], {}),
               items, i, at, in)

Document(decls, dtdOf, items) ==
  [text |-> ItemsBytes(items), dtd |-> dtdOf,
   read |-> ReadFrom(decls, [events |-> << >>, stack |-> << >>, base |-> 0, error |-> "NONE"], items, 1, 0, "before")]

-----------------------------------------------------------------------------
(* Properties                                                              *)

reading == doc.read
Alive == status \in {"waiting", "parsing"}

\* character data may have been told as far as it was passed
Begins(es, of) ==
  \/ es = << >>
  \/ /\ Len(es) <= Len(of) /\ Front(es) = SubSeq(of, 1, Len(es) - 1)
     /\ \/ Last(es) = of[Len(es)]
        \/ /\ Last(es).kind = "text" /\ of[Len(es)].kind = "text"
           /\ IsPrefix(Last(es).data, of[Len(es)].data)

(***************************************************************************)
(* Wherever the document is cut, what is reported of it is what its items  *)
(* mean, in their order, and it is refused exactly if one of them is       *)
(* wrong, with the error of the first of them (doContent, doCdataSection,  *)
(* storeAtts, epilogProcessor and the buffer under them).  Only data in    *)
(* front of a "]]>" that is none of its own is told or not as it was cut.  *)
(***************************************************************************)
EventsAreDocument ==
  /\ Begins(events, reading.events)
  /\ status = "finished" => reading.error = "NONE" /\ events = reading.events
  /\ ~ Alive /\ status # "finished" =>
       /\ reading.error = status
       /\ \/ events = reading.events
          \/ status = "INVALID_TOKEN" /\ Last(reading.events).kind = "text" /\ Len(events) >= Len(reading.events) - 1

(***************************************************************************)
(* The name that a tag's end is compared with is the name of the tag,      *)
(* although it was in a buffer that has moved or is freed (storeRawNames). *)
(***************************************************************************)
RawNamesStay == Alive => \A i \in DOMAIN tagStack : RawName(tagStack[i]) = tagStack[i].name

(***************************************************************************)
(* No entity is read inside of itself, tags that were opened outside of an *)
(* entity stay open in it, and where the parser waits for a piece no       *)
(* entity is open; no attribute stays marked as seen behind its tag        *)
(* (processInternalEntity, storeAtts).                                     *)
(***************************************************************************)
EntitiesNest ==
  Alive =>
    /\ open = {e.entity : e \in Range(openInternalEntities)}
    /\ Cardinality(open) = Len(openInternalEntities)
    /\ \A i \in DOMAIN openInternalEntities : openInternalEntities[i].startTagLevel <= tagLevel
    /\ status = "waiting" => openInternalEntities = << >>
    /\ marks = {}

\* the place behind the first n bytes
PlaceOf(n) ==
  LET text == doc.text
      ends == {i \in 1 .. n : text[i] = "lf" \/ (text[i] = "cr" /\ (i = n \/ text[i + 1] # "lf"))}
      start == Max(ends \cup {0})
  IN  [line |-> Cardinality(ends), column |-> Cardinality({i \in start + 1 .. n : text[i] # "trail"})]
Offset(p) == fed - (buffer.end - p)
Located == updatePosition(position, SubSeq(buffer.mem, buffer.ptr + 1, eventPtr))

(***************************************************************************)
(* The line and column are those of the document, and an error is told at  *)
(* the markup that is wrong, whatever pieces it came in (XML_ParseBuffer,  *)
(* XML_GetCurrentLineNumber).  In the epilog a "\r\n" that is cut in two   *)
(* counts as two lines.                                                    *)
(***************************************************************************)
PositionIsPlace ==
  /\ status = "waiting" /\ loop # "epilog" => position = PlaceOf(Offset(buffer.ptr))
  /\ ~ Alive /\ status # "finished" =>
       /\ Offset(eventPtr) \in reading.from .. reading.to
       /\ loop # "epilog" => Located = PlaceOf(Offset(eventPtr))

=============================================================================

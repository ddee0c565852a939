----------------------------- MODULE XmlValues -----------------------------
(***************************************************************************)
(* What expat makes of references, attribute values, entity values and     *)
(* start tags (lib/xmltok_impl.c, lib/xmlparse.c), without namespaces.     *)
(* A dtd is [generalEntities, paramEntities, elementTypes,                 *)
(* hasParamEntityRefs, standalone]: an entity is [textPtr, notation,       *)
(* is_internal], with NoText for one that is not internal text, and an     *)
(* element type is [defaultAtts, idAtt].                                   *)
(***************************************************************************)
EXTENDS XmlTok, SequencesExt

CONSTANT INIT_ATTS_SIZE

NoText == <<"no text">>
NoValue == <<"no value">>
NoAtt == [name |-> 0, valuePtr |-> 0, valueEnd |-> 0, normalized |-> FALSE]

Slice_(s, from, to) == SubSeq(s, from, to - 1)

-----------------------------------------------------------------------------
(* References                                                              *)

HexValue == "0" :> 0 @@ "1" :> 1 @@ "2" :> 2 @@ "a" :> 10 @@ "b" :> 11 @@ "A" :> 10 @@ "C" :> 12 @@ "D" :> 13

\* no character of XML has the number: surrogates, most controls, and the last two of the first plane
checkCharRefNumber(n) ==
  IF \/ n \in 55296 .. 57343 \/ n \in {65534, 65535}
     \/ n \in 0 .. 31 /\ n \notin {9, 10, 13}
    THEN -1 ELSE n

\* the number of "&#...;"; once it is too large it stays so
charRefNumber(s) ==
  LET hex == s[3] = "x"
      digits == SubSeq(s, IF hex THEN 4 ELSE 3, Len(s) - 1)
      Digit(n, c) == IF n = -1 THEN -1
                     ELSE LET m == n * (IF hex THEN 16 ELSE 10) + HexValue[c]
                          IN  IF m >= 1114112 THEN -1 ELSE m
      n == FoldLeft(Digit, 0, digits)
  IN  IF n = -1 THEN -1 ELSE checkCharRefNumber(n)

\* the bytes of a number: characters beyond ASCII are not told apart
XmlEncode(n) ==
  LET ascii == 9 :> "tab" @@ 10 :> "lf" @@ 13 :> "cr" @@ 32 :> " " @@ 97 :> "a" @@ 98 :> "b" @@ 111 :> "o"
  IN  IF n \in DOMAIN ascii THEN <<ascii[n]>> ELSE <<"lead2 none", "trail">>

predefinedEntityName(name) ==
  CASE name = <<"l", "t">> -> "<" [] name = <<"g", "t">> -> ">" [] name = <<"a", "m", "p">> -> "&"
    [] name = <<"q", "u", "o", "t">> -> "quot" [] name = <<"a", "p", "o", "s">> -> "'" [] OTHER -> "0"

RefName(s) == SubSeq(s, 2, Len(s) - 1)

\* what is wrong with a reference to a general entity, if its declaration is to be checked
RefError(entities, name, check, open) ==
  CASE name \notin DOMAIN entities -> IF check THEN "UNDEFINED_ENTITY" ELSE "skipped"
    [] name \in DOMAIN entities /\ check /\ ~ entities[name].is_internal -> "ENTITY_DECLARED_IN_PE"
    [] OTHER -> IF name \in open THEN "RECURSIVE_ENTITY_REF"
                ELSE IF entities[name].notation THEN "BINARY_ENTITY_REF" ELSE "NONE"
CheckDecl(dtd) == ~ dtd.hasParamEntityRefs \/ dtd.standalone

-----------------------------------------------------------------------------
(* Attribute values                                                        *)

EndsInSpace(pool) == pool = << >> \/ Last(pool) = " "

\* the value of s behind what is in the pool, while the entities in open are being read; left is
\* what is left of s where an error is reported at a place in it
RECURSIVE appendAttributeValue(_, _, _, _, _)

\* on behind an entity, unless it has an error
BehindEntity(inner, dtd, isCdata, rest, open) ==
  IF inner.result # "NONE" THEN [inner EXCEPT !.left = -1]
  ELSE appendAttributeValue(dtd, isCdata, rest, inner.pool, open)

AppendToken(r, dtd, isCdata, s, pool, open) ==
  LET bytes == SubSeq(s, 1, r.next)
      rest == SubSeq(s, (IF r.tok = "TRAILING_CR" THEN 1 ELSE r.next) + 1, Len(s))
      name == RefName(bytes)
      ch == predefinedEntityName(name)
      error == RefError(dtd.generalEntities, name, CheckDecl(dtd), open)
      entity == dtd.generalEntities[name]
      number == charRefNumber(bytes)
      Go_(p) == appendAttributeValue(dtd, isCdata, rest, p, open)
      Out(result, left) == [pool |-> pool, result |-> result, left |-> left]
      Space == IF ~ isCdata /\ EndsInSpace(pool) THEN pool ELSE Append(pool, " ")
  IN  CASE r.tok = "NONE" -> Out("NONE", -1)
        [] r.tok = "INVALID" -> Out("INVALID_TOKEN", Len(s) - r.next)
        [] r.tok = "PARTIAL" -> Out("INVALID_TOKEN", Len(s))
        [] r.tok = "DATA_CHARS" -> Go_(pool \o bytes)
        [] r.tok \in {"TRAILING_CR", "ATTRIBUTE_VALUE_S", "DATA_NEWLINE"} -> Go_(Space)
        [] r.tok = "CHAR_REF" ->
             IF number < 0 THEN Out("BAD_CHAR_REF", Len(s)) ELSE Go_(IF number = 32 THEN Space ELSE pool \o XmlEncode(number))
        [] r.tok = "ENTITY_REF" /\ ch # "0" -> Go_(Append(pool, ch))
        [] r.tok = "ENTITY_REF" /\ ch = "0" ->
             CASE error = "skipped" -> Go_(pool)
               [] error \in {"UNDEFINED_ENTITY", "ENTITY_DECLARED_IN_PE"} -> Out(error, -1)
               [] error \in {"RECURSIVE_ENTITY_REF", "BINARY_ENTITY_REF"} -> Out(error, Len(s))
               [] error = "NONE" ->
                    IF entity.textPtr = NoText THEN Out("ATTRIBUTE_EXTERNAL_ENTITY_REF", Len(s))
                    ELSE BehindEntity(appendAttributeValue(dtd, isCdata, entity.textPtr, pool, open \cup {name}),
                                      dtd, isCdata, rest, open)

appendAttributeValue(dtd, isCdata, s, pool, open) ==
  AppendToken(attributeValueTok(s), dtd, isCdata, s, pool, open)

\* a value that is not CDATA ends without a space
WithoutSpace(r, isCdata) ==
  IF r.result = "NONE" /\ ~ isCdata /\ r.pool # << >> /\ Last(r.pool) = " " THEN [r EXCEPT !.pool = Front(@)] ELSE r
storeAttributeValue(dtd, isCdata, s, open) ==
  WithoutSpace(appendAttributeValue(dtd, isCdata, s, << >>, open), isCdata)

-----------------------------------------------------------------------------
(* Entity values                                                           *)

\* the text of a literal; parameter entities are known in the text of others only
RECURSIVE storeEntityValue(_, _, _, _, _)
BehindParamEntity(inner, dtd, rest, open) ==
  IF inner.result # "NONE" THEN inner ELSE storeEntityValue(dtd, rest, inner.pool, open, TRUE)

StoreToken(r, dtd, s, pool, open, inParamEntity) ==
  LET bytes == SubSeq(s, 1, r.next)
      rest == SubSeq(s, (IF r.tok = "TRAILING_CR" THEN 1 ELSE r.next) + 1, Len(s))
      Go_(p) == storeEntityValue(dtd, rest, p, open, inParamEntity)
      Fail(error) == [pool |-> pool, result |-> error]
      name == RefName(bytes)
      textPtr == dtd.paramEntities[name].textPtr
      number == charRefNumber(bytes)
  IN  CASE r.tok = "NONE" -> Fail("NONE")
        [] r.tok \in {"PARTIAL", "INVALID"} -> Fail("INVALID_TOKEN")
        [] r.tok \in {"ENTITY_REF", "DATA_CHARS"} -> Go_(pool \o bytes)
        [] r.tok \in {"TRAILING_CR", "DATA_NEWLINE"} -> Go_(Append(pool, "lf"))
        [] r.tok = "CHAR_REF" -> IF number < 0 THEN Fail("BAD_CHAR_REF") ELSE Go_(pool \o XmlEncode(number))
        [] r.tok = "PARAM_ENTITY_REF" ->
             CASE ~ inParamEntity -> Fail("PARAM_ENTITY_REF")
               [] inParamEntity /\ name \notin DOMAIN dtd.paramEntities -> Fail("NONE")
               [] inParamEntity /\ name \in DOMAIN dtd.paramEntities \cap open -> Fail("RECURSIVE_ENTITY_REF")
               [] inParamEntity /\ name \in DOMAIN dtd.paramEntities \ open ->
                    IF textPtr = NoText THEN Go_(pool)
                    ELSE BehindParamEntity(storeEntityValue(dtd, textPtr, pool, open \cup {name}, TRUE), dtd, rest, open)

storeEntityValue(dtd, s, pool, open, inParamEntity) ==
  StoreToken(entityValueTok(s), dtd, s, pool, open, inParamEntity)

\* ends of lines in the text of a comment or a processing instruction
RECURSIVE normalizeLines(_)
normalizeLines(s) ==
  IF s = << >> THEN << >>
  ELSE IF Head(s) # "cr" THEN <<Head(s)>> \o normalizeLines(Tail(s))
  ELSE <<"lf">> \o normalizeLines(SubSeq(s, IF Bytes(s, 1, 2) = <<"cr", "lf">> THEN 3 ELSE 2, Len(s)))

RECURSIVE skipS(_)
skipS(s) == IF s # << >> /\ Type(s, 1) \in S_ THEN skipS(Tail(s)) ELSE s

-----------------------------------------------------------------------------
(* Start tags                                                              *)

\* a field of the attribute that is being read, if there is room for it
Put(acc, field, v) == IF acc.n < Len(acc.atts) THEN [acc EXCEPT !.atts[acc.n + 1][field] = v] ELSE acc

\* a value is not normal if it has white space other than single spaces inside
Denormal(s, acc, i) ==
  \/ Type(s, i) # "S" \/ s[i] # " "
  \/ acc.n < Len(acc.atts) /\ i = acc.atts[acc.n + 1].valuePtr
  \/ s[i + 1] = " " \/ Type(s, i + 1) = acc.open

AttByte(s, acc, i) ==
  LET t == Type(s, i)
  IN  CASE acc.done -> acc
        [] ~ acc.done /\ t \in NmStart \cup {"LEAD2"} ->
             IF acc.state # "other" THEN acc
             ELSE [Put(Put(acc, "name", i), "normalized", TRUE) EXCEPT !.state = "inName"]
        [] ~ acc.done /\ t \in {"QUOT", "APOS"} ->
             IF acc.state # "inValue"
               THEN [Put(acc, "valuePtr", i + 1) EXCEPT !.state = "inValue", !.open = t]
             ELSE IF acc.open = t THEN [Put(acc, "valueEnd", i) EXCEPT !.state = "other", !.n = @ + 1]
             ELSE acc
        [] ~ acc.done /\ t = "AMP" -> Put(acc, "normalized", FALSE)
        [] ~ acc.done /\ t \in S_ ->
             IF acc.state = "inName" THEN [acc EXCEPT !.state = "other"]
             ELSE IF acc.state = "inValue" /\ Denormal(s, acc, i) THEN Put(acc, "normalized", FALSE) ELSE acc
        [] ~ acc.done /\ t \in {"GT", "SOL"} -> [acc EXCEPT !.done = acc.state # "inValue"]
        [] OTHER -> acc

\* the attributes of the tag s: how many there are, and the first attsMax of them
getAtts(s, attsMax) ==
  FoldLeft(LAMBDA acc, i : AttByte(s, acc, i),
           [atts |-> [i \in 1 .. attsMax |-> NoAtt], n |-> 0, state |-> "inName", open |-> "none", done |-> FALSE],
           [i \in 1 .. Len(s) - 1 |-> i + 1])

NameAt(s, i) == SubSeq(s, i, i + nameLength(s, i) - 1)
ElementType(dtd, name) ==
  IF name \in DOMAIN dtd.elementTypes THEN dtd.elementTypes[name] ELSE [defaultAtts |-> << >>, idAtt |-> << >>]

\* an attribute of the tag is marked as seen, and put into the list with its value
Listed(acc, att, name, value) ==
  [acc EXCEPT !.marks = @ \cup {name}, !.result = value.result,
              !.appAtts = Append(@, <<name, value.pool>>),
              !.at = IF value.left = -1 THEN 1 ELSE att.valueEnd - value.left]

\* its value is made normal as it is declared, if it is not yet
storeAtt(dtd, type, s, open, acc, att) ==
  LET name == NameAt(s, att.name)
      declared == SelectSeq(type.defaultAtts, LAMBDA d : d.id = name)
      isCdata == declared = << >> \/ declared[1].isCdata
      bytes == Slice_(s, att.valuePtr, att.valueEnd)
  IN  CASE acc.result # "NONE" -> acc
        [] acc.result = "NONE" /\ name \in acc.marks -> [acc EXCEPT !.result = "DUPLICATE_ATTRIBUTE", !.at = att.name]
        [] OTHER -> Listed(acc, att, name, IF att.normalized THEN [pool |-> bytes, result |-> "NONE", left |-> -1]
                                           ELSE storeAttributeValue(dtd, isCdata, bytes, open))

\* mutant: the marks of attributes that were not specified stay
ClearedSpecified(marks, appAtts, n) == marks \ {appAtts[i][1] : i \in 1 .. n}

Cleared(marks, appAtts, n) == marks \ {appAtts[i][1] : i \in DOMAIN appAtts}

\* what the application is told of n specified attributes, and of all with the defaults
ForApplication(type, n, size, specified, all) ==
  LET ids == {i \in 1 .. n : type.idAtt \in specified.marks /\ specified.appAtts[i][1] = type.idAtt}
      total == n + Len(type.defaultAtts)
  IN  [result |-> "NONE", marks |-> Cleared(all.marks, all.appAtts, n),
       size |-> IF total > size THEN total + INIT_ATTS_SIZE ELSE size,
       atts |-> all.appAtts, specified |-> n,
       id |-> IF ids = {} THEN 0 ELSE CHOOSE i \in ids : \A j \in ids : i <= j]

\* a declared attribute that was not specified, if it has a value
storeDefault(acc, d) ==
  IF d.id \in acc.marks \/ d.value = NoValue THEN acc
  ELSE [acc EXCEPT !.marks = @ \cup {d.id}, !.appAtts = Append(@, <<d.id, d.value>>)]

WithDefaults(type, n, size, specified) ==
  IF specified.result # "NONE"
    THEN [result |-> specified.result, at |-> specified.at, marks |-> specified.marks, size |-> size]
  ELSE ForApplication(type, n, size, specified, FoldLeft(storeDefault, specified, type.defaultAtts))

\* first are the attributes as far as there was room
Specified(dtd, type, s, open, marks, size, first) ==
  LET n == first.n
      atts == IF n > size THEN getAtts(s, n).atts ELSE first.atts
  IN  WithDefaults(type, n, size,
                   FoldLeft(LAMBDA acc, i : storeAtt(dtd, type, s, open, acc, atts[i]),
                            [marks |-> marks, appAtts |-> << >>, result |-> "NONE", at |-> 1],
                            [i \in 1 .. n |-> i]))

(***************************************************************************)
(* storeAtts: the attributes for the application of the tag s, those that  *)
(* are specified before the declared ones that are not.  size is the room  *)
(* in atts, which is read again if it was too small.                       *)
(***************************************************************************)
storeAtts(dtd, tag, s, open, marks, size) ==
  Specified(dtd, ElementType(dtd, tag), s, open, marks, size, getAtts(s, size))

=============================================================================

---------------------------- MODULE XmlContent ----------------------------
(***************************************************************************)
(* expat's parser behind the prolog (lib/xmlparse.c): a document comes in  *)
(* pieces that XML_Parse copies to its buffer, and every call takes the    *)
(* tokens that are complete.  The processor that goes on with the next     *)
(* piece is the loop that the last call left: that of a prolog without     *)
(* declarations, of content, of a CDATA section or of the epilog.  What    *)
(* the tags and entities that are open need of the text is kept in         *)
(* pointers into the buffer, which moves.                                  *)
(*                                                                         *)
(* A step is a token.  Namespaces, suspended parsers, external parsers and *)
(* the default handler, which libsd does not use, are left out.            *)
(***************************************************************************)
EXTENDS XmlValues

CONSTANTS
  Documents,         \* the documents, each [text, dtd, read]: the bytes, what the prolog declared, what is to be read
  PieceSizes,        \* how many bytes a piece may have, unless it is the rest
  INIT_BUFFER_SIZE, XML_CONTEXT_BYTES,
  Callbacks           \* those of "comment", "pi" and "skipped" that are set

ASSUME ContentAssumption ==
  INIT_BUFFER_SIZE \in Nat \ {0} /\ XML_CONTEXT_BYTES \in Nat /\ INIT_ATTS_SIZE \in Nat \ {0}

VARIABLES
  doc, fed, finalBuffer,         \* the document, how much of it was passed, whether that was the last piece
  buffer,                        \* [mem, ptr, end, made]: the memory, the unread data in it, how often it was allocated
  status,                        \* "waiting", "parsing", "finished" or the error
  loop, s,                       \* the loop that runs or will go on, and its place
  tagStack,                      \* of [name, rawName, rawNameLength], the innermost tag last
  openInternalEntities, open,    \* of [entity, startTagLevel, return], the innermost last; the open flags
  marks, attsSize,               \* names[-1] of attributes, the room in atts
  events,                        \* what was reported, neighbouring character data as one
  position, eventPtr             \* the line and column of buffer.ptr, the place of the last event

input == <<doc, fed, finalBuffer, buffer>>
attributes == <<marks, attsSize>>
entityVars == <<openInternalEntities, open>>
vars == <<input, status, loop, s, tagStack, entityVars, attributes, events, position, eventPtr>>

tagLevel == Len(tagStack)
InEntity == openInternalEntities # << >>
openEntity == Last(openInternalEntities)
EntityText(name) == doc.dtd.generalEntities[name].textPtr
startTagLevel == IF InEntity THEN openEntity.startTagLevel ELSE 0
haveMore == ~ InEntity /\ ~ finalBuffer

\* the text from s to the end of the entity or of the data
Text == IF InEntity THEN SubSeq(EntityText(openEntity.entity), s + 1, Len(EntityText(openEntity.entity)))
        ELSE SubSeq(buffer.mem, s + 1, buffer.end)

Reported(e) ==
  IF e.kind = "text" /\ events # << >> /\ Last(events).kind = "text"
    THEN [events EXCEPT ![Len(events)].data = @ \o e.data]
  ELSE Append(events, e)
Characters(data) == [kind |-> "text", data |-> data]
Event(kind, data) == IF kind \in Callbacks THEN Reported([kind |-> kind, data |-> data]) ELSE events

-----------------------------------------------------------------------------
(* The buffer                                                              *)

RECURSIVE Doubled(_, _)
Doubled(size, needed) == IF 2 * size >= needed THEN 2 * size ELSE Doubled(2 * size, needed)

Least(a, b) == IF a < b THEN a ELSE b

\* mutant: the data is moved to the front of the buffer, its context is not counted
MovedFront(b, offset) ==
  [b EXCEPT !.mem = [i \in DOMAIN @ |-> IF i + b.ptr <= b.end THEN @[i + b.ptr] ELSE @[i]],
            !.ptr = @ - offset, !.end = @ - offset]

Moved(b, offset) ==
  [b EXCEPT !.mem = [i \in DOMAIN @ |-> IF i + offset <= b.end THEN @[i + offset] ELSE @[i]],
            !.ptr = @ - offset, !.end = @ - offset]

\* room for len bytes behind the data: there is, or it moves, or it is copied to a new buffer
XML_GetBuffer(b, len) ==
  LET lim == Len(b.mem)
      keep == Least(b.ptr, XML_CONTEXT_BYTES)
      neededSize == len + b.end - b.ptr + keep
      size == Doubled(IF lim = b.ptr THEN INIT_BUFFER_SIZE ELSE lim - b.ptr, neededSize)
      kept == SubSeq(b.mem, b.ptr - keep + 1, b.end)
  IN  CASE len <= lim - b.end -> b
        [] len > lim - b.end /\ neededSize <= lim -> Moved(b, b.ptr - keep)
        [] OTHER -> [mem |-> kept \o [i \in 1 .. size - Len(kept) |-> "uninit"],
                     ptr |-> keep, end |-> Len(kept), made |-> b.made + 1]

Filled(b, piece) ==
  [b EXCEPT !.mem = SubSeq(@, 1, b.end) \o piece \o SubSeq(@, b.end + Len(piece) + 1, Len(@)),
            !.end = @ + Len(piece)]

(***************************************************************************)
(* XML_Parse: the next n bytes, the last ones if isFinal.  An empty last   *)
(* piece leaves the buffer alone.  The processor starts at buffer.ptr.     *)
(***************************************************************************)
XML_Parse(n, isFinal) ==
  /\ status = "waiting"
  /\ buffer' = IF n = 0 THEN buffer
               ELSE Filled(XML_GetBuffer(buffer, n), SubSeq(doc.text, fed + 1, fed + n))
  /\ fed' = fed + n /\ finalBuffer' = isFinal
  /\ status' = "parsing" /\ s' = buffer'.ptr /\ eventPtr' = buffer'.ptr
  /\ UNCHANGED <<doc, loop, tagStack, entityVars, attributes, events, position>>

\* the bytes that the name of a tag points to
RawName(tag) ==
  LET p == tag.rawName
  IN  CASE p.in = "tag"    -> p.bytes
        [] p.in = "entity" -> SubSeq(EntityText(p.entity), p.at + 1, p.at + tag.rawNameLength)
        [] p.in = "buffer" -> IF p.made = buffer.made THEN SubSeq(buffer.mem, p.at + 1, p.at + tag.rawNameLength)
                              ELSE <<"freed">>

\* mutant: only the innermost tag is looked at
storeRawNamesTop(stack) ==
  [i \in DOMAIN stack |-> IF i < Len(stack) THEN stack[i]
                          ELSE [stack[i] EXCEPT !.rawName = [in |-> "tag", bytes |-> RawName(stack[i])]]]

\* from the innermost tag on, up to the first one that has its own copy
storeRawNames(stack) ==
  [i \in DOMAIN stack |-> IF \E j \in i .. Len(stack) : stack[j].rawName.in = "tag" THEN stack[i]
                          ELSE [stack[i] EXCEPT !.rawName = [in |-> "tag", bytes |-> RawName(stack[i])]]]

\* mutant: "\r\n" ends two lines
updatePositionTwice(p, text) ==
  FoldLeft(LAMBDA pos, i :
             IF text[i] \in {"lf", "cr"} THEN [line |-> pos.line + 1, column |-> 0]
             ELSE IF text[i] = "trail" THEN pos ELSE [pos EXCEPT !.column = @ + 1],
           p, [i \in DOMAIN text |-> i])

\* the place of the end of text, if p is that of its start
updatePosition(p, text) ==
  FoldLeft(LAMBDA pos, i :
             IF text[i] = "lf" /\ i > 1 /\ text[i - 1] = "cr" THEN pos
             ELSE IF text[i] \in {"lf", "cr"} THEN [line |-> pos.line + 1, column |-> 0]
             ELSE IF text[i] = "trail" THEN pos ELSE [pos EXCEPT !.column = @ + 1],
           p, [i \in DOMAIN text |-> i])

-----------------------------------------------------------------------------
(* Where a loop ends                                                       *)

\* the call returns without an error, and goes on at next with the next piece; after the last
\* piece there is nothing to go on with.  No tag is new to a CDATA section or an epilog.
Return(next) ==
  /\ buffer' = [buffer EXCEPT !.ptr = next]
  /\ tagStack' = storeRawNames(tagStack)
  /\ IF finalBuffer THEN status' = "finished" /\ UNCHANGED position
     ELSE /\ status' = "waiting"
          /\ position' = updatePosition(position, SubSeq(buffer.mem, buffer.ptr + 1, next))
  /\ UNCHANGED <<doc, fed, finalBuffer, s, loop, entityVars, attributes>>

\* an error at the place at of the document; in an entity that is the place of the reference
Fail(error, at) ==
  /\ status' = error
  /\ eventPtr' = IF InEntity THEN eventPtr ELSE at
  /\ UNCHANGED <<input, loop, s, entityVars, position>>
FailNow(error, at) == Fail(error, at) /\ UNCHANGED <<tagStack, attributes, events>>

\* on to place next of the text
On_(next) ==
  /\ s' = next /\ eventPtr' = IF InEntity THEN eventPtr ELSE next
  /\ UNCHANGED <<input, status, position>>

\* doContent of the entity returns, and the loop that the reference is in goes on behind it
LeaveEntity ==
  /\ openInternalEntities' = Front(openInternalEntities)
  /\ open' = open \ {openEntity.entity}
  /\ s' = openEntity.return
  /\ eventPtr' = IF Len(openInternalEntities) = 1 THEN openEntity.return ELSE eventPtr
  /\ UNCHANGED <<input, status, loop, tagStack, attributes, position>>

-----------------------------------------------------------------------------
(* doContent                                                               *)

Running(l) == status = "parsing" /\ loop = l
Token(r) == SubSeq(Text, 1, r.next)   \* the bytes of a token, and the place behind it
Behind(r) == s + r.next

\* the end of the text, with data in front of it or not
EndOfText(level0, at, reported) ==
  IF haveMore THEN Return(s) /\ UNCHANGED <<events, eventPtr>>
  ELSE /\ events' = reported
       /\ CASE ~ InEntity -> Fail(level0, at) /\ UNCHANGED <<tagStack, attributes>>
            [] InEntity /\ tagLevel # startTagLevel -> Fail("ASYNC_ENTITY", at) /\ UNCHANGED <<tagStack, attributes>>
            [] OTHER -> LeaveEntity

ContentNone(r) == r.tok = "NONE" /\ EndOfText("NO_ELEMENTS", s, events)
ContentTrailingCR(r) == r.tok = "TRAILING_CR" /\ EndOfText("NO_ELEMENTS", s, Reported(Characters(<<"lf">>)))
ContentTrailingRSQB(r) == r.tok = "TRAILING_RSQB" /\ EndOfText("NO_ELEMENTS", buffer.end, Reported(Characters(Text)))

ContentPartial(r) ==
  /\ r.tok \in {"PARTIAL", "PARTIAL_CHAR"}
  /\ IF haveMore THEN Return(s) /\ UNCHANGED <<events, eventPtr>>
     ELSE FailNow(IF r.tok = "PARTIAL" THEN "UNCLOSED_TOKEN" ELSE "PARTIAL_CHAR", s)

ContentWrong(r) ==
  \/ r.tok = "INVALID" /\ FailNow("INVALID_TOKEN", Behind(r))
  \/ r.tok = "XML_DECL" /\ FailNow("MISPLACED_XML_PI", s)

Go_on == UNCHANGED <<loop, tagStack, entityVars, attributes>>

ContentData(r) ==
  \/ r.tok = "DATA_CHARS" /\ events' = Reported(Characters(Token(r))) /\ On_(Behind(r)) /\ Go_on
  \/ r.tok = "DATA_NEWLINE" /\ events' = Reported(Characters(<<"lf">>)) /\ On_(Behind(r)) /\ Go_on

CharRef(r) ==
  /\ r.tok = "CHAR_REF"
  /\ LET n == charRefNumber(Token(r))
     IN  IF n < 0 THEN FailNow("BAD_CHAR_REF", s)
         ELSE events' = Reported(Characters(XmlEncode(n))) /\ On_(Behind(r)) /\ Go_on

EntityError(name) == RefError(doc.dtd.generalEntities, name, CheckDecl(doc.dtd), open)

\* a reference to an external entity is passed over: no handler is set for it
EntityRef(r) ==
  /\ r.tok = "ENTITY_REF"
  /\ LET name == RefName(Token(r))
         ch == predefinedEntityName(name)
         error == EntityError(name)
     IN  CASE ch # "0" -> events' = Reported(Characters(<<ch>>)) /\ On_(Behind(r)) /\ Go_on
           [] ch = "0" /\ error = "skipped" -> events' = Event("skipped", name) /\ On_(Behind(r)) /\ Go_on
           [] ch = "0" /\ error \notin {"skipped", "NONE"} -> FailNow(error, s)
           [] ch = "0" /\ error = "NONE" /\ EntityText(name) = NoText -> On_(Behind(r)) /\ Go_on /\ UNCHANGED events
           [] OTHER ->
                /\ open' = open \cup {name}
                /\ openInternalEntities' =
                     Append(openInternalEntities, [entity |-> name, startTagLevel |-> tagLevel, return |-> Behind(r)])
                /\ s' = 0
                /\ UNCHANGED <<input, status, loop, tagStack, attributes, events, position, eventPtr>>

Started(tag, atts) ==
  [kind |-> "start", data |-> tag, atts |-> atts.atts, specified |-> atts.specified, id |-> atts.id]
Place == IF InEntity THEN [in |-> "entity", entity |-> openEntity.entity, at |-> s + 1]
         ELSE [in |-> "buffer", made |-> buffer.made, at |-> s + 1]

StartWith(r, name, atts) ==
  /\ tagStack' = Append(tagStack, [name |-> name, rawName |-> Place, rawNameLength |-> Len(name)])
  /\ marks' = atts.marks /\ attsSize' = atts.size
  /\ \/ /\ atts.result # "NONE"
        /\ Fail(atts.result, s + atts.at - 1) /\ UNCHANGED events
     \/ /\ atts.result = "NONE"
        /\ events' = Reported(Started(name, atts)) /\ On_(Behind(r)) /\ UNCHANGED <<loop, entityVars>>
StartTag(r) ==
  /\ r.tok \in {"START_TAG_NO_ATTS", "START_TAG_WITH_ATTS"}
  /\ LET name == NameAt(Token(r), 2)
     IN  StartWith(r, name, storeAtts(doc.dtd, name, Token(r), open, marks, attsSize))

Level0 == IF tagLevel' = 0 THEN "epilog" ELSE "content"

EmptyWith(r, name, atts) ==
  /\ marks' = atts.marks /\ attsSize' = atts.size
  /\ \/ /\ atts.result # "NONE"
        /\ Fail(atts.result, s + atts.at - 1) /\ UNCHANGED <<tagStack, events>>
     \/ /\ atts.result = "NONE"
        /\ events' = Append(Reported(Started(name, atts)), [kind |-> "end", data |-> name])
        /\ On_(Behind(r)) /\ UNCHANGED <<tagStack, entityVars>> /\ loop' = Level0
EmptyElement(r) ==
  /\ r.tok \in {"EMPTY_ELEMENT_NO_ATTS", "EMPTY_ELEMENT_WITH_ATTS"}
  /\ LET name == NameAt(Token(r), 2)
     IN  EmptyWith(r, name, storeAtts(doc.dtd, name, Token(r), open, marks, attsSize))

EndTag(r) ==
  /\ r.tok = "END_TAG"
  /\ LET rawName == NameAt(Token(r), 3)
         tag == Last(tagStack)
     IN  IF tagLevel = startTagLevel THEN FailNow("ASYNC_ENTITY", s)
         ELSE /\ tagStack' = Front(tagStack)
              /\ UNCHANGED attributes
              /\ IF rawName # RawName(tag) THEN Fail("TAG_MISMATCH", s + 2) /\ UNCHANGED events
                 ELSE /\ events' = Reported([kind |-> "end", data |-> tag.name])
                      /\ On_(Behind(r)) /\ UNCHANGED entityVars /\ loop' = Level0

CdataSectOpen(r) ==
  /\ r.tok = "CDATA_SECT_OPEN"
  /\ loop' = "cdata" /\ On_(Behind(r)) /\ UNCHANGED <<tagStack, entityVars, attributes, events>>

\* the text of a processing instruction and of a comment, of which the marks are left out
PiEvent(t) ==
  Event("pi", <<PiTarget(t), normalizeLines(skipS(SubSeq(t, 3 + nameLength(t, 3), Len(t) - 2)))>>)
CommentEvent(t) == Event("comment", normalizeLines(SubSeq(t, 5, Len(t) - 3)))
Misc(tok, t) == events' = IF tok = "PI" THEN PiEvent(t) ELSE CommentEvent(t)

ContentMisc(r) == r.tok \in {"PI", "COMMENT"} /\ Misc(r.tok, Token(r)) /\ On_(Behind(r)) /\ Go_on

-----------------------------------------------------------------------------
(* doCdataSection                                                          *)

CdataToken(r) ==
  CASE r.tok = "CDATA_SECT_CLOSE" ->
         loop' = "content" /\ On_(Behind(r)) /\ UNCHANGED <<tagStack, entityVars, attributes, events>>
    [] r.tok = "DATA_NEWLINE" -> events' = Reported(Characters(<<"lf">>)) /\ On_(Behind(r)) /\ Go_on
    [] r.tok = "DATA_CHARS" -> events' = Reported(Characters(Token(r))) /\ On_(Behind(r)) /\ Go_on
    [] r.tok = "INVALID" -> FailNow("INVALID_TOKEN", Behind(r))
    [] r.tok \in {"PARTIAL", "PARTIAL_CHAR", "NONE"} ->
         IF haveMore THEN Return(s) /\ UNCHANGED <<events, eventPtr>>
         ELSE FailNow(IF r.tok = "PARTIAL_CHAR" THEN "PARTIAL_CHAR" ELSE "UNCLOSED_CDATA_SECTION", s)
CdataSection == Running("cdata") /\ CdataToken(cdataSectionTok(Text))

-----------------------------------------------------------------------------
(* prologProcessor of a prolog without declarations, and epilogProcessor   *)

Spaces == {"PROLOG_S", "PI", "COMMENT"}
Between(r) ==
  /\ r.tok \in Spaces
  /\ IF r.tok = "PROLOG_S" THEN UNCHANGED events ELSE Misc(r.tok, Token(r))
  /\ On_(Behind(r)) /\ Go_on

\* an end of the data that is not one of a token; the last one is an error
Unfinished(r) ==
  IF haveMore THEN Return(s) /\ UNCHANGED <<events, eventPtr>>
  ELSE FailNow(IF r.tok = "PARTIAL" THEN "UNCLOSED_TOKEN" ELSE "PARTIAL_CHAR", s)

PrologToken(r) ==
  \/ Between(r)
  \/ /\ r.tok = "INSTANCE_START"
     /\ loop' = "content" /\ UNCHANGED <<input, status, s, tagStack, entityVars, attributes, events, position, eventPtr>>
  \/ /\ r.tok \in {"NONE", "-PROLOG_S"}
     /\ IF haveMore THEN Return(s) /\ UNCHANGED <<events, eventPtr>>
        ELSE IF r.tok = "NONE" THEN FailNow("NO_ELEMENTS", s) ELSE On_(Behind(r)) /\ Go_on /\ UNCHANGED events
  \/ r.tok \in {"PARTIAL", "PARTIAL_CHAR"} /\ Unfinished(r)
  \/ r.tok = "INVALID" /\ FailNow("INVALID_TOKEN", Behind(r))
Prolog == Running("prolog") /\ PrologToken(prologTok(Text))

\* a "\r" at the end of a piece is taken as it is
EpilogToken(r) ==
  \/ Between(r)
  \/ r.tok \in {"NONE", "-PROLOG_S"} /\ Return(Behind(r)) /\ UNCHANGED <<events, eventPtr>>
  \/ r.tok \in {"PARTIAL", "PARTIAL_CHAR"} /\ Unfinished(r)
  \/ r.tok = "INVALID" /\ FailNow("INVALID_TOKEN", Behind(r))
  \/ /\ r.tok \notin Spaces \cup {"NONE", "-PROLOG_S", "PARTIAL", "PARTIAL_CHAR", "INVALID"}
     /\ FailNow("JUNK_AFTER_DOC_ELEMENT", s)
Epilog == Running("epilog") /\ EpilogToken(prologTok(Text))

-----------------------------------------------------------------------------
ContentInit ==
  /\ doc \in Documents /\ fed = 0 /\ finalBuffer = FALSE
  /\ buffer = [mem |-> << >>, ptr |-> 0, end |-> 0, made |-> 0]
  /\ status = "waiting" /\ loop = "prolog" /\ s = 0 /\ tagStack = << >>
  /\ openInternalEntities = << >> /\ open = {} /\ marks = {} /\ attsSize = INIT_ATTS_SIZE
  /\ events = << >> /\ position = [line |-> 0, column |-> 0] /\ eventPtr = 0

Left_ == Len(doc.text) - fed
Feed == \E n \in {k \in PieceSizes : k <= Left_} \cup {Left_}, isFinal \in BOOLEAN :
          (n > 0 \/ isFinal) /\ (isFinal => n = Left_) /\ XML_Parse(n, isFinal)
ContentToken(r) ==
  \/ ContentNone(r) \/ ContentTrailingCR(r) \/ ContentTrailingRSQB(r) \/ ContentPartial(r) \/ ContentWrong(r)
  \/ ContentData(r) \/ CharRef(r) \/ EntityRef(r) \/ StartTag(r) \/ EmptyElement(r) \/ EndTag(r)
  \/ CdataSectOpen(r) \/ ContentMisc(r)
Content == Running("content") /\ ContentToken(contentTok(Text))
Read == Content \/ CdataSection \/ Prolog \/ Epilog
Stopped == status \notin {"waiting", "parsing"} /\ UNCHANGED vars
ContentNext == Feed \/ Read \/ Stopped
ContentSpec == ContentInit /\ [][ContentNext]_vars

=============================================================================

------------------------------- MODULE XmlTok -------------------------------
(***************************************************************************)
(* The tokenizers of expat (lib/xmltok_impl.c) for UTF-8.  A text is a     *)
(* sequence of bytes; a byte is the character that it is or the name of    *)
(* what it can be in a text: a byte of lead2 starts a character of two     *)
(* bytes, and it alone decides here whether the character starts a name,   *)
(* goes on with one, or neither.                                           *)
(*                                                                         *)
(* A scanner is a table of states.  A state is [mode, on, else, end]: on   *)
(* says what the classes of characters lead to, else what the others do,   *)
(* and end is the token at the end of the text.  In mode "name" a          *)
(* character counts as what it is in a name, in mode "text" only whether   *)
(* it is one, and in mode "byte" a byte is looked at alone.                *)
(***************************************************************************)
EXTENDS Integers, Sequences, TLC

lead2 == {"lead2 start", "lead2 name", "lead2 none"}

\* the class of a byte, as utf8tab.h and asciitab.h have it, with x on its own; a colon is
\* "ns:" to the encodings for namespaces (utf8_encoding_ns) and ":" to those without
BYTE_TYPE ==
  [c \in {"a", "b", "C", "D", "A"} |-> "HEX"] @@ [c \in {"g", "l", "m", "o", "p", "q", "s", "t", "u", "X", "T"} |-> "NMSTRT"] @@
  "x" :> "x" @@ [c \in {"0", "1", "2"} |-> "DIGIT"] @@ "." :> "NAME" @@ "-" :> "MINUS" @@ ":" :> "NMSTRT" @@ "ns:" :> "COLON" @@
  " " :> "S" @@ "tab" :> "S" @@ "cr" :> "CR" @@ "lf" :> "LF" @@
  "<" :> "LT" @@ ">" :> "GT" @@ "&" :> "AMP" @@ "%" :> "PERCNT" @@ "#" :> "NUM" @@ ";" :> "SEMI" @@
  "quot" :> "QUOT" @@ "'" :> "APOS" @@ "=" :> "EQUALS" @@ "?" :> "QUEST" @@ "!" :> "EXCL" @@
  "/" :> "SOL" @@ "[" :> "LSQB" @@ "]" :> "RSQB" @@ "(" :> "LPAR" @@ ")" :> "RPAR" @@
  "*" :> "AST" @@ "+" :> "PLUS" @@ "," :> "COMMA" @@ "|" :> "VERBAR" @@ "$" :> "OTHER" @@
  "nonxml" :> "NONXML" @@ "trail" :> "TRAIL" @@ [c \in lead2 |-> "LEAD2"]

Type(s, i) == BYTE_TYPE[s[i]]
Width(s, i) == IF s[i] \in lead2 THEN 2 ELSE 1
Cut(s, i) == i + Width(s, i) - 1 > Len(s)

\* IS_INVALID_CHAR, of a character that is not cut
Invalid(s, i) == s[i] \in lead2 /\ s[i + 1] # "trail"

\* the class that a character has in a mode; a name's characters are not asked whether they are valid
ClassIn(mode, s, i) ==
  IF s[i] \notin lead2 \/ mode = "byte" THEN Type(s, i)
  ELSE IF mode = "name"
    THEN (CASE s[i] = "lead2 start" -> "NMSTRT" [] s[i] = "lead2 name" -> "NAME" [] OTHER -> "OTHER")
  ELSE IF Invalid(s, i) THEN "NONXML" ELSE "OTHER"

\* the n bytes from i on, as far as there are so many
Bytes(s, i, n) == SubSeq(s, i, IF i + n - 1 > Len(s) THEN Len(s) ELSE i + n - 1)

Res(tok, next) == [tok |-> tok, next |-> next]

-----------------------------------------------------------------------------
(* What a character leads to: on to a state behind it, to a state that     *)
(* looks at it again, to the end of a token behind it, or back bytes       *)
(* before it                                                               *)

Go(state) == <<"go", state>>
Again(state) == <<"again", state>>
End(tok) == <<"end", tok>>
Back(tok, back) == <<"back", tok, back>>
Before(tok) == Back(tok, 0)
INVALID == Before("INVALID")

On(classes, outcome) == [c \in classes |-> outcome]
S_ == {"S", "CR", "LF"}
NmStart == {"NMSTRT", "HEX", "x"}
NameChar == NmStart \cup {"DIGIT", "NAME", "MINUS"}
Bad == On({"NONXML", "MALFORM", "TRAIL"}, INVALID)

St(mode, on, else, end) == [mode |-> mode, on |-> on, else |-> else, end |-> end]
InName(on) == St("name", on, INVALID, "PARTIAL")
InByte(on) == St("byte", on, INVALID, "PARTIAL")
InText(on, state) == St("text", on @@ Bad, Go(state), "PARTIAL")

scanComment ==
  "comment0"    :> InByte(On({"MINUS"}, Go("comment"))) @@
  "comment"     :> InText(On({"MINUS"}, Go("commentDash")), "comment") @@
  "commentDash" :> St("byte", On({"MINUS"}, Go("commentEnd")), Again("comment"), "PARTIAL") @@
  "commentEnd"  :> InByte(On({"GT"}, End("COMMENT")))

\* where white space or "?" follows the target, checkPiTarget is asked
scanPi ==
  "pi"       :> InName(On(NmStart, Go("piTarget"))) @@
  "piTarget" :> InName(On(NameChar, Go("piTarget")) @@ On(S_, Go("piText")) @@ On({"QUEST"}, Go("piClose"))) @@
  "piText"   :> InText(On({"QUEST"}, Go("piQuest")), "piText") @@
  "piQuest"  :> St("byte", On({"GT"}, End("PI")), Again("piText"), "PARTIAL") @@
  "piClose"  :> InByte(On({"GT"}, End("PI")))

scanDecl ==
  "decl"       :> InByte(On({"MINUS"}, Go("comment0")) @@ On({"LSQB"}, End("COND_SECT_OPEN"))
                           @@ On(NmStart, Go("declName"))) @@
  "declName"   :> InByte(On(NmStart, Go("declName")) @@ On({"PERCNT"}, Go("declPercnt"))
                           @@ On(S_, Before("DECL_OPEN"))) @@
  "declPercnt" :> St("byte", On(S_ \cup {"PERCNT"}, Back("INVALID", 1)), Back("DECL_OPEN", 1), "PARTIAL")

scanEndTag ==
  "endTag"   :> InName(On(NmStart, Go("endName"))) @@
  "endName"  :> InName(On(NameChar \cup {"COLON"}, Go("endName")) @@ On(S_, Go("endSpace"))
                         @@ On({"GT"}, End("END_TAG"))) @@
  "endSpace" :> InByte(On(S_, Go("endSpace")) @@ On({"GT"}, End("END_TAG")))

\* a reference ends a token in content, and leads back into the value in an attribute
scanRef(ends) ==
  "ref"     :> InName(On(NmStart, Go("refName")) @@ On({"NUM"}, Go("charRef"))) @@
  "refName" :> InName(On(NameChar, Go("refName")) @@ On({"SEMI"}, ends["ENTITY_REF"]))
scanCharRef(ends) ==
  "charRef" :> InByte(On({"x"}, Go("hexRef0")) @@ On({"DIGIT"}, Go("decRef"))) @@
  "decRef"  :> InByte(On({"DIGIT"}, Go("decRef")) @@ On({"SEMI"}, ends["CHAR_REF"])) @@
  "hexRef0" :> InByte(On({"DIGIT", "HEX"}, Go("hexRef"))) @@
  "hexRef"  :> InByte(On({"DIGIT", "HEX"}, Go("hexRef")) @@ On({"SEMI"}, ends["CHAR_REF"]))

\* mutant: white space between attributes is not asked for
scanAttsClose(quote) ==
  "attName"    :> InName(On(NameChar, Go("attName")) @@ On({"COLON"}, Go("attColon"))
                           @@ On(S_, Go("attSpace")) @@ On({"EQUALS"}, Go("attEq"))) @@
  "attColon"   :> InName(On(NmStart, Go("attLocal"))) @@
  "attLocal"   :> InName(On(NameChar, Go("attLocal")) @@ On(S_, Go("attSpace")) @@ On({"EQUALS"}, Go("attEq"))) @@
  "attSpace"   :> InByte(On(S_, Go("attSpace")) @@ On({"EQUALS"}, Go("attEq"))) @@
  "attEq"      :> InByte(On(S_, Go("attEq")) @@ On({"QUOT", "APOS"}, Go("value"))) @@
  "value"      :> InText(On({quote}, Go("nextAtt")) @@ On({"AMP"}, Go("ref")) @@ On({"LT"}, INVALID), "value") @@
  "nextAtt"    :> InName(On(S_, Go("nextAtt")) @@ On(NmStart, Go("attName")) @@ On({"SOL"}, Go("solAtts"))
                           @@ On({"GT"}, End("START_TAG_WITH_ATTS"))) @@
  "solAtts"    :> InByte(On({"GT"}, End("EMPTY_ELEMENT_WITH_ATTS")))

scanAtts(quote) ==
  "attName"    :> InName(On(NameChar, Go("attName")) @@ On({"COLON"}, Go("attColon"))
                           @@ On(S_, Go("attSpace")) @@ On({"EQUALS"}, Go("attEq"))) @@
  "attColon"   :> InName(On(NmStart, Go("attLocal"))) @@
  "attLocal"   :> InName(On(NameChar, Go("attLocal")) @@ On(S_, Go("attSpace")) @@ On({"EQUALS"}, Go("attEq"))) @@
  "attSpace"   :> InByte(On(S_, Go("attSpace")) @@ On({"EQUALS"}, Go("attEq"))) @@
  "attEq"      :> InByte(On(S_, Go("attEq")) @@ On({"QUOT", "APOS"}, Go("value"))) @@
  "value"      :> InText(On({quote}, Go("afterValue")) @@ On({"AMP"}, Go("ref")) @@ On({"LT"}, INVALID), "value") @@
  "afterValue" :> InByte(On(S_, Go("nextAtt")) @@ On({"SOL"}, Go("solAtts"))
                           @@ On({"GT"}, End("START_TAG_WITH_ATTS"))) @@
  "nextAtt"    :> InName(On(S_, Go("nextAtt")) @@ On(NmStart, Go("attName")) @@ On({"SOL"}, Go("solAtts"))
                           @@ On({"GT"}, End("START_TAG_WITH_ATTS"))) @@
  "solAtts"    :> InByte(On({"GT"}, End("EMPTY_ELEMENT_WITH_ATTS")))

TagEnds == On({"GT"}, End("START_TAG_NO_ATTS")) @@ On({"SOL"}, Go("solTag"))
scanLt ==
  "lt"       :> InName(On(NmStart, Go("tag")) @@ On({"EXCL"}, Go("ltExcl")) @@ On({"QUEST"}, Go("pi"))
                         @@ On({"SOL"}, Go("endTag"))) @@
  "ltExcl"   :> InByte(On({"MINUS"}, Go("comment0")) @@ On({"LSQB"}, Go("CDATA["))) @@
  "tag"      :> InName(On(NameChar, Go("tag")) @@ On({"COLON"}, Go("tagColon")) @@ On(S_, Go("tagSpace")) @@ TagEnds) @@
  "tagColon" :> InName(On(NmStart, Go("tagLocal"))) @@
  "tagLocal" :> InName(On(NameChar, Go("tagLocal")) @@ On(S_, Go("tagSpace")) @@ TagEnds) @@
  "tagSpace" :> InName(On(NmStart, Go("attName")) @@ On(S_, Go("tagSpace")) @@ TagEnds) @@
  "solTag"   :> InByte(On({"GT"}, End("EMPTY_ELEMENT_NO_ATTS")))

scanPercent ==
  "percent" :> InName(On(NmStart, Go("peName")) @@ On(S_ \cup {"PERCNT"}, Before("PERCENT"))) @@
  "peName"  :> InName(On(NameChar, Go("peName")) @@ On({"SEMI"}, End("PARAM_ENTITY_REF")))
scanPoundName ==
  "pound"     :> InName(On(NmStart, Go("poundName"))) @@
  "poundName" :> St("name", On(NameChar, Go("poundName"))
                              @@ On(S_ \cup {"RPAR", "GT", "PERCNT", "VERBAR"}, Before("POUND_NAME")),
                    INVALID, "-POUND_NAME")
scanLit(quote) ==
  "lit"    :> InText(On({quote}, Go("litEnd")), "lit") @@
  "litEnd" :> St("byte", On(S_ \cup {"GT", "PERCNT", "LSQB"}, Before("LITERAL")), INVALID, "-LITERAL")

\* words of declarations and what is next to them
Delimits(tok) == On({"GT", "RPAR", "COMMA", "VERBAR", "LSQB", "PERCNT"} \cup S_, Before(tok))
Quantified ==
  On({"PLUS"}, End("NAME_PLUS")) @@ On({"AST"}, End("NAME_ASTERISK")) @@ On({"QUEST"}, End("NAME_QUESTION"))
prologNames ==
  "word"      :> InName(On(NmStart, Go("name")) @@ On(NameChar \cup {"COLON"}, Go("nmtoken"))) @@
  "name"      :> St("name", On(NameChar, Go("name")) @@ Delimits("NAME") @@ Quantified
                              @@ On({"COLON"}, Go("nameColon")), INVALID, "-NAME") @@
  "nameColon" :> St("name", On(NameChar, Go("prefixed")), Again("nmtoken"), "PARTIAL") @@
  "prefixed"  :> St("name", On(NameChar, Go("prefixed")) @@ Delimits("PREFIXED_NAME") @@ Quantified
                              @@ On({"COLON"}, Go("nmtoken")), INVALID, "-PREFIXED_NAME") @@
  "nmtoken"   :> St("name", On(NameChar \cup {"COLON"}, Go("nmtoken")) @@ Delimits("NMTOKEN"), INVALID, "-NMTOKEN")
prologMarks ==
  "prologLt" :> InByte(On({"EXCL"}, Go("decl")) @@ On({"QUEST"}, Go("pi"))
                         @@ On(NmStart \cup {"LEAD2"}, Back("INSTANCE_START", 1))) @@
  "rsqb"     :> St("byte", On({"RSQB"}, Go("rsqbs")), Before("CLOSE_BRACKET"), "-CLOSE_BRACKET") @@
  "rsqbs"    :> St("byte", On({"GT"}, End("COND_SECT_CLOSE")), Back("CLOSE_BRACKET", 1), "PARTIAL") @@
  "rpar"     :> St("byte", On({"AST"}, End("CLOSE_PAREN_ASTERISK")) @@ On({"QUEST"}, End("CLOSE_PAREN_QUESTION"))
                             @@ On({"PLUS"}, End("CLOSE_PAREN_PLUS"))
                             @@ On(S_ \cup {"GT", "COMMA", "VERBAR", "RPAR"}, Before("CLOSE_PAREN")),
                   INVALID, "-CLOSE_PAREN")

\* the states of all scanners, in content and between the quotes that are open
References == {"ENTITY_REF", "CHAR_REF"}
States(quote, ends) ==
  scanComment @@ scanPi @@ scanDecl @@ scanEndTag @@ scanRef(ends) @@ scanCharRef(ends) @@ scanAtts(quote)
    @@ scanLt @@ scanPercent @@ scanPoundName @@ scanLit(quote) @@ prologNames @@ prologMarks
Scanner ==
  "none" :> States("none", [tok \in References |-> End(tok)]) @@
  "QUOT" :> States("QUOT", [tok \in References |-> Go("value")]) @@
  "APOS" :> States("APOS", [tok \in References |-> Go("value")])

\* nameLength: the bytes of the name from i on
NameTypes == NameChar \cup {"COLON", "LEAD2"}
RECURSIVE nameLength(_, _)
nameLength(s, i) ==
  IF i <= Len(s) /\ Type(s, i) \in NameTypes THEN Width(s, i) + nameLength(s, i + Width(s, i)) ELSE 0

\* the target of a PI is from the third byte on; "xml" is reserved whatever its case
PiTarget(s) == Bytes(s, 3, nameLength(s, 3))
checkPiTarget(target) ==
  IF target = <<"x", "m", "l">> THEN "XML_DECL"
  ELSE IF target = <<"X", "m", "l">> THEN "none" ELSE "PI"

\* six bytes are waited for, whatever they are
CDATA_LSQB == <<"C", "D", "A", "T", "A", "[">>
scanCdataSection(s, i) ==
  IF Len(s) - i + 1 < 6 THEN Res("PARTIAL", 0)
  ELSE IF SubSeq(s, i, i + 5) = CDATA_LSQB THEN Res("CDATA_SECT_OPEN", i + 5)
  ELSE Res("INVALID", i - 2 + CHOOSE k \in 1 .. 6 : /\ s[i + k - 1] # CDATA_LSQB[k]
                                                    /\ \A j \in 1 .. k - 1 : s[i + j - 1] = CDATA_LSQB[j])

\* the scanner of quote in a state, at byte i
RECURSIVE Scan(_, _, _, _)

\* out is what the character at i leads to, which is width bytes long
Follow(out, width, quote, state, s, i) ==
  LET reserved == state = "piTarget" /\ out[1] = "go" /\ out[2] # "piTarget" /\ checkPiTarget(PiTarget(s)) = "none"
  IN  CASE reserved -> Res("INVALID", i - 1)
        [] ~ reserved /\ out[1] = "go" ->
             Scan(IF state = "attEq" /\ out[2] = "value" THEN Type(s, i) ELSE quote, out[2], s, i + width)
        [] out[1] = "again" -> Scan(quote, out[2], s, i)
        [] out[1] = "end" -> Res(IF out[2] = "PI" THEN checkPiTarget(PiTarget(s)) ELSE out[2], i)
        [] out[1] = "back" -> Res(out[2], i - 1 - out[3])

Outcome(st, class) == IF class \in DOMAIN st.on THEN st.on[class] ELSE st.else
Look(st, quote, state, s, i) ==
  IF i > Len(s) THEN Res(st.end, IF st.end = "PARTIAL" THEN 0 ELSE Len(s))
  ELSE IF st.mode # "byte" /\ Cut(s, i) THEN Res("PARTIAL_CHAR", 0)
  ELSE Follow(Outcome(st, ClassIn(st.mode, s, i)), IF st.mode = "byte" THEN 1 ELSE Width(s, i), quote, state, s, i)

Scan(quote, state, s, i) ==
  IF state = "CDATA[" THEN scanCdataSection(s, i) ELSE Look(Scanner[quote][state], quote, state, s, i)

-----------------------------------------------------------------------------
(* Character data                                                          *)

\* where the data from i on stops, in front of the first character that Stops
RECURSIVE DataEnd(_, _, _)
DataEnd(Stops(_, _), s, i) == IF i > Len(s) \/ Stops(s, i) THEN i - 1 ELSE DataEnd(Stops, s, i + Width(s, i))

BadChar(s, i) == Cut(s, i) \/ Invalid(s, i) \/ Type(s, i) \in {"NONXML", "MALFORM", "TRAIL"}
FirstBad(s) == Res(IF Cut(s, 1) THEN "PARTIAL_CHAR" ELSE "INVALID", 0)
Newline(s) == Res("DATA_NEWLINE", IF Bytes(s, 1, 2) = <<"cr", "lf">> THEN 2 ELSE 1)

\* "]" stops data if it may begin "]]>" in the rest of the text
Bracket(s, i) == s[i] = "]" /\ SubSeq(s, i, Len(s)) \in {<<"]">>, <<"]", "]">>}
CdataEnds(s, i) == Bytes(s, i, 3) = <<"]", "]", ">">>

DataUpTo(s, last) == IF CdataEnds(s, last + 1) THEN Res("INVALID", last + 2) ELSE Res("DATA_CHARS", last)

\* mutant: a bracket at the end of the text is data
contentTokBracket(s) ==
  LET Stops(t, i) == BadChar(t, i) \/ CdataEnds(t, i) \/ Type(t, i) \in {"AMP", "LT", "CR", "LF"}
      last == DataEnd(Stops, s, 1)
  IN  CASE s = << >> -> Res("NONE", 0)
        [] s # << >> /\ Type(s, 1) = "LT"  -> Scan("none", "lt", s, 2)
        [] s # << >> /\ Type(s, 1) = "AMP" -> Scan("none", "ref", s, 2)
        [] s # << >> /\ Type(s, 1) \in {"CR", "LF"} -> IF s = <<"cr">> THEN Res("TRAILING_CR", 0) ELSE Newline(s)
        [] s # << >> /\ CdataEnds(s, 1) -> Res("INVALID", 2)
        [] s # << >> /\ BadChar(s, 1) -> FirstBad(s)
        [] OTHER -> DataUpTo(s, last)

contentTok(s) ==
  LET Stops(t, i) ==
        BadChar(t, i) \/ Bracket(t, i) \/ CdataEnds(t, i) \/ Type(t, i) \in {"AMP", "LT", "CR", "LF"}
      last == DataEnd(Stops, s, 1 + Width(s, 1))
  IN  CASE s = << >> -> Res("NONE", 0)
        [] s # << >> /\ Type(s, 1) = "LT"  -> Scan("none", "lt", s, 2)
        [] s # << >> /\ Type(s, 1) = "AMP" -> Scan("none", "ref", s, 2)
        [] s # << >> /\ Type(s, 1) \in {"CR", "LF"} -> IF s = <<"cr">> THEN Res("TRAILING_CR", 0) ELSE Newline(s)
        [] s # << >> /\ Bracket(s, 1) -> Res("TRAILING_RSQB", 0)
        [] s # << >> /\ CdataEnds(s, 1) -> Res("INVALID", 2)
        [] s # << >> /\ BadChar(s, 1) -> FirstBad(s)
        [] OTHER -> DataUpTo(s, last)

cdataSectionTok(s) ==
  LET Stops(t, i) == BadChar(t, i) \/ Type(t, i) \in {"CR", "LF", "RSQB"}
  IN  CASE s = << >> -> Res("NONE", 0)
        [] s = <<"cr">> \/ (s # << >> /\ Bracket(s, 1)) -> Res("PARTIAL", 0)
        [] s # << >> /\ CdataEnds(s, 1) -> Res("CDATA_SECT_CLOSE", 3)
        [] s # << >> /\ s # <<"cr">> /\ Type(s, 1) \in {"CR", "LF"} -> Newline(s)
        [] s # << >> /\ BadChar(s, 1) -> FirstBad(s)
        [] OTHER -> Res("DATA_CHARS", DataEnd(Stops, s, 1 + Width(s, 1)))

\* the tokens of a value; special are the classes that end data in it, own the tokens some begin
ValueTok(s, special, own) ==
  LET Stops(t, i) == Type(t, i) \in special
  IN  CASE s = << >> -> Res("NONE", 0)
        [] s = <<"cr">> -> Res("TRAILING_CR", 0)
        [] s # << >> /\ s # <<"cr">> /\ Type(s, 1) \in {"CR", "LF"} -> Newline(s)
        [] s # << >> /\ Type(s, 1) = "AMP" -> Scan("none", "ref", s, 2)
        [] s # << >> /\ Type(s, 1) \in DOMAIN own -> own[Type(s, 1)]
        [] OTHER -> Res("DATA_CHARS", DataEnd(Stops, s, 1))

\* data in front of a "<" is wrong with it
DataBefore(r, s) ==
  IF r.tok = "DATA_CHARS" /\ r.next < Len(s) /\ s[r.next + 1] = "<" THEN Res("INVALID", r.next) ELSE r
attributeValueTok(s) ==
  DataBefore(ValueTok(s, {"AMP", "LT", "LF", "CR", "S"},
                      "S" :> Res("ATTRIBUTE_VALUE_S", 1) @@ "LT" :> Res("INVALID", 0)), s)

\* a "%" that begins no reference is wrong
Percent(r) == IF r.tok = "PERCENT" THEN Res("INVALID", r.next) ELSE r
entityValueTok(s) ==
  ValueTok(s, {"AMP", "PERCNT", "LF", "CR"}, "PERCNT" :> Percent(Scan("none", "percent", s, 2)))

-----------------------------------------------------------------------------
(* Prologs                                                                 *)

\* a "\r" at the end of the text is not split off other white space
prologSpace(s) ==
  LET Stops(t, i) == Type(t, i) \notin S_ \/ (t[i] = "cr" /\ i = Len(t))
  IN  IF s = <<"cr">> THEN Res("-PROLOG_S", 1) ELSE Res("PROLOG_S", DataEnd(Stops, s, 2))

prologTok(s) ==
  LET mark == "COMMA" :> "COMMA" @@ "LSQB" :> "OPEN_BRACKET" @@ "LPAR" :> "OPEN_PAREN"
                @@ "VERBAR" :> "OR" @@ "GT" :> "DECL_CLOSE"
      state == "LT" :> "prologLt" @@ "PERCNT" :> "percent" @@ "RSQB" :> "rsqb" @@ "RPAR" :> "rpar" @@ "NUM" :> "pound"
  IN  IF s = << >> THEN Res("NONE", 0)
      ELSE LET t == Type(s, 1)
           IN  CASE t \in S_ -> prologSpace(s)
                 [] t \in {"QUOT", "APOS"} -> Scan(t, "lit", s, 2)
                 [] t \in DOMAIN mark -> Res(mark[t], 1)
                 [] t \in DOMAIN state -> Scan("none", state[t], s, 2)
                 [] OTHER -> Scan("none", "word", s, 1)

\* the end of an ignored section, level deep in sections that it contains
RECURSIVE IgnoreFrom(_, _, _)
IgnoreFrom(s, i, level) ==
  CASE i > Len(s) -> Res("PARTIAL", 0)
    [] i <= Len(s) /\ BadChar(s, i) -> Res(IF Cut(s, i) THEN "PARTIAL_CHAR" ELSE "INVALID", i - 1)
    [] i <= Len(s) /\ s[i] = "<" ->
         (CASE Bytes(s, i, 3) = <<"<", "!", "[">> -> IgnoreFrom(s, i + 3, level + 1)
            [] Bytes(s, i, 3) # <<"<", "!", "[">> /\ Bytes(s, i + 1, 1) = <<"!">> -> IgnoreFrom(s, i + 2, level)
            [] OTHER -> IgnoreFrom(s, i + 1, level))
    [] i <= Len(s) /\ s[i] = "]" ->
         (CASE CdataEnds(s, i) -> IF level = 0 THEN Res("IGNORE_SECT", i + 2) ELSE IgnoreFrom(s, i + 3, level - 1)
            [] ~ CdataEnds(s, i) /\ Bytes(s, i + 1, 1) = <<"]">> -> IgnoreFrom(s, i + 2, level)
            [] OTHER -> IgnoreFrom(s, i + 1, level))
    [] OTHER -> IgnoreFrom(s, i + Width(s, i), level)

ignoreSectionTok(s) == IgnoreFrom(s, 1, 0)

=============================================================================

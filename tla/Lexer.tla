------------------------------- MODULE Lexer --------------------------------
(***************************************************************************)
(* The lexer of equations (parse.c): lexer_nexttok, lexer_peek, token_free *)
(* and lexer_free, called in any order for several Tokens at once, as the  *)
(* nested functions of the parser do.  A Token either fits its own buf or  *)
(* owns a string on the heap.                                              *)
(*                                                                         *)
(* Characters are strings of one letter; "a" stands for any letter or "_", *)
(* "1" for any digit, " " for any space but a new line, "+" for any        *)
(* operator of one rune.  Reserved words and operators that are words      *)
(* are identifiers here.                                                   *)
(***************************************************************************)
EXTENDS Integers, Sequences, FiniteSets, FiniteSetsExt, SequencesExt

CONSTANTS
  Sources,      \* the equations considered
  Callers,      \* the functions that hold a Token
  TOKBUF_LEN    \* the size of buf

\* "tpeek" stands for the lexer as the owner of a string
ASSUME LexerAssumption == Sources \subseteq Seq(STRING) /\ "tpeek" \notin Callers

VARIABLES
  src,        \* l->src
  pos,        \* l->pos, 1 for the first rune; l->peek is src[pos]
  line,       \* l->line
  lstart,     \* l->lstart
  havetpeek,  \* l->havetpeek
  tpeek,      \* l->tpeek
  tok,        \* the Token of each caller
  heap,       \* the strings allocated and not freed
  faults,     \* what went wrong with memory
  lost,       \* an allocation failed, and a token with it
  out         \* the tokens that lexer_nexttok returned to callers

lexerVars == <<src, pos, line, lstart, havetpeek, tpeek, tok, heap, faults, lost, out>>

\* a Token after token_init; start is Nil, Buf or a string of the heap
Nil == 0
Buf == -1
NoToken == [start |-> Nil, from |-> 0, to |-> 0, type |-> "none", loc |-> <<0, 0>>]

space(c) == c \in {" ", "\n"}
digit(c) == c = "1"
alpha(c) == c \in {"a", "e"}
numstart(c) == digit(c) \/ c = "."
identstart(c) == alpha(c) \/ c = "\""

\* the rune at p; NUL behind the end
RuneAt(p) == IF p <= Len(src) THEN src[p] ELSE "NUL"

\* nextrune: the position behind p
nextrune(p) == IF p <= Len(src) THEN p + 1 ELSE p

\* where the loops of the lexer may be, the last one behind the end
Places == 1 .. Len(src) + 1

\* mutant: only spaces skipped
skipSpaces(p) ==
  LET skip[q \in Places] == IF space(RuneAt(q)) THEN skip[q + 1] ELSE q IN skip[p]

\* the loop of skip_whitespace at p: the first position from p on outside spaces and comments
SkipFrom[p \in Places] ==
  [in_comment \in BOOLEAN |->
     IF p > Len(src) THEN p
     ELSE IF in_comment THEN SkipFrom[p + 1][RuneAt(p) # "}"]
     ELSE IF RuneAt(p) = "{" THEN SkipFrom[p + 1][TRUE]
     ELSE IF space(RuneAt(p)) THEN SkipFrom[p + 1][FALSE]
     ELSE p]

skip_whitespace(p) == SkipFrom[p][FALSE]

\* the loop of lex_number at p: the end of the number
NumberFlags == [have_e : BOOLEAN, have_dot1 : BOOLEAN, have_dot2 : BOOLEAN]
NumberEnd[p \in Places] ==
  [have \in NumberFlags |->
     LET r == RuneAt(p)
     IN  IF digit(r) THEN NumberEnd[p + 1][have]
         ELSE IF r = "." /\ ~ have.have_e /\ ~ have.have_dot1
           THEN NumberEnd[p + 1][[have EXCEPT !.have_dot1 = TRUE]]
         ELSE IF r = "." /\ have.have_e /\ ~ have.have_dot2
           THEN NumberEnd[p + 1][[have EXCEPT !.have_dot2 = TRUE]]
         ELSE IF r = "e" /\ ~ have.have_e THEN NumberEnd[p + 1][[have EXCEPT !.have_e = TRUE]]
         ELSE p]

lex_number(p) ==
  NumberEnd[nextrune(p)][[have_e |-> FALSE, have_dot1 |-> FALSE, have_dot2 |-> FALSE]]

\* the loop of lex_ident at p: the end of the identifier
IdentEnd[p \in Places] ==
  [quoted \in BOOLEAN |->
     LET r == RuneAt(p)
     IN  IF alpha(r) \/ digit(r) \/ (quoted /\ space(r)) THEN IdentEnd[p + 1][quoted]
         ELSE IF quoted /\ r = "\"" THEN nextrune(p)
         ELSE p]

\* the loop starts behind the first rune of the name, quoted or not
lex_ident(p) ==
  IF RuneAt(p) = "\"" THEN IdentEnd[nextrune(nextrune(p))][TRUE] ELSE IdentEnd[nextrune(p)][FALSE]

\* operators of two runes
lex_op(p) ==
  LET two == CASE RuneAt(p) = "=" -> {"="}
               [] RuneAt(p) = "<" -> {"=", ">"}
               [] RuneAt(p) = ">" -> {"="}
               [] OTHER -> {}
  IN  IF RuneAt(p + 1) \in two THEN p + 2 ELSE p + 1

\* the extent and type of the token at p
Scan(p) ==
  CASE numstart(RuneAt(p))   -> [from |-> p, to |-> lex_number(p), type |-> "number"]
    [] identstart(RuneAt(p)) -> [from |-> p, to |-> lex_ident(p), type |-> "ident"]
    [] OTHER             -> [from |-> p, to |-> lex_op(p), type |-> "token"]

\* whether a token with its NUL fits buf
Fits(s) == s.type = "token" \/ s.to - s.from < TOKBUF_LEN

Fresh(h) == CHOOSE n \in 1 .. Cardinality(h) + 1 : n \notin h

\* where skip_whitespace stops, and the lines it has counted
Skipped == skip_whitespace(pos)
NewLines == {p \in pos .. Skipped - 1 : RuneAt(p) = "\n"}
AtEOF == Skipped > Len(src)

\* l->lstart after skip_whitespace
LineStart == IF NewLines = {} THEN lstart ELSE Max(NewLines) + 1

\* token_free on a start: the heap without it, and a fault when it is gone
FreedHeap(start) == heap \ {start}
FreeFault(start) == IF start \in {Nil, Buf} \cup heap THEN {} ELSE {"double_free"}

\* what skip_whitespace and the reading of one token do to the lexer
Advance(p) ==
  /\ pos' = p
  /\ line' = line + Cardinality(NewLines)
  /\ lstart' = LineStart

(***************************************************************************)
(* lexer_nexttok without a peeked token, for a Token t that gives up its   *)
(* string: the tokens it may become.  NoToken is SD_ERR_NOMEM, when a long *)
(* token gets no string after its runes were read.                         *)
(***************************************************************************)
Lexed(t) ==
  LET s == Scan(Skipped)
      Made(start) == [start |-> start, from |-> s.from, to |-> s.to, type |-> s.type,
                      loc |-> <<line + Cardinality(NewLines), s.from - LineStart>>]
  IN  IF Fits(s) THEN {Made(Buf)} ELSE {Made(Fresh(FreedHeap(t.start))), NoToken}

\* the heap after that
HeapWith(t, new) == FreedHeap(t.start) \cup ({new.start} \ {Nil, Buf})

-----------------------------------------------------------------------------
\* lexer_init
LexerInit ==
  /\ src \in Sources
  /\ pos = 1
  /\ line = 0 /\ lstart = 1
  /\ havetpeek = FALSE
  /\ tpeek = NoToken
  /\ tok = [c \in Callers |-> NoToken]
  /\ heap = {} /\ faults = {} /\ lost = FALSE
  /\ out = << >>

Alive == pos > 0    \* until lexer_free

\* lexer_nexttok with a peeked token: the caller takes over its string
nexttok_peeked(c) ==
  /\ Alive /\ havetpeek
  /\ faults' = faults \cup FreeFault(tok[c].start)
  /\ heap' = FreedHeap(tok[c].start)
  /\ tok' = [tok EXCEPT ![c] = tpeek]
  /\ havetpeek' = FALSE
  /\ tpeek' = [tpeek EXCEPT !.start = Nil]
  /\ out' = Append(out, tpeek)
  /\ UNCHANGED <<src, pos, line, lstart, lost>>

\* lexer_nexttok otherwise
nexttok_lexed(c) ==
  /\ Alive /\ ~ havetpeek /\ ~ AtEOF
  /\ \E new \in Lexed(tok[c]) :
       /\ tok' = [tok EXCEPT ![c] = new]
       /\ heap' = HeapWith(tok[c], new)
       /\ lost' = (lost \/ new = NoToken)
       /\ out' = IF new = NoToken THEN out ELSE Append(out, new)
  /\ faults' = faults \cup FreeFault(tok[c].start)
  /\ Advance(Scan(Skipped).to)
  /\ UNCHANGED <<src, havetpeek, tpeek>>

\* SD_ERR_EOF, from lexer_nexttok or lexer_peek: only the spaces are skipped
nexttok_eof ==
  /\ Alive /\ ~ havetpeek /\ AtEOF
  /\ Advance(Skipped)
  /\ UNCHANGED <<src, havetpeek, tpeek, tok, heap, faults, lost, out>>

\* the copies of a peeked token t that lexer_peek may make when the heap is h: strdup may return NULL
Copies(t, h) ==
  IF t.start = Buf THEN {t} ELSE {[t EXCEPT !.start = Fresh(h)], [t EXCEPT !.start = Nil]}

\* mutant: the copy shares the string
peek_againShared(c) ==
  /\ Alive /\ havetpeek
  /\ tok[c].start \in {Nil, Buf}
  /\ tok' = [tok EXCEPT ![c] = tpeek]
  /\ UNCHANGED <<src, pos, line, lstart, havetpeek, tpeek, heap, faults, lost, out>>

(***************************************************************************)
(* lexer_peek with a token peeked before: the caller gets a copy.  Its own *)
(* Token is overwritten, so the callers only peek into one without string. *)
(***************************************************************************)
peek_again(c) ==
  /\ Alive /\ havetpeek
  /\ tok[c].start \in {Nil, Buf}
  /\ \E copy \in Copies(tpeek, heap) :
       /\ tok' = [tok EXCEPT ![c] = copy]
       /\ heap' = heap \cup ({copy.start} \ {Nil, Buf})
  /\ UNCHANGED <<src, pos, line, lstart, havetpeek, tpeek, faults, lost, out>>

\* lexer_peek that has to read the token first
peek_lexed(c) ==
  /\ Alive /\ ~ havetpeek /\ ~ AtEOF
  /\ tok[c].start \in {Nil, Buf}
  /\ \E new \in Lexed(tpeek) :
       LET h == HeapWith(tpeek, new)
       IN  /\ tpeek' = new
           /\ havetpeek' = (new # NoToken)
           /\ lost' = (lost \/ new = NoToken)
           /\ IF new = NoToken
                THEN heap' = h /\ UNCHANGED tok
                ELSE \E copy \in Copies(new, h) :
                       /\ tok' = [tok EXCEPT ![c] = copy]
                       /\ heap' = h \cup ({copy.start} \ {Nil, Buf})
  /\ faults' = faults \cup FreeFault(tpeek.start)
  /\ Advance(Scan(Skipped).to)
  /\ UNCHANGED <<src, out>>

\* token_free at the end of a function; the next one starts with token_init
token_free(c) ==
  /\ tok[c] # NoToken
  /\ tok' = [tok EXCEPT ![c] = NoToken]
  /\ faults' = faults \cup FreeFault(tok[c].start)
  /\ heap' = FreedHeap(tok[c].start)
  /\ UNCHANGED <<src, pos, line, lstart, havetpeek, tpeek, lost, out>>

\* lexer_free, when the functions of the parser have returned
lexer_free ==
  /\ Alive /\ \A c \in Callers : tok[c] = NoToken
  /\ pos' = 0
  /\ IF havetpeek
       THEN /\ faults' = faults \cup FreeFault(tpeek.start)
            /\ heap' = FreedHeap(tpeek.start)
       ELSE UNCHANGED <<faults, heap>>
  /\ UNCHANGED <<src, line, lstart, havetpeek, tpeek, tok, lost, out>>

LexerNext ==
  \/ \E c \in Callers : \/ nexttok_peeked(c) \/ nexttok_lexed(c)
                        \/ peek_again(c) \/ peek_lexed(c) \/ token_free(c)
  \/ nexttok_eof \/ lexer_free

LexerSpec == LexerInit /\ [][LexerNext]_lexerVars

-----------------------------------------------------------------------------
(* Properties                                                              *)

\* The tokens in the order of the equation, the peeked one included.
Seen == IF havetpeek THEN Append(out, tpeek) ELSE out

\* in a text, p is blank after q: a space or part of a comment that starts behind q
BlankFrom(text, q, p) ==
  \/ space(text[p])
  \/ \E o \in q .. p : text[o] = "{" /\ \A k \in o .. p - 1 : text[k] # "}"

\* where the last of some tokens ends
EndOf(toks) == IF toks = << >> THEN 1 ELSE Last(toks).to

\* t is the first token from p on
Follows(text, p, t) ==
  /\ p <= t.from /\ t.from < t.to
  /\ \A q \in p .. t.from - 1 : BlankFrom(text, p, q)
  /\ ~ space(text[t.from]) /\ text[t.from] # "{"

\* the new lines before p, and the line of p with its offset in it
LinesBefore(text, p) == {q \in 1 .. p - 1 : text[q] = "\n"}
LineOf(text, p) == IF LinesBefore(text, p) = {} THEN 1 ELSE Max(LinesBefore(text, p)) + 1
Place(text, p) == <<Cardinality(LinesBefore(text, p)), p - LineOf(text, p)>>

\* one of some tokens has a new line in it
LineInToken(text, toks) ==
  \E j \in DOMAIN toks : \E p \in toks[j].from .. toks[j].to - 1 : text[p] = "\n"

(***************************************************************************)
(* However calls of lexer_peek and lexer_nexttok are mixed between         *)
(* callers, lexer_nexttok returns the tokens of the equation each once and *)
(* in order, with nothing but spaces and comments between them and, once   *)
(* the end is reached, behind them.  The place of a token is its line and  *)
(* its offset in that line, unless a quoted name with a new line in it     *)
(* came before: lex_ident does not count these.                            *)
(***************************************************************************)
TokensTileSource ==
  lost \/
  /\ \A k \in DOMAIN Seen : Follows(src, EndOf(SubSeq(Seen, 1, k - 1)), Seen[k])
  /\ Alive => \A p \in EndOf(Seen) .. pos - 1 : BlankFrom(src, EndOf(Seen), p)
  /\ \A k \in DOMAIN out :
       LineInToken(src, SubSeq(out, 1, k - 1)) \/ out[k].loc = Place(src, out[k].from)

\* who may own a string, and the start that each has
Owners == Callers \cup {"tpeek"}
Starts == [o \in Owners |-> IF o \in Callers THEN tok[o].start
                            ELSE IF Alive THEN tpeek.start ELSE Nil]

(***************************************************************************)
(* Every string has one owner, a caller's Token or tpeek, and no Token     *)
(* holds a string that was freed; nothing is freed twice, and once         *)
(* lexer_free returns with all Tokens freed no string is left.             *)
(***************************************************************************)
OneOwner ==
  /\ faults = {}
  /\ \A h \in heap : Cardinality({o \in Owners : Starts[o] = h}) = 1
  /\ \A o \in Owners : Starts[o] \in {Nil, Buf} \cup heap

=============================================================================

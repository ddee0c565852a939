------------------------------- MODULE Calls -----------------------------
(***************************************************************************)
(* The functions of the library that compute without state, each called    *)
(* once with every argument of a bounded set, beside the parser with the   *)
(* evaluation of its trees and a slice that grows.                         *)
(***************************************************************************)
EXTENDS Svisit, Slice

CONSTANTS
  Lookups,    \* records [gf, index]: a graphical function and where it is evaluated
  Names,      \* strings that are names, as bytes of UTF-8
  Strings,    \* four bytes each, as found at some place of a text
  Runes,      \* numbers of runes
  Pulses      \* records [dt, args, steps]: a call of pulse in a run from time 0

VARIABLES
  asked,       \* the function called and its argument
  ret         \* a sequence of what it returned, or NoRet

L == INSTANCE Lookup
N == INSTANCE Names

NoCall == [fn |-> "none"]
NoRet  == << >>
CallsOf(fn, args_) == {[fn |-> fn, arg |-> a] : a \in args_}

parserVars == <<vars, bound, value>>

IdleParser == tokens = << >> /\ parsed = NotParsed /\ walked = "no"
                /\ bound = Unbound /\ value = NotEvaluated

CallsInit ==
  /\ ret = NoRet
  /\ \/ /\ asked = NoCall
        /\ ParserInit /\ bound = Unbound /\ value = NotEvaluated
        /\ SliceInit(0)
     \/ /\ asked = [fn |-> "slice"]
        /\ IdleParser
        /\ \E cap \in {0, 2} : SliceInit(cap)
     \/ /\ asked \in CallsOf("lookup", Lookups) \cup CallsOf("strtrim", Names)
                     \cup CallsOf("canonicalize", Names) \cup CallsOf("chartorune", Strings)
                     \cup CallsOf("runetochar", Runes) \cup CallsOf("runetype", Runes)
                     \cup CallsOf("pulse", Pulses)
        /\ IdleParser /\ SliceInit(0)

Returns(fn, result) ==
  /\ asked.fn = fn /\ ret = NoRet
  /\ ret' = <<result>>
  /\ UNCHANGED <<asked, parserVars, sliceVars>>

\* the gf element is read, and its table evaluated once
Lookup ==
  LET t == L!table_from_node_builder(asked.arg.gf)
  IN  Returns("lookup", IF t.is = "table" THEN L!lookup(t, asked.arg.index) ELSE <<t.is>>)

Strtrim == Returns("strtrim", N!strtrim(asked.arg))
Canonicalize == Returns("canonicalize", N!canonicalize(asked.arg))
Chartorune == Returns("chartorune", N!charntorune(asked.arg, 1, Len(asked.arg)))
Runetochar == Returns("runetochar", N!runetochar(asked.arg))
Runetype ==
  Returns("runetype", [lower |-> N!tolowerrune(asked.arg), upper |-> N!toupperrune(asked.arg),
                       title |-> N!totitlerune(asked.arg), alpha |-> N!isalpharune(asked.arg),
                       space |-> N!isspacerune(asked.arg)])
\* the values of a pulse at each step of a run
Pulse ==
  Returns("pulse", [i \in 0 .. asked.arg.steps |->
                      rt_pulse(asked.arg.dt, Mul(D(i), asked.arg.dt), asked.arg.args)])

CallsNext ==
  \/ /\ asked = NoCall
     /\ \/ ParserNext /\ UNCHANGED <<bound, value>>
        \/ calc
     /\ UNCHANGED <<asked, ret, sliceVars>>
  \/ asked.fn = "slice" /\ SliceNext /\ UNCHANGED <<asked, ret, parserVars>>
  \/ Lookup \/ Strtrim \/ Canonicalize \/ Chartorune \/ Runetochar \/ Runetype \/ Pulse

CallsSpec == CallsInit /\ [][CallsNext]_<<asked, ret, parserVars, sliceVars>>

-----------------------------------------------------------------------------
(* Properties                                                              *)

Returned(fn) == asked.fn = fn /\ ret # NoRet

(***************************************************************************)
(* lookup returns the nearest element outside of the table and a point of  *)
(* the polygon through its elements inside, whatever element the search    *)
(* ends at; it leaves the table for an index that is not a number, or when *)
(* the range of a single point made its x one.                             *)
(***************************************************************************)
LookupInterpolates ==
  Returned("lookup") =>
    LET gf == asked.arg.gf
        t == L!table_from_node_builder(gf)
    IN  t.is = "table" =>
          /\ L!Rising(t.x) /\ ~ IsNaN(asked.arg.index) => L!OnPolygon(t, asked.arg.index, ret[1])
          /\ ret[1] = L!Fault <=>
               IsNaN(asked.arg.index) \/ (Len(gf.ypts) = 1 /\ gf.xpts = L!Absent)

\* the bytes of the name without its quotation marks, in lower case; behind them the bytes
\* that the lower case did not reach
Unquoted(n) == IF Len(n) > 1 /\ n[1] = N!Quote /\ n[Len(n)] = N!Quote
                 THEN SubSeq(n, 2, Len(n) - 1) ELSE n
LowerWithRest(s) == N!Lowered(s) \o SubSeq(s, Len(N!Lowered(s)) + 1, Len(s))

Canonical(name, canonical) ==
  LET s == LowerWithRest(Unquoted(name))
      twice == \E i \in 1 .. Len(s) - 2 :
                 s[i] = N!Backslash /\ s[i + 1] = N!Backslash /\ s[i + 2] \in {N!Letter_n, N!Letter_r}
  IN  /\ canonical = N!Fault <=> name = <<N!Quote>>
      /\ canonical # N!Fault /\ ~ twice => canonical = N!Unescaped(s)
      /\ canonical # N!Fault /\ Len(N!Lowered(name)) = Len(name) => N!canonicalize(N!utf8_tolower(name)) = canonical
Trimmed(s, t) ==
  /\ t = << >> \/ (~ N!isspace(t[1]) /\ ~ N!isspace(Last(t)))
  /\ \E i \in 0 .. Len(s), j \in 0 .. Len(s) :
       /\ t = SubSeq(s, i + 1, j)
       /\ \A k \in 1 .. Len(s) : k <= i \/ k > j => N!isspace(s[k])

(***************************************************************************)
(* Two spellings of a name meet: canonicalize is the name without quotes,  *)
(* lower case rune by rune, its escapes and white space replaced in one    *)
(* pass.  Only a rune with a shorter lower case leaves bytes behind, only  *)
(* an escaped backslash in front of an n or r is escaped twice, and only   *)
(* the name that is one quotation mark is written outside of.  A name in   *)
(* an equation, which the lexer has lowered once, meets the others.        *)
(* strtrim drops the white space at both ends of a piece of text and no    *)
(* part of a rune, however many bytes the last rune has.                   *)
(***************************************************************************)
CanonicalIsReference ==
  /\ Returned("canonicalize") => Canonical(asked.arg, ret[1])
  /\ Returned("strtrim") => Trimmed(asked.arg, ret[1])

(***************************************************************************)
(* Decoding never looks at a byte that fullrune has not vouched for, and   *)
(* decodes only what runetochar writes: no rune has a second encoding, so  *)
(* strings that differ are names that differ.  The search of the case and  *)
(* class tables finds every row (they are sorted and do not overlap), a    *)
(* lower case is its own lower case, and no letter's lower case takes more *)
(* bytes: canonicalize never needs memory.                                 *)
(***************************************************************************)
RunesRoundTrip ==
  /\ Returned("chartorune") =>
       \A n \in 0 .. 4 :
         LET d == N!charntorune(asked.arg, 1, n)
         IN  /\ d.n > 0 => d.seen <= n /\ d.n <= d.seen
             /\ d.n > 1 => N!runetochar(d.rune) = SubSeq(asked.arg, 1, d.n)
  /\ Returned("runetochar") /\ asked.arg <= N!Runemax =>
       N!chartorune(ret[1] \o <<0, 0, 0>>, 1).rune = asked.arg
         /\ N!runenlen(<<asked.arg>>) = Len(ret[1])
  /\ Returned("runetype") =>
       /\ \A t \in N!Tables :
            N!InTable(asked.arg, t) <=> \E i \in DOMAIN t : t[i][1] <= asked.arg /\ asked.arg <= t[i][2]
       /\ N!tolowerrune(ret[1].lower) = ret[1].lower
       /\ ~ N!Grows(asked.arg)

(***************************************************************************)
(* A pulse is seen by exactly one step of a run, which adds its magnitude  *)
(* once: the first step at or behind each of its times, as long as they    *)
(* are dt or more apart.                                                   *)
(***************************************************************************)
EachPulseOnce ==
  Returned("pulse") =>
    LET p == asked.arg
        times == {k \in 0 .. p.steps : k = 0 \/ Lt(D(0), p.args[3])}
        at(k) == Add(p.args[2], Mul(D(k), p.args[3]))
        step(i) == Mul(D(i), p.dt)
        First(k) == {i \in 0 .. p.steps : Leq(at(k), step(i)) /\ Lt(step(i), Add(at(k), p.dt))}
    IN  Leq(p.args[3], D(0)) \/ Leq(p.dt, p.args[3]) =>
          /\ {i \in 0 .. p.steps : ret[1][i] # D(0)} = UNION {First(k) : k \in times}
          /\ \A k \in times : Cardinality(First(k)) <= 1

=============================================================================

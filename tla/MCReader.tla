------------------------------ MODULE MCReader ------------------------------
(***************************************************************************)
(* How a file becomes a project: expat's parser on documents in pieces,    *)
(* and the handlers of libsd with the builders on documents of elements.   *)
(* A behavior is one of either; the other does not start.                  *)
(***************************************************************************)
EXTENDS XmlDocument, XmlBuilder

-----------------------------------------------------------------------------
(* Documents of a few items, of every kind that content has, in pieces of  *)
(* one byte, of three, or all the rest, in a buffer that is first of four. *)

N(c) == <<c>>
D(c) == Data(<<c>>)
Nl == White(<<"cr", "lf">>)
Tab == White(<<"tab">>)
Sp == White(<<" ">>)
CharSp == Char(<<"&", "#", "x", "2", "0", ";">>, <<" ">>)
CharLf == Char(<<"&", "#", "1", "0", ";">>, <<"lf">>)
Wide_ == Data(<<"lead2 name", "trail">>)
BadRef == Malformed(<<"&", "#", "x", "D", "A", "C", "D", ";">>, "BAD_CHAR_REF")

E(type, items) == [type |-> type, items |-> items, is_internal |-> TRUE, inParamEntity |-> FALSE]
Decls(refs, alone) ==
  [entities |->
     N("t") :> E("internal", <<D("b"), CharLf, Nl, Ref(<<"a", "m", "p">>)>>) @@
     N("m") :> E("internal", <<Open_(N("b"), << >>), Ref(N("t")), Close(N("b"))>>) @@
     N("l") :> E("internal", <<Open_(N("b"), << >>)>>) @@
     N("p") :> E("internal", <<D("b"), Close(N("a"))>>) @@
     N("s") :> E("internal", <<Empty(N("b"), <<Att(N("b"), "'", <<Ref(N("s"))>>)>>)>>) @@
     N("g") :> E("internal", <<Ref(N("g"))>>) @@
     N("o") :> E("internal", <<D("]")>>) @@
     N("u") :> E("unparsed", << >>) @@
     N("x") :> [E("external", << >>) EXCEPT !.is_internal = FALSE] @@
     N("q") :> [E("internal", <<D("a"), ParamRef(N("p")), ParamRef(N("l")), D("b")>>)
                  EXCEPT !.is_internal = FALSE, !.inParamEntity = TRUE],
   params |-> N("p") :> <<D("b"), CharSp>>,
   elements |-> N("a") :> << [id |-> N("t"), value |-> NoValue, isCdata |-> FALSE, isId |-> TRUE],
                             [id |-> N("b"), value |-> N("m"), isCdata |-> TRUE, isId |-> FALSE],
                             [id |-> N("m"), value |-> N("a"), isCdata |-> FALSE, isId |-> FALSE] >>,
   hasParamEntityRefs |-> refs, standalone |-> alone]

A(atts) == Open_(N("a"), atts)
Root(body) == <<A(<< >>)>> \o body \o <<Close(N("a"))>>

Inside ==
  << D("t"), Nl, Wide_, BadRef, CharLf, Ref(<<"l", "t">>), Ref(N("t")), Ref(N("m")), Ref(N("l")), Ref(N("p")),
     Empty(N("b"), << >>), Open_(N("b"), << >>), Close(N("b")), Cdata(<<D("]"), White(<<"cr">>)>>), Comment(<<Nl>>),
     Malformed(<<"]", "]", ">">>, "INVALID_TOKEN") >>
Alone ==
  << Ref(N("s")), Ref(N("g")), Ref(N("o")), Ref(N("u")), Ref(N("x")), Ref(N("q")), Ref(N("a")), Pi(N("t"), <<D("b"), Tab, Nl>>),
     Malformed(<<"<", "?", "x", "m", "l", "?", ">">>, "MISPLACED_XML_PI"), Malformed(<<"nonxml">>, "INVALID_TOKEN"),
     Malformed(<<"lead2 none", "a">>, "INVALID_TOKEN"),
     Cdata(<< >>), Cdata(<<Wide_, Nl, D("&"), Data(<<"]", "]">>)>>) >>
Values ==
  << << >>, <<D("a")>>, <<D("a"), Sp, D("b")>>, <<Sp, D("a")>>, <<D("a"), Sp>>, <<D("a"), Nl, Tab, Wide_>>, <<CharSp, D("b"), CharSp>>,
     <<CharLf>>, <<Sp, Ref(N("t")), Ref(<<"l", "t">>)>>, <<Ref(N("m"))>>, <<Ref(N("g"))>>, <<Ref(N("u"))>>, <<Ref(N("x"))>>,
     <<Ref(N("a"))>>, <<D("a"), BadRef>>, <<D("a"), Malformed(<<"<">>, "INVALID_TOKEN")>> >>
Behind_ ==
  << <<Nl, Pi(N("t"), << >>)>>, <<White(<<"cr">>)>>, <<Nl, D("t")>>, <<Empty(N("b"), << >>)>>,
     <<Malformed(<<"&">>, "INVALID_TOKEN")>>, <<Malformed(<<"<", "!">>, "UNCLOSED_TOKEN")>> >>
Others ==
  << <<A(<<Att(N("b"), "'", <<D("a")>>)>>), A(<< >>), Close(N("a")), Close(N("a"))>>,
     << >>, <<Nl>>, <<A(<< >>)>>, <<A(<< >>), D("t"), White(<<"cr">>)>>, <<A(<< >>), D("]")>>,
     <<Malformed(<<"<", "a">>, "UNCLOSED_TOKEN")>>, <<A(<< >>), Malformed(<<"lead2 name">>, "PARTIAL_CHAR")>>,
     <<A(<< >>), Malformed(<<"<", "!", "[">> \o CDATA_LSQB \o <<"]">>, "UNCLOSED_CDATA_SECTION")>> >>

\* every item of a sequence, or one of each of two
Each(F(_), as) == [i \in DOMAIN as |-> F(as[i])]
Both(F(_, _), as, bs) ==
  [i \in 1 .. Len(as) * Len(bs) |-> F(as[(i - 1) \div Len(bs) + 1], bs[((i - 1) % Len(bs)) + 1])]
One_(name, value, quote) == <<Empty(N("a"), <<Att(N(name), quote, value)>>)>>
Lone(e) == Root(<<Ref(N(e))>>)

Pairs == Both(LAMBDA x, y : Root(<<x, y>>), Inside, Inside)
Items ==
  Each(LAMBDA x : Root(<<x>>), Inside \o Alone) \o SelectSeq(Pairs, LAMBDA p : p[2] # Nl \/ p[3] # Nl)
    \o Both(LAMBDA n, v : One_(n, v, "quot"), <<"t", "b">>, Values) \o Each(LAMBDA v : One_("t", v, "'"), Values)
    \o Both(LAMBDA n, c : <<Empty(N("a"), <<Att(N("l"), "'", <<D("a")>>), Att(N(n), "'", <<D(c)>>)>>)>>,
            <<"l", "m">>, <<"b", "/">>)
    \o Both(LAMBDA b, a : b \o <<Empty(N("b"), << >>)>> \o a,
            << << >>, <<Nl, Comment(<<D("a")>>), White(<<"cr">>)>> >>, Behind_)
    \o Others
WithRefs == <<Lone("a"), Lone("q"), Lone("x"), Lone("t"), One_("t", <<Sp, Ref(N("a"))>>, "'"), One_("t", <<Ref(N("q"))>>, "'")>>

PlainDtd == DtdOf(Decls(FALSE, FALSE))
Of(refs, alone, items) ==
  Document(Decls(refs, alone), [PlainDtd EXCEPT !.hasParamEntityRefs = refs, !.standalone = alone], items)
MCDocuments ==
  {Of(FALSE, FALSE, items) : items \in Range(Items)}
    \cup {Of(TRUE, alone, items) : alone \in BOOLEAN, items \in Range(WithRefs)}

-----------------------------------------------------------------------------
(* Small documents: up to MaxElems elements, nested one deeper than the    *)
(* stack of builders of this instance allows.                              *)

MCAllowed(tag) ==
  CASE tag = "xmile"     -> {"header", "model", "sim_specs"}
    [] tag = "header"    -> {"smile", "product"}
    [] tag = "model"     -> {"variables"}
    [] tag = "variables" -> {"aux", "stock", "unknown"}
    [] tag = "aux"       -> {"eqn", "gf", "connect"}
    [] tag = "stock"     -> {"inflow", "non_negative"}
    [] tag = "eqn"       -> {"eqn"}
    [] tag = "sim_specs" -> {"dt", "savestep", "save_step"}
    [] OTHER             -> {}

MCAttrs(tag) ==
  CASE tag = "product" -> {"lang"}
    [] tag = "dt"      -> {"reciprocal"}
    [] tag = "stock"   -> {"name"}
    [] tag = "connect" -> {"from", "to"}
    [] OTHER           -> {}

MCPieces(tag) ==
  CASE tag = "eqn"                                   -> {<<"w", "s">>}
    [] tag = "save_step"                             -> {<<"s">>, <<"w">>}
    [] tag \in {"dt", "savestep", "product", "inflow"} -> {<<"w">>}
    [] OTHER                                         -> {}

MCMaxText(tag) == IF tag = "eqn" THEN 2 ELSE 1

-----------------------------------------------------------------------------
VARIABLE reader

No == "nothing"
NoDocument ==
  /\ doc = [read |-> [events |-> << >>, error |-> "NONE"]] /\ status = "finished" /\ events = << >>
  /\ fed = No /\ finalBuffer = No /\ buffer = No /\ loop = No /\ s = No /\ tagStack = No
  /\ openInternalEntities = No /\ open = No /\ marks = No /\ attsSize = No /\ position = No
  /\ eventPtr = No

Init == BuilderInit /\ ((reader = "expat" /\ ContentInit) \/ (reader = "libsd" /\ NoDocument))
Next ==
  \/ reader = "expat" /\ ContentNext /\ UNCHANGED <<reader, builderVars>>
  \/ reader = "libsd" /\ BuilderNext /\ UNCHANGED <<reader, vars>>
Spec == Init /\ [][Next]_<<reader, builderVars, vars>>

=============================================================================

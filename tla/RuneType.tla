------------------------------ MODULE RuneType ------------------------------
(***************************************************************************)
(* The classes and cases of runes (libutf/runetype.c), which the lexer and *)
(* canonicalize use: sorted tables searched by bsearch.  A table is a      *)
(* sequence of rows, written as its arrays are: the row <<a, b, d>> is for *)
(* the runes a .. b, whose other case is 500 less than d further.          *)
(***************************************************************************)
EXTENDS Integers, Sequences, SequencesExt

\* the rows <<c, c, d>> of every other rune c in a .. b, where letters alternate in case
EveryOther(runs) ==
  FlattenSeq([k \in DOMAIN runs |->
    LET a == runs[k][1]  b == runs[k][2]
    IN  [i \in 1 .. (b - a) \div 2 + 1 |-> <<a + 2 * (i - 1), a + 2 * (i - 1), runs[k][3]>>]])

\* the rows of single runes
Singles(s) == [i \in DOMAIN s |-> <<s[i], s[i]>>]

alpha2 == <<
  <<\h00d8, \h00f6>>, <<\h00f8, \h01f5>>, <<\h0250, \h02a8>>, <<\h038e, \h03a1>>,
  <<\h03a3, \h03ce>>, <<\h03d0, \h03d6>>, <<\h03e2, \h03f3>>, <<\h0490, \h04c4>>,
  <<\h0561, \h0587>>, <<\h05d0, \h05ea>>, <<\h05f0, \h05f2>>, <<\h0621, \h063a>>,
  <<\h0640, \h064a>>, <<\h0671, \h06b7>>, <<\h06ba, \h06be>>, <<\h06c0, \h06ce>>,
  <<\h06d0, \h06d3>>, <<\h0905, \h0939>>, <<\h0958, \h0961>>, <<\h0985, \h098c>>,
  <<\h098f, \h0990>>, <<\h0993, \h09a8>>, <<\h09aa, \h09b0>>, <<\h09b6, \h09b9>>,
  <<\h09dc, \h09dd>>, <<\h09df, \h09e1>>, <<\h09f0, \h09f1>>, <<\h0a05, \h0a0a>>,
  <<\h0a0f, \h0a10>>, <<\h0a13, \h0a28>>, <<\h0a2a, \h0a30>>, <<\h0a32, \h0a33>>,
  <<\h0a35, \h0a36>>, <<\h0a38, \h0a39>>, <<\h0a59, \h0a5c>>, <<\h0a85, \h0a8b>>,
  <<\h0a8f, \h0a91>>, <<\h0a93, \h0aa8>>, <<\h0aaa, \h0ab0>>, <<\h0ab2, \h0ab3>>,
  <<\h0ab5, \h0ab9>>, <<\h0b05, \h0b0c>>, <<\h0b0f, \h0b10>>, <<\h0b13, \h0b28>>,
  <<\h0b2a, \h0b30>>, <<\h0b32, \h0b33>>, <<\h0b36, \h0b39>>, <<\h0b5c, \h0b5d>>,
  <<\h0b5f, \h0b61>>, <<\h0b85, \h0b8a>>, <<\h0b8e, \h0b90>>, <<\h0b92, \h0b95>>,
  <<\h0b99, \h0b9a>>, <<\h0b9e, \h0b9f>>, <<\h0ba3, \h0ba4>>, <<\h0ba8, \h0baa>>,
  <<\h0bae, \h0bb5>>, <<\h0bb7, \h0bb9>>, <<\h0c05, \h0c0c>>, <<\h0c0e, \h0c10>>,
  <<\h0c12, \h0c28>>, <<\h0c2a, \h0c33>>, <<\h0c35, \h0c39>>, <<\h0c60, \h0c61>>,
  <<\h0c85, \h0c8c>>, <<\h0c8e, \h0c90>>, <<\h0c92, \h0ca8>>, <<\h0caa, \h0cb3>>,
  <<\h0cb5, \h0cb9>>, <<\h0ce0, \h0ce1>>, <<\h0d05, \h0d0c>>, <<\h0d0e, \h0d10>>,
  <<\h0d12, \h0d28>>, <<\h0d2a, \h0d39>>, <<\h0d60, \h0d61>>, <<\h0e01, \h0e30>>,
  <<\h0e32, \h0e33>>, <<\h0e40, \h0e46>>, <<\h0e5a, \h0e5b>>, <<\h0e81, \h0e82>>,
  <<\h0e87, \h0e88>>, <<\h0e94, \h0e97>>, <<\h0e99, \h0e9f>>, <<\h0ea1, \h0ea3>>,
  <<\h0eaa, \h0eab>>, <<\h0ead, \h0eae>>, <<\h0eb2, \h0eb3>>, <<\h0ec0, \h0ec4>>,
  <<\h0edc, \h0edd>>, <<\h0f18, \h0f19>>, <<\h0f40, \h0f47>>, <<\h0f49, \h0f69>>,
  <<\h10d0, \h10f6>>, <<\h1100, \h1159>>, <<\h115f, \h11a2>>, <<\h11a8, \h11f9>>,
  <<\h1e00, \h1e9b>>, <<\h1f50, \h1f57>>, <<\h1f80, \h1fb4>>, <<\h1fb6, \h1fbc>>,
  <<\h1fc2, \h1fc4>>, <<\h1fc6, \h1fcc>>, <<\h1fd0, \h1fd3>>, <<\h1fd6, \h1fdb>>,
  <<\h1fe0, \h1fec>>, <<\h1ff2, \h1ff4>>, <<\h1ff6, \h1ffc>>, <<\h210a, \h2113>>,
  <<\h2115, \h211d>>, <<\h2120, \h2122>>, <<\h212a, \h2131>>, <<\h2133, \h2138>>,
  <<\h3041, \h3094>>, <<\h30a1, \h30fa>>, <<\h3105, \h312c>>, <<\h3131, \h318e>>,
  <<\h3192, \h319f>>, <<\h3260, \h327b>>, <<\h328a, \h32b0>>, <<\h32d0, \h32fe>>,
  <<\h3300, \h3357>>, <<\h3371, \h3376>>, <<\h337b, \h3394>>, <<\h3399, \h339e>>,
  <<\h33a9, \h33ad>>, <<\h33b0, \h33c1>>, <<\h33c3, \h33c5>>, <<\h33c7, \h33d7>>,
  <<\h33d9, \h33dd>>, <<\h4e00, \h9fff>>, <<\hac00, \hd7a3>>, <<\hf900, \hfb06>>,
  <<\hfb13, \hfb17>>, <<\hfb1f, \hfb28>>, <<\hfb2a, \hfb36>>, <<\hfb38, \hfb3c>>,
  <<\hfb40, \hfb41>>, <<\hfb43, \hfb44>>, <<\hfb46, \hfbb1>>, <<\hfbd3, \hfd3d>>,
  <<\hfd50, \hfd8f>>, <<\hfd92, \hfdc7>>, <<\hfdf0, \hfdf9>>, <<\hfe70, \hfe72>>,
  <<\hfe76, \hfefc>>, <<\hff66, \hff6f>>, <<\hff71, \hff9d>>, <<\hffa0, \hffbe>>,
  <<\hffc2, \hffc7>>, <<\hffca, \hffcf>>, <<\hffd2, \hffd7>>, <<\hffda, \hffdc>>
>>

alpha1 == Singles(<<
  \h00aa, \h00b5, \h00ba, \h03da, \h03dc, \h03de, \h03e0, \h06d5, \h09b2, \h0a5e, \h0a8d,
  \h0ae0, \h0b9c, \h0cde, \h0e4f, \h0e84, \h0e8a, \h0e8d, \h0ea5, \h0ea7, \h0eb0, \h0ebd,
  \h1fbe, \h207f, \h20a8, \h2102, \h2107, \h2124, \h2126, \h2128, \hfb3e, \hfe74
>>)

space2 == <<
  <<\h0009, \h000a>>, <<\h0020, \h0020>>, <<\h00a0, \h00a0>>, <<\h2000, \h200b>>,
  <<\h2028, \h2029>>, <<\h3000, \h3000>>, <<\hfeff, \hfeff>>
>>

toupper2 == <<
  <<\h0061, \h007a, 468>>, <<\h00e0, \h00f6, 468>>, <<\h00f8, \h00fe, 468>>,
  <<\h0256, \h0257, 295>>, <<\h0258, \h0259, 298>>, <<\h028a, \h028b, 283>>,
  <<\h03ad, \h03af, 463>>, <<\h03b1, \h03c1, 468>>, <<\h03c3, \h03cb, 468>>,
  <<\h03cd, \h03ce, 437>>, <<\h0430, \h044f, 468>>, <<\h0451, \h045c, 420>>,
  <<\h045e, \h045f, 420>>, <<\h0561, \h0586, 452>>, <<\h1f00, \h1f07, 508>>,
  <<\h1f10, \h1f15, 508>>, <<\h1f20, \h1f27, 508>>, <<\h1f30, \h1f37, 508>>,
  <<\h1f40, \h1f45, 508>>, <<\h1f60, \h1f67, 508>>, <<\h1f70, \h1f71, 574>>,
  <<\h1f72, \h1f75, 586>>, <<\h1f76, \h1f77, 600>>, <<\h1f78, \h1f79, 628>>,
  <<\h1f7a, \h1f7b, 612>>, <<\h1f7c, \h1f7d, 626>>, <<\h1f80, \h1f87, 508>>,
  <<\h1f90, \h1f97, 508>>, <<\h1fa0, \h1fa7, 508>>, <<\h1fb0, \h1fb1, 508>>,
  <<\h1fd0, \h1fd1, 508>>, <<\h1fe0, \h1fe1, 508>>, <<\h2170, \h217f, 484>>,
  <<\h24d0, \h24e9, 474>>, <<\hff41, \hff5a, 468>>
>>

tolower2 == <<
  <<\h0041, \h005a, 532>>, <<\h00c0, \h00d6, 532>>, <<\h00d8, \h00de, 532>>,
  <<\h0189, \h018a, 705>>, <<\h018e, \h018f, 702>>, <<\h01b1, \h01b2, 717>>,
  <<\h0388, \h038a, 537>>, <<\h038e, \h038f, 563>>, <<\h0391, \h03a1, 532>>,
  <<\h03a3, \h03ab, 532>>, <<\h0401, \h040c, 580>>, <<\h040e, \h040f, 580>>,
  <<\h0410, \h042f, 532>>, <<\h0531, \h0556, 548>>, <<\h10a0, \h10c5, 548>>,
  <<\h1f08, \h1f0f, 492>>, <<\h1f18, \h1f1d, 492>>, <<\h1f28, \h1f2f, 492>>,
  <<\h1f38, \h1f3f, 492>>, <<\h1f48, \h1f4d, 492>>, <<\h1f68, \h1f6f, 492>>,
  <<\h1f88, \h1f8f, 492>>, <<\h1f98, \h1f9f, 492>>, <<\h1fa8, \h1faf, 492>>,
  <<\h1fb8, \h1fb9, 492>>, <<\h1fba, \h1fbb, 426>>, <<\h1fc8, \h1fcb, 414>>,
  <<\h1fd8, \h1fd9, 492>>, <<\h1fda, \h1fdb, 400>>, <<\h1fe8, \h1fe9, 492>>,
  <<\h1fea, \h1feb, 388>>, <<\h1ff8, \h1ff9, 372>>, <<\h1ffa, \h1ffb, 374>>,
  <<\h2160, \h216f, 516>>, <<\h24b6, \h24cf, 526>>, <<\hff21, \hff3a, 532>>
>>

toupper1Latin == EveryOther(<<
  <<\h00ff, \h00ff, 621>>, <<\h0101, \h012f, 499>>, <<\h0131, \h0131, 268>>,
  <<\h0133, \h0137, 499>>, <<\h013a, \h0148, 499>>, <<\h014b, \h0177, 499>>,
  <<\h017a, \h017e, 499>>, <<\h017f, \h017f, 200>>, <<\h0183, \h0185, 499>>,
  <<\h0188, \h0188, 499>>, <<\h018c, \h018c, 499>>, <<\h0192, \h0192, 499>>,
  <<\h0199, \h0199, 499>>, <<\h01a1, \h01a5, 499>>, <<\h01a8, \h01a8, 499>>,
  <<\h01ad, \h01ad, 499>>, <<\h01b0, \h01b0, 499>>, <<\h01b4, \h01b6, 499>>,
  <<\h01b9, \h01b9, 499>>, <<\h01bd, \h01bd, 499>>, <<\h01c5, \h01c5, 499>>,
  <<\h01c6, \h01c6, 498>>, <<\h01c8, \h01c8, 499>>, <<\h01c9, \h01c9, 498>>,
  <<\h01cb, \h01cb, 499>>, <<\h01cc, \h01cc, 498>>, <<\h01ce, \h01dc, 499>>,
  <<\h01df, \h01ef, 499>>, <<\h01f2, \h01f2, 499>>, <<\h01f3, \h01f3, 498>>,
  <<\h01f5, \h01f5, 499>>, <<\h01fb, \h0217, 499>>, <<\h0253, \h0253, 290>>,
  <<\h0254, \h0254, 294>>, <<\h025b, \h025b, 297>>, <<\h0260, \h0260, 295>>,
  <<\h0263, \h0263, 293>>, <<\h0268, \h0268, 291>>, <<\h0269, \h0269, 289>>,
  <<\h026f, \h026f, 289>>, <<\h0272, \h0272, 287>>, <<\h0283, \h0283, 282>>,
  <<\h0288, \h0288, 282>>, <<\h0292, \h0292, 281>>
>>)

toupper1Greek == EveryOther(<<
  <<\h03ac, \h03ac, 462>>, <<\h03cc, \h03cc, 436>>, <<\h03d0, \h03d0, 438>>,
  <<\h03d1, \h03d1, 443>>, <<\h03d5, \h03d5, 453>>, <<\h03d6, \h03d6, 446>>,
  <<\h03e3, \h03ef, 499>>, <<\h03f0, \h03f0, 414>>, <<\h03f1, \h03f1, 420>>,
  <<\h0461, \h0481, 499>>, <<\h0491, \h04bf, 499>>, <<\h04c2, \h04c4, 499>>,
  <<\h04c8, \h04c8, 499>>, <<\h04cc, \h04cc, 499>>, <<\h04d1, \h04eb, 499>>,
  <<\h04ef, \h04f5, 499>>, <<\h04f9, \h04f9, 499>>
>>)

toupper1Extended == EveryOther(<<
  <<\h1e01, \h1e95, 499>>, <<\h1ea1, \h1ef9, 499>>, <<\h1f51, \h1f57, 508>>,
  <<\h1fb3, \h1fb3, 509>>, <<\h1fc3, \h1fc3, 509>>, <<\h1fe5, \h1fe5, 507>>,
  <<\h1ff3, \h1ff3, 509>>
>>)

toupper1 == toupper1Latin \o toupper1Greek \o toupper1Extended

tolower1Latin == EveryOther(<<
  <<\h0100, \h012e, 501>>, <<\h0130, \h0130, 301>>, <<\h0132, \h0136, 501>>,
  <<\h0139, \h0147, 501>>, <<\h014a, \h0176, 501>>, <<\h0178, \h0178, 379>>,
  <<\h0179, \h017d, 501>>, <<\h0181, \h0181, 710>>, <<\h0182, \h0184, 501>>,
  <<\h0186, \h0186, 706>>, <<\h0187, \h0187, 501>>, <<\h018b, \h018b, 501>>,
  <<\h0190, \h0190, 703>>, <<\h0191, \h0191, 501>>, <<\h0193, \h0193, 705>>,
  <<\h0194, \h0194, 707>>, <<\h0196, \h0196, 711>>, <<\h0197, \h0197, 709>>,
  <<\h0198, \h0198, 501>>, <<\h019c, \h019c, 711>>, <<\h019d, \h019d, 713>>,
  <<\h01a0, \h01a4, 501>>, <<\h01a7, \h01a7, 501>>, <<\h01a9, \h01a9, 718>>,
  <<\h01ac, \h01ac, 501>>, <<\h01ae, \h01ae, 718>>, <<\h01af, \h01af, 501>>,
  <<\h01b3, \h01b5, 501>>, <<\h01b7, \h01b7, 719>>, <<\h01b8, \h01b8, 501>>,
  <<\h01bc, \h01bc, 501>>, <<\h01c4, \h01c4, 502>>, <<\h01c5, \h01c5, 501>>,
  <<\h01c7, \h01c7, 502>>, <<\h01c8, \h01c8, 501>>, <<\h01ca, \h01ca, 502>>,
  <<\h01cb, \h01db, 501>>, <<\h01de, \h01ee, 501>>, <<\h01f1, \h01f1, 502>>,
  <<\h01f2, \h01f4, 501>>, <<\h01fa, \h0216, 501>>
>>)

tolower1Greek == EveryOther(<<
  <<\h0386, \h0386, 538>>, <<\h038c, \h038c, 564>>, <<\h03e2, \h03ee, 501>>,
  <<\h0460, \h0480, 501>>, <<\h0490, \h04be, 501>>, <<\h04c1, \h04c3, 501>>,
  <<\h04c7, \h04c7, 501>>, <<\h04cb, \h04cb, 501>>, <<\h04d0, \h04ea, 501>>,
  <<\h04ee, \h04f4, 501>>, <<\h04f8, \h04f8, 501>>
>>)

tolower1Extended == EveryOther(<<
  <<\h1e00, \h1e94, 501>>, <<\h1ea0, \h1ef8, 501>>, <<\h1f59, \h1f5f, 492>>,
  <<\h1fbc, \h1fbc, 491>>, <<\h1fcc, \h1fcc, 491>>, <<\h1fec, \h1fec, 493>>,
  <<\h1ffc, \h1ffc, 491>>
>>)

tolower1 == tolower1Latin \o tolower1Greek \o tolower1Extended

totitle1 == <<
  <<\h01c4, \h01c4, 501>>, <<\h01c6, \h01c6, 499>>, <<\h01c7, \h01c7, 501>>,
  <<\h01c9, \h01c9, 499>>, <<\h01ca, \h01ca, 501>>, <<\h01cc, \h01cc, 499>>,
  <<\h01f1, \h01f1, 501>>, <<\h01f3, \h01f3, 499>>
>>

-----------------------------------------------------------------------------

\* the row of t that may be c's: the last that does not start after c, 0 if all do
bsearch(c, t) ==
  LET find[lo \in Nat, n \in Nat] ==
        IF n > 1
          THEN LET m == n \div 2
               IN  IF c >= t[lo + m][1] THEN find[lo + m, n - m] ELSE find[lo, m]
          ELSE IF n = 1 /\ c >= t[lo][1] THEN lo ELSE 0
  IN  find[1, Len(t)]

\* whether the row that bsearch finds holds c
InTable(c, t) == LET p == bsearch(c, t) IN p # 0 /\ c <= t[p][2]

\* a rune's other case by the tables of ranges and of single runes
Convert(c, ranges, singles) ==
  IF InTable(c, ranges) THEN c + ranges[bsearch(c, ranges)][3] - 500
  ELSE IF InTable(c, singles) THEN c + singles[bsearch(c, singles)][3] - 500
  ELSE c

tolowerrune(c) == Convert(c, tolower2, tolower1)
toupperrune(c) == Convert(c, toupper2, toupper1)
totitlerune(c) == Convert(c, <<>>, totitle1)

islowerrune(c) == InTable(c, toupper2) \/ InTable(c, toupper1)
isupperrune(c) == InTable(c, tolower2) \/ InTable(c, tolower1)

isalpharune(c) ==
  isupperrune(c) \/ islowerrune(c) \/ InTable(c, alpha2) \/ InTable(c, alpha1)

istitlerune(c) == isupperrune(c) /\ islowerrune(c)
isspacerune(c) == InTable(c, space2)

\* the tables, and the runes at the ends of their rows and beside them
Tables == {alpha2, alpha1, space2, toupper2, toupper1, tolower2, tolower1, totitle1}

RunesAtEdges ==
  UNION {UNION {{t[i][1] - 1, t[i][1], t[i][2], t[i][2] + 1} : i \in DOMAIN t} : t \in Tables}

=============================================================================

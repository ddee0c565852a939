# A TLA+ verification of libsd

libsd reads system dynamics models from XMILE files, compiles their equations
and integrates them with Euler's method. The modules here model its core, the
helpers under it, and the part of its copy of expat that reads the files. They
are written from the C sources (paths below are relative to `src/`), checked by
TLC on small instances, and in part proved by TLAPS for every instance.

## The system

| Part | Source | State | Operations |
|---|---|---|---|
| XML parser | `expat/lib/xmltok_impl.c`, `xmlrole.c`, `xmlparse.c` | the buffer, the tokenizers' place, the prolog's state, the DTD, open tags and entities | `XML_GetBuffer`, `XML_Parse`, and the handlers they call |
| XMILE reader | `xml.c` | `BuilderStack`, the tree of `NodeBuilder`s, a `File` being filled | expat's start, end and text callbacks; `project_parse_file` |
| Project | `project.c` | `SDProject`, its files, models and variables, reference counts | `sd_project_open/ref/unref/get_model`, `sd_model_ref/unref` |
| Lexer | `parse.c` | position, line, one peeked `Token` | `lexer_nexttok`, `lexer_peek`, `token_free`, `lexer_free` |
| Equation parser | `parse.c` | tokens, the tree of `Node`s | `avar_eqn_parse`, `expr`, `fact`, `call`, `node_walk` |
| Model instantiation | `sim.c` | the tree of `AVar`s, refs, offsets | `sd_sim_new`: `module`, `avar_init`, `module_compile`, `module_assign_offsets`; `resolve` |
| Runlist sort | `sim.c` | `initials`, `flows`, `stocks` of each module, `visited`, `visiting` | `module_sort_runlists`, `module_add_to_runlists` |
| Simulation engine | `sim.c` | the slab, `step`, `save_step`, `curr`, `next` | `sd_sim_reset`, `sd_sim_run_to`, `sd_sim_run_to_end`, the accessors |
| Values of expressions | `sim.c` | none | `svisit`, `rt_pulse`, `rt_min`, `rt_max` |
| Lookup tables | `xml.c`, `util.c` | a `Table` | `table_from_node_builder`, `lookup` |
| Names and runes | `util.c`, `libutf/` | none | `canonicalize`, `strrepl`, `strtrim`, `utf8_tolower`; `chartorune`, `runetochar`, the tables of cases |
| Slices | `util.c` | a growing array | `slice_make`, `slice_append`, `slice_extend` |
| Hash table | `hash_table.c` | open-addressed table | insert, lookup, remove, doubling, iteration |
| Command line | `mdl.c` | none | prints a run |

How they interact. `sd_project_open` reads a file into expat's buffer, piece by
piece; `XML_Parse` calls the handlers of `xml.c`, which build the `File`s,
`SDModel`s and `Var`s of a project. Names are made canonical on the way, over
the runes of libutf. `sd_sim_new` instantiates the models as `AVar`s: each
equation goes through the lexer and the parser, refs are resolved, offsets
assigned, runlists sorted, and `sd_sim_reset` fills the first row of the slab.
`sd_sim_run_to` then walks the runlists once per step, and `svisit` evaluates
each equation. Projects, models and simulations are shared between threads by
atomic reference counts, and nothing else is synchronised. The hash table is a
library of its own that nothing else in the repository uses yet.

What is hard in it: the arithmetic of saves and steps and the row added to the
slab; two sets of counters in a loop that clients enter again and again; a
search whose marks are shared by two recursive functions; variables that are
reached through refs to other modules; one-token lookahead with strings that
change hands; failures in the middle of a construction; concurrent releases;
open addressing with doubling and removal; texts written over while they are
read; and in expat tokens cut by the end of a piece, pointers into a buffer
that moves, entities in entities, and declarations that are read on but no
longer taken. The list is `hazards` in `PROJECT.json`, each at its line.

## Modules

| Module | Models | State and steps |
|---|---|---|
| `Trajectory` | what a simulation promises: one Euler run, every so many steps kept | abstract |
| `SimRun` | `sd_sim_reset`, `sd_sim_run_to` and accessors | the loop is one step per iteration (`CopyIterate`, `SaveIterate`, `LastIterate`, ...) |
| `SimRunProofs` | theorems of `SimRun`, and that it implements `Trajectory` | |
| `Runlist` | the depth first search of the sort | the C call stack is `stack`, a sequence of frames; each call, return and dependency is a step |
| `EvalOrder` | the order in which `calc` walks the sorted lists across modules | pure |
| `RunlistProofs` | theorems of `Runlist` and `EvalOrder` | |
| `Compile` | `sd_sim_new` up to the offsets; `resolve` | one step per pass over the tree |
| `CompileProofs` | its theorems | |
| `Lexer` | the lexer and who owns the strings of tokens | a step per call, any order of callers |
| `LexerProofs` | its theorems | |
| `Parser`, `Svisit` | recursive descent over token sequences, and the value of the tree | a step parses, a step evaluates |
| `Double` | doubles as fractions, with the infinities and NaN | external |
| `Lookup` | `table_from_node_builder` and `lookup` | pure |
| `Names`, `Rune`, `RuneType` | names as bytes of UTF-8, runes, the tables of cases and classes | pure |
| `Slice` | the growing array without memory | a step per call |
| `Calls` | each of the pure functions called with every argument of a set | a step per call |
| `XmlBuilder` | expat's callbacks, builders and what ends up in the `File` | a step per callback |
| `XmlBuilderProofs` | the theorem of `XmlBuilder` | |
| `XmlTok` | the tokenizers of `xmltok_impl.c` as tables of states | pure |
| `XmlTokens` | the grammar of tokens, and texts that grow | a character per step |
| `XmlRole` | the state functions of `xmlrole.c` as one table | pure |
| `XmlProlog` | `doProlog`: declarations, entities, content models | a token per step |
| `XmlDtd` | the grammar of document types, and what their declarations mean | reference |
| `XmlValues` | references, values of attributes and entities, `getAtts`, `storeAtts` | pure, but for the marks on attributes |
| `XmlContent` | `XML_GetBuffer`, `XML_Parse` and the loops of prolog, content, CDATA and epilog | a token per step |
| `XmlDocument` | what a document of items means | reference |
| `Regex` | regular expressions by derivatives, in which both grammars are written | pure |
| `Lifecycle` | reference counts of projects, models and simulations | a step per atomic operation, per thread |
| `LifecycleProofs` | theorems of `Lifecycle` | |
| `HashTable`, `HashIter` | the table, and iteration while it changes | a step per call; the entries moved by a doubling are steps of their own |
| `ContainerProofs` | the theorems of `HashTable`, `HashIter` and `Slice` | |
| `Arithmetic` | lemmas on division, least numbers and finite sets that several proofs cite | |

`HashIter` extends `HashTable`, `EvalOrder` extends `Runlist`, `Svisit` extends
`Parser`, `XmlContent` extends `XmlValues` and that `XmlTok`, `XmlProlog`
extends `XmlRole`, and `SimRun` is shown to implement `Trajectory`. The `MC...`
modules instantiate them. Three of those put two state machines side by side
that are one part of the program, and a behavior is one of either while the
variables of the other keep a constant value: `MCEquations` has the lexer and
everything behind it, `MCReader` expat on documents and the handlers of `xml.c`
on elements, `MCExpat` the tokens and the prolog.

**SimRun.** A row of the slab is abstracted to the step its slots are for:
`time`, `stock` (the number of the step), `flow`, and `const` (before or after
the graphical function). A row computed from slots of different steps is
`Mixed`, so "the slab holds the Euler run" is a statement about numbers of
steps. The number of steps `(stop - start)/dt` is a truncated quotient of
doubles; the model lets it come out one less when the division is exact, a
choice of `sim_specs` (`rounddown`). A fault is entered where `curr` or `next`
leave the slab or there is none, after a failed `sd_sim_reset`.

**Runlist.** `sort` frames are `module_sort_runlists`, `add` frames are
`module_add_to_runlists`. A dependency of a variable can be a submodule; the
code then adds its name to the lists without ever sorting it, which `Named`
describes. The model is any compiled tree, of any size: every variable but the
root is in exactly one module, no module is inside itself, and equations name
variables of their own module (`Model`); the root has no refs, since nothing
connects to it. `direct_deps` are given.

**EvalOrder.** `calc` calls itself for a submodule, so the order in which it
computes the variables of a module is the list with each submodule replaced by
its own order. `OrderedAcrossModules` asks of each phase that every variable is
computed once and behind the slots it reads, through `src` where it reads a ref.
It is claimed for models with `SourcesFirst`, as finding 2 is about the others.

**Compile.** An `AVar` is its path. `project` varies: the orders of modules and
variables, connects to the parent, to siblings, to other refs and to nothing,
flows that are missing, and what `avar_eqn_parse` makes of an
equation (`eqn`): a tree, no node for one without a token, or an error; or there
is no equation. A variable without a tree makes `avar_init` fail
(`sim.c:264`), unless it is called `time` and has no equation (`sim.c:258`).
Trees that lack an operand, which `node_walk` follows into NULL, are left to
`Parser`; circular models are refused later, by the sort (`Runlist`). `resolve` compares module
names with `strncmp` in the length of the name looked for: `StartsWith`. `module`
and `resolve` are recursive functions: the one from models and connects to the
variables below, the other along the parts of a name. `ProjectsAssumption` says
which projects there are: a model has no two variables of a name and the root
none called `time`, connects hold refs with a source, and no model is inside
itself, since `module` would then not return.

**Parser and Svisit.** A token is its text; `expr` is the precedence climbing
over the table `BINARY`. The table is as in the code: `^` binds loosest and `+`
tighter than `*`, so `a+b*c` is `(a+b)*c`. `TreesFollowBINARY` states that the
tree follows the table, not that the table follows mathematics. `svisit` knows
no `%`, which the parser reads, and evaluates it to NaN.

**Lookup.** A gf element is its three children, each missing, without text or
with fields that `strtod` reads or does not. Tables whose x do not rise are
looked up in too, and then promise only that the search ends inside of them.

**Names.** `utf8_tolower` writes each rune over the text behind the place it
reads from, with that text in the state, so a lower case of another length
would show. `RuneType` holds the tables of `runetype.c` row by row (runs of
alternating letters are folded by `EveryOther`), with the search over them.

**Slice.** `slice_append` may find no memory; what it then forgets is in the
state, and the elements behind it are placed as the code places them.

**Lexer.** Two callers hold a `Token` each, as nested functions of the parser
do. `lost` is set when a token's string could not be allocated. The
`strdup` of `lexer_peek` may find no memory too, and its caller then has a token
without string. `lexer_init` reads its first rune from the text before it is
lowered (`parse.c:127`); this differs for U+0130 only and is not modelled.

**XmlBuilder.** An element of the document and its builder have the same
number. The document is chosen tag by tag. Text is words and spaces, in pieces
cut anywhere. The code trims each piece and joins the pieces without a space
(`xml.c:350-358`, where the comment has room for one), so words are compared
and not the spaces between them. A field of the `File` is the element it was
read from: the fields of the header, of `sim_specs` and of variables with their
flows, tables and connections. One builder may fail to be allocated.

**expat's tokens.** A character is a byte, or a lead byte of two with its trail;
the classes are those of `asciitab.h` and `utf8tab.h` of one representative
each. `XmlTok` writes the chains of `switch`es as a table from states to what a
class of characters leads to; `Scan` runs it. `XmlTokens` has the grammar of
XML 1.0 with namespaces as regular expressions and compares token by token.

**expat's prolog.** A token is given as its kind, its name and the tokens it
contains, so that `XmlProlog` starts where `XmlTok` ends. `roles` follow
`xmlrole.c`; the cases of `doProlog` are operators from a state record to
another. Parameter entities are read by the same loop with their own tokens
(`processInternalEntity`, `internalEntityProcessor`). Handlers are a set of
names, and what they were told is `calls`.

**expat's content.** `XmlContent` reads bytes: the document of a behavior is
written out by `XmlDocument`, cut into pieces, put into a buffer that doubles
or moves, and tokenized by `XmlTok`. Names of open tags are pointers into
the buffer until `storeRawNames` copies them. Internal entities are a stack of
texts read by the same loop. `XmlDocument` says independently what events,
error and place the items of the document stand for.

**Lifecycle.** `todo[t]` is the list of atomic operations left in the call
thread `t` is in: `sd_sim_new` puts there what its error path would release.
Clients keep to the rule that a function is called only on what one holds.
`InHand` is what an operation owns, so that a count can be compared with the
sum over its holders (`SumOf`, a bar chart whose bars are counted).

**HashTable.** `hash_fn` is any function, since `siphash` is keyed at random
(`arc4random`). `holed` becomes true when a remove empties a slot in front of a
used one: from then on the table is not a map any more.

## Runs

| Run | Instance | Shows |
|---|---|---|
| `simrun` | all `sim_specs` with start 0..1, stop -1..6, dt 1..2, savestep 0..5, with and without rounding down and graphical function | the slab is the Euler run; rows before `curr` are frozen; each run returns where asked and returns at all; `Trajectory` is implemented |
| `simrun_extra_row` | the same | violated: the row added in `sd_sim_reset` is not enough when `savestep` does not divide the run |
| `runlist` | 6336 models of nested modules, 14 variables | each variable listed once behind its dependencies; circularity reported exactly; across modules each phase computes every variable once and behind what it reads |
| `evalorder_refs` | the same | violated: a submodule before the source of its ref is evaluated first |
| `compile` | 1440 projects | names, slots and ghosts agree; dangling references and variables without equation are refused, and nothing else |
| `compile_ghosts` | the same | violated: a ghost never gets the offset of its source |
| `equations` | equations of up to 3 characters and longer ones around `TOKBUF_LEN` = 3, two callers; 76 thousand token sequences, evaluated with 9 bindings where they parse; tables of up to 3 points, names of up to 4 units, all runes at the edges of the tables, runs of 8 steps with pulses, a slice of up to 7 | tokens tile the equation and strings have one owner; what is accepted is a sentence, its tree follows the table, its value is explained; interpolation, canonical names, runes, pulses and slices are what their definitions say |
| `reader` | 370 documents, with every pair of 16 items of content, in pieces of 1, 3 or all bytes, a buffer from 2 bytes; documents of up to 6 elements, a stack of 5 builders, equations in up to 2 pieces, attributes there or not, one failed allocation, an error anywhere | events, errors and places are those of the document wherever it is cut; names, entities and attribute marks stay in order; builders owned once and freed, the `File` is the document |
| `expat` | 16 beginnings of texts with 3 to 6 more characters, cut anywhere in two; 12 document types with 3 to 7 more tokens, with parameter entities read always, never or unless standalone | tokens and roles follow the grammar; cuts do not matter; content models are the trees written; the first declaration binds |
| `lifecycle` | 2 threads, 2 simulations, a root model with two modules of one model | no use after free, counts match holders, everything is freed |
| `hashtable` | 3 keys, 2 values, table of 4 doubling to 8, four hash functions | the table is a map until a remove makes a hole; iteration returns what stayed |
| `hashtable_remove` | the same | violated: two colliding keys removed, one is left |

Why the bounds are enough. `simrun`: seven steps with a save every 1 to 5 give
runs that end on a saved step, between two, before the first save, and runs
of no steps; `run_to` is called with ends before, inside and behind the run.
`runlist`: a module inside a module, refs up one level and to a sibling, and
every subset of dependencies of a few variables reaches each branch of the
search. `equations`: six tokens hold a call with two arguments, a parenthesis
in it, and a complete conditional; sequences of seven hold three binary
operators of any levels; three characters are one more than any lookahead of
the lexer; eight arguments are two more than `svisit` has room for; four units
of a name hold both quotes, an escape, white space and letters of one, two and
three bytes; a slice grows three times. `reader`: a piece of one byte cuts every
token everywhere, three bytes cut "\r\n" and "]]>" in each way and leave the
buffer between sizes; the stack of 5 instead of 32 can be left by a document of
6, and the fields left out (`start`, `stop`, `outflow`, the other texts and
attributes of the header) are read as the ones that are there. `expat`: behind each beginning there is room to end the token and for the
characters that decide it; two levels of groups and of included sections, and
an entity inside another. `lifecycle`: with two threads the last release races
every other operation; a root with two modules fails between them. `hashtable`:
three keys fill a table of 4 past its load, and the hash functions collide,
wrap around and are split by doubling.

Symmetry is used for the values of `hashtable` and the threads of `lifecycle`,
both only with invariants. `CHECK_DEADLOCK FALSE` is in every configuration:
each of these systems may stop, when its input ends, when everything has been
freed, or at a fault, past which the program's behaviour is undefined.

Fairness. `SimRun` has `WF(Loop)` and `Runlist` has `WF(Next)`: both are plain
loops of one thread, which nothing but their own conditions stops. No other
liveness is claimed; reads, lexers and parsers are driven by their callers.

## What the runs found

Four statements of the repository that the code does not keep; each is a run
that TLC finds violated, and a finding in `PROJECT.json`.

1. `sim.c:613` says that one extra row simplifies `run_to`. When `savestep/dt`
   does not divide the number of steps minus one, the last iteration writes one
   row past the slab (`sim.c:705`).
2. `sim.c:518` says that dependencies come first on the runlists. A submodule
   declared before the source of one of its refs is evaluated before it, as in
   `models/hares_and_lynxes.xmile`.
3. `sim.c:426` copies the offset of a ref's source with a TODO for "multiple
   levels of indirection"; since offsets are assigned later, no level works for
   `sd_sim_get_value`. `svisit` follows `src` and is right.
4. `test_sd.c:1201` expects an empty table after two removes; when the random
   key makes the keys collide, one is left.

Exceptions that properties name, where the code promises nothing else:

- `NamesMatchSlots`, `GhostsReadSource` and `RefusesDangling`: a name that is
  `Misled`, since a part of it stands for a module and another whose name begins
  with that part comes first or alone (`sim.c:398`). `ListedOnceInOrder`: a module that an equation names.
- `CountsMatchHolders`: a model whose reference `module` loses when it has no
  memory (`sim.c:322`).
- `FaultsExplained`: the runs of finding 1, and the use of a simulation after
  a failed `sd_sim_reset`.
- `TokensTileSource`: a token that could not be allocated. `AcceptedAreSentences`:
  a unary operator or `else` with no operand at the end of the equation
  (`parse.c:546`).
- `ValuesExplained`: a variable or function that `avar_init` did not find
  (`sim.c:196`), more than six arguments (`sim.c:814`), NaN from `%`, from a
  division, and from `min` or `max` of other than two arguments.
- `RolesFollowGrammar`: a byte order mark may stand among the comments of the
  prolog, as in `xmlrole.c` and not in XML 1.0.
- `LookupInterpolates`: an index that is NaN, and a table of one point whose x
  is made from its range, 0/0 (`xml.c:661`): both read `y[-1]`.
- `CanonicalIsReference`: the name that is one quotation mark is written in front
  of (`util.c:223`); an escaped backslash before an n is unescaped twice; U+0130
  is the one letter whose lower case is shorter, and a byte stays behind it.
- `SliceHoldsAppended`: elements forgotten when a slice cannot grow (`util.c:58`).
- `TokensFollowGrammar`: six bytes are waited for behind `<![`; brackets at the
  end of an ignored section are taken in pairs, so `]]]>` does not end it.
- `EventsAreDocument`: data in front of a `]]>` that is wrong is told or not as
  the document was cut. `PositionIsPlace`: a "\r\n" of the epilog that is cut in
  two counts as two lines, as `expat.h` says it may.
- `FirstDeclarationBinds`: "|" of a group of choices goes to the default handler
  although the element declaration's is set.

## What is proved

The theorems hold for every value of the constants that the named assumptions
allow. Each property needs an inductive invariant, `IInv` in its module, because
none of them says enough about the middle of a loop, a search or a call to
survive the next step. (`EvalOrder` adds `SortedInv` to that of `Runlist`,
`Lexer` has one for each theorem, and that of `Slice` is `SliceIInv`.) Each invariant was checked by TLC on the
instance of the component's run before it was proved. The proofs have one lemma per action,
`StepOK` puts them together, and the property is then read off the invariant.

| Module | Theorem | Property |
|---|---|---|
| `SimRunProofs` | `TypeCorrect`, `SlabCorrect`, `FaultsOnlyWhenRagged` | `TypeOK`, `SlabIsTrajectory`, `FaultsExplained` |
| | `RowsFrozen`, `ReturnsCorrect` | `SavedRowsFrozen`, `ReturnsWhereAsked` (of steps) |
| | `EngineImplementsTrajectory`, `SeriesCorrect` | `ImplementsTrajectory`, `SeriesIsTrajectory` |
| `RunlistProofs` | `Invariance`, `ListedCorrect`, `CircularCorrect` | `ListedOnceInOrder`, `CircularIffCycle` |
| | `EvaluationOrdered` | `OrderedAcrossModules` |
| `LexerProofs` | `Typed` | |
| | `Ownership`, `Tiling` | `OneOwner`, `TokensTileSource` |
| `ContainerProofs` | `Invariance`, `PathsCorrect`, `MapCorrect` | `ProbePathsUnbroken`, `TableIsMap` |
| | `IterationComplete` | `IterReturnsKept` |
| | `SliceCorrect` | `SliceHoldsAppended` |
| `LifecycleProofs` | `Invariance`, `MemorySafe`, `CountsCorrect` | `NoUseAfterFree`, `CountsMatchHolders` |
| `XmlBuilderProofs` | `BuildersOwned` | `BuildersOwnedOnce` |
| `CompileProofs` | `Instantiation` | |
| | `NamesAgree`, `GhostsAgree`, `DanglingRefused` | `NamesMatchSlots`, `GhostsReadSource`, `RefusesDangling` |

**SimRun**, for every set of `sim_specs`, any ends and any unit of time
(`SpecsAssumption`, `EndsAssumption`, `OneAssumption`). That an iteration writes
the right row needs the counters to agree (`save_step` is `step/save_every`
rounded up), which row `curr` holds what (`RowAtCurr`), and that rows past `next`
are untouched (`RowsAfterCurr`); that `next` is inside the slab unless the run
is ragged needs all of these with the sizes `sd_sim_reset` computes. The lemmas
before it are about multiplication and division (in `Arithmetic`: `DivMod`,
`MulLess`, `QuotientBounds`) and about saved and unsaved steps (`Sizes`,
`SavedStep`, `UnsavedStep`). For the refinement, `RecordIsKept` reads the rows
before `curr` as the record of `Trajectory`; then every action is a step of
`Trajectory` or leaves record, step and sizes alone (`StepRefines`). The
safety part of `Trajectory` is all it states.

**Runlist**, for every set `Models` of compiled trees over a finite set of
variables (`AVarAssumption`, `ModelsAssumption`). `IInv`: the frames are nested
as the modules are and each waits for the one above it (`Shape`); a variable is
`visiting` exactly if its frame is on the stack (`Marks`); what each loop has
gone through is listed and what is behind it untouched (`AllProgress`); lists
have no variable twice and dependencies first (`ListsOK`); `flows` and `stocks`
follow `initials` (`ThreeLists`); and the result found (`Result`). The modules
around a variable are a chain, by the least depth at which that fails (`Tree`).
A cycle is found because the frames between two visits of a variable are a path
of dependencies; none is missed because the order on the lists would have to
rise along it for ever.

**EvalOrder**, for the same models, however deep modules are nested. The order
within a list is not enough where a submodule reads, through its refs, what its
parent computes: its place in the list is then all that orders them. So
`SortedInv` says of each list that a variable is behind what it depends on, and
a submodule that no equation names behind what the file declares before it.
`FlattenIs` is what flattening yields: everything in the parts, once if the
parts are disjoint, and in the order of the parts. `CalcStep` then puts the
orders of the submodules of one module together, and `FromLeaves` carries that
from the leaves of the tree to its root. With `SourcesFirst`, what a ref of a
submodule stands for is in the enclosing module in front of the submodule, or
in a module that is (`ReadsFrom`).

**Compile**, for any finite projects, however deep modules are nested, and any
relation `StartsWith` in which names start with themselves (`ProjectsAssumption`).
`module` is a function since a model is deeper than those it contains
(`ModulesExist`, by the least depth at which it would fail to be). What it makes
is a `Branch`: variables with distinct paths, each below modules only, and refs
only where connects put them; `BranchUnder` and `BranchJoin` carry that through
the loop over a model, and `Tree` adds `time`. In a tree a name that is not
`Misled` resolves to the variable whose path it is, or to nothing when there is
none (`ResolveIs`): each part but the last leads to the module it means
(`HopsInside`), the last to the variable (`HopsLast`). `IInv`: what has been made
is a tree (`Instantiated`); before slots are given out every ref and flow is
resolved and every equation has a tree, and after a failure this is not so
(`Resolved`); a variable's slot is the number of variables in front of it that have one (`Assigned`). The names
listed up to any place are those of the slots up to there (`VarnamesListed`), and
the three properties follow.

**Lexer**, for any equations, over any characters and of any length, any
`TOKBUF_LEN` and any set of callers (`LexerAssumption`). The loops of `skip_whitespace`, `lex_number` and
`lex_identifier` are recursive functions on the places of the text; that they
exist and stay in the text is shown once (`LoopExists`, `LoopBounds`).
`Typed` is the invariant of types that the other two need. Ownership: every
string of the heap is what exactly one of the peeked token and the callers'
tokens starts with, and no one starts with one that was freed (`OwnedInv`);
`OwnFree`, `OwnAlloc` and `OwnMove` are the three things a step does to it, and
no step frees twice. Tiling: every token read begins at the first character
behind the one before that is not blank or in a comment, and has its line and
column, unless a token before it contains an end of line; and the lexer is
behind the last of them with only blanks between (`TiledInv`).

**XmlBuilder**, for any documents, whatever tags, attributes and pieces of text
they are made of and however long, whichever one builder cannot be allocated,
and any `STACKLEN` (`BuilderAssumption`).
`node_builder_unref` releases the children of what it frees, with the counts as
earlier releases left them; `releases` is that recursion as a function from
counts to counts. It ends because a child was started behind its parent (`Tree`),
so the function exists (`ReleasesExists`, from the last builder to the first).
The counts alone do not say when a builder is freed. `IInv`: the stack holds each
builder once, in the order of the document, and no more of them than there are
open elements (`StackOK`); a count is the place on the stack plus the parents
that have references themselves (`Counted`); none is above one; a builder is
freed exactly without references. `Counted` is stated for any counts and any
references held from outside, because in the middle of a release no count of the
heap is right: what is still to release is then held by the loop (`Plus`).
`ReleaseSound` shows, from the last builder to the first, that to release a held
reference takes that one reference away and no other, and `InTurnCounts` carries
it through the loops over children and over the stack. When nothing is held, the
builder started first would need a parent before it, so none is left (`AllFreed`).

**HashTable**, for any keys, values, hash functions and sizes of at least 4
(`SizeAssumption`, `HashAssumption`, `FreeAssumption`). `size` is the number of
slots in use, less than three in five of them (`SizeIsUsed`), so a search ends at
a free slot or its key; until a hole is made every slot on the path to a key is
in use by another (`Paths`), which makes keys unique, and the entries are those
of the map (`Agrees`, `Covers`). While a table doubles the old one still agrees
with the map and the new one has exactly the entries moved (`HasMoved`).
**HashIter** adds that in a table that has not grown since the iteration began
the keys that stay are behind the iterator exactly when it has returned them
(`HalfWay`).

**Lifecycle**, for any finite sets of threads and simulations, any list of
modules and any number of handles (`LifecycleAssumption`). The counts alone are
not inductive. `IInv` adds: a call that only releases is a list of releases, and
one that constructs is one operation (`CallsOK`); the thread of the latter holds
the project, and its simulation is as `calloc` or the last step left it
(`MakersOK`); a simulation that a client holds has kept the project
(`SharedKeepProject`); each object is referred to, about to be freed, or freed,
one at a time (`ProjectLife`, `SimLife`, `ModelLife`). Each step moves what the
operation has in hand to the operations that follow it, to a handle or to an
object (`CallStep`, with `FailureReleases`, `SimFreeReleases` and
`FileFreeReleases` for what is left to release after a failure, of a
simulation and of a file), so both sides of each count change alike; sums over
threads, simulations and lists change by `SumStep` and `SumConcat`. Then a
count that is positive has not been freed, which is `MemorySafe`.

**Slice**, for any elements and starting with any capacity (`SliceAssumption`).
`AppendedHolds` is one append, with memory or without; the loop of
`slice_extend` is then a function of how many elements it has taken, and after
each of them the slice holds the elements before and those taken (`ExtendedHolds`),
whatever the number of elements and wherever memory runs out.

Recursion. The prover has no induction with an operator as parameter, and no
SMT backend in modules with recursive operators. `Lexer`, `EvalOrder`,
`XmlBuilder`, `Compile` and `Slice` have recursive functions instead, whose
existence and values are shown by hand with the least number at which they would
fail (`LoopExists`, `CalcExists`, `ReleasesExists`, `ModulesExist`, `WalkExists`,
`ExtendsExists`, and `FlattensExists` for the fold of the library).

Model-checked only:

- liveness (`RunReturns` of `SimRun`, `SortReturns` of `Runlist`), which
  TLAPS 1.4.5 does not prove;
- `FileIsDocument` of `XmlBuilder`, which compares trees of builders with the
  document they were made from, field by field;
- `Parser`, `Svisit`, `Names`, `Rune`, `XmlTok` and `XmlProlog`,
  which are built on recursive operators, and the modules that extend or use
  them. In `Parser` and `XmlProlog` an operator returns a whole state that the
  next call starts from, so its values are no function on places of a text, and
  each theorem would be an induction over trees of such states. In the rest the
  property compares the code with a recursive reference definition, over all
  inputs of a bounded size;
- `Lookup`, whose property `Calls` states next to those of `Names` and `Rune`.

## What is not modelled

- The rounding of doubles, and the value of powers with a
  fractional exponent, for which that with its numerator stands.
- Failed allocations outside of the modules named above, and the memory of the
  `File` itself: on a parse error it is freed with `free` (`xml.c:171`), so models
  it already has are leaked, as are a header's or a variable's fields that are
  set again and a connection without both ends (`xml.c:697`).
- Of expat: the encodings other than UTF-8, their detection and conversion, and
  characters of three and four bytes; namespaces, external parsers, the foreign
  DTD, `XML_StopParser` and `XML_ResumeParser`, the default handler in content,
  none of which libsd uses; failed allocations; the hash tables and string pools,
  which are functions and sequences; the arrays of content models
  (`scaffold`, `scaffIndex`), which double and here are sequences; `xmlwf`, the ports and the tests.
- Of libutf: the string functions that nothing here calls.
- The texts of errors, opening and closing of files, `mdl.c`: pure I/O.
- `siphash.c` and `compat/`: an arbitrary function in `HashTable`.
- Two threads that run the same simulation: the code has no lock for it and
  the API does not say what happens.

## Plan

Done, in this order: `SimRun` with `Trajectory` and its proofs; `Runlist` and
`EvalOrder`; `HashTable` and `HashIter`; `Compile`; `Parser` and `Lexer`;
`Lifecycle`; `XmlBuilder`; then `Svisit`, `Lookup`, `Names`, the runes and
`Slice`; and expat: roles, prolog, tokens, values, content.

To model next: reading and
simulating composed, so that the orders that `Compile` produces are the ones
`Runlist` starts from.

# A TLA+ verification of inty

inty infers types for a JavaScript subset (with Python and Lua frontends),
checks whole import graphs from the command line, and serves editors through a
language server. Almost all of it is sequential code. What is hard about it is
not threads but

* state that is speculated on, undone, cached, or left behind by an error path;
* one question answered by several walks that must agree (four of them resolve
  names, four write out a type), and texts that are printed for another part to
  read back;
* an editor that does not wait for the server.

| part | modules | source (`crates/inty/src` unless named) |
|---|---|---|
| the store of inference: union-find table, substitution, undo logs, snapshots | `Trail`, `InferStore`; abstract: `CopyStore`, `ClassStore` | `infer/var_table.rs`, `types/subst.rs`, `infer/state.rs`, `infer/unify.rs` |
| types and the walks that write them out | `Types`, `Substs`, `Tidy` | `types/ty.rs`, `types/subst.rs`, `types/tidy.rs`, `infer/zonk.rs` |
| the rules of inference | `Unify`, `Subsume`, `Generalise` | `infer/unify.rs`, `infer/state.rs`, `infer/features/arrays.rs` |
| names, and programs that run | `Ast`, `Resolve`, `Tdz`, `FreeIdents`, `LspResolver`, `Dynamics` | `ast/`, `dynamics/`, `inty-lsp/src/resolver.rs` |
| JavaScript text | `Lexer`, `Patterns`, `Classes`, `Parser`, `Pretty` | `frontends/javascript/`, `ast/pretty.rs` |
| type text | `TypePretty`, `TypeParser`, `Declarations` | `types/pretty.rs`, `infer/type_parser.rs`, `declarations.rs` |
| the module loader and the commands that drive it | `ModuleLoader` | `modules.rs`, `inty-cli/src/main.rs` |
| the language server and the editor it serves | `LspServer` | `inty-lsp/src/server.rs` |

`MC*.tla` give the constants their values for TLC, the inputs the operators are
asked about, and the properties only TLC uses; the store's runs need none of
these and check `InferStore` itself. `*Proofs.tla` hold the theorems.
`PROJECT.json` maps each definition to the lines it models.

## Inventory

**Union-find table** (`infer/var_table.rs`). State: `cells` (Unbound, Link,
Bound per variable), `trail`. Operations: fresh, find (two passes, the second
compresses and logs), bind_shared, link_to_root, force_bind_root, snapshot and
restore. Correct when it is a partition of the variables on which compression
is invisible, and when a restore gives back what the snapshot saw.

**Substitution** (`types/subst.rs`). State: a map from type variables to types,
one from presence variables to presences, one undo log. Operations: insert,
resolve (with compression), resolve_presence, undo_to, and the walks of a type:
apply_subst, flatten, flatten_bounded, flattened_size, reach. It mirrors the
table. Correct when the walks agree about what a type is.

**Inference state** (`infer/state.rs`). Ties the two together: extend_subst
with mirror_extend, rebind_var, unify_presence, add_constraint,
snapshot_inference and restore_snapshot. Every rule that tries alternatives
(join, subsume, union_of, overloads) is a client: take a snapshot, work, keep
or restore, nested to any depth. An attempt fails at any point, after any
number of writes. On top: subsume, join, union_of, generalize, instantiate.

**Unification** (`infer/unify.rs`). State: the store, and while it runs the
nesting, the pairs of bound variables compared (`unify_bound_pairs`), the
unfoldings assumed. Correct when what it accepted stays one type, when it
accepts whatever is one type already, in either order, and always answers.

**Constraint solver** (`builtins/mod.rs`, `classes/`): rounds over the pending
list. **Inference of programs** (`infer/mod.rs`, `env.rs`, `lower.rs`,
`narrow.rs`, `features/`): groups of mutually recursive functions, the walk over
statements and expressions, narrowing.

**Names** (`ast/resolve.rs`, `ast/tdz.rs`, `ast/free_idents.rs`,
`inty-lsp/src/resolver.rs`). Four walks of the scoping rules: which declaration
a use refers to and which bindings are stable; which variables are read before
they are initialised, across calls; which names a function looks up outside
itself; what the editor jumps to and renames. Correct when they agree with each
other and with what evaluation does (`dynamics/`: environment, heap, completion,
fuel).

**JavaScript frontend**. Scanner state: position, whether `/` starts a regex,
template depth, annotations not yet attached. Parser state: position, the flags
`no_in`, async and class depth, fresh temporaries. Classes, patterns and async
functions leave the parser as simpler constructs. Correct when it accepts the
grammar with its only tree, and when what `ast/pretty.rs` prints (the bundler
ships it) parses to the same tree.

**Type text**. The annotation parser keeps scopes of type variables, counters
and a permission to quantify, and backtracks; declarations are printed for
another inty program to read.

**Module loader** (`modules.rs`). State: `visiting`, and in the inference state
`module_cache`, `failed_modules`, `current_source`, `errors` with their sources.
A recursion load_module -> resolve_imports / compute_export_table ->
load_imported -> load_module whose error paths leave by `?` through several
frames, each of which may or may not have put back what it changed. **CLI**
(`inty-cli`): check_many, run_inference, run_bundle, run_declarations.

**Language server** (`inty-lsp`). State: `documents`. One thread reads a
message, runs the handler to its end (the check runs on a worker thread the
handler joins, `worker.rs`), and queues the answers.

**Others**: Python and Lua frontends, the Python loader, the bundler, the Go
backend. See *Not modelled*.

How they interact: the CLI and the server call the loader or inference; the
loader calls the parser, the name passes and inference per module, sharing one
InferState; inference calls unification, which writes both tables through
extend_subst; speculation brackets any of that except the loader. Within the
project, InferStore justifies that `Unify` keeps one map for both tables and
leaves compression out; `Types` and `Substs` carry the rest of type inference;
`Ast` is shared by the name passes, `Dynamics`, `Parser` and `Pretty`.

## The store: Trail, InferStore, CopyStore, ClassStore

State: `cells`, `trail` (VarTable); `subst`, `subst_trail` (Subst: types and
presences in one function); `pending`; `snaps`, the snapshots the speculations
under way hold on the Rust call stack; `failing`, the innermost attempt has
failed and its caller must restore. Each operation of the code is one action;
inside it, tables are values threaded through the operators (`Find`, `Resolve`,
`MirrorExtend`, `Unify`, ...), so a unification with its lookups, compressions
and mirror writes is one step, as in the code. A type is a variable or a *head*;
the heads the code treats apart are the array-like open row, the empty closed
row, the array it is rebound to, and Error. Whether two other heads unify is a
choice of the step (`HeadsUnify`): the pairs of properties they would unify in
turn are steps of their own. (`Unify` below has the heads in full.)

`Trail` gives the undo logs their meaning: `UndoTo(f, log, mark)` is `f` with
every key the log mentions after the mark set back to the oldest line there.
`PopTo` is the code's loop itself, a recursive function on the length of the log
(pop a line, put it back); that the two agree is `UndoIsPopping`.

`CopyStore` is speculation as a caller thinks of it: a snapshot is a full copy.
`ClassStore` is the table as a partition. InferStore refines both:
`ImplementsCopies` (saved copies are what undoing to each snapshot's marks
gives) and `ImplementsClasses` (`ViewOf` reads the cells as a partition: each
variable's representative by following its links, each class's type). All four
properties of the runs below and the two refinements are theorems as well.

| run | shows | bounds |
|---|---|---|
| `store_tables` | `NoCycles`: find and resolve never need their give-up branch. `DriftOnlyFromRebind`: the two tables differ only where an array replaced a row | 4 variables, no speculation; logs of 4 lines |
| `store_rollback` | `UndoIsPopping`, `ImplementsCopies`, `ImplementsClasses` | 3 variables, 2 nested attempts, logs of 3 lines |
| `store_presence` | `TypeOK`, `ImplementsCopies` with presences and constraints | 1 type and 2 presence variables, 2 constraints, 2 nested attempts, logs of 3 lines |

Bounds: four variables are enough for a chain of three links, compressed in the
middle and joined to another class; two nested attempts for a cell to be
rewritten between two marks and again after the inner one. `MaxTrail` stops new
work when a log is full: three lines hold two links and the compression of the
first, with marks between them, and four a binding of the root as well. The
store has no end state of its own and stops at the bounds, so deadlock is not
checked. Speculation is not repeated in `store_tables`, because a rollback only
brings back tables that were current before (`ImplementsCopies`).

## Types: Types, Substs, Tidy, Unify, Subsume, Generalise

A type is a record whose `k` names the Rust variant; a row has its properties
(with the presence, writability and ownership of each) and a tail. `Types` has
the constructors with the normal form of unions, the parts of a type, its free
variables and instantiation at a scheme's variables. `Substs` has the walks
through what is bound: apply_subst with its depth limit, flatten with its memo
and cycle cuts, flatten_bounded with its budget, flattened_size and reach (which
search the flattening without building it), and zonk against the table. `Tidy`
numbers variables for display.

`Unify` threads one store record through the rules in the order of the code: the
fast paths, heads, var_bind with the occurs check, rows field by field and open
tails, arrays against rows, functions with optional parameters, equirecursive
and nominal types. An error ends the work and keeps the bindings made before it,
as in the code. `Subsume` has subsume, join and union_of, each attempt bracketed
by a snapshot; `Generalise` has env_fixed_vars, generalize, settle and
instantiate with the constraints a scheme takes along.

Kept simple: one triangular map stands for both tables (InferStore shows they
agree up to rebind_var); presence variables are all flexible (skolemize and the
checks of annotations are left out); two roots that share one type since are
compared like others, so that the early return for them (unify.rs:116), which
forgets no pair, is left out, and so is rebind_var; path compression, error notes
(row_difference, invariance_note) and their always-undone attempts are left out.

`MCTypes` makes stores by calls: unify two of ten types, let one of four values
flow, save, restore. `Ask` is the step of a caller that stops there and puts its
questions to the store; the properties of the run say what the answers are
(`[][asked' => ...]_vars`), so each store is asked once.

| property of run `types` | says |
|---|---|
| `Solved` | each pair that was unified and not rolled back is one type now, by a definition of "one type" that knows nothing of the algorithm (`Agree`: regular trees, rows spread over their tails, names unrolled) |
| `AgreedIsAccepted` | unification accepts any two of the types that are one already |
| `EitherWay` | it accepts in one order what it accepts in the other, and never meets the depth cap |
| `ZonkIsApply` | zonk against the table and apply_subst give one type up to the name of a row tail, which zonk takes from the root of the tail's class and apply_subst from the next variable of the chain; both write out to what the type itself writes out to. In a module's schemes, agreement once written out |
| `FlattenInContext` | a flattening does not depend on what was flattened before it (the memo), a bounded one is the full one with subterms left out, and flattened_size never promises too little |
| `BranchesHaveNoOrder` | two branches join in one order when they do in the other; the result takes both; a failure leaves nothing behind |
| `QuantifiedIsOwned` | a quantified variable is mentioned by no environment entry, shared definition or remaining constraint, all written out |
| `UsesAreApart` | what one use of a name was unified with does not limit another use |

Bounds: three calls, one snapshot after the first (a binding made before it, one
after it, after it, one after the restore); ten types over two type, three row and four
presence variables, and a row with a fourth tail that one of them flows into;
each row variable has one set of fields, as inference makes them. Three tails
share theirs, so that a tail bound to a bound tail arises; one nominal type. A
store is asked where no snapshot is held, because every store is reached without
one; joins and schemes up to two calls. The caps stand
at 20 nested unifications (`MAX_UNIFY_DEPTH`, 2,000 in the code), 24 levels
(`DepthLimit`) and 40 nodes (`MAX_GENERALISED`, 200,000): none is met by these
types unless an algorithm diverges, which is what `EitherWay` looks for.
`types_presence` (violation) uses three functions with a default: see *Findings*.

## Programs: Ast, Resolve, Tdz, FreeIdents, LspResolver, Dynamics

`Ast` is the tree after parsing; an occurrence of a name is a number (its span).
The four walks are lists of jobs: a job for a node becomes the jobs of its parts
in the order the Rust recursion visits them, so that hoisting before the walk,
scopes entered and left, and the deferred bodies of functions happen in the
source's order. `Dynamics` is the evaluator: environments from names to
locations, a heap of cells, completions (normal, return, break, continue, throw)
through blocks, loops, switch and try, closures, getters, array lengths and
holes, spreads, and a fuel counter. Two ghosts serve the properties: a cell
remembers its declaration and whether it has a value, and `reads` collects what
each occurrence touched.

`MCScopes` writes programs from top to bottom out of statement templates over
the names x and f; every state is a program, its open blocks closed. `Ask` hands
the program to the passes and the evaluator; the properties are of that step.

| property of run `scopes` | says |
|---|---|
| `ResolvedCells` | every read and write reaches a cell of the declaration the resolver gives |
| `StableHasOneValue` | all reads of a binding called stable, through one cell, see one value |
| `NoEarlyRead` | a program the dead-zone analysis passes reads nothing before it has a value, whichever function runs when |
| `FreeAgrees` | the free names of a statement or a function's body are exactly those the resolver finds no declaration for, but for names that a `var` in a block inside the statement declares (see *Met on the way*) |
| `LspAgrees` | the editor's resolver leads each use to a declaration of the same binding |
| `NoGetterEscapes` | a getter is never copied unrun into a variable, an array or a result |
| `FinallyRuns` | a finalizer whose block was entered is entered too, however the block is left |

Bounds: four families about scopes (up to 5, 5, 4 and 4 statements, blocks two
deep) and two about running (4 statements three deep with jumps, exceptions and
loops; 5 statements of objects and arrays); `Fuel` is 30 calls and iterations.
Two functions, a shadowing block and a use on each side fit. The language's own
errors are not written: clashing declarations, exports below the top, a `var`
that redeclares a parameter. Preconditions, each a known difference between the
parts: a `var` below the top of its function (`HasNestedVar`: the evaluator keeps
it in its block); for `LspAgrees` also functions nested in blocks, the head of
`for (let x of)`, and uses of a let ahead of its declaration.

## JavaScript text: Lexer, Patterns, Classes, Parser, Pretty

A source text is a sequence of atoms: a word is one atom, every other character
one each, so longest match, escapes, comment ends, regexes and templates are
decided as in the scanner. `Parser` has every production; a production is a
sequence of items, and the flags, the temporaries and the annotations not yet
attached are parser state. `Patterns` and `Classes` are the desugarings. `Pretty`
prints a tree to atoms.

`MCSyntax` grows texts: a root with holes, each expanded by a production. The
expansions are counted (`Bounds`): three for a bare expression or a pattern, two
for an expression inside a statement or a statement, where one production puts a
right operand, a base and an exponent, a receiver or a callee in parentheses, so
that the other gives `a - (b - c)` or `(a ? b : c).x`. `Gaps = FALSE` leaves out
the productions the printer cannot print (see *Met on the way*); `soft` marks
texts with a distinction the printer drops knowingly. A text without holes is
parsed and printed in its `Ask` step, which the properties are of.

| property of run `syntax` | says |
|---|---|
| `GrammarDecides` | the parser accepts a bare expression exactly when a declarative grammar of twenty levels derives it, with that grammar's only tree |
| `RoundTrip` | a parsed program is printed so that it parses to the same tree |
| `LayoutIsFree` | line ends and comments between any two tokens change nothing, but where the language says so |
| `PatternsBind` | the declarations a pattern becomes, run in order on sample values, bind what matching the pattern binds, and fail when it fails |

## Type text: TypePretty, TypeParser, Declarations

`TypeParser` keeps its state through failed attempts, as the code does.
`MCAnnotations` builds annotations of up to three forms and gives each its
meaning from the form (`Denote`), not from the text; the finished one is read in
its `Ask` step.

| property of run `annotations` | says |
|---|---|
| `ReadAsWritten` | an annotation is read as the type it was written to mean, whatever was tried first; one that means nothing is refused, but for a name used behind its quantifier's scope (see *Met on the way*) |
| `DeclarationsReadBack` | the declaration printed of a scheme is read back as that scheme, constraints included |

Preconditions: a quantifier after a parenthesised group is refused by the parser
(*Met on the way*); `Printable` leaves out types for which the printer has no
text the parser could read.

## The loader: ModuleLoader

`stack` is the call stack of load_module, one frame per module under way with
its phase (imports, exports) and next clause; `flow` says how the innermost call
goes on: it runs, a load it asked for returned, or an error is propagating. Each
early return is an action: unresolved, circular, already failed, cached, read
error, syntax error, missing export, failed inference; each `?` is a step that
pops one frame and changes only what that frame changes. A module's text is its
clauses, chosen when the file is first read, so TLC explores every graph.
`Reaches` says that a path of clauses, no longer than there are modules, leads
from one module to another; it serves `CyclesAreFound` and `CyclesAreReal`. That
there are finitely many modules (`LoaderAssumption`) is what a disk holds.

| run | shows | bounds |
|---|---|---|
| `loader` | `TypeOK`; `NoReentry`; `AttributionRight`: errors land in the file their span points into; `CacheComplete`; `SuccessMeansChecked`; `CyclesAreFound`; `RecheckedOnlyByReexport` | 3 modules, 2 clauses each (at most 1 re-export), 2 entry files |
| `loader_ends` | `Terminates` | 2 modules, 3 clauses each |
| `loader_cycles` (violation) | `CyclesAreReal`: see *Findings* | as loader |

Three modules are a cycle with a module outside it, a diamond seen from two
entry files, or a failure two frames deep. Fairness: WF of the whole next-state
relation, i.e. one thread that runs until it returns; the operating system gives
no less. A finished command takes no step, so deadlock is not checked; that it
finishes is `Terminates`.

## The language server: LspServer

The editor sends open, change (a batch), save, close, requests, shutdown and
exit at any time; `to_server` and `to_client` are FIFO (stdio). The server takes
one message per step. `Answer` is what each handler computes from the documents;
rename is modelled in full over an abstract text (bindings with the name each is
exported as, named imports with aliases), the reading features as one query. The
editor and the crate lsp-server are external, modelled from how the server uses
them. A request whose parameters do not deserialise ends the server
(`cast_req`, state `failed`), as the code does. `SourceTexts` are the texts a
document may have over any set of names, `Closed` is none of them. `NoSelfImport`:
no document imports from itself; the loader reports such an import as circular,
and on_rename looks for importers among the other documents only, so a rename
would leave it behind.

| run | shows | bounds |
|---|---|---|
| `lsp` | `DiagnosticsSettle`: once nothing is under way the editor shows what its buffers deserve, without versions; `AnswersWhatWasAsked`: an answer is about the text the user saw; `RenameKeepsLinks`: a cross-file rename breaks no import; `CatchesUp` | a library and a program, 3 texts each, 6 messages |

Six messages are the handshake's two, two opens, and an edit or close racing a
request. Fairness: WF of the server's loop (it blocks only on the channel) and
of the editor reading; nothing makes the user act, so deadlock is not checked.

## Proofs

All theorems hold for every value of the constants that satisfies the named
assumptions: `StoreAssumption` (bounds are naturals, the heads the code treats
apart are distinct, presence and type variables are disjoint),
`LoaderAssumption` (finitely many modules, special values are not modules),
`LspAssumption` and `NoSelfImport`. So they hold for any number of variables, of
nested attempts, of modules and clauses, of documents and messages.

| theorem | states |
|---|---|
| `InferStoreProofs!TypeCorrect` | `[]TypeOK`, snapshot marks lie inside the logs and nest |
| `InferStoreProofs!RollbackIsExact` | `ImplementsCopies` |
| `InferStoreProofs!PoppingIsExact` | `[]UndoIsPopping` |
| `AgreementProofs!NeverACycle` | `[]NoCycles` |
| `AgreementProofs!FreeInBoth` | `[]MirrorKeys`: both tables have the same free variables |
| `AgreementProofs!DriftIsRebind` | `[]DriftOnlyFromRebind` |
| `ClassProofs!TableIsPartition` | `ImplementsClasses` |
| `ModuleLoaderProofs!TypeCorrect`, `NeverReentered`, `ErrorsAttributed` | `[]TypeOK`, `[]NoReentry`, `[]AttributionRight` |
| `ModuleLoaderProofs!NotRechecked` | the action property `RecheckedOnlyByReexport` |
| `ModuleVerdictProofs!CachedIsComplete`, `SuccessIsComplete`, `CyclesFound` | `[]CacheComplete`, `[]SuccessMeansChecked`, `[]CyclesAreFound` |
| `LspServerProofs!TypeCorrect`, `AnsweredAsAsked`, `DiagnosticsAreCurrent`, `RenameIsWhole` | `[]TypeOK`, `[]AnswersWhatWasAsked`, `[]DiagnosticsSettle`, `[]RenameKeepsLinks` |

**Undo logs** (`TrailProofs`). A key with a line after a mark has an oldest such
line (`NatMin`), and it decides what the key goes back to. Hence undoing is
insensitive to logged writes (`LoggedBatch`: a batch of writes that logs the
previous entry of each key leaves `UndoTo` at every earlier mark unchanged),
composes (`UndoTwice`), and takes back one line exactly when the loop does
(`UndoOne`), so the loop ends where `UndoTo` says (`PopIsUndo`: the least number
of turns after which it would not is a contradiction).

**Rollback** (`InferStoreProofs`). Each table write is logged; being logged is
transitive, so find, resolve, mirror_extend, unify, unify_rows and
unify_presence are logged too. A logged step leaves every saved copy alone (a
Work step of CopyStore); a restore is Abandon by `UndoTwice`. TypeOK contains
that marks nest, which makes it inductive.

**Agreement** (`AgreementProofs`). `NoCycles` is not inductive: whether an alias
closes a cycle depends on the two tables having the same free variables, which
depends on their representatives being the same, which holds only while no chain
closes. `Good(cells, subst)` says all of it one entry at a time: no set of
variables has all its links, or all its aliases, lead back into it (`Acyclic`),
a variable is free in both tables or in neither, aliases stay inside a class,
and an entry's head fits its class's. A rollback brings back earlier tables, so
the inductive invariant `AgreeInv` asks `Good` of the current tables and of
every saved copy; that a restore makes current exactly such a copy is
`RollbackIsExact`'s step lemma (`NextStep`). Facts about chains of any length
are proved by taking the set of variables for which they hold and showing that
it is closed (`AlongLinks`, `AlongAliases`), which is what `Good`'s first part
is for.

**Partition** (`ClassProofs`). Compression leaves the meaning of the cells alone
(`SameView`); every operation writes at most one cell besides (`Moves`), and by
`AgreeInv` the class it writes was free, or is the row that rebind_var replaces.
The saved views are those of the saved copies.

**Loader** (`ModuleLoaderProofs`). The inductive invariant `LoaderInv` adds to
TypeOK what the frames below the innermost are doing (`FramesOK`: each is in
`visiting`, and each frame's `prev` is the module below), when the loader is idle
(`IdleOK`), and where a propagating error was raised (`FlowOK`, `RaisedOK`:
current_source is the module its span is in). `NoReentry` alone is not inductive,
because it needs stack members to be in `visiting`; `AttributionRight` needs to
know who restores current_source while an error unwinds.

**Verdicts** (`ModuleVerdictProofs`), three more invariants on top of it.
`CacheInv`: the clauses a frame has gone past are resolved (`FramesDone`), each
frame stands at the clause that asked for the load above it (`FramesAwait`), a
returned load is cached. `VerdictInv`: whatever failed has left a sign (an error
still recorded, check_many's count, or the exit code: `FailuresKnown`), and each
module that was loaded is cached or on the stack unless there is such a sign or
an error is propagating (`AllAccounted`). `CycleInv`: as long as nothing failed,
no set of cached modules refers to itself throughout (`Grounded`): a module
joins the cache after all it refers to, and the members of a cycle would be such
a set.

**Language server** (`LspServerProofs`). `LspInv` says what the queues amount to:
applying the messages under way to what the server holds gives the editor's
buffers (`BuffersComing`), applying the answers under way to what the editor
shows gives the diagnostics of the server's documents (`DiagnosticsComing`), and
applying those ahead of a queued request gives the texts it was asked about
(`RequestsInPlace`). Channels being first in, first out, the last message about
a document decides, whatever the number of messages. `RenameIsWhole` is then a
fact about one rename over any imports.

Only model-checked:
* liveness (`Terminates`, `CatchesUp`), which is outside the prover;
* the properties about types, programs and texts (`MCTypes`, `MCScopes`,
  `MCSyntax`, `MCAnnotations`): those modules are recursive over trees, and what
  a recursive definition computes for every input is out of the prover's reach.

## Findings

1. `types_presence`, `EnvFixesPresences` (infer/state.rs:2503): env_fixed_vars
   follows a presence variable of the environment one binding, the type being
   generalised through all of them. After p := q := r, r is quantified although
   the environment mentions it. A program of this shape: `let f = (x = 1) => x`
   (reassigned later, so monomorphic), `const a = c ? f : (x = 2) => x`,
   `const b = c ? f : (x = 3) => x`, `const k = () => f`. The comment at
   2273-2275 says such a variable must stay monomorphic.
2. `loader_cycles`, `CyclesAreReal` (modules.rs:229): a module that failed under
   a re-export stays in `visiting`; a later import of it is reported as circular.

### Met on the way

Differences seen while translating, which no run is about.

*Store and loader.* `rebind_var` through an alias (infer/state.rs:1925) rewrites
the class in the table but only the alias's own entry in the substitution;
`DriftOnlyFromRebind` bounds the damage. A module that failed under a re-export
is not recorded as failed (modules.rs:229) and is checked again
(`RecheckedOnlyByReexport` says this is the only way). `inty bundle` and
`inty declarations` succeed when an imported module failed (main.rs:597):
`SuccessMeansChecked` leaves those two commands out. `inty a.js` does not resolve
the file's own `export ... from`. The header of modules.rs (84-89) still says
there is no module cache.

*Editor.* Renaming a private binding edits importers of another binding exported
under that name (server.rs:331). Renaming a name an import binds rewrites the
whole specifier. Importers that do not parse get no rename edits.

*Types.* A tail aliased to another variable is not expanded once a printer's
budget is spent, though subst.rs:443-445 says a tail always is. reach and flatten
differ on a cycle of tails. zonk_scheme leaves presences and bound tails. The
sort key of union members is not a total order. The fast path for an open row
against a nominal type looks at the row's own tail, not at what it is bound to.
Constraints on a container whose element has no variables still fix the
element's presences. resolve_known_plus (builtins/mod.rs:858) drops the
constraints after the first that fails.

*Names and evaluation.* free_identifiers_in_stmt collects the bindings of the
statement itself only: of `if (x) { var x }` it gives x as free, though
free_idents.rs:82-85 says that any binding the statement introduces suppresses
the reference (`FreeAgrees` allows exactly such names). Its caller types a group
of functions earlier than it has to (infer/mod.rs:896). The analysis of early
reads misses `function f() { f(); var f = 1 }`. `var` directly under `if` is not collected by
free_idents; its note on `ForInLhs::VarDecl` is out of date. In the evaluator
`var x;` resets the cell, labelled jumps are never caught, a `default` before the
matching case is taken, a let of one switch case is not visible in the next, and
a rest pattern copies getters unrun.

*Parser.* A class's field settings run in the order of the text, not as
mod.rs:1148-1150 says. An `async` is used up by a function in a default
parameter. `no_in` is not reset inside parentheses. `.5 / 2` starts a regex. A
`}` inside `${...}` ends the substitution. A malformed annotation comment is
scanned as code. `new new a` is refused; `-a ** b` and `a ?? b || c` are
accepted. Names like `$destr$0` are not reserved. One of the two blocks that
parse accessors of classes is never reached.

*Printer.* No text that parses back is printed for: a trailing array hole,
`new (f())()`, a sequence as an argument, element or initialiser, an object or
function at the start of a statement, a rest row, `await` outside an async
function, a private name outside its class, a quote inside an import's path. An
arrow flag, `undefined` and let or const in a for head are lost.

*Type text.* A quantified name is never taken back from `type_vars`
(type_parser.rs:232): `[<A>(Number) => String, A]` is accepted, its second A being
the first's variable, though by the comments at 1184-1194 a variable is bound by
an enclosing `<T>` and a forgotten quantifier is an error. `ReadAsWritten` makes
an exception of these annotations and no others (`NameOutlives`: an A outside any
quantifier, behind one that has ended). After a group the parser refuses quantifiers, because
parse_func_type does not give the permission back when it fails
(type_parser.rs:884, 1003); `QuantifiersAfterGroups` in MCAnnotations states the
rule. The comment "`|` binds weaker than `=>`" does not hold. Presence variables
are allocated again when the parser goes back. Exported named types are printed
as `μ` and a number. An optional parameter of type Number is printed `Number?`
and read as a union. A quantifier's header keeps letters nothing uses and drops
one that is both shown and hidden. match_alias ignores whether a field is
writable. emit_declarations says predicates are dropped (64-66) and prints them.

## Not modelled, and why

* Python and Lua frontends: two more recursive descents to the same tree. The
  JavaScript one carries the constructs that are hard (lookahead, desugaring,
  regexes); `Resolve` has the language flag's effect.
* The walk of inference over statements and expressions, narrowing, groups of
  recursive functions, skolemisation, and the rules of the constraint solver
  (`infer/mod.rs`, `narrow.rs`, `features/`, `builtins/mod.rs`): planned.
* Python loader, bundler: planned. Go backend: a printer of another language.
* model_wire.rs (a serialisation), diagnostics' wording, option parsing,
  `worker.rs` (one spawn and one join, so a handler is a step).
* In modelled parts: levels of the table (a speed-up of generalisation), ranks
  and `union` (only their tests call them), take_bound and restore_bound (a
  binding held out for one walk), path resolution through inty.json and
  package.json, the contents of export tables, hover and completion, UTF-16
  positions, digits and escapes of literals.
* The Lean development is a separate formalisation.

## Plan

1. (done) Trail, InferStore, ModuleLoader, LspServer; proofs of rollback and of
   the loader's invariant.
2. (done) Types, Unify, Subsume, Generalise; the name passes against evaluation;
   JavaScript text; type text.
3. (done) Theorems for every safety property and refinement of the store, the
   loader and the language server.
4. `Constraints`: the solver's rounds over Generalise's pending list; `Groups`:
   the schedule of mutually recursive functions; narrowing facts.
5. `Bundle`: order of modules and renaming of top-level names; the Python loader
   as a variant of ModuleLoader; `Positions`: UTF-16 against a reference.

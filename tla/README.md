# A formal model of Sintax

Sintax is a small indentation-based language with two engines: an interpreter
in Go (`evaluator/`, used by the REPL) and a compiler (`codegen/`, LLVM IR,
clang, a C runtime in `runtime/`).  This directory holds TLA+ models of the
parts of it in which order, state and failure matter, the TLC configurations
that check them on small instances, and TLAPS proofs of the properties that
matter most.  Paths below are relative to the repository.

    tlc -config MCSxDict_chains.cfg MCSxDict        # check an instance
    tlapm SxDict_proofs.tla                         # check the proofs

## 1. The system

| Component | State it keeps | Operations | Talks to |
|---|---|---|---|
| preprocessor (`preprocessor/`) | indent stack, comment flag, output lines, `LineMap` | one pass over the lines, text rewriting | feeds the parser; `LineMap` is read by every error message |
| parser (`parser/`) | the syntax tree | a grammar in struct tags | analyzer, evaluator, codegen |
| analyzer (`analyzer/`) | scopes, inferred types, const flags, loop/function flags | one walk over the tree | runs before either engine; the language server |
| interpreter: environments (`evaluator/environment.go`, calls in `expressions.go`) | `store`, `types`, `consts`, `outer` of each environment; the Go stack | assign, declare, capture, call, callback, runtime error | REPL keeps the global one for ever |
| interpreter: control flow (`evaluator/statements.go`) | the Go stack; break, continue and return as objects | statement lists, if, catch, match, while, for | environments |
| interpreter: dictionaries (`object.DictObj`) | map `Pairs`, slice `Keys` | literal, `d[k] = v`, delete, merge, JSON | natives, for loops |
| code generator (`codegen/`) | current function and block, loop target stacks, variable slots, captures | one walk over the tree | clang; names of runtime functions |
| runtime: dictionaries (`runtime/runtime.c`, `native.c`) | buckets, capacity, key array | set, find, resize, delete, merge | every compiled program |
| lists (`object.ListObj`, `SxList` in `runtime.h`) | a slice header and its array; an array, its length and capacity | push, pop, insert, index, sort, slice; loops over a list | for loops, natives, callbacks |
| values (`expressions.go`, `object/`, `runtime.c`) | none | truth, arithmetic, comparison, membership: each written twice | analyzer, both engines |
| runtime: strings, closures, natives | heap values | text, input, maths, JSON | compiled programs, the vendored collector |
| compile and run (`run.go`, `build.go`) | `.sintax/`: binaries and `.ll` files named after a hash | hash, look into the cache, compile, link, execute | file system shared with editors and other terminals |
| imports (`evaluator/imports.go`, `compileImports`, `CompileModule`) | a table of module environments; a table of flat names; `pub` flags | load, declare, look up, call | both engines, analyzer |
| REPL (`repl/`) | one environment, the reader of stdin | read, evaluate, recover | interpreter |
| language server (`lsp/`) | open documents | one loop over stdin | analyzer |
| test runner, commands, stdlib, documents | none | pure I/O and text | all |

What is hard about it:

* **Failure in the middle.**  A runtime error is a Go panic: it ends all calls
  and leaves the REPL's environments as they are.  A killed compilation leaves
  files.  A resize of a compiled dictionary may die half way.
* **Order and staleness.**  An assignment checks const before its value is
  evaluated and the type after; the value may be a call that changes either.
  The cache decides by a hash and two modification times read at different
  moments, with editors and other commands in between.
* **Long sequences of legal calls.**  Probe chains with tombstones, a key array
  that must match a hash table, indentation stacks.
* **Change under iteration.**  The interpreter loops over a slice header, which
  shares its array with the list until an append moves the list away; compiled
  `for` reads the length once and the elements live; `map`, `filter`, `reduce`
  and `each` read both in every turn.
* **Places chosen by the text.**  The compiler allocates a variable where the
  text assigns it first, and captures it where a closure is defined, whatever
  is executed.
* **One meaning, two codes.**  Loop targets in the compiler and signals in the
  interpreter; two dictionaries; two lists; two ways to hold variables; every
  operator twice, its type a third time in the analyzer; three tables of
  imported names.  No test of the
  repository runs a program through both.

What would make each component correct: a dictionary is an insertion-ordered
map and its calls return; variables keep declared types and consts, and a name
keeps standing for the variable it stood for; a command runs the code that is
in the file; braces say what indentation says; a list is a sequence, and a loop
over it ends; a variable has one place where it is read and written; inferred
types are the types of values; a name calls one function, and a private one only
from its module; both engines print the same.

## 2. The modules

| Module | Models | Checked through | Proofs |
|---|---|---|---|
| `OrderedMap` | what a dictionary promises: an insertion-ordered map | refined by the next two | |
| `SxDict` | dictionary of compiled programs | `MCSxDict` | `SxDict_proofs` |
| `DictObj` | dictionary of the interpreter | `MCDictObj` | `Environment_proofs` |
| `Environment` | environments, closures, calls, errors | `MCEnvironment` | `Environment_proofs` |
| `BuildCache` | "sintax file.sx" with its cache | `MCBuildCache` | `BuildCache_proofs` |
| `Preprocessor` | indentation to braces | itself | `Preprocessor_proofs` |
| `Program` | programs as far as control flow goes | (used by the next four) | |
| `Interpreter` | evaluation of statements | `MCEngines`, `MCSlots` | `Engines_proofs` |
| `CodeGen` | basic blocks of statements | `MCEngines` | `Engines_proofs` |
| `Engines` | composes the two with a machine that runs the blocks | `MCEngines` | `Engines_proofs` |
| `Slots` | a variable in both engines: slots, cells, environments | `MCSlots` | `Engines_proofs` |
| `OrderedList` | what a list promises | refined by `SxList` in `Lists` | |
| `ListProgram` | operations and loops a program may contain | (used by the next three) | |
| `SxList` | list of compiled programs | `MCLists` | |
| `GoList` | list of the interpreter | `MCLists` | |
| `Lists` | one program on both lists | `MCLists` | `Lists_proofs` |
| `Values` | the operators, as each engine evaluates them | through `Typing` | |
| `Typing` | inferred types and the values of both engines | `MCTyping` | `Typing_proofs` |
| `Imports` | what a name calls, in both engines and the analyzer | `MCImports` | `Imports_proofs` |

`DictObj` and `Slots` call their specification `DictSpec` and `TextSpec`, as each
shares a module of proofs with another component.

Operators whose comment begins with "Slip" are not part of any specification:
each is a definition of the code with a plausible mistake, which some property
rejects when it takes the definition's place.

### SxDict and OrderedMap

`buckets`, `capacity`, `order`, `keysCap` are the fields of `SxDict` in
`runtime.h`; `Hash` is `sx_hash` as an arbitrary function.  `sx_dict_set` is
several steps: lookup (`Overwrite`, `StartResize` or `NoResize`), one step per
bucket of `sx_dict_resize` (`RehashEmpty`, `RehashBucket`, `RehashNull`,
`FinishResize`), `Place`.  `dict_merge` is a set per entry, `Delete` is
`__native_dict_delete` with its tombstone and the shift of the key array.  The
unbounded loops over buckets are sets of candidate slots: when there is none,
the action is never enabled, which is the loop that does not end.  The
refinement `ImplementsOrderedMap` maps the table to its entries in key order,
with the values a probe finds; a call takes effect in one step of it.

### DictObj

`pairs` and `keys` are `Pairs` and `Keys`.  A literal sets both at once,
`evalIndexAssign` and `native dict_delete` are one step, `dict_merge` is a step
per key.  It refines the same `OrderedMap`.

### Environment

`envs` has an entry per `NewEnvironment`/`NewEnclosed`; an environment's chain
of `outer` pointers is the set `scope`, in descending order.  `frames` is the
Go stack as far as it matters: the environment of each call, the parameters it
has still to bind and where its result goes.  A statement whose value is a call
is two steps with the call between them; what is read or checked before the
value (`Refused`, the left side of `x += f()`) belongs to the first, what is
checked after it (`Fits`) to the second.  `CallBack` is a call by map, filter,
reduce, each and the list methods, which check neither number nor types.
`RuntimeError` unwinds to the REPL.  Which statements follow each other is left
open: any statement may come next, so a result holds for every program.
`TidyNext` restricts programs to those that use a name for one thing (section 4
says what happens otherwise).

### BuildCache

A command is a sequence of steps, each at most one look at or one change of the
file system: read and hash the source, stat the binary, stat the source, parse
(which reads again), compile imports, open the `.ll` (which empties it), write
it, clang, link, execute, clean up.  Of two commands that write one `.ll` the
file may keep a mixture, which clang refuses; what is written to a file that has
been removed or replaced meanwhile is lost.  `Tick`, `EditSource`, `EditImports`
and `Kill` happen around it, at any time.  The hash stands for the text (no
collisions).  The linker is external: it replaces a file and fills it in place.
`torn`, `cut` and the field `alone` of a command are history: names whose command
has met two texts at its two looks at the source, names whose linker was killed,
commands beside which no other has run.

### Preprocessor

A line is its indentation and whether it opens a block; what is written is the
last token of each output line with its `LineMap` entry.  `CodeLine` is the
whole body of the loop for a line with code: pops, braces, push.  The
properties compare the output with a definition of nesting made from the source
alone (`Enclosing`).

### Program, Interpreter, CodeGen, Engines

A program is a sequence of lines, each with a kind and an indentation, grown
line by line among those that parser and analyzer accept.  A value is the
number of the line it comes from, so that a wrong value shows as a wrong
number.

`Interpreter` has one frame per running `evalStatements`; `result` is what the
last statement has evaluated to, signals included.  Conditions and list lengths
are free and recorded in `choices`.

`CodeGen` compiles a statement, or ends a block, per step: `block` is
`cg.block`, `exits` and `conts` are the two stacks of loop targets, and `open`
is the Go recursion.  A basic block keeps the lines whose effect it has and its
terminator; appending a terminator to a block that has one is a `Skip`, as in
the code.  A function ends in an implicit return (`Implicit`).

`Engines` runs the blocks, reading the recorded choices one by one.  How blocks
run is LLVM's and the processor's, and is external.

### Slots

`Slots` lets `Interpreter` walk a text in which one variable `x` is assigned
(`expr` lines), bound by `for` and printed.  What the compiler decides as it
goes down the text is a function of the text: `Place(i)` is `resolveVar` at
line i (a stack slot, a cell on the heap, the cell of a closure's environment,
or none), `Allocates(i)` is the first `setVar`, `Captures(f)` is
`findCaptures`.  What a line does at run time is its effect on `sx`, the
pointers and the memory behind them; a pointer that no executed line has set is
`Undefined`, and following it sets `wild`.  `env` is `x` in the interpreter's
two environments.  `nested` says whether the text is a program, whose functions
capture nothing, or the body of a function, whose functions are closures.

### ListProgram, SxList, GoList, OrderedList, Lists

A program owns one list.  `OperationSet` is everything that makes or changes
one: push, index, index assignment, pop, insert, reverse, sort, slice, the
reversed copy, concatenation, index_of.  A loop (`for`, `map`, `filter`,
`reduce`, `each`) runs one operation as its body at chosen items.  `SxList` has
the array with its capacity and growth; a place that was never written holds
`Junk`.  `GoList` has the slice header, and `gview`: what the header that a
running loop took still sees, once an append has moved the list to another
array.  `Lists` gives every statement to both; inside a loop each engine goes
its own way, turn by turn, and they meet at its end.  A loop keeps what it has
met (`seen`) and what `map` and `filter` have put into their list (`built`). An
item is a type and a number, which of a list, dict, fn or error says which
object it is.  `NoneRunsAway`, `NoneFails` and `AlikeProgram` say which programs
the promises are about; `MCLists` assumes all three of its program, so that TLC
evaluates them.

### Values, Typing

`Values` is pure: a value is a type and a number (of a num; the length of a str
or list; 0 or 1 of a bool), and each operator is written once per engine, from
`expressions.go` and from `runtime.c`.  `Typing` runs statements on variables:
each is accepted by the analyzer's rules (`Inferred`, `Assignable`,
`Declares`), then executed by both engines.  With `Careless` FALSE programs
keep to what the engines and the analyzer take alike (`Plain`, `Kept`).

### Imports

`files`, `uses` and `own` are the modules, the use lines and the program's own
functions; they never change.  `envs` is `importedUserEnvs`: a use line stands
for the table's key, `"m"` or `"__specific__f__m"`.  `LoadModule` is one turn of
`RegisterImports`; `EvalCalls` is the order of look-ups in `evalFuncCall` (whole
modules, specific imports in any order, the scope), as a set because Go walks a
map in random order.  A call that finds nothing leaves the name it missed in
`interp`.  `declared` is `userFuncs` with the definition that came
first, `bodies` the bodies compiled into each name; `CompileImport` is
`CompileModule` for one use line, `Generate` the rest of the compilation with
clang's refusal of a function with two entry blocks.  `Statement` makes one call
in the runs of both engines; the steps inside the calls interleave.  Abstracted:
calls are the last thing a function does, modules hold only functions, base
names of modules differ, and a module's own use lines count only as the text
rewriting that they are.

## 3. The checks

| Run | Instance | Shows |
|---|---|---|
| `sxdict_chains` | 5 keys whose probe paths meet and wrap around, one value, table 2 -> 4 -> 8, sets, deletions and a merge | chains whole, no key lost or doubled, the inductive invariant, the key array fits when it grows 4 -> 8, refinement of `OrderedMap`, a set is read back; a resize dies over deleted buckets only, a call returns unless one is in its way |
| `sxdict_crash` | 4 keys on one probe path, 4 buckets, sets and deletions | violation, section 4 |
| `dictobj_map` | 4 keys, 2 values, literals without repeats | `Keys` and `Pairs` in step, refinement of `OrderedMap` |
| `env_scopes` | 3 environments, 3 frames, two numbers and closures as values, functions with a typed parameter or a declared result, compound assignments, callbacks of named functions | declared types and consts kept, checks are those of the variable written, parameters local, names stay bound |
| `env_params` | a parameter named like a visible variable | violation, section 4 |
| `cache_names` | 2 terminals, 2 texts, 2 states of the imports, 2 instants; 2 saves and 1 kill anywhere, also between the two looks at the source | a binary has the text of its name, a command executes the text it hashed, but for torn names; a command that was alone and compiled executes exactly what it read, and one that was alone fails over no file but a binary whose linker was killed |
| `pre_indented` | sources to 8 lines and 4 indentations, comments anywhere | depth of every line, balance, `LineMap` |
| `engines_programs` | every program to 5 lines and 4 depths, 2 free choices, lists to 2 elements | well-formed blocks, same output, termination, nothing cut off |
| `slots_tidy` | every tidy text to 6 lines and 3 depths, as a program and as a function | no pointer followed that was not set, same values printed, every printed name bound |
| `lists_same` | 2 items, lists to 5 elements, 3 literals, operations at indices from both ends, loops that rearrange or extend the list | same answers and lists, no turn too many, loops end and do not fail, the C array is an ordered list |
| `typing_tidy` | 2 variables, numbers -2 .. 2, every operator | same values, branches and failures; inferred types right; types kept |
| `imports_names` | 2 modules, one of the library, 3 names, 5 contents that may be missing, up to 3 use lines, whole and specific, own functions before or after a call | private stays private; one meaning of a call; the same function in both engines; one body each; the names that only the interpreter misses, each for its own reason |

**Bounds.**  `SxDict`: initial capacity 2 or 4 instead of 8 makes resizes happen
with a few keys, also over deleted buckets; that an overwritten value is
replaced takes two values and is left to the proof (`StoredIsRead`); chains that
wrap around, collide and are cut by tombstones all occur, and the proofs lift
the bounds.  `Environment`: `MaxEnvs`, `MaxDepth`: a shadowing or a stale check
needs a definition scope, a call, and a call within it, which is three.
`BuildCache`: `MaxTime` 1 has equal and different modification times; two
terminals are all that overlap needs; two saves (`MaxSaves`) put another text
between the two looks of a command and take it back, one kill (`MaxKills`)
leaves what a killed command leaves; the proof lifts them all.  `Preprocessor`:
eight lines have a return over three open blocks and a new one behind it.
`Engines`: `MaxLines` 5 has a break or continue in an `if` in a loop in a loop,
a return out of a loop of a function with its call, and statements behind each;
`MaxChoices` 2 lets a loop turn twice (`MaxItems` 2) with one other condition,
after which all conditions are false, so that every program stops. `MaxIndent`
3.  `Slots`: six lines have a binding, a closure with a print, an assignment
behind the capture, and a call in a loop; `MaxIndent` 2.  `Lists`: five elements
make the C array grow twice (0, 4, 8) and a Go slice leave its array under a
loop; the items are one of each comparable type, so that a sort compares across
types.  `Typing`: two variables are the operands of one operator; `Most` 2 has
both signs, zero, and products that leave the bound and are not taken; the
proofs lift it.  `Imports`: three use lines have one module whole, specifically
and again beside another; the contents are a pub function that calls a private
one, one that calls into the other module, one of the same name as a private one
elsewhere, one with an optional parameter, and one that calls a name its module
lacks; the proofs lift this.

**Types.**  Each module that has a run says in `TypeOK` (`DictTypeOK` in
`DictObj`) what its variables hold.  That of `SxDict` is a part of `IInv`; those
of `Environment`, `BuildCache`, `DictObj`, `Preprocessor`, `Typing`, `Imports`
and `Lists` are proved, and so is what the proofs need to know of the variables
of `Engines` and `Slots` (section 5).  Those of `Engines` and `Lists` have no
run of their own: every property of the two reads all that they type.

**Fairness.**  `SxDict`: weak fairness of `Step`: the process that is inside a
call is scheduled; callers owe nothing.  `Engines`: weak fairness of `Work`:
compiler, interpreter and processor go on; nobody has to write programs.
`Lists`: weak fairness of `SxStep` and `GoStep`: an engine that is inside a loop
goes on with it; nobody has to write the next statement.  No other
specification states fairness and none of their properties needs it.

**Deadlock** is checked where the system never stops: in `DictObj`,
`Environment` and `BuildCache`.  Elsewhere it may: in `SxDict` the process
really stops (the crash and the endless loop of section 4), the preprocessor's
pass is over when it has returned, and in `Engines`, `Slots`, `Lists`, `Typing`
and `Imports` a program that has ended or failed is over, and a text that is
full and cannot be submitted is never submitted.
That started work ends is `Stops` of `Engines` and `LoopsEnd` of `Lists`.

## 4. Where code and promises part

Found by runs of section 3:

* `sxdict_crash`: a resize takes a deleted bucket for an occupied one and hashes
  its null key (`runtime.c:124`) - native.c:701 marks it "so probing continues
  past it", runtime.h:32 tells the two apart.  In the runtime's table of eight
  buckets: set six keys, delete one, set it and another.

* `env_params`: a parameter is bound with `Set`, which writes an outer variable
  of that name (`expressions.go:301`) - docs/variables.md:52 says variables of
  functions are local.

Found by configurations that are kept for the purpose and that TLC refutes;
each names the one property that fails:

* `MCSxDict_hang` (`EveryCallReturns`): tombstones are neither reused nor counted, so
  a table whose eight buckets were all used once makes the next insertion spin
  (`runtime.c:756`).
* `MCEnvironment_loops` (`TypedKeepsType`): a loop variable or a parameter with
  the name of a typed variable is bound without a check.
* `MCBuildCache_imports` (`CacheIsFresh`): the cache looks at the main file only
  (`run.go:75`); an import saved when no command runs is not seen by the next.
* `MCBuildCache_killed` (`AloneNeverFails`): a binary that was cut off while it was
  linked is taken for a good one, until the source is saved again.
* `MCEngines_any` (`SameOutput`): a bare `0` outside of a loop ends the
  interpreted program silently and means nothing to the compiled one; in a
  function's last line it is a signal to the interpreter's caller and a value to
  the compiled one; an `if` in last place gives a function its value in the
  interpreter only.
* `MCEngines_nested` (`ModuleIsValid`): a function that is defined inside a
  loop compiles its `0` to a jump into another function
  (`codegen/statements.go:44`).
* `MCSlots_branches` (`NoWildAccess`): a variable first assigned in a block that
  is not executed has its slot in that block, and a later use follows a pointer
  nobody set (`codegen.go:251`) - docs/variables.md says variables of such
  blocks "are visible in the enclosing scope".
* `MCSlots_globals` (`SameReads`): a compiled function reads a variable of the
  program as null, as top-level functions capture nothing - docs/variables.md:
  "Variables defined at the top level are visible everywhere."
* `MCImports_helpers` (`HelpersAreFound`): a module's function calls another of
  its module by its bare name, which the compiler looks up without the module's
  prefix and so calls null (`codegen/expressions.go:354`) - docs/modules.md:39
  has a private `helper` that `double` of the same file calls.
* `MCImports_early` (`EarlyCallsAreFound`): the interpreter does not know a
  function of the program before it has come to its `fn` statement
  (`evaluator/expressions.go:251`); compiled code does - docs/functions.md:179
  to 195: "Functions can be called before they are defined in the same scope",
  with an example that the interpreter refuses.

Without a configuration of their own, but excluded by a named restriction:

* A dictionary literal that repeats a key lists it twice in `Keys`; a later
  delete removes one of the two (`RepeatingLiterals` of `MCDictObj` refutes
  `KeysAreThePairs`).
* A typed declaration in a function under a name that is const outside:
  `IsConst` goes on outwards (`Spec` for `TidySpec` refutes
  `ChecksFollowBinding`).
* A save between the two reads of a command puts new code under the old hash,
  for later commands to run: the names in `torn`, of which `BinaryHasItsText` says
  nothing.  Of two commands at a time, one removes or empties the `.ll` that
  the other is about to compile: `GoodCodeRuns` is about commands that were alone.
* A module that only another module imports: compiled code calls its functions
  if a whole import of the program has declared them, the interpreter does not
  know it (`BorrowedModule`).
* `map` and its like read the length again in every turn; a callback that pushes
  to the list never ends (`PushingLoops` of `MCLists` for `Loops` refutes
  `TurnsAreBounded`; `NoneRunsAway`).
* A compiled `for` over a list that its body shortens fails on an index of its
  own making (`PoppingLoops` of `MCLists` refutes `LoopsSucceed`; `NoneFails`).
* A specific import under a name that the program or another imported module
  has too: the interpreter takes any of the modules that have it, or the scope
  when that one is private; compiled code takes the first (`ClearNames`).  Two
  use lines of one module compile its functions twice, and the IR is refused
  (`OneUse`).
* A closure captured in a loop and assigned outside of it keeps the cell of
  another turn (`CapturedAfresh`).
* `Careless` = TRUE refutes all properties of `Typing`: an error object is true
  to the interpreter and false to compiled code (docs/error-handling.md:
  "Errors are **falsy**"); `==` across types, or of lists, is an error in one
  and false in the other; a str times a negative number panics in one and is
  empty in the other; `and` and `or` are inferred to be bool though they answer
  an operand, a num times a str to be a num, `+x` to be a num; an element of
  unknown type gives a variable another type (docs/variables.md:5).
* A slice end below minus the length makes the Go slice expression panic; the C
  function answers an empty list.  `pop` takes a negative index in C only
  (`AgreeOn`).  Lists of values of different types sort by the type's number in
  one engine and by its name in the other (`OrdersAgree`), and `qsort` leaves
  items that compare as equal in any order (`NoTies`).
* `index_of` of a list, dict, fn or error: the interpreter finds the same object
  (`natives.go:279`), `sx_eq` finds none (`AgreeOn`).
* `map` and its like over a list that the callback lengthens or shortens: the
  interpreter goes on over the header it took (`AlikeLoop`).

Of one engine only, so that no comparison meets it:

* Compiled code never asks whether a function of a user module is `pub`:
  `CompileModule` declares every function of the file (`codegen/codegen.go:82`), a
  call takes whatever is declared (`codegen/expressions.go:354`), and the
  analyzer accepts every name behind a module it knows
  (`analyzer/analyzer.go:1108`) - docs/modules.md:30: "Only functions marked with
  `pub` are accessible when the module is imported", and :49 has `mylib/helper(5)`
  as an error.  `PrivateStaysPrivate` is about the interpreter; `Generate` and
  `Statement` let compiled code in.
* In a call of a user module's function the interpreter requires as many
  arguments as there are parameters, defaults or not (`evaluator/imports.go:147`).
  Compiled code takes the first ones and fills up with defaults and nulls.  In the
  model the one fails and the other returns; no property compares failures.

`Unhindered` (in `SxDict`), `Plain` and `EndsPlainly` (in `Program`),
`TidyNext`, `torn`, `cut` and `alone` (in `BuildCache`), the literals of
`MCDictObj`, `Tidy` (in `Slots`), `Careless`, `NoneRunsAway`, `NoneFails`,
`AlikeProgram`, `ClearNames`, `OneUse` and the three cases of `FoundAlike` are
exactly the restrictions that exclude these.  The passing runs say what holds
outside of them; of the cases themselves the configurations above say that the
code goes wrong, and no passing run does.

## 5. The proofs

`SxDict_proofs` (constants: any `Keys`, `Vals`, `Hash \in [Keys -> Nat]`,
`InitCap > 0`).  `LookupAgrees` alone is not inductive: a probe finds a listed
key only if nothing on the way to it is empty, and a resize in progress has a
second table.  `IInv` therefore says of both tables that chains are unbroken
(`Chained`), that a bucket has a key and a value exactly when it is occupied,
and that a key has one bucket; that the key array lists the stored keys, once
each; that the new table holds exactly the keys of the buckets passed; and that
the key about to be placed is not there.  The lemmas say what the four changes
of a table (empty it, store in a free slot, overwrite, leave a tombstone) do to
`WellFormed`; `NextIInv` has a step per action.  `TypeCorrect`, `LookupCorrect`,
`KeysUnique`, `KeyArrayBound` follow.  `OnlyDeletedBucketsCrash` adds that the
null key a resize dies of is that of a deleted bucket.  `Refinement` and
`StoredIsRead` need one thing more (`RInv`): a key that is in both tables of a
resize has the same value in both.  `OverwriteReads`, `PlaceReads`,
`DeleteReads` and `FinishResizeReads` say what each step does to what every key
reads; with the order of keys that is a `Put`, a `Remove` or nothing.

`BuildCache_proofs` (`Spec`: any commands, texts, imports and `MaxTime`, saves and
kills anywhere).  The invariant `Inv` follows one text through a command: unless
its name is in `torn`, what was hashed is what was parsed, what is in the `.ll` of
that name if anything, what the linker was given, and what the binary of that
name contains, whoever wrote it.  `CacheNamesAreRight` is its consequence.
`SharedInv` adds what a command that is alone can count on (`AloneInv`): no other
is running, the `.ll` it opened holds just what it wrote, the binary it linked just
what it compiled; and that a partial binary is being linked by some command or
has its name in `cut` (`PartInv`), so that one from the cache is whole.
In the step that starts a second command the first is alone no
longer.  `CacheRunsYourCode` and `CacheServesGoodCode` follow.

`Environment_proofs` (`TidySpec`; any names, signatures, lambdas, data and
bounds).  The five properties are about tidy programs, in which no parameter has
a name that is visible where its function is made; `env_params` refutes the last
for others.  None is inductive.  The invariant says: the scope of an environment
further out is the rest of the chain from there (`Chains`); a typed variable has
no namesake further in (`TypedOnce`), so that the flags an assignment finds are
those of the variable it writes; a const is typed (`ConstsTyped`); a call stands
in an environment made after that of its caller (`Stack`); the variable a caller
will assign has not become a const (`Pending`); only the innermost call still
binds parameters, and into the newest environment (`Todo`); the parameters of a
closure meet no variable where it was made (`Held`).  `SetKeeps` and
`DeclarationKeeps` say what the two ways of writing a variable leave alone,
`HomesStay` that no step moves a name's home nearer; then one lemma per step.

The last part of `Environment_proofs` is about `DictObj` (any keys, values and
literals without a repeated key).  The invariant `PairsInv` adds to `DictTypeOK`
and `KeysAreThePairs` that what a merge in progress has still to write are values
(`NoneRepeats` is the assumption that literals repeat no key); `PairsRefineMap` maps
every statement to one step of `OrderedMap`, or none.

`Typing_proofs` (`Careless` = FALSE; any variables and numbers of any size).
`BothValues`: equal operands give equal values, by cases over the operators.
`InferredIsRight`: a value that is not a failure has the inferred type.  The
invariant joins `TypeOK`, `SameValues`, `TypesInferred` and that the
interpreter's declared types agree with the analyzer's (`ChecksAgree`).

`Preprocessor_proofs` (any indentations and length).  `Shape`: the stack begins
with 0 and rises towards its top, nothing was entered beyond the last code
line, and the line map is in order so far.  The proof has to know how many
entries the pops leave (`KeptPrefix`: a prefix, because the stack rises) and
where each token of a line lands (`WritesIs`).  For well-indented sources
`Indented` adds what relates the two sides: the stack holds the indentations of
the lines around the last one, each once (`Tracks`, `AroundSize`), and the
output has as many blocks open as the stack has entries above 0, and one more
behind a header (`Excess`).  `StackNext` shows that a header pushes one entry
with the next line and nothing else does; `DepthHolds` and `BalanceHolds`
follow.

`Imports_proofs` (any modules, names, contents, use lines).  `TInv` types the
texts and the table; `CInv` adds that a compiled name was declared by a
definition of its module or by the import or the program's function of that
name, and that a body calls what was declared.  `OneMeaningHolds` needs only
that under clear names one use line has a given imported name (`OneImport`).
`BuildsHolds` needs of `BInv` which names the use lines compiled so far can have
declared: none of the next one's, when its module comes once and its imported
name is clear (`FreshNames`).

`SameCalleeHolds` and `FoundAlikeHolds` compare the engines on the way through a
chain of calls, of any length and round any cycle.  `Leads` says where a call
goes as far as the texts of the program say.  A program that builds has one body
per name (`DInv`), so that a bare name has one source (`UpIsSole`), `Leads` is a
function (`LeadsToOne`), and both a jump of compiled code (`JumpsLead`) and a
call of the interpreter (`EnteredIsTarget`) follow it; the latter is where clear
names are needed.  `Reaches` and `Jumped` are the closures, as intersections of
closed sets, for want of induction.  `SInv`: while both run, both are on the way
from one function; two functions on one way that call nothing are one
(`LeafIsOne`).  `FInv`: where the interpreter failed for want of a function,
compiled code is still before that function's call and cannot get past it
(`NotFoundIsStuck`, `StuckIsAhead`), or one of the three cases holds of the very
function that was missed.

`Lists_proofs` (any values, literals, operations, loops, filter and memory).  The
relation `Does` says of each operation what it does to the list a program sees
and what it answers; one lemma per operation and engine shows that the code does
that to its array, and that the Go header a loop took still holds what it held
(`GoKeeps`, `GoLeaves`).  Everything else is about `Does`.  `ArraysAreWritten` and
`ArrayIsOrderedList` need no assumption on the program: the invariant is that
every place in use was written, in either array (`SxOK`), and in the one the
header shows (`GoOK`).  `LoopsAreBounded` (assuming `NoneRunsAway`) counts:
turns passed are at most the limit, and all loops but `for` see a list no longer
than that (`Counted`).  `LoopsGoThrough` (assuming `NoneFails`) needs that there is
room for what is left of the turns (`HasRoom`).

`EnginesAgree` (assuming `AlikeProgram`) has the compiled program some turns ahead
of the interpreter.  The invariant `Alike` says: between statements both have
the same list and answer (`Together`); while the compiled program is in a loop,
some turns lead from where the interpreter is to where it is (`Leads`,
`Ahead`); when it has left the loop, they lead the interpreter to where it left
(`Done`).  A turn of the compiled program adds one to the end of these
(`LeadsOn`), a turn of the interpreter takes the first (`LeadsFirst`), and
because the engines agree on every operation and it has one outcome
(`DoesOneWay`; of sorting, because the permutation that sorts is unique up to
equal items, `SortedOnce`) that is the turn it makes.  `GoGood` keeps the header
and the list equal at the places still to come: nothing but a push moves the
list.  That the insertion sort of the interpreter sorts is `GoSortedFrom`: ranks
are a permutation that rises.  `SxBuilt`, the one recursive function, is unfolded
by its least wrong step, in place of an induction.

`Engines_proofs` has three parts: what the code generator builds, where the
interpreter's signals go, and where a variable lives.  All are for any bounds on
lines, depth, choices and lists.  Each is an induction over steps of a walk over a
text; that blocks nest (`End`, `Enclosing`, `Owner`) is proved first, from the
indentations alone.

`CodeGenModuleIsValid`: at the end of the compilation every block has its
terminator.  During it most have not, so the invariant `CInv` says who will give
them theirs: a block without a terminator is the current one or one that an open
statement still owes (`OwedOrEnded`).  It also says that jumps stay within a
function (`TargetsOwn`), that the open statements are in the order of the text
and their blocks those of the function being compiled (`OpenOK`), and that the
two stacks of loop targets have an entry for each open loop (`LoopStacks`), which is
why a break finds one.  `Plain` is needed for what `MCEngines_nested` refutes.

`EnginesRunsToTheEnd`: the interpreter leaves the program at its end and not by a
signal that nobody took.  `RInv` says that the frames are nested as the text is
(`FramesOK`: each is where its block has a line or ends), that the headers
around a frame's block belong to the frames below it (`AllFound`), and that the
signal on its way up has a taker (`Handled`: a loop for break and continue, a
call for return, below the frame that has it).

`SlotsNoWildAccess`, `SlotsSameReads`, `SlotsNoneUndefined` (`TidySpec`): a place
in the memory of compiled code is chosen by the text and set by what is
executed, so the proof has to say what was executed from where the frames stand.
`Reached(j, x)` is that whoever is at line x has come by line j, which holds for
the lines that `Dominates` names; `Moved` and `Came` say that a step
passes no line that matters except the one it executes.  `TInv` then ties every
frame to the places it can count on (`SlotsOK`): by `SlotSure` the slot, by
`CellSure` the cell of the closure, by `InnerSure` the slot of the call is the
newest place of the variable, and the newest place holds what the interpreter's
environments hold (`ValuesOK`).  `Gaps` carries this to the frames further out:
one that waits for a block stands behind it with no line of its own between, so
that what it has come by, those in the block have come by too.

Three remarks on the prover.  tlapm gives its SMT solver an axiom about lengths
that says too much of terms that are no sequences (`0 <= Len(S)` for any `S`); all
leaves have also been put to the solver without it, and hold.  Induction over
data is not available, which is why `Least` and `Greatest` of a set of lines, and
closures as intersections, take its place.  ENABLED and fairness are not either.

Only model-checked: that calls return, loops end and programs stop
(`CallsReturn`, `LoopsEnd`, `Stops`: liveness); and that both engines print the
same for a whole program (`SameOutput`), which needs a simulation between a walk
over lines and a walk over blocks, both of which read the recorded choices in
their own order.

## 6. Not modelled

* Of imports: variables of modules, and so the order in which the arguments of a
  module's function are evaluated and its parameters bound (`imports.go:151`).
* The language server: one loop over stdin; an answer depends on the text of
  one document.  The REPL's reading of stdin, which it shares with `input()`.
* `match` in both engines; a second function and recursion in `Engines`;
  functions as values of compiled programs (they compile to null) and lambdas
  (they capture nothing).
* The parser (a grammar for a library), and expressions beyond operators, calls
  and variables.
* Natives of strings, maths, JSON, HTTP and time, and conversions to text: calls
  of the Go or C library, but for two that do not end (`runtime.c:288`, a split
  at an empty separator; the printing of a list that contains itself).
* The vendored collector `runtime/gc`: 53 of the 55 thousand lines of C and Go,
  used as an allocator that does not fail.  It is why the modelled lines are a
  small share of all.  The compilation of its object file is not modelled
  either.
* Test runner, commands, help, the standard library and documents.
* In `Preprocessor`: rewriting of texts, strings over several lines.  In
  `BuildCache`: `sintax build`, which has no cache.

## 7. What is left

1. `match`, as one more kind of line in `Program`.
2. Variables and arguments in `Imports`.
3. The language server, the shared stdin of the REPL, the compilation of the
   collector's object file by two commands.
4. Proofs: `SameOutput`.  `CInv` and `RInv` are the two halves of what it needs;
   missing is which block stands for which place of which frame.

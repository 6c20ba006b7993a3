# Scriptix in TLA+

Scriptix is an embedded scripting engine: a C++ program links it, loads script
files, and invokes the functions they define. This directory holds TLA+ modules
that model the engine, TLC configurations that check them on small instances,
and proofs for TLAPS.

## The system

| part | state | operations | source |
|---|---|---|---|
| Evaluator | `frames`, `data_stack`, `state` of `System` | `PushFrame`, `PopFrame`, `Invoke` (two), `RaiseError`, 36 instructions | `eval.cpp`, `error.cpp` |
| Values | none (numbers are tagged pointers, nil is null) | `TypeOf`, `IsA`, `Equal`, `Compare`, `True`, `ToString`, `ToInt` | `value.cpp`, `number.h` |
| Arrays, iterators | `list`, `count`, `size`; an iterator's `index` | `GetIndex`, `SetIndex`, `Append`, `remove`, `Has`, `Next` | `array.cpp`, `iter.cpp` |
| Strings | the scanner's `sx_lex_str`; characters | literals, `CONCAT`, the methods of `String`, `toString` of `Int` | `string.cpp`, `number.cpp`, `lexer.ll` |
| Structs | a map of members | `SetMember`, `GetMember` | `struct.cpp` |
| Code buffer | a function's `nodes`, `count`, `size` | `AddValue`, `AddOpcode`, `AddOparg`, `GetLineOf` | `function.cpp` |
| Types | `types`; a type's `methods` and parent | `AddType`, `GetMethod`, `AddMethod`, `addMethod` | `type.cpp` |
| Compiler | `funcs`, `extends`, `types`, `blocks`, `returns` of one load | `CompileNode`, `Compile`, `PushBlock`, `PopBlock`, `AddBreak`, ... | `compiler.cpp`, `parser.cpp` |
| Optimizer | the tree | `sxp_transform` | `optimize.cpp` |
| Scanner, grammar | flex's start condition, the string buffer | `yylex`, `LoadFile`, `LoadString` | `lexer.ll`, `grammar.yy` |
| Globals, functions, names | three maps | `AddGlobal`, `AddFunction`, `NameToID` | `global.cpp`, `function.cpp`, `name.cpp` |
| Options | chunk sizes, run length, path | `SetOption` | `system.cpp` |
| Host | none | `Invoke`, `LoadFile`, C functions | `program/scriptix.cpp` |

How they interact. The host calls `LoadFile`; scanner, grammar and compiler fill
the code buffers of new functions, and if all went well their names are
published. The host then calls `Invoke`. `Invoke` runs instructions on two
stacks of the one `System`; an instruction that converts a value to a string or
a number calls `Value::ToString` or `ToInt`, which call `Invoke` again for a
script-defined method; a C function that an instruction calls may call `Invoke`
or `RaiseError` too. So several activations of `Invoke` are alive on the C++
stack, all working on the same two vectors and the same `state`, each knowing
only the height of `frames` when it began.

There are no threads. What is hard is this re-entrance together with failure:
errors are reported by pushing a code on the data stack and setting `state`, and
it takes the loops of all the activations involved to notice, unwind and return;
`yield` leaves an activation without unwinding at all; and what a failed call
leaves behind is what the next call finds. The list `hazards` of `PROJECT.json`
has each of them at its line.

What makes each part correct:

- Evaluator: an activation does not disturb the frames or operands of the ones
  that wait for it; rights only narrow; balanced code never reads below the data
  stack; a call that goes well leaves both stacks as it found them; every call
  returns.
- Arrays: scripts see a list, whatever is allocated; every write is inside the
  allocation; an iterator is not led astray by what happens to the array.
- Code buffer: every write is inside the allocation.
- Compiler: jumps land on instructions; every path to an instruction has enough
  operands, and the same number, but for the two cases under `Eval` below.
- Optimizer: a folded expression has the value the evaluator would compute.
- Scanner: a load starts in the initial condition.
- Loader: to the files after it a load is one step, which publishes all or
  nothing; a name means what it meant when the file was compiled; a method keeps
  its meaning while others load; a load comes to its end.
- Strings: a literal is what is written, whatever was in the buffer; the pieces of
  a split are the text; a number written and read again is the number.

## Modules

| module | what it is |
|---|---|
| `CallStack` | abstract specification: what `Invoke` promises about the frame stack |
| `MCCallStack` | bounds for TLC |
| `CallStackProofs` | its invariants, proved |
| `Bytecode` | the instructions and their operands, and which code is balanced; what the compiler emits and the evaluator runs |
| `Eval` | the evaluator |
| `SeqFacts` | lemmas that the proofs cite: about sequences, least elements of sets of naturals, and functions defined by recursion on naturals |
| `EvalProofs` | the evaluator's invariants and its refinement of `CallStack`, proved |
| `OperandProofs` | what the evaluator keeps on the data stack when the code is balanced, proved |
| `Depths` | computes the operand depths that `Bytecode!Balanced` asks for (recursive, TLC only) |
| `MCEval` | small scripts, the bytecode the compiler emits for them, and the configurations of the runs |
| `Tree` | the nodes the grammar builds |
| `Optimize` | the optimizer |
| `Compiler` | the compiler |
| `CompilerProofs` | what the tasks planned for a node have in common, and the compiler's invariants, proved |
| `Meaning` | reference definitions: what a tree means, what words do, and which trees have a fault |
| `List` | abstract specification: what an array is to a script |
| `ArrayList` | an array, its allocation and its iterators |
| `MCArray` | values and indexes for TLC |
| `ArrayProofs` | its type, bounds, iterators and its refinement of `List`, proved |
| `Symbols` | abstract specification: what loading promises about names |
| `Loader` | several loads, one after the other: start conditions, definitions, types, and what is published |
| `LoaderProofs` | its type, its refinement of `Symbols`, what methods mean and how texts are read, proved |
| `MCLoader` | texts to load |
| `Strings` | literals, the methods of strings, and numbers as text |
| `StringsProofs` | its invariants, proved |
| `MCStrings` | literals, separators and numbers for TLC |
| `MCCompiler` | files to compile, and the properties that relate code and trees |

### Eval

| variable | code |
|---|---|
| `frames` | `System::frames`; a record per `Frame` |
| `data_stack` | `System::data_stack` |
| `state` | `System::state` |
| `calls` | the C++ stack: one record per activation of `Invoke`, with its place (`pc`), `frame_top` (`ft`) and the array of an index operation or the C function (`value`) |
| `result` | the return value of the last `Invoke` and what it stored in `*retval` |
| `crashed` | which undefined behaviour or exception ended the program |
| `raised` | history: the last error raised, or that there was a yield |

Each `case` of the instruction loop is an action, `Op...`. The ones that convert
an operand are cut where the nested `Invoke` may run: `OpConcat`, then
`ConcatSecond` when the first conversion returned, then `ConcatEnd`. `Enter` is
the prologue of `Invoke` and `Epilogue` its end. `CRaise`, `CInvoke` and
`CReturn` are what a C function may do. The state of the evaluator outlives the
calls of the host, so `HostInvoke` starts from whatever the calls before left.

Code is a constant: sequences of instructions, with absolute jump targets.
`BalancedCode` says that `Depth` gives the number of operands before each
instruction on every path. Properties about operands assume it; the compiler
breaks it in two cases. A postfix `++` or `--` on an element or member uses more operands
than it pushes; the runs `live` and `lvalue` run that code. And the back jump of a `do`
loop goes to the start of the outermost loop around it, over the iterator of every
`foreach` between the two: in `foreach { foreach { do ... while (c); } }` it comes to the
outer `ITER` with two iterators, in `while { foreach { do ... while (c); } }` to the start
of the `while` with one instead of none. Such a path only ever brings operands too many
(`Suffices`), one more each time round, and the evaluator is not run on it; `CodeBalanced`
says just when the compiler emits it. The theorems of `OperandProofs` assume `BalancedCode`,
in the properties they state, and so say nothing of functions with either; the other
theorems do not assume it.

Undefined behaviour is modelled by what it can lead to. An instruction that
would read or pop below the data stack stops the program (`crashed`); a read of
`back()` of an empty vector that is followed by nothing else yields any value of
`Garbage`; `resize(size() - 1)` of an empty vector throws. `state` is not set by
the constructor, so `Init` allows each value.

Abstracted: contents of strings, arrays and structs (an element or member read
is any value of `Stored`), addresses (`Addr` gives each object a number for
`Number::ToInt` of a pointer), memory exhaustion, `HandleError`'s output, and the
narrowing of what the epilogue reports to the `int` that `Invoke` returns: an error code fits,
and no property is about another number that is returned in its place.

### Compiler and Optimize

`Compile` takes the functions of a file one after the other, has the optimizer
rewrite the body and calls `CompileNode`, which recurses over the tree and
appends words to the function's code. Jumps forward are emitted with distance 0
and patched by position afterwards: locals of `CompileNode` hold the positions
of `if`, `&&` and `||`, the compiler's `blocks` those of breaks, its `returns`
those of returns.

| variable | code |
|---|---|
| `file`, `compiled`, `status` | the load under way: its functions and globals, those already compiled, and whether it has failed |
| `code`, `vars` | `nodes` and `vars` of the function being compiled |
| `size`, `block_chunk` | the size of its buffer, and the option by which it grows |
| `work` | the C++ stack of `CompileNode`: the nodes left of each list, the tasks left of the node it is at, and its local positions |
| `blocks`, `returns` | the members of that name of `Compiler` |
| `debug`, `last_op`, `last_line` | the function's table of lines |
| `lines` | history: the line each word was added at |

What `CompileNode` does for a node is data, `Plan(node)`, one `Plan...` for each group of node types: a sequence of tasks
such as `Emit(words)`, `Sub(nodes)` (the recursive call), `Jump` and `Land`
(emit with a hole, patch the hole), `Leave` (`AddBreak`...), `PushBlock`. Each
task is an action, `Do...`, so the machine stops between any two appends, where
positions are pending. `Begin` and `Finish` are what `Compile` does before and
after `CompileNode`. `AddTo` is what `AddValue`, `AddOpcode` and `AddOparg` do:
each looks for two open places, grows the buffer by `block_chunk` once if there
are not, and writes; a write past the buffer sets `status` to `overrun`, and the
model stops, what follows being undefined. A plan is made when the node is visited: names are looked
up then, as in the code, and where a variable is declared between (`DECLARE`,
`FOREACH`, ...) the plan says so.

`Optimize` translates `sxp_transform` as a function on sequences. In the code a
list is linked by `next` and a node can be replaced with or without what its
`next` leads to; `sxp_do_transform` therefore returns the node that takes the
place and what follows it now. Sums, differences and products of constants are
computed in an `int`, `-IntHalf .. IntHalf - 1`, and wrap there (`Wrapped`); the
evaluator's are computed without an end.

`Meaning` gives a tree a meaning that owes nothing to the compiler: a trace of
the operations and their operands, where every test that no constant decides is
answered by an oracle (a sequence of booleans), and how the body ended.
`ExecutionOf` gives the words the same kind of trace, by running them on a stack
of operand names. Constants are computed in both, so folding shows no
difference if it is right. `CodeMeansBody` says the two traces agree for every
oracle, unless the body is `Misread`, which lists what the compiler and the optimizer are
known to get wrong: a `do` loop inside a loop that starts before it, a postfix operator on an
element or member, a quotient of constants with something after it in its list, a constant
test of an `until` or `do` loop that does not mean what it would in a `while`, a sum of two
texts, and a result that is no `int`. A loop that asks more than the oracle answers is cut
(`spins`), and then the traces need to agree only as far as both go. The conversions of
constants, `ConvertedTo`, are one definition for both, as `Value::ToString` and `ToInt` are
one function for the optimizer and the evaluator: that they convert rightly is not what
`CodeMeansBody` shows (`RoundTrip` of `Strings` is about numbers and text).

`CodeBalanced` follows the code (`Depths`) and compares what it finds with the tree: every
path brings enough operands, and all paths as many just when no `do` loop `Strays`, that is,
has a test that is reached (`Ways`) with another number of `foreach`s around it than at
the start of the outermost loop. The exception is again the postfix operator on a part.

### ArrayList

| variable | code |
|---|---|
| `list` | the allocation, `size` cells; past `count` they hold anything |
| `count` | `count` |
| `array_chunk` | the option `OPT_ARRAYCHUNK`, which the host may set at any time |
| `iters` | the `ArrayIterator`s of this array; a record with `index`, and history: the last element given, the elements gone past, and how many of the cells behind it were removed |
| `reply` | the last operation and what it returned |
| `appends`, `mark` of a cell | history: which append made an element, to tell equal values apart |
| `overrun` | a value was written past the allocation; the model stops |

Each method is an action: `MethodAppend` with the growth of the allocation,
which may fail, `MethodRemove`, `GetIndex`, `SetIndex`, `MethodIter`,
`IterNext`, which is what the instruction `ITER` calls, and `MethodNext`, which
goes on to the next value that is not nil. `Equals` is the relation
`Value::Equal`, external here: any relation will do for the proofs. An array
starts with no allocation, as a literal with its values, or with an allocation
and no values, which is how the extra arguments of a call are collected.

`List` is the same without an allocation: an index means the nearest element,
`remove` takes out the first that is equal, an iterator gives an element of the
list as it is at that time. `IsList` says that `ArrayList` implements it, until
it overruns.

### Loader

| variable | code |
|---|---|
| `start` | the start condition of `yylex`, which nothing sets between loads |
| `text`, `rest` | `yyin` or `sxp_compiler_inbuf`: what is loaded and what is still unread |
| `errors`, `open` | whether `yynerrs` is above 0; the definition the parser is in |
| `funcs`, `extends`, `globals` | the lists of the load's `Compiler` |
| `types` | the types of the System and of each load, by load and name: the types above it (`line`), and which function each of its own methods is |
| `public` | `System::funcs`, from names to functions; a function is told by its load and its place in the file |
| `phase`, `next` | where `LoadFile` and `Compile` are |
| `bound` | what the names in the bodies compiled so far were found to mean |
| `before` | history: what was public when the load began |
| `log` | history: the loads that have returned, how far each came, and what it read |

A text is a sequence of pieces: what changes the start condition, newlines,
definitions on one line, and the head and tail of those on two. So that it can
be said what a text ought to be read as, it also has its functions, whether it has
the form of a file and whether its last comment or string is closed; `ReadAssumption`
makes that what one who begins afresh (`Reading`) finds in it, who knows the types of
the System and of the text and nothing of earlier loads. `Tokens` reads definitions, the other scanner actions comments and strings; `Create`,
`CompileBody`, `ExtendType` and `Publicize` are the passes of `Compile`, one
step per function. `CompileBody` may fail for any body, which stands for the
faults of `Compiler` and for a handler that rejects a function. `MethodAddMethod`
is a script between two loads.

The start condition survives a load because flex resets its buffer at the end of
the file and not its condition: a file whose last line is a comment without a
newline makes the first line of the next file part of the comment. A name that is
a type of the System or of the file is another token, so a function of that name
is a syntax error. A public function replaces one of its name for those that are
loaded afterwards; who was bound to the old one keeps it. In a file with two
functions of one name the first is the one its bodies mean, and the last the one
others see. A file may hide methods of its own types, since they are added last.

`Symbols` is the same without its insides: a list of loads and a table of names,
and a load is one step that reads a file, gives the names in its bodies their
meaning in the table as it is, and puts all of its public functions in, or is
refused and changes nothing. `IsSymbols` says that `Loader` implements it. The
loader publishes one function after the other, so the refinement mapping shows
`before` in place of `public` until the last of them is in and the load returns:
nothing reads the table in between, and nothing can fail any more.

`GetMethod` is what decides which function a method means. `MethodsKept` says that
no load changes it but for the methods of the file itself, although methods are
checked against those of the types above them in `Create` and added after everything
has been compiled. Between loads a script may replace any (`overridden`).

### Strings

| variable | code |
|---|---|
| `sx_lex_str`, `sx_lex_str_i` | the buffer and index of the same names, shared by all literals |
| `source`, `literal` | the characters of the literal that are still unread, and all of them |
| `self` | the string the script goes on with |
| `reply` | history: the last operation, its object, arguments and result |
| `calls` | how many methods have been called |
| `crashed` | `std::length_error`, which nobody catches, has ended the program |

First literals are scanned, one character or escape at a time, into a buffer of
`StrMax` characters that is never cleared; `CString` is what the constructor of
`String` makes of it, up to the first character 0. Then methods are called, each
an action, each on what the one before it gave, the last of the pieces of a
`split`. `Lower` and `Upper` are constants, as are the characters. `Narrow` is the
conversion of an `Int` to an `int`; `Atoi` is external, and undefined for what is
no `int`.

`LiteralAsWritten` compares the literal with `Meant`, which finds the escapes by
counting backslashes and not by scanning; `PiecesOfText` joins the pieces again.
The search in `split` looks at every place of the text, inside a match it has just
made too: splitting `aaa` at `aa` finds a second match that begins before
the end of the first, and the piece between them has a negative length.
`CrashOnlyByOverlap` says that this, and a negative length given to `substr`, is
all that ends the program.

## Runs

| run | checks | shows |
|---|---|---|
| `callstack` | `TypeOK`, `MarksNested`, `AccessNarrows`, `CallersKept` of `CallStack` | the abstract machine keeps its promises, up to five frames |
| `clean` | `OperandsMatch`, `CleanReturn` | with no error and no yield every frame has exactly the operands its code says, across nested activations, and a finished call leaves nothing |
| `errors` | `TypeOK`, `ActsNested`, `AccessNarrows`, `NoUnderflow`, `CallersKept`, `FrameStack` | with errors and yields anywhere, the frame stack implements `CallStack` and balanced code finds its operands |
| `live` | `InvokeReturns`, `CallersKept` | straight-line code always returns to the host or crashes; unbalanced code takes operands from its callers but no frame |
| `failed` | `OneReported`, violated | a failed call leaves its own frame and returns another code than the one raised, and a call of a C function with too few arguments crashes while it is reported |
| `lvalue` | `OneHeld`, violated | instructions run on after an error, and `a[0]++` runs without its operands |
| `compiler` | `TypeOK`, `JumpsLand`, `VariablesExist`, `NothingCarried`, `LinesRight`, `OverrunBySmallChunk`, `CodeBalanced`, `CodeMeansBody`, `RefusedForFault` | the code of every file has its jumps, variables and lines right; every path has enough operands, and all as many just when no `do` loop jumps back over an iterator; it does what the source says unless it is `Misread`; a file is refused for a fault and for nothing else |
| `array` | `ArrayTypeOK`, `NoneMissed`, `OverrunByZero`, `OnlyForward`, `IsList` | whatever is appended, removed and set in an option, an array is a list, its iterators go forward and miss only as many elements as were removed behind them, and only `array_chunk` 0 makes it overrun |
| `loader` | `LoaderTypeOK`, `MisreadOnlyAfterOpen`, `IsSymbols`, `MethodsKept`, `LoadReturns` | wherever a load fails, to other files it is one step that publishes all or nothing and reads only what was public before it; no method but the file's own changes; a text is misread only after one that ended inside a comment or string; every load returns |
| `overridden` | `OldMethodsKept`, violated | `addMethod` reports that the method exists and replaces it |
| `strings` | `StringsTypeOK`, `LiteralAsWritten`, `PiecesOfText`, `SubstrAsAsked`, `CrashOnlyByOverlap`, `RoundTrip` | whatever literals came before, a literal is what is written up to the buffer's end; `split` and `substr` give what they promise and crash only for an overlap or a negative length; `toString` and `toInt` agree on an `int` |
| `misread` | `OneMeansBody`, violated | none of these does what it says: a `do` loop inside another loop (it restarts the outer one), `h(4 / 2, a)` (it loses its second argument), `until (1)` (it loops for ever), `"s" + "t"` (it is concatenated), the sum of the largest `int` and 1 (it wraps) |

Bounds. `MaxLeft` is how many frames earlier failed calls may have left when the
host invokes: one is enough for a call on top of a leftover, and another call
leaves one more, past which nothing new happens, since a new call looks only at
the top frame's rights. `MaxFrames`, `MaxData` and `MaxCalls` stop C functions
from nesting and raising for ever and the host from calling on an ever higher
data stack; scripts are not bounded, their stacks are bounded by their code. The
scripts of `MCEval` use every instruction, conversions that succeed, fail, yield
and need more arguments than they get, C functions that raise and invoke, frames
with both rights, one and none, and numbers that overflow `Half`.

The files of `MCCompiler` have a body for every kind of statement and
expression; every kind of loop around every structure around every jump, which is
the depth at which blocks, returns and short-cut operators meet; each operator on
constants and on a constant and a variable; each loop and `if` with each kind of
constant test; every fault the compiler reports; and files of two functions and a
method, for what one function may leave to the next. Bodies that are `Misread` are among them:
`do` loops inside one, two and three loops, with a test that is reached or not; postfix
operators on parts; quotients before other arguments; constant tests of every loop; sums of
texts; results that are no `int`. All properties but `CodeMeansBody` are asked of them too,
and `misread` has one of each kind but the postfix operators, which `lvalue`
runs. `IntHalf` is 16 and the constants reach both ends of it.
Oracles answer four tests: enough for two rounds of an inner and an outer loop.
There is no bound on words. `block_chunk` is 1 or 2: with 1 the first constant
overruns the buffer, 2 is the least with which every word must fit.

`MCArray` makes three elements and one iterator (`MaxAppends`, `MaxIters`): one
element behind an iterator, one under it and one ahead, which is what removing
can tell apart. Values are nil, 1 and another, so that there are equal elements
and elements that `next` passes over; indexes lie before the first element, in
the list from either end, and after the last. `array_chunk` is 0 or 2 and changes
at any time.

`MCLoader` loads up to three texts (`MaxLoads`): one to publish or to leave the
scanner in a comment, one to replace or to fail, one that must see the right
outcome. Its files define and redefine public and private functions, use each
other's, extend types of the file and of the System, have each kind of syntax
error the model knows, and comments and strings around each other, closed or not.
Any file may fail at any function. Scripts add one method, `h` (`Added`), which
files also define. `overridden` needs one load or none, and adds a method that a
type of the System has.

`MCStrings` has a buffer of five characters and literals that fit, fill it and are
longer, scanned in any order, so that each may lie over any other; every escape; a
character 0; backslashes before backslashes and newlines. Separators that overlap
themselves, that do not, that match the whole text, and none; starts and lengths
before, in and after the string and past an `int` of four bits, wrapped to either
sign. Two methods (`MaxCalls`) let one work on what another made, such as a number's
text or a concatenation longer than any literal (`MaxLen`).

Deadlock is not checked: the evaluator stops when it has crashed, and a host that
has reached `MaxLeft` or `MaxData` calls no more; the compiler stops when it is
done, has failed or has overrun its buffer; a host that has loaded `MaxLoads` texts stops; an array stops when it has overrun; a script that has called `MaxCalls` methods, or whose last one crashed, stops.

Fairness. `FairSpec` of `Eval` assumes that the machine takes its next step (one thread
runs it, and nothing blocks) and that a C function returns in the end. It assumes
nothing of the host. In `live` the C functions invoke only what succeeds: a C
function that invokes a failing function and then another is run again when it
returns, since its `PopFrame` takes the frame the failed one left; with the
bounds on data such a repetition would be cut short rather than seen, so the run
does not claim anything for it. `FairSpec` of `Loader` assumes that a load under way
takes its next step: one thread runs it and waits for nothing. It assumes nothing
of the host, which need not load another.

## Proofs

`CallStackProofs` proves, for every set of rights and every height, that
`TypeOK /\ MarksNested /\ AccessNarrows` is inductive, and from it `TypeOKThm`,
`MarksNestedThm`, `AccessNarrowsThm` and `CallersKeptThm`. `MarksNested` is what
`CallersKept` needs: an `End` cuts the stack to its mark, which is above the
marks of all that wait.

`EvalProofs` proves about `Eval`, for every code, set of functions, values,
method tables, behaviour of the C functions and bound that satisfy the named
assumptions of `Eval`: `TypeOKThm`, `ActsNestedThm`, `AccessNarrowsThm`,
`CallersKeptThm`, and `FrameStackThm`, that `Eval` implements `CallStack`. The
code need not be balanced.

The inductive invariant is `TypeOK /\ ActsNested /\ ItemsOK /\ CFuncsOK`.
`ItemsOK`, a script frame has as many variables as its function declares, is
needed because `ASSIGN` and `ITER` write to a variable by number; `CFuncsOK`, an
activation in a C function remembers that function, because what a C function
returns is only typed for C functions; `ActsNested` gives a running instruction
its frame, and the epilogue something to cut.

There are forty-odd actions and three things to show of each, so the argument
goes through the shape of a step (`Shape`). A step leaves the stack of
frames alone but for its top frame's position and variables, pushes a frame with
narrowed rights, pops one, pushes one with a new activation, or ends an
activation by cutting the stack at its mark. The lemmas `ShapeInv`,
`ShapeKeeps`, `ShapeNarrows` and `ShapeRefines` say what any step of those shapes
preserves; `NextGood`, one lemma per action, says that every step
has one of them and keeps the data typed.

Assumed: the constants' assumptions in `Eval`. `WellFormed` is the part of
`CodeAssumption` the compiler must provide: variables inside the frame, jumps
inside the code, at least as many variables as parameters, code in every script
function (`Compile` adds a `PUSH` to each), and a `TYPECAST` right after the `PUSH` of its
type, with no jump to between them. `HalfAssumption` says that the error codes fit in a
number.

`OperandProofs` proves about `Eval`, under the same assumptions, `NoUnderflowThm`,
`OperandsMatchThm` and `CleanReturnThm`: what holds of the operands of balanced code.
An errant function must not eat what its callers keep on the data stack, and what it
may do to them depends on all the frames and activations under it, so an invariant
about the running frame is not enough. `OperandInv` speaks of all of them at once.

- `Enough` holds always, through errors, yields and leftovers, as inequalities. For the
  frames of one activation, each frame's `top` leaves the frame under it, with the result
  that is to come, at least what its code needs (`Stacked`); an activation that waits for
  another will find what its frame needs when its conversion or C function is done
  (`Waiting`); the one that runs has it now (`Running`). Errors only add: the code that
  `RaiseError` pushes is one more, never one less, which is why instructions that run on
  after an error (their loop does not look at `state`) still find their operands.
- `Just` holds until the first error or yield, as equations: each frame has the depth that
  `Depth` gives for its instruction (`Called`, `Entered`, `Going`), the first begins at 0,
  and when nothing is called both stacks are empty.
- `Typed`: a frame that is at a `TYPECAST` has its type on top. `Blamed`: while a call
  is under way the state leaves `RUNNING` only after an error or a yield. `Sound`: what `NoUnderflow` and `CleanReturn`
  say of `crashed` and `result`.

`Enough` and `Just` are about three values, the frames, the number of operands and the
activations, and are preserved by what a step may do to them: take x operands and leave
y (`WorkHolds`), go on in a conversion (`BackHolds`), begin an activation (`EnterHolds`),
call from the data stack (`CallHolds`), pop a frame (`ReturnHolds`), end an activation by
its epilogue or a yield (`FinishHolds`, `YieldHolds`). The second half of the module has
one lemma per action that says which of these it is; for an instruction that stays in
its frame it is the first, with the numbers `Needs` and `Leaves` of `Bytecode`.

`ArrayProofs` proves, for any values, equality, indexes, chunks and number of
elements and iterators: `ArrayTypeOKThm`, `OverrunByZeroThm`, `OnlyForwardThm`, `NoneMissedThm`,
and `IsListThm`, that `ArrayList` implements `List`. The inductive invariant adds to the
type that the values fit in the allocation, that marks grow along the list
(`Ordered`), and that all that is ahead of an iterator is younger than what it has
given (`Ahead`): `remove` closes gaps and so keeps the order, and `append` adds
a mark above all others. `AppendShape` says what an append does without the
allocation, `NearestAt` that clamping finds the nearest element. `NoneMissedThm` needs
`Allowed`: not only the elements missed but also the places an iterator is past and where
there is no element are at most as many as were removed behind it, since after removals the
index may be past the last element and the next append puts one behind it.

`LoaderProofs` proves, for any texts, types and functions of the System, and
methods that scripts add: `LoaderTypeOKThm`, `MethodsKeptThm`, `IsSymbolsThm`, that
`Loader` implements `Symbols`, and `MisreadOnlyAfterOpenThm`. The inductive invariant says, besides types (`LogOK`, `ReadOK`), that the line of a type
begins with it and that all it reaches has its own line inside it (`TypesOK`), that every
function a public name means has been read (`NamesOK`), that of the methods the file
will add no type above theirs has one that is not the file's (`Fresh`, which `Create` has
checked and `MethodsKept` needs in `ExtendType`), and how far the load is (`Progress`):
`public` is `before` outside the publishing pass and, during it, what the functions so
far make of `before`; and what names in bodies were bound to is the file's own or was
found in `before`.
`Progress` is what makes the many steps one: the last `Publicize` leaves exactly the
table that the step of `Symbols` makes at once, and every earlier failure leaves
`before`.

`MisreadOnlyAfterOpenThm` needs a second invariant, `ReadInv`. As long as no text has
ended inside a comment or a string (`Clean`), the scanner is in `INITIAL` between loads,
and within one the start condition, what has been collected and the file's types are those
of `Reading` after as many pieces (`AtPiece`): each action of the scanner and the grammar
does what `Reads` does with the piece (`WithinReads`, `BeginCommentReads`, `TokensReads`). That a
new load begins with no type of its own although refused loads have left theirs in
`types` is `TypesKnown`.

`CompilerProofs` proves, for every tree the grammar can build and any
`block_chunk`: `TypeOKThm`, `JumpsLandThm`, `VariablesExistThm`,
`NothingCarriedThm`, `LinesRightThm`, and `OverrunBySmallChunkThm`. `Nodes` is any
set of trees with the number of lists their types have, and `Transform` any
function that gives such trees, so nothing is assumed of the optimizer but that. A hole is a jump whose
distance is still 0. The invariant says:

- `BodyInv`: the words of the function so far are right but for the holes, and
  each hole is in `returns`, in the breaks of an open block, or a position of an
  activation of `CompileNode` that is inside an open structure, one with a `Land` to do and
  its `Jump` done. There are as many open blocks as activations inside a loop.
- `Between`, `Results`: between functions all three are empty, and the finished
  functions have no holes.
- `Room`: with a `block_chunk` of 2 the words fit in the buffer.
- `Recorded`: the table of lines accounts for the words up to `last_op`, and those
  after it were added at `last_line`.

Every action does one task of the plan on top of `work`, so what is needed of plans is said
once, in `GoodTodo`: each `Jump` has its `Land` after it and no other for the same
position, each `PushBlock` its `PopBlock`, `Again` is between them, and the words of
the tasks left name variables that exist. The first half of the module shows
`PlanGood`, that every `Plan` is like this, one lemma per group of node types. The second has
one lemma per action, and the theorems follow from the invariant when the last activation is done: no
activation is inside anything, so no block is open, and the holes left are the
returns, which `Finish` patches.

`StringsProofs` proves all the properties of `Strings`, for any characters, literals,
arguments, numbers and sizes: `StringsTypeOKThm`, `LiteralAsWrittenThm`,
`PiecesOfTextThm`, `SubstrAsAskedThm`, `CrashOnlyByOverlapThm` and `RoundTripThm`. The
invariant of the types, `StringsInv`, adds that no string is longer than `MaxLen` and
that a program that has ended scans nothing. What each method gives comes from its
rounds, which are functions on the naturals up to a length.

- The search of `split`: after the round at each place, `Placed` says that the next piece
  begins at the start or where a match ends, so that a match before it overlaps that one
  (`TwoMatches`), and the separator itself; `Covered` says that the pieces with a separator
  after each are the text so far, in any case (`Alike`), and that there is no match in
  a piece nor behind the last. A match inside a piece would have been one of the text
  (`MatchInPart`).
- A literal: `LiteralInv` says that the scanner is at a place `p` of it that is not
  inside an escape, and that the buffer has what the part before `p` means as far as there
  is room. That the pattern `\\.` finds an escape exactly where `Escapes` has one needs the
  number of backslashes in a row (`Run`): where no escape begins it is even (`EscapeBegins`).
- `toString` and `toInt`: the digits of `m` are those of `m \div 10` and one more
  (`OneMoreDigit`), so by induction on `m` they say `m` (`DigitsSay`).

`AddTo` grows the buffer word by word and `SpansTo` adds up the table, both as
recursive functions on naturals. `SeqFacts` proves that such functions exist
(`FoldExists`) and the inductions they need (`NatSetInduction`) from the fact that a set of
naturals has a least element, since the library's theorems for both take an operator
as a parameter.

Assumed: `NodesAssumption`, `FilesAssumption` and `TransformAssumption` of `Compiler`,
which the grammar's rules, the scanner's line count and the optimizer provide; `TextsAssumption`,
`SystemAssumption` and `ReadAssumption` of `Loader`, the last of which only says what the
fields of a text mean; `StringsAssumption` and `NumbersAssumption` of `Strings`: the
characters the code names are characters, `tolower` and `toupper` make no character 0, and
strings, numbers as text included, are shorter than an `int` can say.

Not proved, and left to TLC:

- `InvokeReturns` and `LoadReturns`: liveness.
- `CodeBalanced`, `CodeMeansBody`, `RefusedForFault` of `MCCompiler`: they rest on
  `Optimize`, `Depths` and `Meaning`, which are recursive over the tree.
## Plan

Modelled, checked and proved: `CallStack`, `Eval`, `ArrayList` with `List`, `Loader`
with `Symbols`, `Compiler` with the code buffer, `Strings`; modelled and checked: `Optimize`
against `Meaning`. What is left:

1. `Loader` composed with the compiler's `done` and `failed` in place of
   `CompileBody`'s choice, and with `Eval`, so that its types decide which method a
   call finds.

## Not modelled

Printing, the embedding program's options and exit status, the Boehm collector, the
bison grammar, structs, which are maps from members to values with two empty hooks.
`SXP_COPY` nodes, which nothing builds. `String::GetIndex` and `String::Has`, which
no instruction calls: `INDEX` and `IN` take arrays only. The queries `length`,
`Equal`, `Compare` and `True` of strings. Number literals past an `int`, and the
folded quotient of the least `int` by -1, both undefined behaviour. The parser's
recovery from a syntax error: such a load publishes nothing whatever is read after
it. Types and globals that the host adds after the first load. Growth of script
recursion is not bounded by the engine and not by the model. Liveness is checked and
not proved.

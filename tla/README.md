# A verification of stey_compiler1

The repository is a compiler for SysY, a C subset with `int`, `float`, arrays, functions,
`if`, `while`, `break`, `continue` and `return`. It lexes and parses a file, builds an
abstract syntax tree, lowers it to *lightir* (an LLVM-like IR), runs passes over the IR and
prints it as LLVM text; a code generator for LoongArch assembly is begun and unfinished.

The program is sequential: one thread, no persistent state, no messages. What is hard in it
is not interleaving but **long chains of dependent mutation**: graphs that are kept twice and
must agree (operands and uses, successors and predecessors), visitors that communicate
through global stacks and flags, worklists and fixed points that must end and end with the
right answer, and passes that rely on what an earlier stage left behind. The models are
built around these.

Paths below are relative to the source tree: `lightir/Value.cpp` is `src/src/lightir/Value.cpp`,
`lightir/User.hpp` is `src/include/lightir/User.hpp`.

## 1. Inventory

| Component | State it keeps | Operations | Talks to | Hard behaviour | Correct when |
|---|---|---|---|---|---|
| Use-def graph: `lightir/Value`, `lightir/User` | `use_list_` of every value, `operands_` of every user | `add_operand`, `set_operand`, `remove_all_operands`, `remove_operand`, `replace_all_use_with`, `replace_use_with_if`, destructors | every instruction, every pass | the two sides are changed by different loops; objects die in any order | each operand slot is recorded exactly once, nothing points to a dead object, replacing ends and is complete |
| Blocks, instructions, functions: `lightir/BasicBlock`, `Instruction`, `Function` | instruction list, `pre_bbs_`, `succ_bbs_` | `add_instruction`, terminator constructors, `is_terminated` | builder, passes | the assertion on a terminated block; edges are lists, so a block may be there twice | every block ends in one terminator, edges match terminators |
| Types and constants: `lightir/Type`, `Constant`, `Module`, `GlobalVariable` | interning tables | `get` | all | one object per type or constant is what makes comparing pointers sound | equal keys give equal pointers |
| AST: `common/ast`, from `common/syntax_tree` | tree | constructors flatten left-recursive lists | parser, builder | order of list elements | same elements, source order |
| Symbol table: `SysY/SysY_builder.hpp` class `Scope` | four stacks of maps: variables, functions, array dimensions, constant initialisers | `enter`, `exit`, `push*`, `find*` | builder | four look-ups have to mean the same declaration | every look-up is lexical |
| Statement lowering: `SysY/SysY_builder.cpp` | insert block, `true_stack`, `false_stack`, `loop_stack`, the blocks so far | one `visit` per statement and logical operator | AST, blocks, scope | `break`, `continue`, `return` in the middle of anything; empty and dead blocks; short circuits inside conditions | every block terminated once, nothing appended after, the blocks do what the statements say |
| Declarations and initialisers: same file | `init_val_map`, `cur_depth`, `cur_pos`, `array_sizes`, ... (globals) | `visit(ASTConstDef)`, `visit(ASTVarDef)`, `visit(ASTConstInitVal)`, `visit(ASTInitVal)` | scope, types | a cursor over nested lists; globals that survive from one declaration to the next | element *i* gets the initialiser C gives it |
| Expressions: same file | `val`, `need_lvalue`, `is_const_exp` (globals) | `visit` of each operator, left value, call | types, instructions | `i1`, `i32` and `float` operands meet; folding | each instruction gets operands of the types it asserts |
| Dominators: `passes/Dominators` | post-order numbers, `idom_`, `dom_frontier_`, `dom_tree_succ_blocks_` | `run` | Mem2Reg | fixed point on any graph; blocks nothing reaches | what paths in the graph define |
| Mem2Reg: `passes/Mem2Reg` | `val_stack`, `phi2val`, the IR | `generate_phi`, `rename` | Dominators, use-def graph | recursion over the dominator tree with shared stacks; phis filled before they are renamed | the promoted function does what the original does; SSA |
| Purity: `passes/FuncInfo` | `is_pure`, `worklist` | `run` | DeadCode | impurity through chains and cycles of calls | pure exactly without effects |
| Dead code: `passes/DeadCode` | `marked`, `work_list` | `run` | FuncInfo, use-def graph | cycles of phis; bulk deletion | nothing needed is deleted, nothing dead is left |
| Pass manager: `passes/PassManager.hpp` | list of passes | `add_pass`, `run` | driver, passes | each pass relies on the one before | passes run once, in order |
| Stack frame and code generator: `codegen/` | `offset_map`, `frame_size`, output list | `allocate`, `gen_prologue`, `load_*`, `store_*`, `gen_*` | IR | alignment, wide immediates, two classes of arguments; most `gen_*` throw "not implemented" | slots do not overlap, immediates are exact, what is emitted does what the IR says |
| IR printer, builder, driver, logging | none that lasts | formatting, option parsing | all | — | — |
| Lexer, parser: `parser/` | flex/bison tables, syntax tree | `parse` | AST | `yyparse`'s result is ignored | — |
| Runtime: `io/sylib.c` | timers | `getint`, ..., `_sysy_starttime`, ... | compiled program | index and carry of timers | — |

`GVN` is declarations without bodies, `common/ast1.cpp` is not compiled, `parser/lexer.c` and
`parser/parser.c` are small drivers of the generated code.

How they interact: `SysY.cpp` (main) calls `parse`, constructs the `AST`, lets `SysYBuilder`
visit it, and if `-mem2reg` is given registers Mem2Reg and DeadCode with the pass manager and
runs it, then prints. Mem2Reg constructs and runs Dominators itself, DeadCode FuncInfo. All
stages share one `Module` and mutate it in place, through the use-def graph.

The concrete hazards, each at its line and with the properties that cover it, are in
`PROJECT.json` under `hazards`.

## 2. Plan

Order: from what everything rests on to what users see.

1. **UseDef** — the graph all passes mutate. Proved for all sizes. *Done.*
2. **Dominators**, then **Mem2Reg** with it — the most intricate pass, against an execution of
   the original. *Done.*
3. **Lowering** — control flow of the front end, against an interpreter of the statements. *Done.*
4. **Pipeline** — Lowering composed with Dominators: does the analysis accept every function
   the builder can produce? *Done; it does not.*
5. **FuncInfo**, **DeadCode** — composed, against a closure definition of effects and needs. *Done.*
6. **Scope** — against lexical scoping. *Done.*
7. **ArrayInit** — declarations and their initialisers, against the language definition. *Done.*
8. **ExprTypes** — operators, conversions, folding, left values and calls, against C. *Done.*
9. **Ast** — the parser's tree turned into the AST, against the text of the program. *Done.*
10. **Frame**, **CodeGen** — the stack frame, and the code emitted for what is implemented, shown
   to implement **IRMachine**, the meaning of the IR. *Done.*
11. **CodeGenProofs** — the frame is laid out without overlap, every immediate fits, generation
   stops where it has to, and the machine code implements the IR, for all functions and widths.
   *Done.*
12. **LoweringProofs** — every block is filled once, the stacks follow the visits, and the blocks
   do what the statements say, for all function bodies. *Done.*
13. **ScopeProofs** — look-ups are lexical, for all programs. *Done.*
14. **DeadCodeProofs** — purity is exact and elimination removes what is not needed and nothing
   else, for all modules. *Done.*
15. **DominatorsProofs** — the fixed point is the immediate dominator relation, idoms only climb, and
   the frontiers are exact, for all graphs. *Done.*
16. **Mem2RegProofs** — stacks, phis and SSA form of promotion, and that the promoted function does
   what the original does, for all functions. *Done.*
17. **PipelineProofs** — the analysis gives up only on bodies with an `if` of which both branches
   jump, for all function bodies. *Done.*

Composition: Mem2Reg instantiates Dominators, DeadCode extends FuncInfo, Pipeline extends
Lowering and instantiates Dominators, CodeGen extends Frame and instantiates IRMachine. The abstract specifications are, per component: sets of
paths for Dominators, the original program for Mem2Reg, a structured interpreter for
Lowering, the closure of effects and needs for FuncInfo and DeadCode, the list of declarations
in force for Scope, the text of the program for Ast, the row-major rule of the language definition for ArrayInit, the meaning of
an expression in C for ExprTypes, the machine of the IR for CodeGen. The last is a module of its
own, which CodeGen implements step by step under a refinement mapping; the others are stated inside
the modules, beside the state they constrain, because each needs the program that the run chose at
its start.

## 3. Modules and code

**UseDef** (`lightir/Value.cpp`, `User.cpp`). `alive` is the set of constructed objects,
`operands` the vector of each user, `uses` the use list of each value as a bag of
`Use(user, number)`, `rep` the replacement that is running. Every operation is an action;
`replace_all_use_with` is a loop and so one action per turn (`ReplaceOne`), because each turn
calls `set_operand`, which edits the list being walked. The destructors are `Destroy` (what
`~User` does) followed by the same loop towards `nullptr`.

**Dominators** (`passes/Dominators.cpp`). `pc` is the phase of `run`: the recursive post-order
walk is `stack` and `VisitSucc`/`VisitDone`; one sweep of the fixed point is a pass of `todo`
with `IdomBlock` per block and `IdomSweepDone` at its end; `FrontierBlock` and `CreateTree`
follow. `Runners` returns what the `while` of the frontier collects, or that it ran into
`get_idom(nullptr)`, where `idom_.at` throws (`pc = "throw"`). The graph is a sequence of
successors per block, so both edges of a branch count. The model looks through only the
predecessors that `create_idom` has given a dominator (`Processed`), as the tests of `get_idom` do.

**Mem2Reg** (`passes/Mem2Reg.cpp`, `PhiInst::print`). The analysis is `INSTANCE Dominators`.
`GeneratePhi` is one action over all variables (it mutates only phis); `rename` is the stack
of activations `frames`, each with its block, the next instruction and the dominator-tree
children left, and one action per instruction. `PhisOf`, `opnd` and `phiArgs` are the IR
being rewritten, `valStack` is `val_stack`. After `rename(entry)` the run continues with an
execution of both functions in step, one instruction per step, along every path.

**Lowering** (`SysY/SysY_builder.cpp`, `BasicBlock.cpp`, `BranchInst`). The recursion of the
visitor is `work`; one action is the stretch of a `visit` between two recursive calls, so that
what happens to `insert`, `trueStack`, `falseStack` and `loopStack` during the calls is
there. `asserts` is the assertion of `add_instruction`. A finished function is executed along
with an interpreter of the statements (`cont`). The statements that may occur are the constant
`Stmts`, those in a loop and those in none; `SyntaxAssumption` says that each has the form the AST
gives it, with parts that occur too. A condition has operands, and `break` and `continue` stand in a
loop: outside of one the builder would take the back of an empty `loop_stack`, and the language
does not allow it.

**Pipeline** is the compiler with and without `-mem2reg`: it lowers a function (Lowering), and
either runs it or hands its blocks to Dominators, which is what the pass does first.

**FuncInfo**, **DeadCode** (`passes/FuncInfo.cpp`, `DeadCode.cpp`). A module is a list of
functions, a function a list of instructions; `alive` are those not erased. `TrivialMark` is
one function, `Process` one element of the worklist (whose callers come in any order: the
code takes them in `use_list_` order), `MarkFunction`, `MarkIns`, `Sweep` one call each. The
critical instructions of a function enter the worklist in any order too. The reference
definitions are least sets: `Reached` is what every set closed under calls has, `Needed` what every
set has that contains the effects (`Vital`) and is closed under operands. `IsModule` says what a
module of the IR is: operands and callees are there, a store has a value and an address, every
instruction says whether it is a pointer. `FirstAddr` is `get_first_addr` with its fallback through
the first pointer operand, which no address that SysY computes needs.

**Scope** (`SysY_builder.hpp`, `ASTFuncDef`, `ASTBlock`). `vars_`, `funcs`, `params`, `consts` are
the four stacks of maps. A function definition enters its name in the global scope
(`DefineFunction`) and its parameters one by one in a scope of their own (`DeclareParameter`), in
which the body opens a third one; `FinishFunction` leaves both. `env` is the source's view, kept
beside them: the set of declarations in force, each with its depth and its place in the order.

**ArrayInit** (`ASTConstDef`, `ASTVarDef`, `ASTConstInitVal`, `ASTInitVal`). A program is a
sequence of declarations, an initialiser the sequence of its tokens, which is the order the
tree is visited in. `initMap`, `initVal`, `curPos`, `curDepth`, `sizes` are `init_val_map`,
`init_val`, `cur_pos`, `cur_depth`, `array_sizes`: globals that survive a declaration. `open` is
the recursion (each activation's `cur_start_pos`). `Elements` is the language's rule. A constant
that is the `!` of an int (token `not`) stays an i1, which no branch of the visit makes an i32;
`Create` ends in the phase `assert` where the assertion of `StoreInst` fails, for such an element or
for a leftover of another type.

**ExprTypes** (the visits of operators, left values, calls, assignment, return). `work` is the
recursion, `vals` what its activations keep in local variables with `context.cur_val` on top. A
value carries its type, whether the builder has a constant for it, and the number it has at run
time, which instructions compute eagerly: two runs of one model, the folding compiler and the
compiled program, next to the meaning of the tree. A left value may name a parameter, whose elements
are those the caller passed (`Base`) and whose sizes begin with the bound 1 that the builder puts
in front (`Dims`). Floats are counted in halves and rounded alike
by both; of the ints only the quotient of the smallest by -1 overflows (`NoQuotient`). The branches of `&&` and `||` are Lowering's, here they are the list
of `tests`.

**Ast** (`common/ast.cpp`, `syntax_tree.c`). `transform_node_iter` is a chain of `if`s over the
names of nodes; here each of them is an operator from a node of the parser's tree to a record of
the AST (`Transform` is the chain); the parser before it is the root that each reduction of
`CompUnit` replaces, until the file ends or a syntax error (`Broken`) does it. The eleven copies of the list loop are `Elements`, whose
parameters are what the copies differ in. The outermost list, of declarations, is walked by actions.
The three ways to fail are kept apart from the results: `Failures` lists the nodes at which the
recursion stops, in the order it meets them. `Text` spells an AST out again, going where `accept`
goes. How `stof` rounds is left out, and which characters a literal is spelled with: a literal is
its digits, and what the language says it means. The tokens that fill the 30 bytes of a node's name,
identifiers and literals alike, are the set `LongTokens`: where `strncpy` leaves out the terminator, what
reads the name (`std::string`, `stoi`, `stof`) is undefined, and the model goes no further.

**Frame**, **CodeGen**, **IRMachine** (`codegen/CodeGen.cpp`, `CodeGenUtil.hpp`, `Register.hpp`,
`Type::get_size`). `AllocateNext` is one turn of the loops of `allocate`, with unsigned offsets that
wrap; `need` is the offset without the wrap, a history variable. `SaveRegisters` and `StoreArg` are
the prologue, `Gen...` one instruction of the loop in `run`, `Throw` those that are not implemented
(a conditional `br` is one of them). The operators between them return the sequences that
`load_large_int32`, `load_to_greg`, `store_from_greg` and the others append. Then the LoongArch
machine runs `output`: `regs`, `mem` (a cell holds a value, the place of the byte in it and the
size it was stored with, so a value overwritten in part is lost), `mpc`. The machine and IRMachine
are external: they are written from what the instructions mean. The words are 10 bits wide where the
code has 32, and immediates 6 and 4 where it has 12 and 20, so that frames of a few slots reach
the boundaries; the relations between the widths are kept (`WidthAssumption`), and 64 bits are
two words. `CodeAssumption` says what the builder guarantees of a function: it has a return, and
arithmetic is on `int` operands that are constants of a word, globals or values with a slot.

A definition that begins with "Fault:" in its comment is a plausible bug; no specification
uses it. `PROJECT.json` pairs each property with a fault that breaks it.

## 4. Runs

| Run | Bounds | Why they are enough | Shows |
|---|---|---|---|
| `ast` | 788 files: every production, lists of up to three elements, chains of up to three operators, statements in statements, literals at and beyond the limit, identifiers and literals (in range and out of it) of 30 bytes and one of 29, calls named like nonterminals; files of up to three declarations with a syntax error anywhere among them, and without any | the first, a middle and the last element of each kind of list; each operand and each index once in a place of its own | the AST is the program as read, no element, operand, index, branch or initialiser lost or moved; exactly the programs named fail; after a syntax error the declarations before it are what is compiled |
| `usedef` | two users, two other values, two operands each | self-use, mutual use, the same value twice, two users of one value; destruction and reuse of the address | the two sides agree at every step, also inside loops; nothing dangles; replacing is complete and ends |
| `dominators` | all 10 000 graphs of 4 blocks with up to two distinct successors | contains the smallest irreducible graphs, nested loops, dead predecessors, joins of two and three | idoms and frontiers are what paths define, idoms only climb; an exception exactly with a dead predecessor at a live join; ends |
| `mem2reg` | five shapes of 5 blocks (if/else, while, while with break, early return, nested if), two variables plus a three-variable swap in a loop, 2251 programs | a join, a loop-carried phi, a phi that needs a phi, the lost-copy and swap shapes, variables never stored | same output on every path; SSA; stack discipline; empty stack only for uninitialised reads |
| `lowering` | 1286 bodies, statements nested two deep (three with blocks), all seven shapes of conditions with up to three operands | every pair of an outer and an inner construct, with jumps in each place | no insertion after a terminator, all blocks terminated, stacks matched; without `-mem2reg` the blocks behave as the statements; with it, the analysis throws only if both branches of an `if` jump |
| `deadcode` | modules of a library function, two functions from a dozen bodies, main from about twenty | chains of calls two long, recursion, self-recursion, array parameters, phi cycles | purity is exact, sweeping removes what is dead and only that |
| `exprtypes` | 14 506 statements: assignments, returns, conditions and calls for their effect over expressions two operators deep (all operators, 7 kinds of leaves), conditions of up to three operands, elements of arrays and array parameters with indices that hold elements and calls, calls with one or two arguments | each operator with each pair of int and float, constant and variable, element and call; folding of what was folded; a left value in the index of one whose address is wanted; rows and parameters passed on; the smallest `int` divided by -1 and by others | what is no folded test used as a value, no constant element of a float array and no constant division by zero, or of the smallest `int` by -1, compiles, and means what it means in C |
| `scope` | two names, functions with any parameters, two blocks inside a body (depth 5), six declarations: 833 697 states | shadowing twice, with each kind by each kind; a parameter named like its function, a local like a parameter; several functions | look-ups are lexical |
| `scope_shadow` | the same | | **violation**: `find_const` looks through an inner array that is not constant |
| `arrayinit` | all legal initialisers of up to 8 tokens for arrays 2, 3, 2×2, 3×2 and 2×2×2, global and local, constant and not, `int` and `float`, each after one of seven other declarations; triples of those seven; those of up to 6 tokens also with a folded `!` | rows given by lists, without braces and mixed; short, empty and full rows; a nested list in a nested list; each kind of leftover in the globals | globals, folded constants and local variables are initialised as the language says; a folded `!` of an `int` keeps the type `i1`, and the compiler stops where it would be stored |
| `arrayinit_const` | the same | | **violation**: a local constant array may be stored with a leftover |
| `codegen` | 679 functions, each with two inputs: three instructions on constants of either form, arguments and each other; up to ten arguments of both classes; jumps; frames from 32 bytes to too large for an `int` | operands on both sides of the short immediate, slots on both sides of it in every kind of access, the smallest and the largest int; the ninth argument of a class; an area below a slot | slots and areas overlap nothing, immediates fit, the caller's registers and memory survive, the machine implements the IR; generation stops where it has to, and passes over `srem` |

Bounds are the constants of the modules (`MaxOperands`, `MaxBlocks`, `MaxInt`, `MaxDepth`,
`MaxDecls`, `MaxRound`) and the sets of programs in the `MC` modules.

**Fairness.** The compiler is one thread that never waits for anything, so weak fairness of the
step of a pass (of the loop it is in, for UseDef) is what running means. The execution that
follows Mem2Reg is not fair: the program compiled may loop for ever, and only the compiler is
claimed to end. Mem2Reg, Scope, ArrayInit, ExprTypes, Ast and CodeGen state no liveness: each is a
walk over a finite tree or list, and the machine runs code that stops in the middle.

**Deadlock** is checked in all runs: a finished program stutters explicitly, so an activation
that could neither go on nor return would be reported.

## 5. Findings

* `scope_shadow`: `const int a[2] = {1, 2}; int main() { int a[2] = {3, 4}; return a[0]; }` —
  `find_const` finds the outer initialiser and the element is folded from it.
* `arrayinit_const`: in a function, `int x = y; const int b[2] = {};` stores x's value into `b[0]`:
  `init_val_map.clear()` is commented out for constant arrays. Reads with constant indices are
  folded from the initialiser and see 0; the others see the value.
* `exprtypes`: the builder folds `1 < 2` to `CONST_INT` of a `bool`, an `i1` constant, but
  extends an unfolded comparison to `i32`. `if (1 < 2 == x)`, `if (!7 / x)` and
  `if (x && 1 < 2 && y)` stop the compiler in an assertion (`Instruction.cpp:30` and `:76`).
  `FailsOnlyOnConstants` says these are the only ones, and that the other two ways to fail are an
  element of a constant `float` array read with constant indices (`dynamic_cast<ConstantInt *>` of
  it is `nullptr`) and a division of constant `int`s by zero, or of the smallest `int` by -1, which
  the compiler does itself. No other operation of the model overflows: its numbers stay far from
  `MinInt` but where it is written. `SameValue` leaves such tests out because those that do compile
  may mean something else: `sitofp` of the `i1` 1 is -1, and a folded `!` of a float is a float.
  In a declaration, `int a[1] = {!0};` stops the compiler in a function and not outside of one
  (`Instruction.cpp:268`; the run `arrayinit`).

* `codegen`: the switch over instructions has no case for `srem` and no default, so that `a % b`
  emits nothing and the value is whatever its slot holds, while everything else that is not
  implemented throws. `StopsAtFirstTodo` says that it is the only such instruction;
  `ImplementsIR` claims nothing of functions with one. (No assembly reaches a user yet: every
  function has a `ret`, which throws.)
* `ast`: the result of `yyparse` is dropped, so after a syntax error the declarations before it
  are compiled and the exit status is 0. A file without any leaves `root` what `malloc` returned: the
  check for an empty input tree (`ast.cpp:21`) looks at the tree, which is never null.

More disagreements that have no run of their own.

* `if (a) { if (b) return 1; else return 2; } x = 3;` leaves a merge block nothing branches to, which
  itself branches to a join that is reached. The frontier walk from that dead predecessor reaches
  `get_idom(nullptr)`, and `std::map::at` throws: `-mem2reg` aborts. `ThrowsOnlyOnDeadPred` says for
  which graphs (exactly), `ThrowsOnlyOnDeadMerge` which source makes them. The comment on the
  function (`Dominators.cpp:99`) claims frontiers for every block.
* A function may be called `PrimaryExp` or `UnaryOp`; it is compiled, but a call of it is taken for
  the nonterminal of that name and reads a child that is not there. An identifier or a
  literal of 30 bytes or more, such as a number padded with zeros or a long decimal fraction, is cut off by
  `strncpy` (`syntax_tree.c:10`) and read past the end of its array, and a shorter literal that is out of
  range ends the compiler with an exception (`-2147483648` has one). `FailsExactlyOnUnreadable` says
  that, in a file that has a declaration before its first syntax error, nothing else fails.
* The class comment of FuncInfo (`FuncInfo.hpp:11`) makes only writes impure, the code reads of
  globals too; it is conservative, not wrong, and the model says what the code does (`Effects`).
* `remove_operand` renames the use of operand `idx + 1` before
it removes that of `idx` and loses both if the two are the same value; nothing calls it, and
UseDef leaves it out.
* The timers of `io/sylib.c` add up seconds and minutes modulo 60 at the end without carrying, so
  `TOTAL` loses minutes and hours when two sections take 40 seconds each, and `_sysy_idx` is not
  checked against the 1024 entries.
* The assembler directives reserve `.space` for a global and drop its initial value.

## 6. Proofs

`UseDefProofs` proves, for every set of values and users and every bound on the operands:

* `UseDefTypeCorrect`: `[]TypeOK`; `UseListsAreExact`: `[]UseListExact`;
  `OperandsNeverDangle`: `[]NoDangling`; `ReplacementIsComplete`: the action property
  `ReplaceComplete`.

The argument is one inductive invariant,
`IInv == TypeOK /\ UseListExact /\ NoDangling /\ ReplaceState`. None of the three checked
invariants is inductive alone: `remove_use` drops *every* equal node, so exactness needs that
there was at most one; `NoDangling` needs exactness, because an object is found to be unused
by looking at its own use list; and exactness after reconstruction at an old address needs
`NoDangling`. `ReplaceState` says what is true between the turns of the replacement loop: the
target is alive (or `nullptr` in a destructor), and a user in destruction has no operands. There is one lemma per action, and lemmas for the two helpers
they share (`SetOperandExact`, `UsesWithoutExact`). The assumptions are the three of `UseDef`:
users are values, `nullptr` is not one, the bound is a natural number.

`CodeGenProofs` first proves, for every set of functions and every width of an unsigned offset,
`FramesAreDisjoint`: `Spec => []SlotsDisjoint`, for the specification of `CodeGen`. The property
is about frames that fit in half the range (`Fits`), but the code never tests that: it keeps
adding to an offset that wraps. So the invariant
`FrameInv == FrameType /\ (Fits => Packed /\ Framed)` relates the offset to `need`, the offset
without a width: as long as `need` fits they are equal (`Packed`), and since `need` never
decreases (`FrameNext`), a frame that fits in the end has fitted all along and no
earlier slot was given out at a wrapped offset. `Packed` also says that everything given out lies
between the saved registers and the offset, which is why the next slot, rounded up from there
(`UpAligned`, `AlignIsUp`, `Place`), is free. `Framed` says that the final rounding covers the
last offset. `LayoutFinal` is the case of every later action: the layout is not touched again.
The assumptions are the two of `Frame`: half the range is a multiple of the alignment, 16, and
larger than that, and functions are lists of typed values with a natural area.

It goes on from there to the instructions emitted: `OperandsFit` is
`Spec => []ImmediatesFit` and `GenerationStops` is `Spec => []StopsAtFirstTodo`. The invariant is
`CodeGenInv == FrameInv /\ GenInv`; the frame is needed for the slots to be integers. That a
constant fits after it has been split is a fact about quotients (`Divided`): a word divided by the
range of one field lies in the range of the other, because the two make up the word
(`WidthAssumption`). Pieces of code are sequences over *some* set of instructions that fit
(`Code`), which makes joining them one lemma (`CodeConcat`). `GenInv` further says that the two
counters of the prologue are the numbers of arguments of their class so far (`Counted`, by
cardinality), that everything emitted belongs to an instruction gone through (`OnlyBefore`), and
which of those have code (`Behind`); the return each function has is what keeps `at` inside the
code (`InRange`).

The rest of `CodeGenProofs` is about running what was emitted. `CallersStateIsKept` is
`Spec => []CallerKept`, and `CodeDoesWhatTheIRSays` is the refinement, `Spec => ImplementsIR`: every
step of the machine is, under the mapping of `CodeGen`, a step of `IRMachine` or none. Both follow from
`MachineInv == CodeGenInv /\ LaidInv /\ RunInv` (`MachineInvariant`):

* `LaidInv` says what the output *is*, not only that its fields fit. It is made of pieces: the
  prologue's four or eight instructions, the store of each argument, the code of each
  instruction gone through. `Laid` gives each place in the output its piece and its step in
  the piece: the first place is the first step of the first piece that is not empty, the next place
  is the next step or the first of the next such piece, and the last is a last step.
* `RunInv` says where the machine is. Until generation has ended it is as it was entered. From then
  on `Position` holds: at step k of piece p, `InStep` gives the registers and cells the steps so far
  have made. In the prologue these are the caller's $sp and $fp and what has been saved of them; between
  the stores, `Filled`, the arguments stored are in their slots and the others still in the registers
  the calling convention puts them in (`ArgsAt`); in an instruction's code (`Translating`), which part
  of an operand or of an address has been built (`Building`, `Loading`). Around all of these are
  `Machine` (globals intact, nothing written outside the frame), `Saved` and `Going`.

A piece is then shown correct once, whatever is around it. `Building` is the arithmetic: a number
split into the fields of `lu12i.w`, `ori`, `lu32i.d` and `lu52i.d` is put together again, for every
width (`WidthAssumption`). `BinaryStep` and the lemmas beside it go through the code of one
instruction, `PieceStep` through any piece, `Steps` through the whole output, where a `b` goes to the
one place its label has. A store hits no other slot because slots are disjoint, by
`FramesAreDisjoint`. For the refinement a value changes exactly at the last step of a piece, and `ip` goes on
at the same step; the pieces of the prologue are the steps before `Enter`.

The assumptions are those of `Frame`, and of `CodeGen`: `WidthAssumption` (the two fields of an address
make up a word, and the offset of the saved registers fits the shorter), `CodeAssumption` (a function
has a return; operands are constants in range, globals, or values of the instruction's type; a pointer to
a float that is no global comes behind an instruction generation stops at; labels and unconditional
branches have one operand) and `MachineAssumption` (the stack pointer on entry leaves room below it for
any frame that fits, arguments of type int are ints, what was not computed has some value). TLC evaluates them for the 679 functions of the run.

`MachineInv` itself is not evaluated by TLC: it says that there *is* an assignment of the output's
places to pieces, over a set TLC would have to enumerate. The run checks what follows from it,
`CallerKept` and `ImplementsIR`, in every state.

`LoweringProofs` is about every function body and every number of blocks:
`NothingBehindATerminator` is `Spec => []NoInsertAfterTerminator`, `NoBlockIsLeftOpen` is
`Spec => []AllBlocksTerminated` and `StacksFollowVisits` is `Spec => []StacksMatchVisits`. Neither of
the first two is inductive, since what a visit may append to is decided by visits made long
before. `BlockInv` says why it works: every block created is terminated, is the insert block, or
belongs to exactly one pending visit that will still make it the insert block (`Blocks`), and
whenever the insert block is terminated the next visit is one that looks before it appends
(`Flow`). `Turn` and `FlowTurn` show this of any step that replaces the current visit by others
sharing out its blocks and the new ones; each action is then a case of them. The invariant of the
stacks (`StackInv`) gives, for the list of pending visits from any point on, the height each
stack has there and which targets are on it; loops are counted by cardinality, and a lemma shifts the
count when visits are put in front. For these three the assumption is that there are blocks at all; a
function that needs more than `MaxBlocks` stops at the bound in the guards.

`BlocksDoWhatTheStatementsSay` is `Spec => []SameBehaviour`: along every path the finished function
runs the atoms the interpreter runs. The interpreter has only a list of what it has left to do, so the
proof is a simulation: a relation X between places of the function (a block and the number of its next
atom) and such lists. `Done` says that the next step of the two, from a place and a list that X
relates, leads to related ones again. When lowering is over, X is `Done` everywhere and relates the
entry to the whole body (`RunSim`), and execution keeps to it, loops included, without a word about
how long it runs. While lowering is under way, X is `Done` but at the open blocks (`Graph`): an open
block is promised a list (`P`), and whatever jumps there already waits for it with that list. Two
things are known of a visit before it is made, in the frame it has (`Framed`): the list its statements
begin, or the two lists its condition will choose from; the three stacks; the innermost loop and
what follows it. `Link` relates each frame to the one behind it: behind `ifElse` is the merge block
with the list behind the `if`, the target of a `continue` has the list that begins with the loop
itself, and so on. That the stacks are those of the innermost condition and loop is
what makes the targets of &&, ||, `break` and `continue` the promised ones. The graph grows in a
few ways, each a lemma: a statement's or a condition's atom is appended, a block is closed by a return, a
jump, or a branch on the atom before (`BuiltActs`, `BuiltTries`, `BuiltReturns`, `BuiltJumps`,
`BuiltBranches`), a block is added, a list is written otherwise (`BuiltOpens`, `BuiltUnfolds`). `SimTurn` carries the frames over any step that replaces the
current visit, and each action is a case of them. What an `&&` or `||` still has to decide when
its left side has been decided is calculated once, for any number of operands (`LorAt`, `LandAt`).
`SimInv`, the invariant, says that there is such a relation; TLC cannot look for it and checks
what follows from it, `SameBehaviour`, in every state. The assumptions are those of `Lowering`.

`ScopeProofs` proves `LookupsAreLexical`: `Spec => []LookupIsLexical`, for all names, nesting and
numbers of declarations. The invariant relates each stack to the declarations in force: the map at a
depth has a name exactly if there is a declaration of that kind at that depth, and holds its number
(`Agrees`), and a deeper declaration is a later one (`Ordered`), so that searching outwards from the
innermost map meets the latest declaration first. That two of one name and class cannot share a
depth is the guard of `Bind`.

`DeadCodeProofs` is about every module: `PurityIsExact`, `ImpurityIsPending`, `NoOperandErased`,
`NoEffectErased` and `OnlyNeededIsLeft` state the five invariants of the run `deadcode`. The
invariant of the analysis is that a function marked impure has an effect, one with an effect of its
own is marked, and a pure caller of an impure function has it in the worklist; when that is empty, the
pure functions are closed under calls, and `Reached` being the least closed set none of them has an
effect. That of elimination is that the marks of a function are all needed and, with those waiting,
closed under operands, so that what is erased is nobody's operand, and that a round which erased
nothing has seen every function. That the order of functions and of the critical instructions does
not matter is part of the theorem. The assumptions are what a module is (`ModulesAssumption`) and that there is a
main function.

`DominatorsProofs` is about every graph of any number of blocks, every order of successors and every
order of predecessors: `IdomIsImmediateDominator`, `FrontiersAreExact` and `ThrowsExactly` state the
three invariants of the run `dominators`. What dominates is defined by paths (`ReachAvoiding`: the
least set with the entry that no edge leaves but to the block left out), and the proof never follows
one: whatever is closed contains that set (`ReachLeast`). The invariant `DomInv` has a part for each
phase. `Walk` says what a depth-first walk keeps: the activations are a path from the entry, a
block that is left has only visited successors, and each but the entry has a predecessor that is
active or was left later. When the walk is over that is `Numbered`: the numbers tell the blocks apart
and each block has a predecessor with a larger one, so that a strict dominator always has a larger
number (`DominatorsFinishLater`, from the largest counterexample). During the iteration `Climbing`
says that `idom_` leads to larger numbers, which is why `intersect` and the frontier walk end and are
well defined (`MeetExists`, `LoopExists`, `ClimbsExists`, by induction over the numbers), and
`Sound` that every strict dominator of a block dominates its idom. A sweep that changed nothing
leaves `Fixed`: every idom lies above all predecessors. The idoms themselves then dominate
(`AboveIsDominating`), because what is not above a block is closed without it. `Scan` is the
last pass: the frontiers hold exactly what the blocks passed so far contribute, and a runner is lost
exactly at a dead predecessor (`RunnersOfLive`, `FrontierLost`).

`IdomsOnlyClimb` is the action property `IdomOnlyClimbs`, the reason the iteration ends. One half of
what it needs is `Rising`: what is above all processed predecessors of a block is above its idom
already, so the block can only be filed further up. That is not inductive. When another block climbs, all
chains through it lose what it passed, those of idoms too. `Following` is the other half: a
predecessor with a larger number still has everything in its chain that the idom has and the sweep has not
yet come to (everything, for a block the sweep has passed), because between two turns of a block only
smaller and, in the next sweep, larger blocks change. So a block that lies above the idom lies above
that predecessor, and loses for both the same. `ChainsTurned` says what an update does to
the chains: none gains a block, and up to the updated one all stay as they are. TLC finds both halves
true in all states of the run `dominators`.

The assumptions of `DominatorsProofs` are that a block list
has no block twice, that the entry is one of them, and that a terminator has at most two targets, none
the entry.

`Mem2RegProofs` is about every function: any graph, any number of variables, loads and stores, and
every order in which the children of a block are visited. `StacksMatch`, `Ssa`, `PhisComplete` and
`EmptyReadsAreUninitialised` state four invariants of the run `mem2reg`; the analysis below enters
by the theorems of `DominatorsProofs` (`Analysed`: the tree is that of the immediate dominators, the
frontiers are exact). The inductive invariant `Renaming` has these parts. `Chain`: the activations
are the dominators of the innermost one's block, in order, each but the last in its recursion. `Stacks`: the
stack of a variable is as high as the number of definitions those activations have pushed
(`Under`, counted by cardinality), and the values up to the height an activation accounts for belong
to blocks that dominate its block, which is what is left when the inner ones have returned.
`Dominance` is SSA form, kept by the replacement of a load because the new value dominates
the load and the load its uses. `Visits` says which blocks have been renamed, are active, or wait
below an active one, and `FilledPhis` that the operands of a phi come from exactly those renamed
predecessors that a definition dominates. That a missing operand can only be missing where no store
runs before, and that an empty stack is read only there, rests on the frontiers: the set of blocks a
definition dominates, joined with the phis, is closed under edges (`Covered`), and what is reached
from a store is the least closed set. Phis and reachability are stated as least closed sets in
Mem2Reg for that reason. The assumptions are those of `Dominators` and that operands refer to an
instruction that has a result.

The second part of `Mem2RegProofs` is about what the pass is for: `OutputPreserved` is `Spec => []SameOutput`, the
promoted function prints along every path what the original prints, wherever that is defined. The
definitions of a variable (`DefPoints`: its phis and stores) are ordered by `Before`, dominance of
blocks and the place within one; `Latest` is the last of those before a point, and `ValAt` the value it
stands for. The inductive invariant `Values` has a part for each place a value can be in. `Content`:
the m-th value on a stack is that of the m-th definition of the active blocks, so what a load reads on
top is the latest one's (`ReadsLatest`). `OperandsAre`: the operand of an instruction is its constant,
the result of the add before it, or, once the load before it has been passed (`Passed`), the value of
the latest definition there; `PhiValues` says the same of a phi's operand at the end of its edge's
source. These hold of moving targets, since the replacement of one load changes the values other
definitions stand for, but it changes both sides alike (`ReadValues`); `OperandsBefore`, that an
operand was computed before its use, shows that a later load never replaces what an earlier read has
been given by something newer. When the function runs (`Promotion` is what is known of it then), `Agree`
relates the two executions: a variable whose content is defined has a latest definition before the
place of the execution, and that one's value is the content. A store makes itself the latest
(`LatestStored`); any other instruction binds a value that no earlier definition has
(`NotYet`, `MemoryOn`); along an edge to a block with a phi of the variable the phi becomes the latest and reads what was
(`EdgePhi`), and along an edge to one without, the latest stays the latest, because otherwise the block
were on its frontier (`EdgeLatest`), and keeps its value, because no phi of the block is older than it
(`EdgeValue`). The assumptions are the same.

`PipelineProofs` puts the analysis behind lowering: `OnlyDeadMergesThrow` is `PipelineSpec =>
[]ThrowsOnlyOnDeadMerge`, for every function body, of any length and nesting. The analysis gives up
exactly at a dead predecessor (`ThrowsExactly`), so what has to be shown is that lowering a body with no
`if` of which both branches jump (`Clean`) leaves no terminated block that the entry does not reach.
That is not inductive: while the body is lowered, blocks that are pending in `work` or on the stacks
have no edge to them yet. The invariant is `Routed`. `Edges`: a block that is terminated, and the insert
block, is in `Reached`, the least set with the entry that is closed under edges. `Held`: the condition
and loop stacks hold blocks that may be branched to. `Excused`: there is a list of flags, one for each
pending visit, that says whether the insert block may be terminated already when that visit begins, and
each visit bears out its flags: it may leave the insert block terminated only because its statement
jumps; the merge block of an `if` is reached already, or will be by the branch that does not jump; the
end of a `while` is reached. Each handler of `Lowering` moves the flags on (`RoadsTurn` and one lemma
per handler), and where a block becomes the insert block some branch to it has just been emitted or is
known by its excuse. The flag is about the insert block rather than the statement because what follows a
jump in a block is dropped. `PipelineInvariant` joins this with the invariants of Lowering and, once
`Mem2Reg` starts, with `DomInv` of `DominatorsProofs` over the blocks lowering left; until then the
members of the pass are as they were made. Which statements jump (`Jumps`) and which hold such an `if`
(`HasDeadMerge`) are recursive functions over the set of statements. That these recursions have a
solution is shown without induction over statements: the least set closed under the rule obeys the rule
in both directions, and its characteristic function is what the recursion asks for (`JumpsRule`,
`DeadRule`). The assumptions are those of Lowering. TLC
does not evaluate `PipeInv` itself, which says that flags and sets exist that it would have to enumerate;
it checks what follows from it.

Model-checked only:

* liveness: everything under fairness (termination of replacement, of the fixed point, of lowering
  and of the passes), which the prover has no rules for;
* what a recursive definition computes, since induction over data is out of its reach: the texts
  of Ast, the values of ExprTypes and the reference initialisers of ArrayInit.

## 7. Not modelled

The lexer and the rules of the grammar (generated tables over characters; Ast starts from the trees
the grammar builds); the driver (straight-line option parsing); logging; the formatting of the
printer; GVN (no code); `ast1.cpp` (not compiled). Of the code generator what nothing reaches:
`load_to_freg`, `load_float_imm`, `gen_epilogue`; and the directives. `remove_operand`, which nothing
calls.

The runtime library is linked to the compiled program and is no part of the compiler: its
operations are single `scanf` and `printf` calls, its timers straight-line arithmetic described
under Findings. Interning of types and constants is one map look-up per key; its one hazard, that
0.0 and -0.0 are the same key, needs the sign of zero, which the models of expressions do not
have. An `alloca` in a loop takes new stack in each iteration unless Mem2Reg removes it; how
much there is of it no document says, so there is nothing to state.

Mem2Reg, DeadCode and the code generator are composed with what they use, not with each other: each
has its own choice of what an instruction is, the least its properties need. ArrayInit's programs begin each nested list where a row begins: for one
that does not (possible with three dimensions) the language's rule and the code's rounding
differ in ways the text of the definition does not settle.

# Verification of Primula

TLA+ models of [Primula](../src/README.md), a set of parsers for C and some
C++: what the preprocessor, the lexical scanner and the syntax parser do with
their state, checked with TLC on small instances and, for eight components,
proved with TLAPS for all. Paths below are relative to `src/`.

## 1. The system

Primula is a chain of sequential programs that hand files to each other:

    file.c --lexical_parser--> file.c.lexem --syntax_parser--> tree --codegen--> C or Pascal

Nothing runs concurrently and nothing is persisted between runs. What makes
the code hard is state that outlives a call: file-scope and static counters
shared by nested sections, included files and nested macro expansions;
automata of two dozen modes in which every mode handles comments, line feeds
and ends for itself; stacks that are kept in step by hand; trees built by
pointers to "the last element". The errors are long sequences of legal input
that leave one of these in a state the next line does not expect.

| Component | Source | State it keeps | Operations |
|---|---|---|---|
| Conditional inclusion | `lexical_parser/preproc.cc`, `lexic.cc` | `shadow_count`, `indirection`, `shadow_state[16]`, the list of included names, `flow->global_state` | a line of text or a directive, end of a file |
| Conditions of #if | `preproc.cc` 104-810 | static queues of operands and operators | `parse_if` |
| Macro table | `parse_define.cc` | `defintions[2048]`, `def_count` | `#define`, `#undef`, look-up |
| Macro substitution | `parse_define.cc` 123-233 | none between calls | `substitute_def_expression` |
| Macro expansion | `lexic.cc` | C stack, `recursion`, the mode, the word being read | a character, from the file or from a replacement |
| Scanner | `lexic.cc` | the mode, the word, `line_number`, `status_quo` | a character |
| Lexeme writer | `lexic.cc` 1035-1355 | `lex_queue`, `postfix_const`, `prev_lexem`, the line last written | `append_lexem` |
| Reserved words | `dictionary.cc` | the hash | `create_hash`, `find_reserved_word` |
| Restorer of lexemes | `reverse.cc` | indentation | `-REVERSE` |
| Driver, headers | `lexical_parser/main.cc`, `include/`, `check/` | options | |
| Code splitter | `syntax_parser/lexem_tree_root.cc`, `syntax.cc` | the tree, three stacks, `current_node`, `current_statement` | a lexeme, then `CodeThree` |
| Expressions | `syntax_parser/expression.cc`, `lexem.cc`, `primula.h` | `operands`, `operators`, `prev_was_operand`, one set for each bracket | a lexeme, the end |
| Nodes and types of expressions | `expression.cc` 219-1030, `ternary.cc` | the finished node | `CreateNode` |
| Namespaces and scopes | `namespace.cc`, `include/space_t.h` | the tree of spaces with their types, variables, functions, usings; `current_space` | declarations, look-up |
| Statements | `operators.cc` | where the source stands, the space of each part | one per keyword |
| Functions and overloads | `function.cc` (`defarglist.cc` is switched off) | overloads of a name | declaration, call |
| Types, structures, enumerations | `type_t.cc`, `compound_types.cc`, `typedef.cc`, `enumeration.cc` | types of a space | declarations, `CompareTypes` |
| Initialisers in braces | `brace_init.cc` | place in the type | one value or brace |
| Templates | `template.cc` | instances | instantiation |
| Generators | `codegen/restore_source_t.cc`, `codegen/Pascal/` | indentation | a walk of the tree |

How they interact. The scanner reads characters; at the end of a directive it
calls `parse_preprocessor_line`, whose return value sets the scanner's mode:
that value is the only way in which conditional inclusion reaches the text.
`#include` runs a new scanner over the file, with the same counters and table.
A word that ends is looked up in the macro table; a macro makes the scanner
call itself for each character of the replacement. Other words and operators
go to the lexeme writer, which asks the reserved words for their number. The
syntax parser reads the lexeme file, has the code splitter build statements,
brackets and blocks and join statements that belong together, and then walks
them, `ParseStatement` calling itself for blocks, bodies and parts of
statements, and the expression parser for what is no keyword's. A call that
shares its `SourcePtr` with its caller leaves the caller wherever it stopped:
that position is all the handlers of two statements agree on.

What makes them correct:

- *conditional inclusion*: text is skipped exactly when it is in a group that
  is not live, whatever sections are nested and whatever files are included;
- *macro table*: it is a dictionary, with what the code keeps on redefinition;
- *substitution and expansion*: the replacement C prescribes, and an end to
  the expansion of macros that lead back to themselves;
- *scanner*: the lexemes, directives and line numbers of C;
- *lexeme writer*: no lexeme lost though types and tags are put off;
- *reserved words*: a word is found if and only if it was entered;
- *code splitter*: the tree is the text, and its statements those of C;
- *expressions*: the tree is that of C's grammar;
- *conditions of #if*: C's value, and nothing left behind for the next one;
- *namespaces, functions, types*: a name means the innermost declaration, a
  call the overload that fits, and a list of arguments is told from others;
- *statements*: a jump leaves the loop C gives it to, and a program is
  accepted exactly when it is one of C;
- *not modelled yet*: an initialiser goes to the member it is for, and the
  restored source reads as the tree does.

Behaviours that are hard to test are listed, each at its line, under `hazards`
in `PROJECT.json`.

## 2. Modules

Every module is one component. A run may take two components that do not
touch each other side by side. `MC*` modules give constants their values and
hold the references: operators that say what C prescribes, written from C's
rules and not from the code, recursive where needed. `*_proofs` modules hold
theorems. Definitions that carry the comment *Mutant* are deliberate errors
of the kind a change could introduce; no action uses them. Each property of a
run is violated when its mutant replaces the definition it was made from.

### Conditionals, CondInclusion, Conditionals_proofs

`Conditionals` is `parse_preprocessor_line`. One step reads one line. Actions
are the directives (`If`, `Ifdef`, `Else`, `Elif`, `Endif`, `Include`,
`MissingInclude`, `Plain`, `Error`, `Unknown`), a line of text, and the end of
a file; `Return` is what `global_state_machine` does with the result, so every
directive sets the mode as well. `shadow_count`, `indirection` and
`shadow_state` are the variables of the code. A condition's value is drawn,
errors included. `entry`, `else_read`, `directive` and `passed` are history.
A header has many names: `parse_include` puts the directory of the file being
read, or one of the search path, before the text of the directive, and
`add_include_to_list` compares the results as strings. A path is a record of a
directory, the number of redundant parts (`./`) behind it, and the header.
`Quoted` and `Angled` are the paths the two forms of `#include` build; a quoted
one begins with all the parts of its file's own path, so that a header with
`#include "./h.h"` is opened inside itself as `./h.h`, `././h.h` and so on.
Slot -1 is the zeroed memory before `shadow_state`, which a stray `#else`,
`#elif` or `#endif` reads and writes. At the end of an included file
`parse_input` closes the stream and `parse_include` closes it again: the
C library may abort there, which is a choice of `EndOfFile`.

`CondInclusion` is the abstract specification: a stack of sections, each
*live*, *seeking* or *done*. `Conditionals` implements it, `CSpec`, under the
mapping that reads a section's status off its slot.

### MacroDictionary, MacroTable, MacroTable_proofs

`MacroTable` is the array of slots: `Define`, `Reject` (a `#define` refused),
`Undef`, with the first `Init` after `create_definition`. A slot keeps its
text in one buffer, so a redefinition without replacement keeps the older one,
which longer arguments may overwrite; `Clobbered` stands for what is then
there. `removed` is history, the number of `#undef`s that found their macro.
`MacroDictionary` is the abstract specification: a function from names
to macros, which `DSpec` says the table implements.

### Substitution, MacroExpansion, MacroProcessing, MacroExpansion_proofs

`Substitution` is `substitute_def_expression`: the split of arguments and, one
step per character, the copy of the replacement, with `#`, `#@` and `##` and
with words that end only at six characters. `MacroExpansion` is the recursion
of `global_state_machine`: `stack` holds the calls in progress, and one step
scans a character of the innermost replay (`Read`) or ends a replay
(`ReturnObject`, `ReturnFunction`). `recursion` is the static counter, raised
only during the *tail*, when the character behind the macro is scanned.
`MacroProcessing` sets the two side by side, for the run and the proofs:
`Substituted` of the one is the other in one step.

`MacroCalls` holds what the other modules need of a call with one parameter,
`Substituted` and `TwoArguments`.

### IfExpression, IfExpression_proofs

`parse_preprocessor_if`, one step per character, item or operator. `local_fsm`
cuts the condition into `items` and calls itself for the replacement of a
macro: `stack` holds the texts that are being read, `lbuff` and `i` the word.
Nothing counts these calls; `MaxDepth` is what C's stack holds, behind which
the program is at its end (`overflow`). `parse_local_ex` sorts the items into
`values` and `ops` by `Prio`, and `execute_expression` computes. All of these
are statics of the code and a run evaluates several conditions on them, since
`#elif` takes an error for true and goes on. A replacement with an argument is
read out of `lbuff` itself (`ReplayBuffer`), which is written at the same time.
`value_tail` says that the tail pointer of the queue of values is set: without
a head the queue then loses what is appended. A null pointer ends in `crashed`,
`throw` in `thrown`.

### Lexer, Lexer_proofs

The automaton of `global_state_machine` in all its modes. A character is a
member of a small set. `Scan` is one mode's reaction; the modes in which
directives are read and text is skipped are `Directive` and `SkipPreprocessor`,
those in which the call of a macro is read `ReadEnterDef`, `ReadArgument` and
`ReadEndOfCall`. What a macro leaves to be scanned, its replacement and the
character that ended its name, stands in `pending`, with a mark where a replay
ends (`EndObject`, `EndCall`) since the code sets the mode there: the
replacement of a macro with arguments that ends in a number or an operator
leaves the scanner with half a lexeme, the number being emitted as a word and
the operator dropped. `Ignore` is an error within a replay, which goes no
further than the innermost replay of a macro without arguments. How deep
replays nest is the business of `MacroExpansion`; here no macro leads back to
itself (`NestingAssumption`). `out`, `directives` and `line_number` are what
the rest of the program sees; `lost` remembers that the call of a macro took a
line feed or an apostrophe. Suffixes of integers are left out.

### TokenWriter, Vocabulary

`append_lexem` with its queue of type words, the deferred tag and the lines.
`Translate` is `translate_builtin_types`. The file's text is `out`, each
lexeme with the "@" line it stands under. `Vocabulary` sets it
beside the table of `ReservedWords`, for the run and the proofs of both.

### ReservedWords, ReservedWords_proofs

`create_hash` and `find_reserved_word`, one step per probe. `Hash` is a
constant: the proof holds for all hash functions, and the run gives the values
`get_hash_value` computes for the 63 words.

### CodeSplitter, CodeSplitter_proofs

`AddLexem` and `FixThree`. The lists that the code links by pointers are a
heap, `lists` for brackets and `blocks` for braces. `AddLexem` is one action
per lexeme kind; `FixThree` is a stack of calls with their local variables and
one step per statement it stands on. `undefined` is the status after what C++
gives no meaning to (`top()` of an empty stack, a pointer to an erased
statement). `FixThree` copies lexemes to another statement, pointers included,
and erases the originals, and so does the move of an `else`: `OneOwner` says
that nothing of this leaves a list or a block to two lexemes, that what a
lexeme owns was made after what the lexeme is in, so that the heap is a tree,
that while lexemes are added every list and every closed block has a lexeme
that owns it, and that a `{` has no block only while its block is open. Hence
`UndefinedExplained`, a part of `NeverUndefined`: the behaviour is undefined
after a `}` too many, in a text that ends within a block, or at an `else`
without a statement to go to, and never for another reason.

### Expressions, Expressions_proofs

`ExpressionParser`: `parsers` is the stack of parsers, one for each open
bracket, and an action reads one lexeme. `FixExpression` and
`PrepareExpression` are functions of a parser, `Take` being one turn of either
loop. Trees are records of the fields `lexem`, `left` and `right` of
`shunting_yard_t`; `name` is the text of a word. Two errors are told apart:
`thrown`, an exception nobody catches, and `undefined`, a null pointer or an
empty queue. Left out: `new`, `sizeof`, what the types of casts are, and
`CreateNode`. The module's trees and errors were compared with those of the
program itself for all 6767 expressions of the run that have more than one
lexeme, and agree in every case.

### Types, Spaces, Names, Declarations, Declarators, Statements

The syntax parser behind the code splitter, each module extending the one
before it. The first three are functions of a *unit*, the record of all that
has been built: the `spaces`, `current_space`, the `errors` reported, the
`tree` of what statements were made of, and the `status` (`run`, `done`, or
how the program aborts).

- `Types`: types, `CompareTypes` with the ways in which it gives up (`thrown`,
  and `endless` for two different structures, where it calls itself with the
  same arguments), and the mangled names of argument lists.
- `Spaces`: `SourcePtr`, which keeps the last lexeme it loaded when it runs
  over the end; look-up and registration of variables, functions, types and
  namespaces; lists of arguments; the choice of an overload.
- `Names`: what `CreateNode` does for the names, members and calls of an
  expression. The shape of an expression is the business of `Expressions`;
  here it is of the few operators that `Kind` tells apart.
- `Declarations` and `Declarators`: `ParseStatement`. `stack` holds the calls
  that are under way with the state each is in, `Reading(state)` is the test
  of the loop, and an action is one case of one state. `SelectStatement`, the
  enumerations and the typedefs are functions, as nothing else happens while
  they run; blocks, bodies, namespaces and structures are calls.
- `Statements`: `CheckOperators`, one action per keyword, with what
  `CreateStatement` makes of a part.

`tick` changes with every step, so that a step that leaves all else as it is,
as in an endless loop of the program, is a step. The exceptions named in
section 3 were seen in the program itself.

## 3. Runs

The programs are sequential: what must eventually happen is that each call
comes to its end. Two runs say so, under the assumption that a program which
can go on does (no scheduler is involved, so this is all that is needed).
`if_expression` assumes `WF_vars(Next)` and checks `Answered`: the evaluation
of a condition ends unless a condition before it failed, and it ends by using
up C's stack only if a macro leads back to itself; behind a failed condition it
may not end (`#elif defined((` and then `#elif (X` hang the program). `syntax`
assumes `Proceeds`, which is weak fairness of `Next` with "a step is enabled"
written out as "the parser runs", and checks `Parsed`; that a running parser
always has a step is the absence of deadlock, which the run checks too. In the
other runs termination is put as safety (`NoStackOverflow`, `OnlyMarksOverrun`,
the status at the end of a text). `CHECK_DEADLOCK FALSE` stands in the runs
whose programs end; `expressions` and `syntax` check deadlock.

| Run | Checks | Shows |
|---|---|---|
| `conditionals` | `Conditionals` with one header of three names and three nested sections, counts up to two; well-formed files | the counter says exactly whether text is skipped, the mode follows it, cycles of headers end by name and headers end live, `#endif` restores the counter, `CSpec` |
| `conditionals_leak` | two sections, a header in two directories | finding 1 |
| `macro_table` | six slots, two names, two lengths of argument lists, two replacements | no name twice, slots are spent by new names and by `#undef` alone, `DSpec` |
| `macro_expansion` | all texts of five characters under 21 tables of macros; beside it, all calls and bodies of three characters | the result is C's, the counter is that of the tails on the stack, tail recursion ends; arguments are split at outer commas, delimited parameters replaced, the scan passes the end only behind a mark |
| `macro_recursion` | a macro that meets itself inside its replacement | finding 2 |
| `lexer` | all texts of five to seven characters in seventeen alphabets, six of them with the names of macros | lexemes and directives of C but for the departures below; line numbers, behind macros as well |
| `lexer_skip` | comments of ten characters, skipped and not | finding 3 |
| `reserved_words` | the program's 63 words, then a crowded table of 15 slots; beside it, all rows of four tokens on two lines | all words found; a search is right in tables where words were dropped; types of C, no lexeme lost or moved |
| `code_splitter` | all texts of six of seven lexemes; 275 programs with compound statements nested twice | the tree is the text, brackets and blocks nest, no list or block has two owners, statements are those of C, no undefined step |
| `expressions` | all rows of three binary operators; all expressions of five to nine lexemes in seven alphabets | operands and operators agree, no operand is lost, the tree is C's exactly when no exception below applies |
| `if_expression` | all texts of three tokens of 13, each with another condition behind it; under five tables of macros, two of which lead back to themselves; conditions of up to three operands and ten operators, with brackets, `!`, `defined` and macros | the value is C's, a condition with a value leaves nothing to the next, evaluation ends, by overflow exactly where a condition replaces a macro that leads back to itself |
| `syntax` | 2972 programs: every statement in every other, and three deep around jumps; every declaration of a name before and behind every other, with a function that uses it; 28 single forms | jumps, names and overloads are C's, functions keep their overloads, a program is accepted exactly when C accepts it, the parser comes to an end |

Why the bounds are enough. Sections interact with the one around them and with
the file that opened them: three levels hold a section, its parent and the
file's base. Two redundant parts (`MaxParts`) let a header be open under its
first name, under a longer one within it, and under a longer one still. The
macro table distinguishes no more than "the same name", "another name" and
"shorter or longer arguments". A character's effect on the scanner depends on
the mode and at most two characters before it, and five to seven characters
lead through every mode and out of it. `RecursionLimit` (50 in the code) is 3
and `MaxDepth`, the calls the C stack holds, is 8: what matters is that the
limit is met before the depth when the counter is raised, and never when it is
not. `TokenWriter` puts off at most one type and one tag; four tokens hold a
type of two words with what precedes and follows. In the code splitter a
statement depends on the words since the last semicolon or brace, on the
statement before it, and on one pointer to the one before that. An operator in
an expression is decided by the operators pending in its bracket, and three in
a row meet all pairs of priorities with one below. The same holds in a
condition, where `AnyLength` (3) tokens reach every state of `local_fsm`, each
way for a condition to fail and what it leaves; `MaxDepth` (6) is more than a
table has macros, so that only one that leads back to itself meets it; and
`BufferSize` (256 in the code) is 10: longer than any word, so that `overrun`
is met only where lengths add up. In `syntax` a statement's handler sees its
part, the space it is in and what is behind it: a statement within one within
one is all it can depend on, and three loops are needed to tell "the innermost"
from "the next but one". A name has two declarations around it at most, since
look-up stops at the first; two overloads, before and behind each other, show
every order of choice. `MaxLeaves` (20) caps what an endless statement adds to
the tree and the errors, and is more than any of the programs makes. These are
bounds for the model checker. Only what section 4 lists is known beyond them.

### Named exceptions

Where the code departs from C, and no line of the repository says that it
should not, the property names the texts it leaves out and holds for all others.

- `Lexer`. `MCLexer` reads a text as C does: lines are put together first,
  then comments go, then lexemes are as long as possible. Where the scanner
  does otherwise is named, and each name is needed by texts of the runs.
  `SplicedCode`: a backslash and line feed outside of directives, where it
  throws or, in a comment to the end of the line, ends the comment, and in a
  directive behind a slash. `LeadingPoint`: `.0`. `SeveralCharacters`: `'ab'`,
  error -8. `TwoPoints`: `..`, error -9. `Digraph`: `<:` and the like. `Odd`: a
  comment, or a string that no lexeme follows, before a `#`. `StarAtLineEnd`: a
  line of a comment that ends in an asterisk, the next beginning with a slash.
  `BackslashInDirective` and `CommentInLiteral`: a backslash, or a string with a
  comment in it, within a directive. `StarsInSkipped`: two asterisks before the
  end of a skipped comment (finding 3). `OddInSkipped`: in skipped text a `#`
  behind something else on its line, or a `#` or a slash in a literal.
  `Replaced`: the names of macros, whose expansion `ExpansionExact` compares.
  Exponents, suffixes of integers and universal characters are in no alphabet.
  `LinesExact` is about every text, of C or not, without strings (in them and
  behind them line feeds are lost) and excepts a line feed between apostrophes
  and, by `lost`, the text behind a call that took a line feed or an
  apostrophe: the two modes that read a call do not count line feeds, so a call
  over several lines shifts every line number behind it, unless the replacement
  replays them.
- `CodeSplitter`. `Plain`: no `do` or `if ... else` as the body of a `do`, no
  `do` or `try` behind an `else` (such a `do` is left apart from its `while`,
  and the parser stops with -777313). `Fixed`: the blocks of a `catch`, which
  `FixThree` never visits.
- `Expressions`. `TreeAsInC` is an equivalence, so each exception is exact on
  the run's texts. `ChainedAssignment`: `a = b = c` is read as `(a = b) = c`.
  `PrefixBehindPrefix`: in `a = - - b` the first minus takes `a`, and `- - b`
  throws. `PostfixOfAll`: `a = b++` is read as `(a = b)++`. `LosesOperands`: a
  call of anything but a name or a member (`p[i](c)`), a call of a member
  while another operator waits (`a = s.f(b)` becomes a call), and a comma in
  brackets, behind which nothing is read. `InCondition`: a conditional or an
  assignment between `?` and `:`. `ScopedInside`: in `a * n::b + c` the sum is
  taken first. `Tilde`: `~` wants two operands.

- `IfExpression`. `ConditionExact`: not behind a macro with arguments, whose
  text is read from the buffer it shares (`#define F(p) (p)+1` makes
  `#if F(1) == 2` false); not behind a condition that failed or left a bracket
  behind `defined` open; not where a macro that leads back to itself is replaced
  (`Endless`), where C goes on and the program has no value: it overflows its
  stack, which the property then asks for; and a macro's name has a blank behind
  it, as the character that ends it is lost.
- `syntax`. The reference names what it meets in `odd`, and the properties
  are about programs without it. *Declarations*: `local variable` (a variable
  without `extern` anywhere but at the top throws), `argument types collide`
  (`int f(int, char*)` and `int f(int*, char)` have one mangled name),
  `arguments renamed` (a definition keeps the names of the first declaration),
  `declared as something else`, `member not declared`, `namespace reopened`
  (the second body is lost), `block before a namespace` (it is parsed in the
  space of the function that had the block). *Names*: `hides a function`
  (functions are found before the variables that hide them), `function
  without call`, `another overload first` (one that can be converted to,
  though an exact one exists; fewer arguments than parameters). *Statements*:
  `loop without a block` (a `while` or `do` whose body is no block has no
  space, so a `break` leaves the loop around it), `not expected as a part`
  (an empty statement or a label), `else behind a block` and `while behind a
  block` (for, switch, try or if/else in front of it), `joined in a handler`,
  `return in a handler` (judged as in a void function), `label is a name`.
  `raw`: seven single forms, kept so that their steps are taken, that the
  parser refuses or crashes on and C does not, or the reverse.

### Findings

1. `conditionals_leak`: `gs_expression` looks for `/` before it asks whether
   the text is skipped, and `#if` with a true condition enters that mode even
   inside a skipped group; the text behind a comment is then emitted.
2. `macro_recursion`: the counter that should stop `#define FOO FOO` is raised
   after the replay, so `#define foo (4 + foo)` overflows the C stack.
3. `lexer_skip`: in skipped text `/***/` is never closed.

Other departures met while modelling, which no line of the repository speaks
against and which the models keep: `#undef` compares with the rest of the line,
blanks and comments included; a `#define` without replacement keeps the old
one; `x*x` is one word to the substitution; an error in an `#elif` condition
counts as true, and the next condition then starts on what it left; `int
volatile` is written as a type and a user's name; a `}` too many takes the top
of an empty stack; a header that includes itself as `./h.h` is read inside
itself until the array of its name overflows; `#define A A` and `#if A`
overflow the stack, where no counter stops `local_fsm`; a call of a macro over
several lines shifts the line numbers.

## 4. Proofs

All theorems are of `Spec` for every value of the constants under the
assumptions named in the component's module. `Conditionals` assumes a nesting
limit and an `#elif` bound of at least one; `MacroTable` that the names entered
at the start differ and leave two slots free; `ReservedWords` that every hash
value is a slot; `CodeSplitter` that texts are sequences of strings;
`IfExpression` that the empty name finds a free slot, as `parse_definition`
keeps two, and that C's stack takes more calls than a table has macros; `Lexer`
that characters are strings other than its marks, that replacements stand on
one line, and that no macro leads back to itself, fewer than 50 being given;
`MacroExpansion` that both limits are at least one and that texts, names and
replacements are sequences of strings, no name being empty; `Expressions` that
no word is another lexeme and that texts are sequences of strings. `Vocabulary`
assumes that a token is of one kind, word, keyword, tag or word of a type
(`TokenAssumption`); `MacroProcessing` assumes for `Substitution` that the
parameters of a macro are different names and that calls and replacements are
strings of C, which hold no zero (`SubstitutionAssumption`).

- `Conditionals_proofs`. `TypeCorrect`. `EndifRestoration`: in *any* sequence
  of directives, stray ones included, `#endif` gives `shadow_count` the value
  it had before its `#if` (the run checks this for well-formed files). The
  strengthening is `Ledger`: the counter is the sum of the counts of the open
  sections, put without recursion by comparing neighbouring `entry` values.
  `SkippingIsExact`, for well-formed files, needs `Counts` (no count of an open
  section is negative) and `Silent` (the sum is zero only if every count is):
  without them two sections could cancel out. `Implementation` proves `CSpec`:
  initial states correspond, and every directive maps to a step of
  `CondInclusion` or to none. `IncludesEndByName`: no name is ever open twice,
  because the name of every open file stands in `included` (`Named`, which
  needs no well-formedness), so that files nest at most as deep as there are
  names of the length reached: the map from open files to names is injective.
  This is all that ends a cycle of headers, and it does not say that a file is
  open once. `HeadersAreNeutral` and `ModeIsExact`: a file is entered in live
  text and every section below its base is left alone while it is read
  (`Entered`), so its end is in live text again, and the machine's mode follows
  `shadow_count` with the two exceptions of section 3.
- `MacroTable_proofs`. `TableSound`: its four invariants are inductive
  together; `NamesUnique` needs `FreshSlotsBlank`, as a name is looked for in
  used slots only. `TableImplementsDictionary` proves `DSpec`; `Lookup` says
  that the first slot with a name is the only one. `SlotsAreSpent`: the
  slots taken are those in use and one for every `#undef` that found its macro,
  since `Define` takes a slot only for a name that is in none, a blank one by
  `FreshSlotsBlank` (`DefineSpent`), and `Undef` empties one without giving it
  back (`UndefSpent`).
- `Lexer_proofs`. `LineNumbersAreExact`, for every text and all macros. Every
  mode counts line feeds for itself, so the proof goes through all of them.
  `IInv` adds that the modes of strings are entered at quotes only, that in the
  mode behind an apostrophe the last characters read are known (`Opened`), that
  a call is read only behind text of its own (`InCalls`), and what is pending
  (`Counted`): either nothing that counts (`Quiet`), or one line feed, which
  ended the name of a macro and is replayed behind its replacement, with ends of
  replays alone behind it (`OneAhead`); then the line number is one short. A
  line feed in the argument of a call would be replayed as often as its
  parameter occurs, which is why calls that took one are excepted.
- `MacroExpansion_proofs`. `CounterMatchesStack`: the static counter is the
  number of tails on the stack, for every table and text. A negative return
  leaves the counter alone and ends calls only down to the innermost replay of
  a macro without arguments; tails are of such macros, so none is ended.
  `RankedExpansionsFit`: if macros without arguments have ranks up to `R`, a
  macro's replacement calling only macros of lower rank before its last word
  (`Ranks`), no text uses more than `(R + 1) * RecursionLimit + 1` calls,
  whatever the last words lead back to. `DInv` says that a macro inside a
  replacement has a lower rank than the calls around it (`Links`), so that the
  replays of one rank are separated by tails alone, of which there are at most
  `RecursionLimit`. The bound is the least: with `R = 1` and a limit of 3, TLC
  finds a text that needs all 7 calls. `#define FOO FOO` has rank 0; finding 2
  is a table without ranks. Macros with arguments are left out (`NoCalls`),
  since an argument brings words from outside the replacement, whose ranks say
  nothing. `OverrunsAtMarks`, about `Substitution`: without a `#` in the
  replacement no mark is ever announced, so that nothing is skipped and the
  terminator is met (`Unmarked`). `NamesReplaced`: a replacement whose names
  stand between delimiters is copied with every parameter replaced. `Copying`
  says what is copied of the part read so far: either the word being read is
  one name, and what stands before it is copied (`Pending`), or result and word
  together are the copy and no character of the word is a name (`Plain`). That
  `Delimited` speaks of both sides of a name is needed: behind an operator or a
  quote a name is part of a longer word, which is not looked up.
  `ArgumentsAtCommas`: what the loop over the call has split is the part read,
  cut at the commas outside brackets (`Outer`). The code's counter runs on
  across arguments; it equals the depth within the argument being read
  (`Level`), because it is zero where an argument ends.
- `ReservedWords_proofs`. `SearchCorrect`: a search answers with its word
  exactly when the word is in reach. The strengthening is `Chain`: every slot
  between a word's hash value and its place is taken, so that a free slot ends
  the search rightly (`FreeSlotEnds`), and slots are never freed.
  `BuiltinTypesAsInC`, about `TokenWriter`: a type's words may be any number,
  in any order, while the run tries four. The queue holds words of built-in
  types only (`Queued`), no two rows of C's table stand for the same words
  (`OneRow`), and `translate_builtin_types` gives what the row gives or fails
  where there is none (`TranslatesAsInC`). `bool` compares the length of the
  queue where the table compares counts: `OneWord` says that both mean the same.
  `NothingPutOffIsLost`: the file holds what the tokens stand for, for streams
  of any length. What a token stands for depends on the ones before it and on
  the next (`LexemesLonger`, `LexemesLate`), so that one token more adds the
  type that ended before it and its own lexemes (`MeantLonger`), and every
  branch of `append_lexem` writes just these (`Emits`). `Waiting` ties the
  queue to the words of the type that is being read by how often each occurs,
  which is all `CType` looks at (`TypeByCounts`), `postfix_const` to a `const`
  among them, and `prev_lexem` to a tag read last.
- `CodeSplitter_proofs`. `BracketsAgree` and `BlocksAwaited`: however deep a
  text nests, the stacks agree with the tree, and a finished block goes to the
  brace that announced it. `IInv` adds that both stacks ascend (`Ascending`):
  a list or block is created after those around it, so what is pushed on the
  innermost one disturbs no other. `HeapIsTree`: in every text, mismatched
  brackets included, and at every step of `FixThree`, the heap is a tree. The
  strengthening `TreeInv` sees the heap as one function `HeapNow` of block and
  statement to lexemes, absent texts being empty. Each handler then does one of
  a few things to it: it adds a lexeme that owns nothing or a new list
  (`Pushes`), gives a block nobody owns to a lexeme (`Attaches`), moves
  `lexem_list` to the end of a block (`Ends`), or joins statements of a block
  and erases what it copied (`Joins`). The first two alter one place (`Alters`);
  the others leave at every place a lexeme that stood at another (`Carries`,
  with the function that gives the other). That no place is carried from twice
  is where an original that is not erased would show. `Given` adds that outside
  of the open blocks no statement holds a `{` without a block (`AllWhole`), that
  in these only the last lexeme of all may be one (`AlmostWhole`), and that
  lexemes within brackets never go to the statement itself (`Ascending` of
  `stack`, mismatched brackets or not). From it follows `NoNullBlock`: in a text
  whose blocks close `FixThree` follows no null pointer, and so only a `}` too
  many, an open block and an `else` out of place are undefined.
- `IfExpression_proofs`. `NothingIsLeft`: in any sequence of conditions, each
  that gets a value after others that did leaves the statics as it found them.
  `IInv` is about every phase: the scan touches items only (`Fresh`), the
  sorting begins with `state` cleared and ends with no item left, and the step
  that answers empties what execution built. The word's length needs
  `WordEnded`, that it is not zero only while a word is read, which a macro
  with arguments breaks, so that the property excepts it there. `Begins` says
  that a line of which nothing has been read meets no item, and `IsStack` that
  a line with a macro's text above it has been read from.

- `Expressions_proofs`. `OperatorsHaveOperands`, for texts of any length and
  depth with `Balanced` brackets in which operands and operators take turns
  (`TakeTurns`: there is a function `ends` that says behind which lexemes an
  operand was read; TLC finds one for every text of the run without `~`).
  `IInv` says that `prev_was_operand` of the innermost parser is what `ends`
  says, that the stack is as deep as brackets are open, that behind a pending
  `::` without its operand nothing has been read (`Scopes`), and that the parser
  around a bracket waits for it as the bracket's purpose wants (`Holds`). The
  loop of `PrepareExpression` is a recursive function; what each of its turns
  keeps is proved of the least turn that would not (`Least`). So the two
  exceptions "postfix state machine error" and "expression state machine
  error", thrown where an operand was read last and none is there, are never
  met by such a text.

Model-checked only: of the scanner its lexemes and directives, of expansion its
result and the depth of macros with arguments; of expressions their trees and
that none of their operands is lost; of the substitution what it makes of `#`,
`#@` and `##` and of quotes; everything about the syntax parser; of conditions
their value (`ConditionExact`) and that each is answered; that the code
splitter keeps the text and its order and that `FixThree` makes of it the
statements of C; that the program's own 63 hash values leave every word in
reach. Most of their references are `RECURSIVE` operators, which the prover
cannot be given at all; these stand in `MC` modules only, so that all component
modules can be proved about. The prover also has no induction over data. What
is proved of recursive functions (`Split`, `FlattenSeq`) is proved one step at
a time along the program's own, or of the least argument that would fail
(`Least`). Liveness and `ENABLED` are out of its reach.

## 5. Not modelled

- Buffers of fixed size in the scanner and the substitution, and the tenth
  word of a type, which writes past `lex_queue`: undefined from there on.
- The values of numbers and the escapes of strings.
- The contents of search paths, options, error texts.
- In the syntax parser: templates, initialisers in braces, pointers to
  functions, default arguments, bit fields, sizes and places of members, what
  segments hold, and of expressions the operators that resolve no name, casts,
  `new` and `sizeof` (`Expressions` has their place in the tree, not their
  types). `SetLength` and the debug breakpoint of `ParseStatement`.
- The other components of section 1 that section 2 does not name: options and
  the restorers are text in and text out, and `BraceInit` and `Templates` are
  next in the plan.
- `codegen/Pascal/`, under development by its README, and `defarglist.cc`,
  switched off by `#if false`.

## 6. Plan

Done: the preprocessor, the scanner, the code splitter, the shape of
expressions, then the conditions of `#if` and the syntax parser's names,
declarations and statements. Next, in this order:

1. `Names`: the remaining operators of `CreateNode`, `new` and `sizeof`, and
   the types of casts.
2. `BraceInit`: the walk of a list of values over a type.
3. `Restore`: what is restored is parsed to the same tree.
4. `Templates`.
5. `CodeSplitter` and `Statements` as one run, the statements of the one
   being the input of the other (the reference of `syntax` now states which
   halves are joined), and `IfExpression` under `Conditionals`, which draws a
   condition's result.

Theorem worth proving next: that each list and each block keeps its owner in
`FixThree` too, but for the lexemes before an `else` that is moved. The other
properties section 4 lists as model-checked have `RECURSIVE` references and
stay so.

---------------------------- MODULE Conditionals ----------------------------
(***************************************************************************)
(* The directive handler of the lexical parser, parse_preprocessor_line,   *)
(* with the file-scope state it keeps between lines (shadow_count,         *)
(* indirection, shadow_state), the two states of the character machine     *)
(* between which its return value chooses, and the files #include nests.   *)
(*                                                                         *)
(* One step reads one whole line: a directive, a line of text, or the end  *)
(* of a file.  entry, else_read, directive and passed are history: the     *)
(* shadow_count a section was opened with, whether it had its #else, the   *)
(* kind of the last directive, and whether the last line of text went on   *)
(* to the lexical scanner.                                                 *)
(***************************************************************************)
EXTENDS Integers, Sequences, SequencesExt

CONSTANTS
    NestingLimit,  \* size of shadow_state (16 in the code)
    MaxElif,       \* bound on shadow_state[i].count, i.e. on #elif per section
    Headers,       \* header files that an #include finds
    SearchPath,    \* C_INCLUDE_PATH and ipath, the directories of #include <...>
    Home,          \* directory of the main file, as its path spells it
    MaxParts,      \* bound on the redundant parts ("./") of a path; filename[]
                   \* of a flow holds 512 characters
    WellFormed     \* TRUE: #else is the last group, files balance their #ifs

ASSUME NestingAssumption == NestingLimit \in Nat \ {0}
ASSUME ElifAssumption == MaxElif \in Nat \ {0}
ASSUME WellFormedAssumption == WellFormed \in BOOLEAN
ASSUME PathAssumption == MaxParts \in Nat
ASSUME FilesAssumption == IsFiniteSet(Headers) /\ IsFiniteSet(SearchPath)

VARIABLES
    shadow_count, indirection, shadow_state,  \* preproc.cc, file scope
    global_state,   \* flow->global_state of the file being read
    stopped,        \* a negative status or an uncaught throw ended the run
    included,       \* the paths in list_of_included_files
    files,          \* for each file being included: its filename, a path,
                    \* and, under base, the indirection it was entered with
    entry, else_read, directive, passed

cond == <<shadow_count, indirection, shadow_state, entry, else_read>>
io == <<included, files>>
vars == <<cond, io, global_state, stopped, directive, passed>>

\* Slot -1 is the zeroed padding that precedes shadow_state in memory, which
\* an #else, #elif or #endif outside every section reads and writes.
Slots == -1 .. NestingLimit - 1
Frame(dis, n) == [disabled |-> dis, count |-> n]
Taken == Frame(FALSE, 0)    \* a section whose first group is live
Skipped == Frame(TRUE, 1)   \* a section whose first group is skipped

Init ==
    /\ shadow_count = 0
    /\ indirection = -1
    /\ shadow_state = [i \in Slots |-> Taken]
    /\ global_state = "gs_expression"
    /\ stopped = FALSE
    /\ included = {}
    /\ files = <<>>
    /\ entry = [i \in Slots |-> 0]
    /\ else_read = [i \in Slots |-> FALSE]
    /\ directive = "none"
    /\ passed = FALSE

IsInativeCode == shadow_count # 0

\* Mutant: a directive that starts skipping stays in gs_do_preprocessor.
ReturnInPlace(status, kind) ==
    /\ stopped' = (status < 0)
    /\ global_state' = IF status > 0 THEN "gs_expression" ELSE "gs_do_preprocessor"
    /\ directive' = kind
    /\ passed' = FALSE

\* What gs_do_preprocessor does with the status of the line it handed over.
Return(status, kind) ==
    /\ stopped' = (status < 0)
    /\ global_state' = IF status < 0 THEN global_state
                       ELSE IF status = 0 THEN "gs_skip_preprocessor"
                       ELSE "gs_expression"
    /\ directive' = kind
    /\ passed' = FALSE

\* Mutant: the groups around the section are forgotten.
ResumeAlways(shadow) == 1

Resume(shadow) == IF shadow # 0 THEN 0 ELSE 1

\* A section opens with its first group taken or skipped.
Push(group) ==
    /\ indirection < NestingLimit - 1
    /\ indirection' = indirection + 1
    /\ shadow_state' = [shadow_state EXCEPT ![indirection + 1] = group]
    /\ shadow_count' = shadow_count + group.count
    /\ entry' = [entry EXCEPT ![indirection + 1] = shadow_count]
    /\ else_read' = [else_read EXCEPT ![indirection + 1] = FALSE]

\* #if: the condition is evaluated even inside a skipped group, and whatever
\* parse_preprocessor_if returns is the status of the line.
If(value) ==
    /\ Push(IF value = 0 THEN Skipped ELSE Taken)
    /\ Return(value, "if")
    /\ UNCHANGED io

\* #ifdef and #ifndef: hit says whether the section's first group is live.
Ifdef(hit) ==
    /\ Push(IF hit THEN Taken ELSE Skipped)
    /\ Return(IF hit THEN Resume(shadow_count) ELSE 0, "ifdef")
    /\ UNCHANGED io

\* The nesting level at which the file being read was entered.
Base == IF files = <<>> THEN -1 ELSE Last(files).base

InSection ==
    /\ indirection \in Slots
    /\ WellFormed => indirection > Base

Cur == shadow_state[indirection]

\* One group ends: the whole of #else and the first half of #elif.
Toggled == IF Cur.disabled THEN Cur.count - 1 ELSE Cur.count + 1

NextGroup(dis, n) ==
    /\ InSection
    /\ WellFormed => ~else_read[indirection]
    /\ n \in -MaxElif .. MaxElif
    /\ shadow_state' = [shadow_state EXCEPT ![indirection] = Frame(dis, n)]
    /\ shadow_count' = shadow_count + (n - Cur.count)
    /\ UNCHANGED <<indirection, entry, io>>

Else ==
    /\ NextGroup(Cur.disabled, Toggled)
    /\ else_read' = [else_read EXCEPT ![indirection] = TRUE]
    /\ Return(Resume(shadow_count'), "else")

\* Mutant: a section whose live group is over tries the next one.
ElifOfLiveSection(value) ==
    /\ NextGroup(value = 0, IF value = 0 THEN 1 ELSE 0)
    /\ Return(Resume(shadow_count'), "elif")
    /\ UNCHANGED else_read

\* Mutant: the count of the section misses its new skipped group.
ElifUncounted(value) ==
    /\ NextGroup(value = 0, Toggled)
    /\ Return(Resume(shadow_count'), "elif")
    /\ UNCHANGED else_read

\* #elif: any non-zero result, a failure included, makes the group live.
Elif(value) ==
    /\ NextGroup(value = 0, IF value = 0 THEN Toggled + 1 ELSE Toggled)
    /\ Return(Resume(shadow_count'), "elif")
    /\ UNCHANGED else_read

\* Mutant: only the last group of the section is taken off shadow_count.
EndifOfLastGroup ==
    /\ InSection
    /\ shadow_count' = shadow_count - (IF Cur.disabled THEN 1 ELSE 0)
    /\ indirection' = indirection - 1
    /\ Return(Resume(shadow_count'), "endif")
    /\ entry' = [entry EXCEPT ![indirection] = 0]
    /\ else_read' = [else_read EXCEPT ![indirection] = FALSE]
    /\ UNCHANGED <<shadow_state, io>>

Endif ==
    /\ InSection
    /\ shadow_count' = shadow_count - Cur.count
    /\ indirection' = indirection - 1
    /\ Return(Resume(shadow_count'), "endif")
    /\ entry' = [entry EXCEPT ![indirection] = 0]
    /\ else_read' = [else_read EXCEPT ![indirection] = FALSE]
    /\ UNCHANGED <<shadow_state, io>>

\* #define, #undef and #pragma do nothing in skipped text; in live text they
\* return what the macro table returns, a negative status if they fail.
Plain(status) ==
    /\ Return(IF IsInativeCode THEN 0 ELSE status, "plain")
    /\ UNCHANGED <<cond, io>>

\* #error tests the address of the array shadow_state, which is never null.
Error ==
    /\ Return(0, "error")
    /\ UNCHANGED <<cond, io>>

\* Any other word after '#', in skipped text as well, where a '#' need not
\* even be the first character of its line.
Unknown ==
    /\ Return(-940, "unknown")
    /\ UNCHANGED <<cond, io>>

\* A condition that throws, or text after #endif: a char const * is thrown,
\* which the handler for char * in parse_input does not catch.
Throw ==
    /\ stopped' = TRUE
    /\ UNCHANGED <<cond, io, global_state, directive, passed>>

\* A file name: a header under a directory, with parts that name no other
\* directory between the two.  One header has many names.
Directories == SearchPath \union {Home}
Paths == [dir : Directories, parts : 0 .. MaxParts, file : Headers]

\* The directory of the file being read, as filename spells it.
Here == IF files = <<>> THEN [dir |-> Home, parts |-> 0] ELSE Last(files).name

\* The names #include builds: the text between the quotes behind the
\* directory of the file being read, or the text between the angle brackets
\* behind a directory of the search path.
Quoted == {p \in Paths : p.dir = Here.dir /\ p.parts >= Here.parts}
Angled == {p \in Paths : p.dir \in SearchPath}

\* Read the file with the name p.
Nest(p) ==
    /\ included' = included \union {p}
    /\ files' = Append(files, [name |-> p, base |-> indirection])

\* Mutant: the file being read is not looked up in the list.
IncludeAgain(p) ==
    /\ p \in Quoted \union Angled
    /\ Return(IF IsInativeCode THEN 0 ELSE 1, "include")
    /\ UNCHANGED cond
    /\ IF IsInativeCode \/ p \in included \ {Here} \/ Len(files) > 4
       THEN UNCHANGED io ELSE Nest(p)

\* Mutant: #include is obeyed in skipped text.
IncludeInSkipped(p) ==
    /\ p \in Quoted \union Angled
    /\ Return(1, "include")
    /\ UNCHANGED cond
    /\ IF p \in included THEN UNCHANGED io ELSE Nest(p)

\* #include of a header that is found under the name p.  It is read by a flow
\* of its own; a name that was read before, strcmp says so, is passed over
\* with a positive status.
Include(p) ==
    /\ p \in Quoted \union Angled
    /\ Return(IF IsInativeCode THEN 0 ELSE 1, "include")
    /\ UNCHANGED cond
    /\ IF IsInativeCode \/ p \in included THEN UNCHANGED io ELSE Nest(p)

\* No file, or no name between the marks: the run is over.
MissingInclude ==
    /\ Return(IF IsInativeCode THEN 0 ELSE -947, "include")
    /\ UNCHANGED <<cond, io>>

\* The end of an included file: the including file goes on after #include,
\* unless the second fclose of the header's stream aborts the program.
EndOfFile ==
    /\ files # <<>>
    /\ WellFormed => indirection = Base
    /\ files' = Front(files)
    /\ \/ Return(1, "include")
       \/ stopped' = TRUE /\ UNCHANGED <<global_state, directive, passed>>
    /\ UNCHANGED <<cond, included>>

\* A line of text.  gs_expression looks for '/' before it asks
\* IsInativeCode, so what follows a leading comment is scanned anyway.
Text(after_comment) ==
    /\ passed' = /\ global_state = "gs_expression"
                 /\ IsInativeCode => after_comment
    /\ UNCHANGED <<cond, io, global_state, stopped, directive>>

\* What parse_preprocessor_if can return, as far as its callers tell apart:
\* a failure (or a negative value), zero, and a positive value.
Values == {-944, 0, 1}

Next ==
    /\ ~stopped
    /\ \/ \E v \in Values : If(v)
       \/ \E v \in Values : Elif(v)
       \/ \E hit \in BOOLEAN : Ifdef(hit)
       \/ Else
       \/ Endif
       \/ \E status \in {-942, 1} : Plain(status)
       \/ Error
       \/ Unknown
       \/ Throw
       \/ \E p \in Paths : Include(p)
       \/ MissingInclude
       \/ EndOfFile
       \/ \E after_comment \in BOOLEAN : Text(after_comment)

Spec == Init /\ [][Next]_vars
-----------------------------------------------------------------------------
CondTypeOK ==
    /\ shadow_count \in Int
    /\ indirection \in {-2} \union Slots
    /\ shadow_state \in [Slots -> [disabled : BOOLEAN, count : -MaxElif .. MaxElif]]
    /\ entry \in [Slots -> Int]
    /\ else_read \in [Slots -> BOOLEAN]

IoTypeOK ==
    /\ included \subseteq Paths
    /\ files \in Seq([name : Paths, base : {-2} \union Slots])

FlowTypeOK ==
    /\ global_state \in {"gs_expression", "gs_skip_preprocessor"}
    /\ stopped \in BOOLEAN
    /\ directive \in {"none", "if", "elif", "ifdef", "else", "endif", "plain",
                      "error", "unknown", "include"}
    /\ passed \in BOOLEAN

\* The variables keep their types.
TypeOK == CondTypeOK /\ IoTypeOK /\ FlowTypeOK

\* Whatever directives stand between an #if and its #endif, in whatever
\* order, #endif puts shadow_count back to what it was before the #if: the
\* one counter shared by all sections never drifts.
EndifRestores == [][indirection' < indirection => shadow_count' = entry[indirection]]_vars

\* The sections that are open.
Open == {i \in Slots : i <= indirection}

\* In a well-formed file text is skipped exactly when some open section is
\* in a group that is not the live one, although the code asks only whether
\* the sum of all counts is zero.
SkippedIffInSkippedGroup ==
    IsInativeCode <=> \E i \in Open : shadow_state[i].count # 0

\* The scanner's mode and the conditional state are two copies of one fact,
\* and the status of a directive keeps them equal, with two exceptions: #if
\* with a true condition inside a skipped group starts scanning, and #error
\* in live text starts skipping.
ModeFollowsShadow ==
    ~stopped =>
        /\ global_state = "gs_expression" /\ IsInativeCode => directive = "if"
        /\ global_state = "gs_skip_preprocessor" /\ ~IsInativeCode => directive = "error"

\* A header whose own sections balance is left in live text, which is why
\* parse_include may answer 1 without asking what the header did.
HeaderEndsLive == [][Len(files') < Len(files) => ~IsInativeCode']_vars

\* No name stands twice among the files that are open.
NoNameOpenTwice ==
    \A i, j \in DOMAIN files : files[i].name = files[j].name => i = j

\* add_include_to_list ends every cycle of #include, by name and not by file:
\* no name is open twice, and flows nest only as deep as the names get long.
\* A header that includes itself as "./h.h" is read inside itself, once for
\* every name that it builds.
CyclesEndByName ==
    /\ NoNameOpenTwice
    /\ \A n \in 0 .. MaxParts :
          (\A i \in DOMAIN files : files[i].name.parts <= n) =>
              Len(files) <= (Cardinality(Directories) * (n + 1)) * Cardinality(Headers)

\* The state of one section as conditional inclusion defines it.
Status(i) ==
    IF shadow_state[i].count = 0 THEN "live"
    ELSE IF shadow_state[i].disabled /\ shadow_state[i].count = 1 /\ ~else_read[i]
         THEN "seek"
         ELSE "done"

C == INSTANCE CondInclusion WITH
        sections <- [i \in 1 .. indirection + 1 |-> Status(i - 1)]

\* The counters implement a stack of sections that are live, seeking their
\* live group, or done with it.
CSpec == C!Spec

\* Text is handed to the scanner only in live groups, as a preprocessor has
\* it ("a programm which preprocess of C files").
NoLexemesFromSkippedGroups == passed => ~IsInativeCode
=============================================================================

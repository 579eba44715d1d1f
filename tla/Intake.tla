------------------------------- MODULE Intake --------------------------------
(***************************************************************************)
(* Is it filed already, and may it be filed: intake-dedup and report of    *)
(* pipeline-cli.  A look reads the intake stage, which shows at once what   *)
(* was filed, and GitHub's search, whose index lags; a reporter told        *)
(* "none" files, past the guards on what leaves the machine.                *)
(***************************************************************************)
EXTENDS Naturals, FiniteSets, SequencesExt

CONSTANTS
  Lookers,
  Titles,      \* sequences of words
  STOPWORDS, ShortWords,
  Stems,       \* sets of words that begin alike
  Bodies,      \* [sections, leaks]: how each required section is, and what leaks
  MAX_QUERY_TOKENS, MIN_DISCRIMINATING_TOKENS, Limit,
  MaxIssues,   \* bound on issues
  MaxChanges   \* bound on what happens to them

ASSUME TitlesAssumption == Titles \subseteq Seq(STRING)
ASSUME LimitAssumption == Limit \in Nat

VARIABLES
  issues,   \* by number: [title, pull, open, queued]
  index,    \* the issues search knows
  look,     \* Lookers -> the look under way or last made
  changes

intakeVars == <<issues, index, look, changes>>

Numbers == DOMAIN issues

(***************************************************************************)
(* The match.                                                               *)
(***************************************************************************)
\* The first of the words that say something, each once.
Tokenize(words) ==
  LET kept == {i \in DOMAIN words : /\ words[i] \notin STOPWORDS \cup ShortWords
                                     /\ \A j \in 1..(i - 1) : words[j] # words[i]}
  IN {words[i] : i \in {i \in kept : Cardinality({j \in kept : j < i}) < MAX_QUERY_TOKENS}}

TokensRelated(a, b) == a = b \/ \E stem \in Stems : {a, b} \subseteq stem

Score(title, query) ==
  Cardinality({t \in Tokenize(query) : \E w \in Tokenize(title) : TokensRelated(t, w)})

TitleScore(n, query) == Score(issues[n].title, query)

\* The best score first, then the newest, and no more than are asked for.
Ahead(m, n, query) ==
  \/ TitleScore(m, query) > TitleScore(n, query)
  \/ TitleScore(m, query) = TitleScore(n, query) /\ m > n

Ranked(kept, query) ==
  LET Place(n) == Cardinality({m \in kept : Ahead(m, n, query)}) + 1
  IN [k \in 1..(IF Cardinality(kept) < Limit THEN Cardinality(kept) ELSE Limit) |->
        CHOOSE n \in kept : Place(n) = k]

\* Faulty variant: a row of the stage counts only where search has it too.
SearchedOnly(query, queue, search, exclude) == Ranked({n \in search : n # exclude}, query)

RankCandidates(query, queue, search, exclude) ==
  Ranked({n \in queue : TitleScore(n, query) > 0 /\ n # exclude} \cup {n \in search : n # exclude}, query)

CanDiscriminate(tokens) == Cardinality(tokens) >= MIN_DISCRIMINATING_TOKENS

(***************************************************************************)
(* What leaves the machine.                                                 *)
(***************************************************************************)
\* An "inner" path is a temporary one that begins where a machine's own ends: a pattern does not
\* begin behind a letter, so it is seen only where nothing stands before it.
MACHINE_LOCAL_PATH_PATTERNS == {"path"}
TEMP_PATH_PATTERNS == {"temp", "inner"}

ASSUME BodiesAssumption ==
  \A body \in Bodies : body.leaks \subseteq MACHINE_LOCAL_PATH_PATTERNS \cup TEMP_PATH_PATTERNS

FindCommentLeaks(leaks) ==
  {leak \in leaks \cap (MACHINE_LOCAL_PATH_PATTERNS \cup TEMP_PATH_PATTERNS) : leak = "inner" => "path" \notin leaks}

RedactLeaks(leaks) == leaks \ FindCommentLeaks(leaks)

OPTIONAL_SECTION == "Suggested next step"
FindSectionDefects(body) ==
  {s \in DOMAIN body.sections :
     \/ body.sections[s] = "missing"
     \/ body.sections[s] = "empty" /\ s # OPTIONAL_SECTION}

\* A title may begin with the area it is about, not with the type triage will give it.
CLASSIFICATION_PREFIXES == {"bug", "p0"}
ClassificationPrefix(title) == title.prefix \in CLASSIFICATION_PREFIXES

CheckFileInput(title, body, redact) ==
  IF \A s \in DOMAIN body.sections : body.sections[s] = "blank" THEN "EMPTY_INPUT"
  ELSE IF FindSectionDefects(body) # {} \/ ClassificationPrefix(title) THEN "MALFORMED_INPUT"
  ELSE IF ~redact /\ FindCommentLeaks(title.leaks \cup body.leaks) # {} THEN "LEAKED_PATH"
  ELSE "none"

(***************************************************************************)
(* A look: `report dedup`, or triage's `intake-dedup check`.                *)
(***************************************************************************)
NoText == [title |-> {}, body |-> {}, redacted |-> FALSE]
Idle == [pc |-> "idle", verb |-> "dedup", query |-> <<>>, exclude |-> 0, waits |-> {}, queue |-> {}, search |-> {},
         known |-> {}, answer |-> "none", list |-> <<>>, text |-> NoText]

IntakeInit == issues = <<>> /\ index = {} /\ look = [l \in Lookers |-> Idle] /\ changes = 0

ListStage == {n \in Numbers : issues[n].open /\ issues[n].queued /\ ~issues[n].pull}

\* Every word must be there, in the title or in the body.
Search(query) ==
  {found \in SUBSET index :
     \A n \in index : Tokenize(query) \subseteq ToSet(issues[n].title) => n \in found}

Concludes(l, answer, list) ==
  look' = [look EXCEPT ![l] = [@ EXCEPT !.pc = "answered", !.answer = answer, !.list = list,
                                        !.waits = {}, !.queue = {}, !.search = {}]]

\* Too few words are no question: `dedup` says so, `check` says nothing.
Ask(l, verb, query, exclude) ==
  /\ look[l].pc = "idle"
  /\ LET tokens == Tokenize(query)
         asked  == [Idle EXCEPT !.verb = verb, !.query = query, !.exclude = exclude, !.known = ListStage]
     IN look' = [look EXCEPT ![l] =
          IF verb = "dedup" /\ ~CanDiscriminate(tokens) THEN [asked EXCEPT !.pc = "answered", !.answer = "indeterminate"]
          ELSE IF tokens = {} THEN [asked EXCEPT !.pc = "answered", !.answer = "nothing"]
          ELSE [asked EXCEPT !.pc = "reads", !.waits = {"queue", "search"}]]
  /\ UNCHANGED <<issues, index, changes>>

\* The whole stage in one call, as for a stage of one page: longer ones are read a page at a
\* time, and rows may shift between two pages.
ReadQueue(l) ==
  /\ "queue" \in look[l].waits
  /\ look' = [look EXCEPT ![l].queue = ListStage, ![l].waits = @ \ {"queue"}]
  /\ UNCHANGED <<issues, index, changes>>

ReadSearch(l) ==
  /\ "search" \in look[l].waits
  /\ \E found \in Search(look[l].query) :
       look' = [look EXCEPT ![l].search = found, ![l].waits = @ \ {"search"}]
  /\ UNCHANGED <<issues, index, changes>>

\* One read that fails is enough.
ReadFails(l) ==
  /\ look[l].waits # {}
  /\ Concludes(l, "unknown", <<>>)
  /\ UNCHANGED <<issues, index, changes>>

Rank(l) ==
  /\ look[l].pc = "reads" /\ look[l].waits = {}
  /\ LET list == RankCandidates(look[l].query, look[l].queue, look[l].search, look[l].exclude)
     IN Concludes(l, IF list # <<>> THEN "candidates" ELSE IF look[l].verb = "dedup" THEN "none" ELSE "nothing", list)
  /\ UNCHANGED <<issues, index, changes>>

\* `report file` after a look that found nothing: the body may be masked, the title never is.
File(l, body, redact) ==
  /\ look[l].pc = "answered" /\ look[l].answer = "none" /\ Len(issues) < MaxIssues
  /\ \E prefix \in {"none", "area", "bug"}, leaks \in {{}, {"path"}} :
       IF CheckFileInput([prefix |-> prefix, leaks |-> leaks], body, redact) # "none"
       THEN look' = [look EXCEPT ![l] = Idle] /\ UNCHANGED issues
       ELSE /\ issues' = Append(issues, [title |-> look[l].query, pull |-> FALSE, open |-> TRUE, queued |-> TRUE])
            /\ look' = [look EXCEPT ![l] = [Idle EXCEPT !.pc = "filed", !.text =
                 [title |-> leaks, body |-> IF redact THEN RedactLeaks(body.leaks) ELSE body.leaks, redacted |-> redact]]]
  /\ UNCHANGED <<index, changes>>

Leave(l) ==
  /\ look[l].pc \in {"answered", "filed"}
  /\ look' = [look EXCEPT ![l] = Idle] /\ UNCHANGED <<issues, index, changes>>

(***************************************************************************)
(* The board: triage moves an issue on, work closes it, people open issues *)
(* and pull requests under the stage's label, the index follows in time.   *)
(***************************************************************************)
Changes == changes < MaxChanges /\ changes' = changes + 1

Unqueue(n) ==
  /\ Changes /\ issues[n].queued
  /\ \/ issues' = [issues EXCEPT ![n].queued = FALSE]
     \/ issues' = [issues EXCEPT ![n].queued = FALSE, ![n].open = FALSE]
  /\ look' = [l \in Lookers |-> [look[l] EXCEPT !.known = IF look[l].pc = "reads" THEN @ \ {n} ELSE @]]
  /\ UNCHANGED index

Opened(title) ==
  /\ Changes /\ Len(issues) < MaxIssues
  /\ \E pull \in BOOLEAN : issues' = Append(issues, [title |-> title, pull |-> pull, open |-> TRUE, queued |-> TRUE])
  /\ UNCHANGED <<index, look>>

Reindex ==
  /\ Changes
  /\ index' = {n \in Numbers : issues[n].open /\ ~issues[n].pull} /\ index' # index
  /\ UNCHANGED <<issues, look>>

Acts(l) ==
  \/ \E title \in Titles : Ask(l, "dedup", title, 0)
  \/ \E n \in ListStage : Ask(l, "check", issues[n].title, n)
  \/ ReadQueue(l) \/ ReadSearch(l) \/ ReadFails(l) \/ Rank(l) \/ Leave(l)
  \/ \E body \in Bodies, redact \in BOOLEAN : File(l, body, redact)

IntakeNext ==
  \/ \E l \in Lookers : Acts(l)
  \/ \E n \in Numbers : Unqueue(n)
  \/ \E title \in Titles : Opened(title)
  \/ Reindex

IntakeSpec == IntakeInit /\ [][IntakeNext]_intakeVars

(***************************************************************************)
(* Properties.                                                              *)
(***************************************************************************)
\* What stood on the stage for the whole of a look and shares a word with it is on the list, unless
\* the list is full of what matches as well; so two alike are filed only by looks that overlapped, or
\* when the first had left the stage.  Neither pull requests nor the issue asked about are listed.
LooksMissNothing ==
  \A l \in Lookers :
    LET list == look[l].list
        Fits(n) == TitleScore(n, look[l].query)
    IN look[l].pc = "answered" /\ look[l].answer \in {"none", "nothing", "candidates"} =>
         /\ \A n \in look[l].known \ {look[l].exclude} :
              \/ Fits(n) = 0 \/ n \in ToSet(list)
              \/ Len(list) = Limit /\ \A m \in ToSet(list) : Fits(m) >= Fits(n)
         /\ \A m \in ToSet(list) : ~issues[m].pull /\ m # look[l].exclude

\* No path of the reporter's machine is filed, but in a title filed with --redact, and where one path
\* begins at another's end.
FiledIsClean ==
  \A l \in Lookers :
    LET text == look[l].text
    IN /\ text.title # {} => text.redacted
       /\ text.body \subseteq {"inner"} /\ (text.body # {} => text.redacted)

IntakeIsTrue == LooksMissNothing /\ FiledIsClean
=============================================================================

------------------------------ MODULE Terminal ------------------------------
(***************************************************************************)
(* The terminal tool (core/core_tools/terminal_tool.py): its commands, for *)
(* which all users share one directory and one history, its edits of a     *)
(* file by rows, and the programs that the process tool keeps running in   *)
(* the background; the three share nothing.                                *)
(*                                                                         *)
(* A file is a sequence of words and line ends.  Its rows are those of     *)
(* splitlines(keepends): each ends with a line end but, maybe, the last.   *)
(* An edit reads, changes and writes the file without an await.            *)
(***************************************************************************)
EXTENDS Naturals, Integers, Sequences, FiniteSets, SequencesExt

CONSTANTS
    Directories, Commands,
    MaxHistory,
    MaxRuns      \* bounds the commands run

VARIABLES
    cwd,       \* _current_directory
    running,   \* commands under way: [command -> directory]
    recent,    \* _command_history: sequence of [command, outcome]
    ended      \* history: every command in the order of its end

terminalVars == <<cwd, running, recent, ended>>

-----------------------------------------------------------------------------
(* Commands. *)

ChangeDirectory(d) ==
    /\ cwd' = d /\ d # cwd
    /\ UNCHANGED <<running, recent, ended>>

ExecuteCommand(c) ==
    /\ c \notin DOMAIN running /\ Len(ended) + Cardinality(DOMAIN running) < MaxRuns
    /\ running' = (c :> cwd) @@ running
    /\ UNCHANGED <<cwd, recent, ended>>

(* _add_to_history keeps the last entries.                                 *)
AddToHistory_Oldest(list, e) ==
    IF Len(list) = MaxHistory THEN list ELSE Append(list, e)
AddToHistory(list, e) ==
    LET longer == Append(list, e) IN
    IF Len(longer) > MaxHistory
    THEN SubSeq(longer, Len(longer) - MaxHistory + 1, Len(longer)) ELSE longer

(* The command returns, is killed after its timeout, or cannot be started. *)
CommandEnds(c, outcome) ==
    /\ c \in DOMAIN running
    /\ running' = Restrict(running, DOMAIN running \ {c})
    /\ recent' = AddToHistory(recent, [command |-> c, outcome |-> outcome])
    /\ ended' = Append(ended, [command |-> c, outcome |-> outcome])
    /\ UNCHANGED cwd

(* Its request is cancelled: the process goes on, and nothing records it.  *)
CommandCancelled(c) ==
    /\ c \in DOMAIN running
    /\ running' = Restrict(running, DOMAIN running \ {c})
    /\ UNCHANGED <<cwd, recent, ended>>

TerminalInit ==
    /\ cwd = CHOOSE d \in Directories : TRUE
    /\ running = <<>> /\ recent = <<>> /\ ended = <<>>

TerminalNext ==
    \/ \E d \in Directories : ChangeDirectory(d)
    \/ \E c \in Commands :
          \/ ExecuteCommand(c)
          \/ \E outcome \in {"returned", "killed", "failed"} : CommandEnds(c, outcome)
          \/ CommandCancelled(c)

TerminalSpec == TerminalInit /\ [][TerminalNext]_terminalVars

-----------------------------------------------------------------------------
(* The history stays within its bound.                                     *)
TerminalTypeOK ==
    /\ cwd \in Directories /\ Len(ended) <= MaxRuns
    /\ DOMAIN running \subseteq Commands /\ Len(recent) <= MaxHistory

(* The history is the last commands that ended, in the order of their end. *)
HistoryIsRecent ==
    /\ IsSuffix(recent, ended)
    /\ Len(recent) = IF Len(ended) < MaxHistory THEN Len(ended) ELSE MaxHistory

-----------------------------------------------------------------------------
(* Edits of a file. *)

CONSTANTS
    Words, NL,     \* what files are made of
    New,           \* the word that is inserted or put in place
    Out,           \* the word edits with a substring look for
    MaxLength,     \* MAX_FILE_SIZE
    MaxWrite,      \* bounds what write_file is given
    MaxRow         \* bounds the rows of a request

VARIABLES text     \* the file

(* splitlines(keepends=True) and "".join.                                  *)
Rows(t) ==
    LET ends == {0} \cup {i \in DOMAIN t : t[i] = NL}
        \* the row that begins after position i
        RowFrom(i) == SubSeq(t, i + 1, IF \E j \in ends : j > i
                                       THEN CHOOSE j \in ends : j > i /\ \A k \in ends : k > i => j <= k
                                       ELSE Len(t))
        starts == SetToSortSeq(ends \ {Len(t)}, <)
    IN  [i \in DOMAIN starts |-> RowFrom(starts[i])]
Joined(rows) == FlattenSeq(rows)

(* Rows are numbered from 0.  The rows of a request are processed from the *)
(* end to the start.                                                       *)
EditOrder_Ascending(rows) == SetToSortSeq(rows, <)
EditOrder(rows) == SetToSortSeq(rows, >)

InsertedRow(lines, r) ==
    IF r >= 0 /\ r <= Len(lines) THEN InsertAt(lines, r + 1, <<New, NL>>) ELSE lines
DeletedRow(lines, r) ==
    IF r >= 0 /\ r < Len(lines) THEN RemoveAt(lines, r + 1) ELSE lines
ReplacedRow(lines, r) ==
    IF r >= 0 /\ r < Len(lines) THEN [lines EXCEPT ![r + 1] = <<New, NL>>] ELSE lines

(* str.replace within the rows.                                            *)
Without(row) == SelectSeq(row, LAMBDA w : w # Out)
With(row) == [i \in DOMAIN row |-> IF row[i] = Out THEN New ELSE row[i]]
DeletedPart(lines, r) ==
    IF r >= 0 /\ r < Len(lines) THEN [lines EXCEPT ![r + 1] = Without(@)] ELSE lines
ReplacedPart(lines, r) ==
    IF r >= 0 /\ r < Len(lines) THEN [lines EXCEPT ![r + 1] = With(@)] ELSE lines

Edited(kind, rows) ==
    LET order == EditOrder(rows) IN
    Joined(CASE kind = "insert"      -> FoldLeft(InsertedRow, Rows(text), order)
             [] kind = "delete"      -> FoldLeft(DeletedRow, Rows(text), order)
             [] kind = "update"      -> FoldLeft(ReplacedRow, Rows(text), order)
             [] kind = "delete part" -> FoldLeft(DeletedPart, Rows(text), order)
             [] kind = "update part" -> FoldLeft(ReplacedPart, Rows(text), order))

Kinds == {"insert", "delete", "update", "delete part", "update part"}
\* Requests name rows before, in and after the file.
RowSets == SUBSET (-1 .. MaxRow) \ {{}}

(* A result that is too large is refused; deletions do not look.           *)
Edit(kind, rows) ==
    /\ Len(Edited(kind, rows)) <= MaxLength \/ kind \in {"delete", "delete part"}
    /\ text' = Edited(kind, rows)

(* write_file: in place of the file or after its end.                      *)
Write(content, append) ==
    LET t == IF append THEN text \o content ELSE content IN
    /\ Len(t) <= MaxLength
    /\ text' = t

Contents(n) == UNION {[1 .. k -> Words \cup {NL}] : k \in 1 .. n}

LineEditsInit == text = <<>>
LineEditsNext ==
    \/ \E kind \in Kinds, rows \in RowSets : Edit(kind, rows)
    \/ \E content \in Contents(MaxWrite), append \in BOOLEAN : Write(content, append)
LineEditsSpec == LineEditsInit /\ [][LineEditsNext]_text

-----------------------------------------------------------------------------
(* The file is made of words and line ends and keeps to its size.          *)
LineEditsTypeOK ==
    Len(text) <= MaxLength /\ \A i \in DOMAIN text : text[i] \in Words \cup {NL, New}

(* An edit touches the rows it names, as the file had them before: the     *)
(* others stay, in their order.  (A row inserted after a last row without  *)
(* a line end becomes part of that row.)                                   *)
Expected(kind, rows) ==
    LET old == Rows(text)
        named == {r + 1 : r \in rows}
        Row(i) == IF i \in DOMAIN old THEN old[i] ELSE <<>>
        Part(i) ==
          CASE kind = "insert" -> (IF i \in named THEN <<New, NL>> ELSE <<>>) \o Row(i)
            [] kind = "delete" -> IF i \in named THEN <<>> ELSE Row(i)
            [] kind = "update" ->
                 IF i \in named /\ i \in DOMAIN old THEN <<New, NL>> ELSE Row(i)
            [] kind = "delete part" -> IF i \in named THEN Without(Row(i)) ELSE Row(i)
            [] kind = "update part" -> IF i \in named THEN With(Row(i)) ELSE Row(i)
    IN  FlattenSeq([i \in 1 .. Len(old) + 1 |-> Part(i)])

EditsTouchTheirRows ==
    \A kind \in Kinds, rows \in RowSets : Edited(kind, rows) = Expected(kind, rows)

-----------------------------------------------------------------------------
(* Background processes that tools start and stop under a name               *)
(* (core/core_tools/process_tool.py). The tools of all requests share the     *)
(* table of processes and that of their readers; starting and stopping await  *)
(* between looking at the tables and changing them. One name is modelled: the *)
(* names are independent of one another.                                      *)
CONSTANTS
  Processes,  \* operating-system processes that may be started, all under this name
  Stops,      \* calls of process_stop
  Forced,     \* those with force
  None        \* nothing is tracked

VARIABLES
  process,  \* each process: "none", "asked" for, "running", "deaf" to SIGTERM,
            \* "dying" of a signal, "ended" (its return code is known)
  tracked,  \* _processes[name]
  reader,   \* _output_readers[name], by the process it reads
  reading,  \* each process's reader task: "none", "reading", "waiting" for the process, "over"
  stop,     \* where each stop is, and the process it stops
  raced     \* history: processes whose table entry another start or stop took away

processVars == <<process, tracked, reader, reading, stop, raced>>

ProcessTypeOK ==
  /\ process \in [Processes -> {"none", "asked", "running", "deaf", "dying", "ended"}]
  /\ tracked \in Processes \cup {None} /\ reader \in Processes \cup {None}
  /\ reading \in [Processes -> {"none", "reading", "waiting", "over"}]
  /\ raced \subseteq Processes
  /\ stop \in [Stops -> [at : {"new", "waiting", "killing", "over", "raised"},
                         of : Processes \cup {None}]]

ProcessInit ==
  /\ process = [p \in Processes |-> "none"] /\ tracked = None /\ reader = None
  /\ reading = [p \in Processes |-> "none"] /\ raced = {}
  /\ stop = [s \in Stops |-> [at |-> "new", of |-> None]]

Alive(p) == process[p] \in {"running", "deaf", "dying"}

-----------------------------------------------------------------------------
(* process_start: refused while the process of that name runs, then awaits    *)
(* the new one, which replaces whatever is tracked by then.                   *)
Startable_Fault == TRUE
Startable == tracked \in {p \in Processes : process[p] = "ended"} \cup {None}

Start(p) ==
  /\ process[p] = "none" /\ Startable
  /\ process' = [process EXCEPT ![p] = "asked"]
  /\ raced' = raced \cup {q \in Processes : process[q] = "asked"}
                    \cup (IF \E q \in Processes : process[q] = "asked" THEN {p} ELSE {})
  /\ UNCHANGED <<tracked, reader, reading, stop>>

Started(p) ==
  /\ process[p] = "asked"
  /\ \E state \in {"running", "deaf"} : process' = [process EXCEPT ![p] = state]
  /\ tracked' = p /\ reader' = p
  /\ reading' = [reading EXCEPT ![p] = "reading"]
  /\ UNCHANGED <<stop, raced>>

(* The output ends, with the process or before it; after the timeout the      *)
(* process is asked to end. The reader then waits for it, however long. The   *)
(* lines it collects in the buffer are left out.                              *)
Closed(p) ==
  /\ reading[p] = "reading" /\ reading' = [reading EXCEPT ![p] = "waiting"]
  /\ UNCHANGED <<process, tracked, reader, stop, raced>>

TimesOut(p) ==
  /\ reading[p] = "reading" /\ reading' = [reading EXCEPT ![p] = "waiting"]
  /\ process' = [process EXCEPT ![p] = IF @ = "running" THEN "dying" ELSE @]
  /\ UNCHANGED <<tracked, reader, stop, raced>>

ReaderEnds(p) ==
  /\ reading[p] = "waiting" /\ process[p] = "ended"
  /\ reading' = [reading EXCEPT ![p] = "over"]
  /\ UNCHANGED <<process, tracked, reader, stop, raced>>

Ends(p) ==
  /\ Alive(p) /\ process' = [process EXCEPT ![p] = "ended"]
  /\ UNCHANGED <<tracked, reader, reading, stop, raced>>

-----------------------------------------------------------------------------
(* process_stop drops the entries of the name, whosever they are by then, and *)
(* cancels that reader.                                                       *)
Cancelled(p) == [reading EXCEPT ![p] = IF @ \in {"reading", "waiting"} THEN "over" ELSE @]
Drop ==
  /\ tracked' = None /\ reader' = None
  /\ reading' = IF reader = None THEN reading ELSE Cancelled(reader)

StopEnded(s) ==
  /\ stop[s].at = "new" /\ tracked # None /\ process[tracked] = "ended"
  /\ stop' = [stop EXCEPT ![s] = [at |-> "over", of |-> tracked]]
  /\ Drop /\ UNCHANGED <<process, raced>>

(* The tracked process is killed or asked to end; the stop awaits its end,    *)
(* five seconds at most.                                                      *)
Stop(s) ==
  /\ stop[s].at = "new" /\ tracked # None /\ Alive(tracked)
  /\ stop' = [stop EXCEPT ![s] = [at |-> "waiting", of |-> tracked]]
  /\ process' = [process EXCEPT ![tracked] =
                   IF s \in Forced \/ @ = "running" THEN "dying" ELSE @]
  /\ UNCHANGED <<tracked, reader, reading, raced>>

(* After five seconds a process that was asked to end is killed and awaited;  *)
(* one that was killed is no longer waited for.                               *)
Kill(s) ==
  /\ stop[s].at = "waiting" /\ s \notin Forced /\ Alive(stop[s].of)
  /\ stop' = [stop EXCEPT ![s].at = "killing"]
  /\ process' = [process EXCEPT ![stop[s].of] = "dying"]
  /\ UNCHANGED <<tracked, reader, reading, raced>>

Waited_Fault(s) == stop[s].at \in {"waiting", "killing"}
Waited(s) ==
  /\ stop[s].at \in {"waiting", "killing"}
  /\ process[stop[s].of] = "ended" \/ s \in Forced

(* `del _processes[name]` raises when another stop was faster. *)
StopReturns(s) ==
  /\ Waited(s)
  /\ stop' = [stop EXCEPT ![s].at = IF tracked = None THEN "raised" ELSE "over"]
  /\ raced' = IF tracked \in {None, stop[s].of} THEN raced ELSE raced \cup {tracked}
  /\ IF tracked # None THEN Drop ELSE UNCHANGED <<tracked, reader, reading>>
  /\ UNCHANGED process

ProcessNext ==
  \/ \E p \in Processes : Start(p) \/ Started(p) \/ Closed(p) \/ TimesOut(p)
                          \/ ReaderEnds(p) \/ Ends(p)
  \/ \E s \in Stops : StopEnded(s) \/ Stop(s) \/ Kill(s) \/ StopReturns(s)

ProcessSpec == ProcessInit /\ [][ProcessNext]_processVars

-----------------------------------------------------------------------------
(* "Start a background process and track it": a process that runs can be      *)
(* stopped by its name, unless another start or stop of that name overlapped  *)
(* its own, and its reader is there.                                          *)
RunningIsTracked ==
  \A p \in Processes \ raced :
    process[p] \in {"running", "deaf"} =>
      tracked = p /\ reader = p /\ reading[p] \in {"reading", "waiting"}

(* A stop that returned has ended the process it was for, or killed it. *)
StoppedHasEnded ==
  \A s \in Stops :
    stop[s].at \in {"over", "raised"} =>
      process[stop[s].of] \in IF s \in Forced THEN {"dying", "ended"} ELSE {"ended"}

ProcessesSafe == RunningIsTracked /\ StoppedHasEnded
=============================================================================

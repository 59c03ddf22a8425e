------------------------------ MODULE FileStore ------------------------------
(***************************************************************************)
(* The files of users (core/core_tools/files_tool.py, local disk or S3)    *)
(* and the attachments of a reply: a tool of gateway/tool_executor.py puts *)
(* a path on the request's list, and the processor reads what the path     *)
(* holds when the reply is complete.                                       *)
(*                                                                         *)
(* Contents are numbered in the order in which they are saved.  A place is *)
(* a user's directory or that of a user's channel below it.                *)
(*                                                                         *)
(* A part of its own follows: the notes the model keeps in its workspace.  *)
(***************************************************************************)
EXTENDS Naturals, Sequences, FiniteSets, SequencesExt

CONSTANTS
    Users, Channels,
    NoChannel,    \* the user's own directory
    Names,        \* names as the model writes them
    Safe(_),      \* _sanitize_filename
    Directory(_), \* _sanitize_id of a channel
    Requests, User(_),
    MaxSaves, MaxQueue

VARIABLES
    S3,       \* S3_ENABLED with its keys: get_file_manager's choice
    file,     \* [Place -> [safe names with a file -> content]], or S3's objects
    used,     \* places whose directory exists (local)
    copy,     \* S3: what the temporary directory holds, like file
    saves,    \* contents saved so far
    queue,    \* files_to_send: [Requests -> sequence of [place, name, content]]
    reading,  \* [Requests -> set of <<place, name>> a download from the sandbox saves to]
    sent,     \* [Requests -> sequence of [place, name, queued, content]]
    over      \* requests whose reply is complete

fileVars == <<S3, file, used, copy, saves, queue, reading, sent, over>>

Places == Users \X (Channels \cup {NoChannel})
NoFiles == [p \in Places |-> <<>>]

FileInit ==
    /\ file = NoFiles /\ copy = NoFiles /\ used = {} /\ saves = 0
    /\ S3 \in BOOLEAN /\ over = {}
    /\ queue = [r \in Requests |-> <<>>] /\ sent = [r \in Requests |-> <<>>]
    /\ reading = [r \in Requests |-> {}]

Active(r) == r \notin over
PlacesOf(r) == {User(r)} \X (Channels \cup {NoChannel})

\* MaxSaves bounds the contents saved, MaxQueue the attachments of a reply.

(* _storage_dir makes the directory, which fails where a file has its name.*)
Blocked(p) ==
    ~S3 /\ p[2] # NoChannel /\ Directory(p[2]) \in DOMAIN file[<<p[1], NoChannel>>]
Touched(p) == IF S3 \/ Blocked(p) THEN used ELSE used \cup {p, <<p[1], NoChannel>>}

(* A file cannot be written where a directory has its name.                *)
Writable(p, n) ==
    /\ ~Blocked(p)
    /\ ~(~S3 /\ p[2] = NoChannel
         /\ \E c \in Channels : <<p[1], c>> \in used /\ Directory(c) = Safe(n))

Saved_Raw(p, n, content) == [file EXCEPT ![p] = (n :> content) @@ @]
Saved(p, n, content) == [file EXCEPT ![p] = (Safe(n) :> content) @@ @]
Has(p, n) == Safe(n) \in DOMAIN file[p]

-----------------------------------------------------------------------------
(* save_to_local, s3_save; a content that is too large changes nothing.    *)
Save(r, p, n) ==
    /\ Active(r) /\ saves < MaxSaves
    /\ used' = Touched(p)
    /\ IF Writable(p, n)
       THEN file' = Saved(p, n, saves + 1) /\ saves' = saves + 1
       ELSE UNCHANGED <<file, saves>>
    /\ UNCHANGED <<copy, queue, reading, sent, over, S3>>

Delete(r, p, n) ==
    /\ Active(r) /\ Has(p, n) /\ ~Blocked(p)
    /\ file' = [file EXCEPT ![p] = Restrict(@, DOMAIN @ \ {Safe(n)})]
    /\ used' = Touched(p)
    /\ UNCHANGED <<copy, saves, queue, reading, sent, over, S3>>

(* list_files: S3 lists by prefix, so a user's own list also names the     *)
(* files of the user's channels.                                           *)
Listed_ByPrefix(p) ==
    UNION {DOMAIN file[q] : q \in {q \in Places : q = p \/ (q[1] = p[1] /\ p[2] = NoChannel)}}
Listed(p) == IF S3 THEN Listed_ByPrefix(p) ELSE DOMAIN file[p]

(* get_file_path: with S3 the object is copied to the temporary directory, *)
(* over an earlier copy of that name.                                      *)
Located_Cached(p, n) ==
    IF S3 /\ Safe(n) \notin DOMAIN copy[p]
    THEN [copy EXCEPT ![p] = (Safe(n) :> file[p][Safe(n)]) @@ @] ELSE copy
Located(p, n) ==
    IF S3 THEN [copy EXCEPT ![p] = (Safe(n) :> file[p][Safe(n)]) @@ @] ELSE copy

Queued(r, p, n, content) ==
    [queue EXCEPT ![r] = Append(@, [place |-> p, name |-> Safe(n), content |-> content])]

SendLocalFile(r, p, n) ==
    /\ Active(r) /\ Has(p, n) /\ ~Blocked(p) /\ Len(queue[r]) < MaxQueue
    /\ copy' = Located(p, n) /\ queue' = Queued(r, p, n, file[p][Safe(n)])
    /\ used' = Touched(p)
    /\ UNCHANGED <<file, saves, reading, sent, over, S3>>

(* send_discord_file: the file is saved first.                             *)
SendDiscordFile(r, p, n) ==
    /\ Active(r) /\ saves < MaxSaves /\ Writable(p, n) /\ Len(queue[r]) < MaxQueue
    /\ file' = Saved(p, n, saves + 1) /\ saves' = saves + 1
    /\ copy' = IF S3 THEN [copy EXCEPT ![p] = (Safe(n) :> saves + 1) @@ @] ELSE copy
    /\ queue' = Queued(r, p, n, saves + 1)
    /\ used' = Touched(p)
    /\ UNCHANGED <<reading, sent, over, S3>>

(* download_from_sandbox awaits the sandbox and saves what it answers.     *)
BeginDownload(r, p, n) ==
    /\ Active(r) /\ reading[r] = {}
    /\ reading' = [reading EXCEPT ![r] = {<<p, n>>}]
    /\ UNCHANGED <<file, used, copy, saves, queue, sent, over, S3>>

EndDownload(r) ==
    \E t \in reading[r] :
        /\ reading' = [reading EXCEPT ![r] = {}]
        /\ IF Writable(t[1], t[2]) /\ saves < MaxSaves
           THEN file' = Saved(t[1], t[2], saves + 1) /\ saves' = saves + 1
           ELSE UNCHANGED <<file, saves>>
        /\ used' = Touched(t[1])
        /\ UNCHANGED <<copy, queue, sent, over, S3>>

(* _prepare_file_data reads what the paths hold now; a missing file is     *)
(* left out.                                                               *)
Readable == IF S3 THEN copy ELSE file
Respond(r) ==
    LET present == SelectSeq(queue[r], LAMBDA q : q.name \in DOMAIN Readable[q.place]) IN
    /\ Active(r) /\ reading[r] = {}
    /\ sent' = [sent EXCEPT ![r] =
          [i \in DOMAIN present |->
             [place |-> present[i].place, name |-> present[i].name,
              queued |-> present[i].content,
              content |-> Readable[present[i].place][present[i].name]]]]
    /\ over' = over \cup {r}
    /\ UNCHANGED <<file, used, copy, saves, queue, reading, S3>>

FileNext ==
    \E r \in Requests :
        \/ \E p \in PlacesOf(r), n \in Names :
              \/ Save(r, p, n) \/ Delete(r, p, n)
              \/ SendLocalFile(r, p, n) \/ SendDiscordFile(r, p, n) \/ BeginDownload(r, p, n)
        \/ EndDownload(r) \/ Respond(r)

FileSpec == FileInit /\ [][FileNext]_fileVars

-----------------------------------------------------------------------------
(* Contents are ones that were saved.                                      *)
FileTypeOK ==
    /\ saves \in 0 .. MaxSaves /\ used \subseteq Places
    /\ \A p \in Places :
          /\ \A n \in DOMAIN file[p] : n = Safe(n) /\ file[p][n] \in 1 .. saves
          /\ \A n \in DOMAIN copy[p] : copy[p][n] \in 1 .. saves

(* Every name a list shows can be read under that name, in that place; with*)
(* S3 only where a place has no channels below it.                         *)
ListedIsReadable ==
    \A p \in Places :
        ~S3 \/ p[2] # NoChannel => \A n \in Listed(p) : Has(p, n)

(* An attachment is what was put on the list or what was saved under its   *)
(* name since, never something older; with S3 it cannot go missing.        *)
AttachmentsAreFresh ==
    \A r \in over :
        /\ \A i \in DOMAIN sent[r] : sent[r][i].content >= sent[r][i].queued
        /\ S3 => Len(sent[r]) = Len(queue[r])

FilesSafe == ListedIsReadable /\ AttachmentsAreFresh

-----------------------------------------------------------------------------
(* The workspace files of a user whose workspace is a virtual machine      *)
(* (core/core_tools/workspace_tool.py over exec_in_vm, read_file and       *)
(* write_file of core/vm_manager.py).                                      *)
(*                                                                         *)
(* A file is a sequence of notes.  Each command in the machine is awaited, *)
(* so calls of one user interleave between them and may be cancelled there,*)
(* and each may fail.  (The files of users without a machine are shared and*)
(* are read and written without an await: there a call is one step.)       *)
CONSTANTS
    Calls,          \* calls of workspace_write and workspace_create; a call's note is itself
    Files,          \* names that _sanitize_filename accepts
    ReadOnly,       \* SOUL.md and IDENTITY.md among them
    Nothing,
    MaxFailures

VARIABLES
    inMachine, \* the user has a machine
    notes,      \* name -> sequence of notes
    call,      \* [Calls -> [pc, op, name, note]], note: what is to be written
    failures,  \* commands in the machine, and writes, that failed
    excused    \* history: files two calls worked on at once, or whose test failed

workspaceVars == <<inMachine, notes, call, failures, excused>>

Ops == {"overwrite", "append", "create"}

WorkspaceInit ==
    /\ inMachine \in BOOLEAN
    /\ notes = [f \in ReadOnly |-> <<"owner">>] /\ failures = 0 /\ excused = {}
    /\ call \in [Calls -> {[pc |-> "idle", op |-> o, name |-> Nothing, note |-> <<>>] : o \in Ops}]

Exists(f) == f \in DOMAIN notes
Overlapped(c, f) ==
    IF \E d \in Calls \ {c} : call[d].pc \in {"testing", "reading", "writing"} /\ call[d].name = f
    THEN {f} ELSE {}

(* Read-only names are refused before anything else.                       *)
Refused_Nothing(c, f) == FALSE
Refused(c, f) == f \in ReadOnly

(* A file is emptied before it is written: a write that fails leaves the    *)
(* beginning of what it was to write, or did not come to touch the file.     *)
Written(f, text) == notes' = (f :> text) @@ notes
HalfWritten(f, text) ==
    \/ \E n \in 0 .. Len(text) - 1 : Written(f, SubSeq(text, 1, n))
    \/ UNCHANGED notes

(* Without a machine.                                                      *)
WriteHere(c, f) ==
    LET op == call[c].op
        text == IF op = "append" THEN Append(notes[f], c) ELSE <<c>> IN
    /\ call[c].pc = "idle" /\ ~inMachine /\ ~Refused(c, f)
    /\ Exists(f) <=> op # "create"
    /\ call' = [call EXCEPT ![c].pc = "over", ![c].name = f, ![c].note = text]
    /\ \/ Written(f, text) /\ UNCHANGED failures
       \/ failures < MaxFailures /\ failures' = failures + 1 /\ HalfWritten(f, text)
    /\ UNCHANGED <<excused, inMachine>>

Begin(c, f) ==
    /\ call[c].pc = "idle" /\ inMachine /\ ~Refused(c, f)
    /\ call' = [call EXCEPT ![c].pc = "testing", ![c].name = f]
    /\ excused' = excused \cup Overlapped(c, f)
    /\ UNCHANGED <<notes, failures, inMachine>>

(* _vm_file_exists: any failure of the command counts as an absent file.   *)
Found(c, exists) ==
    LET op == call[c].op IN
    call' = [call EXCEPT
        ![c].pc = CASE (op = "create") = exists -> "over"
                    [] op = "append" /\ exists -> "reading"
                    [] OTHER -> "writing",
        ![c].note = <<c>>]

Test(c) ==
    /\ call[c].pc = "testing"
    /\ Found(c, Exists(call[c].name))
    /\ UNCHANGED <<notes, failures, excused, inMachine>>

TestFails(c) ==
    /\ call[c].pc = "testing" /\ failures < MaxFailures
    /\ Found(c, FALSE)
    /\ failures' = failures + 1 /\ excused' = excused \cup {call[c].name}
    /\ UNCHANGED <<notes, inMachine>>

Longer_Empty(c) == <<c>>
Longer(c) == Append(notes[call[c].name], c)
Read(c) ==
    /\ call[c].pc = "reading"
    /\ call' = [call EXCEPT ![c].pc = "writing", ![c].note = Longer(c)]
    /\ UNCHANGED <<notes, failures, excused, inMachine>>

Write(c) ==
    /\ call[c].pc = "writing"
    /\ Written(call[c].name, call[c].note)
    /\ call' = [call EXCEPT ![c].pc = "over"]
    /\ UNCHANGED <<failures, excused, inMachine>>

(* A read or a write in the machine fails: the call ends with its error.   *)
CommandFails(c) ==
    /\ failures < MaxFailures /\ failures' = failures + 1
    /\ \/ call[c].pc = "reading" /\ UNCHANGED notes
       \/ call[c].pc = "writing" /\ HalfWritten(call[c].name, call[c].note)
    /\ call' = [call EXCEPT ![c].pc = "over"]
    /\ UNCHANGED <<excused, inMachine>>

(* The call is cancelled before the machine has begun its command; a write *)
(* that has begun comes to its end without it.                             *)
Abandoned(c) ==
    /\ call[c].pc \in {"testing", "reading", "writing"}
    /\ call' = [call EXCEPT ![c].pc = "over"]
    /\ UNCHANGED <<notes, failures, excused, inMachine>>

WorkspaceNext ==
    \E c \in Calls :
        \/ \E f \in Files : WriteHere(c, f) \/ Begin(c, f)
        \/ Test(c) \/ TestFails(c) \/ Read(c) \/ Write(c) \/ CommandFails(c) \/ Abandoned(c)

WorkspaceSpec == WorkspaceInit /\ [][WorkspaceNext]_workspaceVars

-----------------------------------------------------------------------------
(* Files hold notes of calls.                                              *)
WorkspaceTypeOK ==
    /\ DOMAIN notes \subseteq Files /\ failures \in 0 .. MaxFailures /\ inMachine \in BOOLEAN
    /\ \A c \in Calls : call[c].pc \in {"idle", "testing", "reading", "writing", "over"}

(* Notes are lost only to an overwrite that was asked for or to a write    *)
(* that failed, which leaves the beginning of what it was to write: an     *)
(* append or a creation leaves what a file holds, except where two calls   *)
(* worked on it at once or the machine could not say whether it exists; and*)
(* the owner's files are never written.                                    *)
LostToFailure(f) ==
    \E c \in Calls : /\ failures' > failures /\ call'[c].name = f
                     /\ IsPrefix(notes'[f], call'[c].note)

NotesSurvive ==
    [][/\ \A f \in DOMAIN notes \ excused' :
             notes'[f] # notes[f] =>
                 \/ IsPrefix(notes[f], notes'[f])
                 \/ \E c \in Calls : notes'[f] = <<c>> /\ call[c].op = "overwrite"
                 \/ LostToFailure(f)
       /\ \A f \in ReadOnly : notes'[f] = notes[f]]_workspaceVars
=============================================================================

----------------------------- MODULE MCRecords -----------------------------
(* What the gateway keeps and hands out, one part of it per behaviour: the    *)
(* rows of conversations, tools and their modules, files, policies, notes,    *)
(* terminals, the messages sent to a model, the backups and the export of it  *)
(* all, and the processes of the gateway. They share no state; the subject    *)
(* runs while the others stay as they start.                                  *)
EXTENDS Conversations, TLC

CONSTANTS None, Nothing
VARIABLES subject
VARIABLES disk, modules, mtimes, registry, load, spoiled, omitted
VARIABLES registered, native, provided, toolCall
VARIABLES S3, file, used, copy, saves, queue, reading, sent, over
VARIABLES text
VARIABLES cwd, running, lately, ended
VARIABLES program, tracked, reader, feeding, stopping, raced
VARIABLES inMachine, note, errand, failures, excused
VARIABLES policies, added, default, groups, recorded, checked, overlap, clock
VARIABLES vault, token, changed, client, store, holder, turn, write, shown, spared, time
VARIABLES pidfile, command, gateway, opened, port, adapters, crashes, abrupt, crowded
VARIABLES live, options, step, archive, points, nodes, edges, todo, pending, count, reported,
          target, vectors, upserts, entities, relations, imports, late, undone
VARIABLES bucket, minute, slips, data, backup, marker, run, due, health, asked, last, cut, passed,
          unserved
VARIABLES route, mode, messages, waiting, rounds, answer, clients, sending

loaderState    == <<disk, modules, mtimes, registry, load, spoiled, omitted>>
dispatchState  == <<registered, native, provided, toolCall>>
fileState      == <<S3, file, used, copy, saves, queue, reading, sent, over>>
terminalState  == <<cwd, running, lately, ended>>
programState   == <<program, tracked, reader, feeding, stopping, raced>>
workspaceState == <<inMachine, note, errand, failures, excused>>
policyState    == <<policies, added, default, groups, recorded, checked, overlap, clock>>
vaultState     == <<vault, token, changed, client, store, holder, turn, write, shown, spared, time>>
processState   == <<pidfile, command, gateway, opened, port, adapters, crashes, abrupt, crowded>>
backupState    == <<bucket, minute, slips, data, backup, marker, run, due, health, asked, last, cut,
                    passed, unserved>>
formatState    == <<route, mode, messages, waiting, rounds, answer, clients, sending>>
exportState    == <<live, options, step, archive, points, nodes, edges, todo, pending, count,
                    reported, target, vectors, upserts, entities, relations, imports, late, undone>>

-----------------------------------------------------------------------------
\* Only the conversations are about these requests and channels.
RecordsSymmetry == Permutations(Requests) \cup Permutations(Channels)

(* Two files that define one module each, in versions that take over a tool   *)
(* of the other, fail to import, or use a name that resolves to another one.  *)
Version(m, t, i) == [module |-> m, tools |-> t, imports |-> i]
MCContent(f, v) ==
  CASE f = 1 -> <<Version("a", <<"x", "y">>, TRUE), Version("a", <<"y">>, TRUE),
                  Version("a", <<"x">>, FALSE)>>[v]
    [] f = 2 -> <<Version("b", <<"z", "alias">>, TRUE), Version("b", <<"z", "y">>, TRUE),
                  Version("b", <<"z">>, TRUE)>>[v]

(* A remote tool whose name resolves to a native one, native tools behind a   *)
(* predicate or a capability, and one that a handler shadows.                 *)
Tool(n, r, g) == [name |-> n, requires |-> r, gate |-> g]
MCCore ==
  <<<<Tool("read_file", {}, None), Tool("list_local_files", {"files"}, None)>>,
    <<Tool("obs_read", {}, "vault"), Tool("obs_list", {}, "vault")>>,
    <<Tool("mail", {"google_oauth"}, None)>>>>
MCResolve(n) == CASE n = "obs__read" -> "obs_read" [] n = "alias" -> "x" [] OTHER -> n

(* Rules that clash on one tool, one of them for a user or admins.            *)
Rule(n, gs, ts, a, us, ad, p) ==
  [name |-> n, groups |-> gs, tools |-> ts, action |-> a, users |-> us, admin |-> ad, priority |-> p]
MCRules == {Rule("x", {"g"}, {}, "deny", {}, FALSE, 1), Rule("y", {}, {"t"}, "allow", {}, FALSE, 1),
            Rule("z", {}, {"t", "s"}, "ask", {"u"}, TRUE, 2)}
MCRisk(t) == IF t = "t" THEN "safe" ELSE "odd"
MCIntent(t) == "read"
Dispatch == INSTANCE ToolDispatch WITH
  CoreModules <- MCCore, Handled <- {"read_file", "list_local_files", "react"},
  AdapterTools <- {"react"}, RemoteTools <- {"obs__read", "srv__x"},
  AgentTools <- {"subagent_list"}, Canonical <- MCResolve, Calls <- {"c1"}, call <- toolCall,
  Rules <- MCRules, Groups <- {"g"}, Tools <- {"t", "s"}, Users <- {"u", "n"}, Nobody <- "n",
  Builtin <- "g" :> {"t"}, Risks <- <<"safe", "moderate", "dangerous">>, MaxRisk <- "dangerous",
  RiskOf <- MCRisk, RefusedIntents <- {"execute"}, IntentOf <- MCIntent, Admins <- {"u"},
  AdminForDangerous <- TRUE, Callers <- {"c1", "c2"}, MaxCalls <- 1, Window <- 1, MaxClock <- 1,
  MaxRules <- 2,
  Files <- {1, 2}, Loads <- {"l1", "l2"}, Versions <- {1, 2, 3}, Content <- MCContent

(* Names that become one, and a name like that of a channel's directory.      *)
MCSafe(n) == IF n \in {".a/b", "a b"} THEN "a_b" ELSE n
MCSame(c) == c
MCOwner(r) == "u"
Store == INSTANCE FileStore WITH
  Users <- {"u"}, Channels <- {"ch"}, NoChannel <- "-", Names <- {".a/b", "a b", "ch"},
  Safe <- MCSafe, Directory <- MCSame, Requests <- {"r1", "r2"}, User <- MCOwner,
  MaxSaves <- 2, MaxQueue <- 1,
  Calls <- {"p", "q", "r"}, Files <- {"soul", "a"}, ReadOnly <- {"soul"}, MaxFailures <- 1,
  notes <- note, call <- errand

(* Texts of up to five characters.                                            *)
Shell == INSTANCE Terminal WITH
  Directories <- {"d", "e"}, Commands <- {"p", "q"}, MaxHistory <- 2, MaxRuns <- 4,
  recent <- lately, None <- 0,
  Processes <- {1, 2}, Stops <- {"s1", "s2"}, Forced <- {"s2"}, process <- program,
  reading <- feeding, stop <- stopping,
  Words <- {"a"}, NL <- "nl", New <- "n", Out <- "a", MaxLength <- 5, MaxWrite <- 3, MaxRow <- 2

(* Two turns and two writes, one of them under another identity.              *)
MCKey(x) == IF x = "w2" THEN "m" ELSE "d"
Vault == INSTANCE ObsidianVault WITH
  Keys <- {"d", "m"}, Turns <- {"t1", "t2"}, Writes <- {"w1", "w2"}, KeyOf <- MCKey, Ttl <- 1,
  MaxVersion <- 3, MaxTokens <- 2, MaxClock <- 2, used <- shown, excused <- spared,
  clock <- time

(* A session and two messages of one user, and a graph of two.                *)
RowOf(t, p) == [table |-> t, parent |-> p, user |-> "u", recent |-> p # 0]
MCRows == <<RowOf("sessions", 0), RowOf("messages", 1), RowOf("messages", 1)>>
MCNodes == <<[name |-> "a", user |-> "u"], [name |-> "b", user |-> "v"]>>

(* A daemon with adapters, a gateway that `python -m gateway` runs, and the    *)
(* commands that end them.                                                    *)
MCKind == [daemon |-> "start", shell |-> "bare", stop |-> "stop", restart |-> "restart"]
Process == INSTANCE GatewayProcess WITH
  Commands <- DOMAIN MCKind, Kind <- MCKind, WithAdapters <- {"daemon"}, Nobody <- "-",
  MaxCrashes <- 1

(* The daemon, which tries each hour of two minutes, a command for one target  *)
(* and the gateway's own backup, two of them at a time.                       *)
Runner(k, o) == [kind |-> k, only |-> o, force |-> FALSE]
MCRunners == [daemon |-> Runner("serve", None), command |-> Runner("run", "config"),
              api |-> Runner("api", "clara")]
Backup == INSTANCE Backups WITH
  Targets <- <<"clara", "config">>, Files <- "config", Runners <- MCRunners, Always <- None,
  Schedule <- <<0, None>>, Minutes <- 2, Hours <- 2, Respawn <- 2, Retention <- 1, MaxClock <- 2,
  MaxVersion <- 1, MaxFaults <- 1, MaxLast <- 1, MaxPresent <- 2,
  Tables <- <<"sessions", "messages">>, Rows <- MCRows, Points <- <<"v">>,
  Nodes <- MCNodes, Edges <- {<<1, 2>>}, User <- "u", FlushEvery <- 2, BatchSize <- 2,
  MaxImports <- 2,
  S3 <- bucket, clock <- minute, faults <- slips, restore <- asked, status <- health

(* Two persona-first conversations, and settings for tools with another key.  *)
Said(r, t) == [role |-> r, text |-> t, parts |-> <<>>, calls |-> <<>>, id |-> 0]
MCStarts == {<<Said("system", 1), Said("system", 2), Said("user", 3)>>, <<Said("user", 3)>>}
Setting(k) == [model |-> "m", url |-> "url", key |-> k]
Format == INSTANCE Formats WITH
  Routes <- {"langchain", "direct_anthropic", "direct_kimi"}, Modes <- {"native", "xml"},
  Starts <- MCStarts, Images <- <<4>>, Configs <- [plain |-> Setting("a"), tools |-> Setting("b")],
  MaxRounds <- 2, MaxText <- 2, asked <- sending

-----------------------------------------------------------------------------
Subjects == {"conversations", "loader", "dispatch", "files", "edits", "shell", "notes",
             "policies", "vault", "export", "process", "backups",
             "programs", "formats"}

Parked(s) ==
  CASE s = "conversations" -> UNCHANGED conversationVars
    [] s = "loader"        -> UNCHANGED loaderState
    [] s = "dispatch"      -> UNCHANGED dispatchState
    [] s = "files"         -> UNCHANGED fileState
    [] s = "edits"         -> UNCHANGED text
    [] s = "shell"         -> UNCHANGED terminalState
    [] s = "notes"         -> UNCHANGED workspaceState
    [] s = "policies"      -> UNCHANGED policyState
    [] s = "vault"         -> UNCHANGED vaultState
    [] s = "export"        -> UNCHANGED exportState
    [] s = "process"       -> UNCHANGED processState
    [] s = "backups"       -> UNCHANGED backupState
    [] s = "programs"      -> UNCHANGED programState
    [] s = "formats"       -> UNCHANGED formatState

\* Those that stay as they start have one start.
RecordsInit ==
  /\ subject \in Subjects
  /\ ConversationsInit
  /\ subject # "conversations" => \A r \in Requests : place[r] = "app"
  /\ Dispatch!ToolLoaderInit
  /\ subject # "loader" => \A f \in DOMAIN disk : disk[f] = 1
  /\ Dispatch!DispatchInit
  /\ subject # "dispatch" => provided = {}
  /\ Store!FileInit
  /\ subject # "files" => S3
  /\ Store!WorkspaceInit
  /\ subject # "notes" => inMachine /\ \A c \in DOMAIN errand : errand[c].op = "create"
  /\ Backup!ExportInit
  /\ subject # "export" =>
       /\ live = {}
       /\ options = [user |-> FALSE, since |-> FALSE, checked |-> TRUE,
                     tables |-> {"sessions", "messages"}, provider |-> "qdrant"]
  /\ subject = "export" => live \in {{}, {1, 2}, DOMAIN MCRows} /\ ~(options.user /\ options.since)
  /\ Shell!LineEditsInit /\ Shell!TerminalInit /\ Shell!ProcessInit /\ Dispatch!PolicyInit /\ Vault!VaultInit
  /\ Process!ProcessInit
  /\ Backup!BackupsInit
  /\ subject # "backups" => bucket /\ run["api"].at = "done"
  /\ Format!FormatsInit
  /\ subject # "formats" => route = "langchain" /\ mode = "xml" /\ Len(messages) = 1 /\ messages[1].parts = <<>>

RecordsNext ==
  /\ \/ subject = "conversations" /\ ConversationsNext
     \/ subject = "loader"        /\ Dispatch!ToolLoaderNext
     \/ subject = "dispatch"      /\ Dispatch!DispatchNext
     \/ subject = "files"         /\ Store!FileNext
     \/ subject = "edits"         /\ Shell!LineEditsNext
     \/ subject = "shell"         /\ Shell!TerminalNext
     \/ subject = "notes"         /\ Store!WorkspaceNext
     \/ subject = "policies"      /\ Dispatch!PolicyNext
     \/ subject = "vault"         /\ Vault!VaultNext
     \/ subject = "export"        /\ Backup!ExportNext
     \/ subject = "process"       /\ Process!ProcessNext
     \/ subject = "backups"       /\ Backup!BackupsNext
     \/ subject = "programs"      /\ Shell!ProcessNext
     \/ subject = "formats"       /\ Format!FormatsNext
  /\ subject' = subject
  /\ \A s \in Subjects \ {subject} : Parked(s)

RecordsSpec ==
  RecordsInit /\ [][RecordsNext]_<<subject, conversationVars, loaderState, dispatchState, fileState,
                                   text, terminalState, workspaceState, policyState, vaultState,
                                   exportState, processState, backupState, programState,
                                   formatState>>

(* Properties of all of them, and of the instances. *)
RecordsTypeOK ==
  CASE subject = "conversations" -> ConversationsTypeOK
    [] subject = "loader"        -> Dispatch!ToolLoaderTypeOK
    [] subject = "dispatch"      -> Dispatch!DispatchTypeOK
    [] subject = "files"         -> Store!FileTypeOK
    [] subject = "edits"         -> Shell!LineEditsTypeOK
    [] subject = "shell"         -> Shell!TerminalTypeOK
    [] subject = "notes"         -> Store!WorkspaceTypeOK
    [] subject = "policies"      -> Dispatch!PolicyTypeOK
    [] subject = "vault"         -> Vault!VaultTypeOK
    [] subject = "export"        -> Backup!ExportTypeOK
    [] subject = "process"       -> Process!ProcessTypeOK
    [] subject = "backups"       -> Backup!BackupsTypeOK
    [] subject = "programs"      -> Shell!ProcessTypeOK
    [] subject = "formats"       -> Format!FormatsTypeOK
RecordsSafe ==
  CASE subject = "conversations" -> ConversationsSafe
    [] subject = "loader"        -> Dispatch!NothingLeftBehind
    [] subject = "dispatch"      -> Dispatch!DispatchSafe
    [] subject = "policies"      -> Dispatch!PoliciesSafe
    [] subject = "files"         -> Store!FilesSafe
    [] subject = "edits"         -> Shell!EditsTouchTheirRows
    [] subject = "shell"         -> Shell!HistoryIsRecent
    [] subject = "vault"         -> Vault!VaultSafe
    [] subject = "export"        -> Backup!ExportSafe
    [] subject = "process"       -> Process!ProcessSafe
    [] subject = "backups"       -> Backup!BackupsSafe
    [] subject = "programs"      -> Shell!ProcessesSafe
    [] subject = "formats"       -> Format!FormatsSafe
    [] OTHER -> TRUE
NothingTaken == Dispatch!NothingTaken /\ Store!NotesSurvive
=============================================================================

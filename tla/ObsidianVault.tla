---------------------------- MODULE ObsidianVault ----------------------------
(***************************************************************************)
(* A user's Obsidian vault as the gateway sees it (core/obsidian): the     *)
(* client made from the identity service's token, the snapshot that goes   *)
(* into prompts, and the tools that write (core/core_tools/obsidian_tool). *)
(*                                                                         *)
(* One vault, whose versions count its changes.  Clients are cached for    *)
(* the user, snapshots for each platform id of the user.  A build asks the *)
(* vault and stores the answer later; build_snapshot never raises, so the  *)
(* cache's sentinel for a failed build is never stored: a vault that does  *)
(* not answer gives an empty snapshot, which is kept like any other.       *)
(***************************************************************************)
EXTENDS Naturals, FiniteSets

CONSTANTS
    Keys,            \* the user's ids on different platforms
    Turns, Writes,   \* prompt assemblies, and calls of tools that write
    KeyOf(_),        \* the id a turn or a write runs under
    Nothing,
    Ttl,             \* _CLIENT_TTL_SECONDS, in ticks
    MaxVersion, MaxTokens, MaxClock   \* bounds

VARIABLES
    vault,     \* its version
    token,     \* the token in the identity service; 0: not configured
    changed,   \* when it was last changed
    client,    \* _cache: [token, at], token 0 for none
    store,     \* _store: [Keys -> version of the snapshot, 0 empty, Nothing none]
    holder,    \* [Keys -> turn that holds the lock]
    turn,      \* [Turns -> [pc, seen]]
    write,     \* [Writes -> pc]
    used,      \* history: the last call used [token, current, at]
    excused,   \* history: keys whose snapshot may be out of date for a known reason
    clock

vaultVars == <<vault, token, changed, client, store, holder, turn, write, used, excused, clock>>

VaultInit ==
    /\ vault = 1 /\ token = 1 /\ changed = 0 /\ clock = 0
    /\ client = [token |-> 0, at |-> 0] /\ used = [token |-> 1, current |-> 1, since |-> 0]
    /\ store = [k \in Keys |-> Nothing] /\ holder = [k \in Keys |-> Nothing] /\ excused = {}
    /\ turn = [t \in Turns |-> [pc |-> "idle", seen |-> Nothing]]
    /\ write = [w \in Writes |-> "idle"]

Fresh_Forever(c) == c.token # 0
Fresh(c) == c.token # 0 /\ clock < c.at + Ttl

(* get_client_for_user: the token comes from the cache or the identity     *)
(* service; a service that fails answers like one without a configuration. *)
UseClient ==
    LET k == IF Fresh(client) THEN client.token ELSE token IN
    /\ k # 0
    /\ used' = [token |-> k, current |-> token, since |-> clock - changed]
    /\ client' = IF Fresh(client) THEN client ELSE [token |-> token, at |-> clock]

(* The user gives another token, or removes the configuration.             *)
Configure ==
    /\ token < MaxTokens /\ token' = token + 1
    /\ changed' = clock
    /\ UNCHANGED <<vault, client, store, holder, turn, write, used, excused, clock>>

ClockTicks ==
    /\ clock < MaxClock /\ clock' = clock + 1
    /\ UNCHANGED <<vault, token, changed, client, store, holder, turn, write, used, excused>>

-----------------------------------------------------------------------------
(* get_or_build.                                                           *)
Hit(t) ==
    /\ turn[t].pc \in {"idle", "locked"} /\ store[KeyOf(t)] # Nothing
    /\ turn' = [turn EXCEPT ![t].pc = "over", ![t].seen = store[KeyOf(t)]]
    /\ holder' = [holder EXCEPT ![KeyOf(t)] = IF @ = t THEN Nothing ELSE @]
    /\ UNCHANGED <<vault, token, changed, client, store, write, used, excused, clock>>

Miss(t) ==
    /\ turn[t].pc = "idle" /\ store[KeyOf(t)] = Nothing
    /\ UseClient
    /\ turn' = [turn EXCEPT ![t].pc = "waiting"]
    /\ UNCHANGED <<vault, token, changed, store, holder, write, excused, clock>>

Free_Always(k) == TRUE
Free(k) == holder[k] = Nothing
Lock(t) ==
    /\ turn[t].pc = "waiting" /\ Free(KeyOf(t))
    /\ holder' = [holder EXCEPT ![KeyOf(t)] = t]
    /\ turn' = [turn EXCEPT ![t].pc = "locked"]
    /\ UNCHANGED <<vault, token, changed, client, store, write, used, excused, clock>>

(* build_snapshot: the vault answers, or does not, or refuses the token.   *)
Ask(t) ==
    /\ turn[t].pc = "locked" /\ store[KeyOf(t)] = Nothing
    /\ \E answer \in {0, vault} :
          /\ turn' = [turn EXCEPT ![t].pc = "building", ![t].seen = answer]
          /\ excused' = IF answer = 0 THEN excused \cup {KeyOf(t)} ELSE excused \ {KeyOf(t)}
    /\ UNCHANGED <<vault, token, changed, client, store, holder, write, used, clock>>

Store(t) ==
    /\ turn[t].pc = "building"
    /\ store' = [store EXCEPT ![KeyOf(t)] = turn[t].seen]
    /\ holder' = [holder EXCEPT ![KeyOf(t)] = Nothing]
    /\ turn' = [turn EXCEPT ![t].pc = "over"]
    /\ UNCHANGED <<vault, token, changed, client, write, used, excused, clock>>

(* The prompt does not wait for longer than FETCH_BLOCK_TIMEOUT.           *)
GiveUp(t) ==
    /\ turn[t].pc \in {"waiting", "locked", "building"}
    /\ turn' = [turn EXCEPT ![t].pc = "over", ![t].seen = Nothing]
    /\ holder' = [holder EXCEPT ![KeyOf(t)] = IF @ = t THEN Nothing ELSE @]
    /\ UNCHANGED <<vault, token, changed, client, store, write, used, excused, clock>>

-----------------------------------------------------------------------------
(* A tool writes: the request reaches the vault, and its answer the tool,  *)
(* which then drops the snapshot of the id it runs under.                  *)
BeginWrite(w) ==
    /\ write[w] = "idle" /\ UseClient
    /\ write' = [write EXCEPT ![w] = "requested"]
    /\ UNCHANGED <<vault, token, changed, store, holder, turn, excused, clock>>

(* Keys whose snapshot was taken and is not dropped by this write.         *)
Building(k) == \E t \in Turns : KeyOf(t) = k /\ turn[t].pc = "building"
TakeEffect(w) ==
    /\ write[w] = "requested" /\ vault < MaxVersion
    /\ vault' = vault + 1
    /\ write' = [write EXCEPT ![w] = "done"]
    /\ excused' = excused \cup {k \in Keys : k # KeyOf(w) \/ Building(k)}
    /\ UNCHANGED <<token, changed, client, store, holder, turn, used, clock>>

Invalidated_Nothing(k) == store
Invalidated(k) == [store EXCEPT ![k] = Nothing]
Answered(w) ==
    /\ write[w] = "done"
    /\ store' = Invalidated(KeyOf(w))
    /\ write' = [write EXCEPT ![w] = "over"]
    /\ UNCHANGED <<vault, token, changed, client, holder, turn, used, excused, clock>>

(* The request is refused or lost, or its answer is.                       *)
WriteFails(w) ==
    /\ write[w] \in {"requested", "done"}
    /\ write' = [write EXCEPT ![w] = "over"]
    /\ excused' = IF write[w] = "done" THEN excused \cup {KeyOf(w)} ELSE excused
    /\ UNCHANGED <<vault, token, changed, client, store, holder, turn, used, clock>>

(* The user edits a note.                                                  *)
EditOutside ==
    /\ vault < MaxVersion /\ vault' = vault + 1 /\ excused' = Keys
    /\ UNCHANGED <<token, changed, client, store, holder, turn, write, used, clock>>

VaultNext ==
    \/ Configure \/ ClockTicks \/ EditOutside
    \/ \E t \in Turns : Hit(t) \/ Miss(t) \/ Lock(t) \/ Ask(t) \/ Store(t) \/ GiveUp(t)
    \/ \E w \in Writes : BeginWrite(w) \/ TakeEffect(w) \/ Answered(w) \/ WriteFails(w)

VaultSpec == VaultInit /\ [][VaultNext]_vaultVars

-----------------------------------------------------------------------------
(* Snapshots are of versions the vault had; turns and writes take turns.   *)
VaultTypeOK ==
    /\ vault \in 1 .. MaxVersion /\ token \in 0 .. MaxTokens
    /\ \A k \in Keys : store[k] = Nothing \/ store[k] \in 0 .. vault
    /\ \A t \in Turns : turn[t].pc \in {"idle", "waiting", "locked", "building", "over"}
    /\ \A w \in Writes : write[w] \in {"idle", "requested", "done", "over"}

(* A cached snapshot is the vault's present one, unless a write is about   *)
(* to drop it, or the change was not one this id's tools saw through: a    *)
(* change from elsewhere, one during the build, or an answer that was lost.*)
SnapshotIsCurrent ==
    \A k \in Keys \ excused :
        store[k] # Nothing =>
            store[k] = vault \/ \E w \in Writes : KeyOf(w) = k /\ write[w] = "done"

(* Turns of one id never build at the same time.                           *)
OneBuild ==
    \A s, t \in Turns :
        s # t /\ KeyOf(s) = KeyOf(t) =>
            ~(turn[s].pc \in {"locked", "building"} /\ turn[t].pc \in {"locked", "building"})

(* A replaced token is used no longer than the client is kept.             *)
TokenLagIsBounded == used.token # used.current => used.since < Ttl

VaultSafe == SnapshotIsCurrent /\ OneBuild /\ TokenLagIsBounded
=============================================================================

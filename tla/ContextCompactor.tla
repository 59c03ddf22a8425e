--------------------------- MODULE ContextCompactor ---------------------------
(* The compaction of a conversation that has outgrown its budget              *)
(* (core/context_compactor.py), as the tool loop calls it before each further *)
(* request to the model (gateway/llm_orchestrator.py): the loop appends an    *)
(* answer with tool calls and a result for each, then compacts.               *)
EXTENDS Naturals, Sequences, SequencesExt

CONSTANTS
  Threshold,    \* tokens above which a conversation is compacted
  Contents,     \* contents of a message: size, and whether text in it is marked untrusted
  SummarySize,  \* tokens of a summary
  MaxCalls, MaxTurns   \* bounds: tool calls of an answer, answers

VARIABLES
  messages,   \* working_messages
  before,     \* those the last compaction was given
  outcome,    \* what it did
  summarized, \* history: messages the last summary was made of
  turns       \* answers so far

compactorVars == <<messages, before, outcome, summarized, turns>>

\* A result names the turn of the answer with its call.
Message(kind, turn, content) == [kind |-> kind, turn |-> turn, content |-> content]
Plain(size) == [size |-> size, marked |-> FALSE]
Messages ==
  [kind : {"system", "summary", "user", "answer", "result"}, turn : 0 .. MaxTurns,
   content : Contents \cup {Plain(SummarySize)} \cup {Plain(c.size) : c \in Contents}]

CompactorTypeOK ==
  /\ messages \in Seq(Messages) /\ before \in Seq(Messages)
  /\ outcome \in {"due", "fits", "short", "summarized", "dropped"}
  /\ summarized \subseteq Messages /\ turns \in 0 .. MaxTurns

CompactorInit ==
  /\ \E c \in Contents :
       messages = << Message("system", 0, c), Message("user", 0, c) >>
  /\ before = <<>> /\ outcome = "fits" /\ summarized = {} /\ turns = 0

-----------------------------------------------------------------------------
IsSystem(m)  == m.kind \in {"system", "summary"}
IsHistory(m) == ~IsSystem(m)
System(ms)   == SelectSeq(ms, IsSystem)
History(ms)  == SelectSeq(ms, IsHistory)

Tokens(ms) == FoldLeft(LAMBDA sum, m : sum + m.content.size, 0, ms)
Fits(ms)   == Tokens(ms) <= Threshold

(* The history before the current message, which is the last; how many of     *)
(* its messages are not kept, two fifths being kept and two at least.         *)
Past(ms)    == Front(History(ms))
Current(ms) == << Last(History(ms)) >>

Larger(a, b) == IF a < b THEN b ELSE a
Cut(ms) == LET n == Len(Past(ms)) kept == Larger(2, (2 * n) \div 5)
           IN IF kept < n THEN n - kept ELSE 0
Old(ms)  == SubSeq(Past(ms), 1, Cut(ms))
Kept(ms) == SubSeq(Past(ms), Cut(ms) + 1, Len(Past(ms)))

(* A placeholder is made of the message's class and a text; a tool result     *)
(* cannot be made so.                                                         *)
Sanitizable(ms) == \A n \in DOMAIN ms : ms[n].content.marked => ms[n].kind # "result"

Placeholder_Fault(m) == m
Placeholder(m) == IF m.content.marked THEN [m EXCEPT !.content = Plain(@.size)] ELSE m

-----------------------------------------------------------------------------
Turn ==
  /\ turns < MaxTurns /\ outcome # "due"
  /\ turns' = turns + 1 /\ outcome' = "due" /\ summarized' = {}
  /\ \E c \in Contents, results \in BoundedSeq(Contents, MaxCalls) \ {<<>>} :
       messages' = messages \o << Message("answer", turns', c) >>
                            \o [n \in DOMAIN results |-> Message("result", turns', results[n])]
  /\ before' = messages'

(* compact_if_needed: nothing is done while the messages fit, nor when there  *)
(* are too few to leave any out.                                              *)
Leave ==
  /\ outcome = "due"
  /\ \/ Fits(messages) /\ outcome' = "fits"
     \/ ~Fits(messages) /\ Old(messages) = <<>> /\ outcome' = "short"
  /\ UNCHANGED <<messages, before, summarized, turns>>

(* One summary of all that is old, without what is marked; the whole is not   *)
(* measured again, and a summary is never summarized.                         *)
Joined(ms, old, kept) == System(ms) \o old \o kept \o Current(ms)

Summarize ==
  /\ outcome = "due" /\ ~Fits(messages) /\ Old(messages) # <<>> /\ Sanitizable(Old(messages))
  /\ outcome' = "summarized"
  /\ summarized' = {Placeholder(Old(messages)[n]) : n \in DOMAIN Old(messages)}
  /\ messages' = Joined(messages, << Message("summary", 0, Plain(SummarySize)) >>, Kept(messages))
  /\ UNCHANGED <<before, turns>>

(* The fallback: the oldest messages go, one after another, until the rest    *)
(* fits or only the system's and the current one are left.                    *)
DropFew_Fault(ms, n) == FALSE
DropFew(ms, n) == ~Fits(Joined(ms, <<>>, SubSeq(Past(ms), n + 1, Len(Past(ms)))))

Dropped(ms) ==
  CHOOSE n \in 0 .. Len(Past(ms)) :
    /\ n = Len(Past(ms)) \/ ~DropFew(ms, n)
    /\ \A k \in 0 .. n - 1 : DropFew(ms, k)

DropOldest ==
  /\ outcome = "due" /\ ~Fits(messages) /\ Old(messages) # <<>> /\ ~Sanitizable(Old(messages))
  /\ outcome' = "dropped"
  /\ messages' = Joined(messages, <<>>, SubSeq(Past(messages), Dropped(messages) + 1, Len(Past(messages))))
  /\ UNCHANGED <<before, summarized, turns>>

CompactorNext == Turn \/ Leave \/ Summarize \/ DropOldest
CompactorSpec == CompactorInit /\ [][CompactorNext]_compactorVars

-----------------------------------------------------------------------------
(* "prevent leaking sensitive tool results into summaries". *)
NothingMarkedIsSummarized == \A m \in summarized : ~m.content.marked

(* "drop oldest non-system messages until under budget". *)
DroppedFits == outcome = "dropped" => Fits(messages) \/ Past(messages) = <<>>

(* However often a conversation is compacted, a result stands after the       *)
(* answer that called for it and after the results before it, unless all that *)
(* is left of the history before it are results of that answer.               *)
ResultsFollowCalls ==
  LET h == History(messages) IN
  \A n \in DOMAIN h :
    h[n].kind = "result" =>
      \/ \E k \in 1 .. n - 1 : h[k].kind = "answer" /\ h[k].turn = h[n].turn
      \/ \A k \in 1 .. n - 1 : h[k].kind = "result" /\ h[k].turn = h[n].turn

(* The last results, which the model has not seen, are all there when they    *)
(* are no more than are always kept and nothing was dropped.                  *)
CompactionKeepsTheLatest ==
  outcome = "summarized" => IsSuffix(SubSeq(before, Len(before) - 2, Len(before)), messages)

CompactorSafe ==
  NothingMarkedIsSummarized /\ DroppedFits /\ ResultsFollowCalls /\ CompactionKeepsTheLatest
=============================================================================

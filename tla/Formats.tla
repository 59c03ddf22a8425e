------------------------------- MODULE Formats -------------------------------
(* The conversation of one request in the formats it passes through. The      *)
(* orchestrator keeps typed messages (core/llm/messages.py); every request    *)
(* turns them into dicts and back (llm_orchestrator.py, compat.py) and then   *)
(* into the provider's own shape (core/llm/tools/formats.py). An answer comes *)
(* back as a ToolResponse (response.py), natively or as XML in the text       *)
(* (core/plugins/xml_tools.py), and its calls and results join the messages.  *)
(*                                                                            *)
(* A text, an image or a name is a number, an empty text zero. Arguments are  *)
(* left out. Clients are cached by the providers (providers/langchain.py).    *)
EXTENDS Integers, SequencesExt, FiniteSetsExt

CONSTANTS
  Routes,     \* of {"langchain", "direct_anthropic", "direct_kimi"}
  Modes,      \* of {"native", "xml"}
  Starts,     \* conversations a request begins with: a sequence of typed messages each
  Images,     \* what may be attached
  Configs,    \* [plain, tools |-> [model, url, key]]
  MaxRounds,  \* answers with calls
  MaxText     \* pieces of an answer

VARIABLES
  route, mode,
  messages,   \* the orchestrator's working messages
  waiting,    \* calls of the last answer without a result yet
  rounds,
  answer,     \* the pieces of the last answer in XML mode
  clients,    \* cache key -> the configuration its client was made from
  asked       \* the last request: its use, its messages as sent and its client

formatVars == <<route, mode, messages, waiting, rounds, answer, clients, asked>>

Part(k, x) == [kind |-> k, of |-> x]
System(t)    == [role |-> "system", text |-> t, parts |-> <<>>, calls |-> <<>>, id |-> 0]
UserSays(t)  == [System(t) EXCEPT !.role = "user"]
Assistant(t, cs) == [System(t) EXCEPT !.role = "assistant", !.calls = cs]
Result(i, t) == [System(t) EXCEPT !.role = "tool", !.id = i]

\* Images join the last message of the user; one without a user has none.
WithImages(ms, is) ==
  LET i == SelectLastInSeq(ms, LAMBDA m : m.role = "user")
      old == IF ms[i].parts = <<>> THEN <<Part("text", ms[i].text)>> ELSE ms[i].parts
  IN IF is = <<>> \/ i = 0 THEN ms
     ELSE [ms EXCEPT ![i].parts = old \o [j \in DOMAIN is |-> Part("image", is[j])]]

-----------------------------------------------------------------------------
(* The dict of a message: its content is a list only when it has parts.       *)
ToDict(m) ==
  [role |-> m.role, list |-> m.parts # <<>>, calls |-> m.calls, id |-> m.id,
   content |-> IF m.parts # <<>> THEN m.parts ELSE <<Part("text", m.text)>>]

Texts(ps) == SelectSeq(ps, LAMBDA p : p.kind = "text" /\ p.of # 0)
FromDict(d) ==
  [role |-> d.role, calls |-> d.calls, id |-> d.id,
   parts |-> IF d.list THEN d.content ELSE <<>>,
   text |-> IF ~d.list THEN d.content[1].of
            ELSE IF Texts(d.content) = <<>> THEN 0 ELSE Texts(d.content)[1].of]

ApplyEach(f(_), s) == [i \in DOMAIN s |-> f(s[i])]
Typed(ms) == ApplyEach(FromDict, ApplyEach(ToDict, ms))

(* XML mode puts the tools behind the first system message or makes one.      *)
Tools == 1000
InjectTools(ms) ==
  LET i == SelectInSeq(ms, LAMBDA m : m.role = "system")
  IN IF i = 0 THEN <<System(Tools)>> \o ms ELSE [ms EXCEPT ![i].text = Tools + @]

-----------------------------------------------------------------------------
(* A provider's messages are blocks: texts, images, calls, results.           *)
Block(k, x, i, n) == [kind |-> k, of |-> x, id |-> i, name |-> n]
CallBlocks(m) == [i \in DOMAIN m.calls |-> Block("call", 0, m.calls[i].id, m.calls[i].name)]
PartBlocks(ps) == [i \in DOMAIN ps |-> Block(ps[i].kind, ps[i].of, 0, 0)]
TextBlock(t) == IF t = 0 THEN <<>> ELSE <<Block("text", t, 0, 0)>>

\* OpenAI's shape and LangChain's, which differ in nothing this model tells apart.
OpenAi(m) ==
  [role |-> m.role,
   blocks |-> IF m.role = "tool" THEN <<Block("result", m.text, m.id, 0)>>
              ELSE (IF m.parts = <<>> THEN TextBlock(m.text) ELSE PartBlocks(m.parts))
                   \o CallBlocks(m)]
MessagesToOpenAi(ms) == ApplyEach(OpenAi, ms)

\* Kimi wants the name of the call a result answers, from the calls before it.
NamesBefore(ms, k, i) ==
  LET called == [j \in 1..k |-> SelectSeq(ms[j].calls, LAMBDA c : c.id = i)]
  IN FlattenSeq(called)
MessagesToKimi_First(ms) ==
  [k \in DOMAIN ms |->
    IF ms[k].role # "tool" \/ NamesBefore(ms, k, ms[k].id) = <<>> THEN OpenAi(ms[k])
    ELSE [OpenAi(ms[k]) EXCEPT !.blocks[1].name = Head(NamesBefore(ms, k, ms[k].id)).name]]
MessagesToKimi(ms) ==
  [k \in DOMAIN ms |->
    IF ms[k].role # "tool" \/ NamesBefore(ms, k, ms[k].id) = <<>> THEN OpenAi(ms[k])
    ELSE [OpenAi(ms[k]) EXCEPT !.blocks[1].name = Last(NamesBefore(ms, k, ms[k].id)).name]]

\* Anthropic takes results as a user's blocks.
Anthropic_Text(m) ==
  [role |-> IF m.role = "tool" THEN "user" ELSE m.role,
   blocks |-> IF m.role = "assistant" /\ m.text # 0 THEN TextBlock(m.text) ELSE OpenAi(m).blocks]
Anthropic(m) ==
  [role |-> IF m.role = "tool" THEN "user" ELSE m.role, blocks |-> OpenAi(m).blocks]
IsSystem(m) == m.role = "system"
Others(ms) == SelectSeq(ms, LAMBDA m : ~IsSystem(m))
MessagesToAnthropicBlocks_Last(ms) ==
  LET system == SelectSeq(ms, IsSystem)
  IN [system |-> [i \in DOMAIN system |-> [text |-> system[i].text, cached |-> i = Len(system)]],
      messages |-> ApplyEach(Anthropic, Others(ms))]
MessagesToAnthropicBlocks(ms) ==
  LET system == SelectSeq(ms, IsSystem)
  IN [system |-> [i \in DOMAIN system |-> [text |-> system[i].text, cached |-> i = 1]],
      messages |-> ApplyEach(Anthropic, Others(ms))]

\* What the provider of the route sends for these messages.
Sent(ms) ==
  CASE route = "langchain"   -> [system |-> <<>>, messages |-> MessagesToOpenAi(ms)]
    [] route = "direct_kimi" -> [system |-> <<>>, messages |-> MessagesToKimi(ms)]
    [] OTHER                 -> MessagesToAnthropicBlocks(ms)

(* A cached client is taken when its key fits; the rest of the configuration  *)
(* is not compared.                                                           *)
CacheKey_Url(c) == IF route = "langchain" THEN <<c.model, c.url>> ELSE <<"", c.url>>
CacheKey(c) == IF route = "langchain" THEN <<c.model, c.url>> ELSE <<c.key, c.url>>
ClientFor(c) == IF CacheKey(c) \in DOMAIN clients THEN clients[CacheKey(c)] ELSE c

\* Only the two modes with tools of the provider's own use the settings for tools.
Ask(tools) ==
  LET xml == mode = "xml" /\ tools
      config == Configs[IF tools /\ ~xml THEN "tools" ELSE "plain"]
      ms == IF xml THEN InjectTools(messages) ELSE messages
  IN /\ asked' = [config |-> config, client |-> ClientFor(config), of |-> ms,
                  as |-> Sent(Typed(ms))]
     /\ clients' = [k \in DOMAIN clients \union {CacheKey(config)} |->
                      IF k \in DOMAIN clients THEN clients[k] ELSE config]

-----------------------------------------------------------------------------
(* An answer in XML mode is a sequence of pieces, named by their place: text, *)
(* a block of either style, one that quotes a block of the other style in an  *)
(* argument, and a block the answer breaks off in. All invocations are taken  *)
(* first, then all calls of GLM's style.                                      *)
Pieces == {"text", "invoke", "glm", "quoting", "broken"}
Written(s) == \A i \in DOMAIN s : s[i] = "broken" => i = Len(s)

Places(s, kinds) == SetToSortSeq({i \in DOMAIN s : s[i] \in kinds}, <)
Quoted == 10
GlmNames(s) ==
  [j \in DOMAIN Places(s, {"glm", "quoting"}) |->
    LET i == Places(s, {"glm", "quoting"})[j] IN IF s[i] = "glm" THEN i ELSE Quoted + i]
ParseFunctionCalls_Broken(s) == Places(s, {"invoke", "quoting", "broken"}) \o GlmNames(s)
ParseFunctionCalls(s) == Places(s, {"invoke", "quoting"}) \o GlmNames(s)

\* Ids begin anew in every answer.
ConvertToToolCalls(names) == [i \in DOMAIN names |-> [id |-> i, name |-> names[i]]]

\* Text before the first block; the answer as it is when nothing could be parsed.
TextBefore(s) ==
  LET i == SelectInSeq(s, LAMBDA p : p # "text") IN IF i = 0 THEN s ELSE SubSeq(s, 1, i - 1)
Content(s) == IF ParseFunctionCalls(s) = <<>> THEN s ELSE TextBefore(s)

-----------------------------------------------------------------------------
FormatsInit ==
  /\ route \in Routes /\ mode \in Modes
  /\ \E start \in Starts, is \in {<<>>, Images} : messages = WithImages(start, is)
  /\ waiting = <<>> /\ rounds = 0 /\ answer = <<>> /\ clients = <<>>
  /\ asked = [config |-> Configs["plain"], client |-> Configs["plain"], of |-> <<>>,
              as |-> [system |-> <<>>, messages |-> <<>>]]

Takes(text, calls) ==
  /\ messages' = IF calls = <<>> THEN messages ELSE Append(messages, Assistant(text, calls))
  /\ waiting' = calls
  /\ rounds' = IF calls = <<>> THEN MaxRounds + 1 ELSE rounds + 1
  /\ UNCHANGED <<route, mode>>

\* A provider's own calls have ids of their own; the text may be missing.
AnswersNatively(n, text) ==
  /\ mode = "native" /\ waiting = <<>> /\ rounds < MaxRounds
  /\ Ask(TRUE)
  /\ Takes(text, [i \in 1..n |-> [id |-> 100 * (rounds + 1) + i, name |-> rounds + i]])
  /\ UNCHANGED answer

AnswersInXml(s) ==
  /\ mode = "xml" /\ waiting = <<>> /\ rounds < MaxRounds
  /\ Ask(TRUE)
  /\ answer' = s
  /\ Takes(Len(Content(s)), ConvertToToolCalls(ParseFunctionCalls(s)))

\* Tools run one after the other; a result's text tells the call it is of.
Output(c) == 100 * rounds + c.name
ToolReturns ==
  /\ waiting # <<>>
  /\ messages' = Append(messages, Result(Head(waiting).id, Output(Head(waiting))))
  /\ waiting' = Tail(waiting)
  /\ UNCHANGED <<route, mode, rounds, answer, clients, asked>>

\* The summary when the rounds are used up asks the main model, without tools.
AnswersAtLast ==
  /\ waiting = <<>> /\ rounds = MaxRounds
  /\ Ask(FALSE)
  /\ Takes(1, <<>>)
  /\ UNCHANGED answer

FormatsNext ==
  \/ \E n \in 0..2, t \in {0, 1} : AnswersNatively(n, t)
  \/ \E n \in 1..MaxText : \E s \in {p \in [1..n -> Pieces] : Written(p)} : AnswersInXml(s)
  \/ ToolReturns
  \/ AnswersAtLast

-----------------------------------------------------------------------------
FormatsTypeOK ==
  /\ route \in Routes /\ mode \in Modes /\ rounds \in 0..(MaxRounds + 1)
  /\ \A i \in DOMAIN messages : messages[i].role \in {"system", "user", "assistant", "tool"}
  /\ \A k \in DOMAIN clients : clients[k] \in {Configs[u] : u \in DOMAIN Configs}

AllBlocks(ms) == FlattenSeq([i \in DOMAIN ms |-> ms[i].blocks])
Shape(bs) == [i \in DOMAIN bs |-> <<bs[i].kind, bs[i].of, bs[i].id>>]

(* Whatever the provider's shape, it is sent every text, image, call and      *)
(* result the orchestrator holds, in the order it holds them, so that each    *)
(* result still follows the call whose id it bears.                           *)
NothingIsLost ==
  Shape(AllBlocks(asked.as.messages)) =
    Shape(AllBlocks(MessagesToOpenAi(IF route = "direct_anthropic" THEN Others(asked.of)
                                     ELSE asked.of)))

(* A result that Kimi is sent bears the name of the call it is the output of, *)
(* though XML mode numbers the calls of every answer from the same start.     *)
KimiIsToldTheName ==
  route = "direct_kimi" =>
    \A b \in ToSet(AllBlocks(asked.as.messages)) :
      b.kind = "result" => b.name = b.of % 100

(* Exactly the first system message, the persona that stays the same from     *)
(* request to request, is marked for Anthropic's cache, and in XML mode the   *)
(* tools are in that one and in no other.                                     *)
PersonaIsCached ==
  /\ route = "direct_anthropic" =>
       \A i \in DOMAIN asked.as.system : asked.as.system[i].cached = (i = 1)
  /\ \A i \in DOMAIN asked.of :
       asked.of[i].text >= Tools => i = 1 /\ IsSystem(asked.of[i])

(* Calls written in one style are run in the order they are written in, none  *)
(* of them twice, and a block the answer breaks off in is never run. An       *)
(* answer with none is kept whole.                                            *)
CallsAsWritten ==
  LET parsed == ParseFunctionCalls(answer)
  IN mode = "xml" =>
       /\ IsInjective(parsed)
       /\ \A i \in DOMAIN parsed : answer[parsed[i] % Quoted] \notin {"text", "broken"}
       /\ \A k \in {"invoke", "glm"} :
            ToSet(answer) \subseteq {"text", "broken", k} => parsed = Places(answer, {k})
       /\ parsed = <<>> => Content(answer) = answer

(* A direct provider never serves a request with a client made for another    *)
(* key; the LangChain route may, when plain requests and those with tools     *)
(* share a model but not a key (TOOL_API_KEY).                                *)
ClientsAreTheirs ==
  asked.client.key # asked.config.key => route = "langchain" /\ asked.client.model = asked.config.model

FormatsSafe ==
  NothingIsLost /\ KimiIsToldTheName /\ PersonaIsCached /\ CallsAsWritten /\ ClientsAreTheirs
=============================================================================

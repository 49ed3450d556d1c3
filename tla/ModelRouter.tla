----------------------------- MODULE ModelRouter -----------------------------
(***************************************************************************)
(* core/modelRouter.ts with core/modelRegistry.ts and providers/*.ts: a    *)
(* chat goes down a chain of models until one gives an answer the router   *)
(* accepts.  Chats run at the same time and share the registry of models,  *)
(* which the first of them loads.                                          *)
(*                                                                         *)
(* An answer is what the router and the providers tell apart: whether it   *)
(* says something and whether it calls tools; an operator for each         *)
(* provider says how its service puts that.  A call that was given up for  *)
(* its timeout ends unheard.                                               *)
(***************************************************************************)
EXTENDS Places, Sequences, SequencesExt

CONSTANTS
  Directory,    \* contents of the directory of models: sequences of name and whether it is valid
  Cloud,        \* names of CLOUD_MODEL_SPECS
  Type,         \* by name: type of the model
  NoVision,     \* models whose spec says that they have no vision
  FallbackModels,   \* of the mode: sequence of names
  ChatRequest,  \* primary model and what the payload requires: "nothing", "tools" or "vision"
  MaxChats      \* bound: chats of the process

NotLoaded == {"not loaded"}

ASSUME RouterConstants ==
  /\ MaxChats \in Nat
  /\ NotLoaded \cap DOMAIN Type = {}
  /\ FallbackModels \in Seq(ToSet(FallbackModels)) /\ "mock" \in ToSet(FallbackModels)
  /\ \A files \in Directory : \A i \in DOMAIN files : files[i].name \in DOMAIN Type
  /\ Cloud \subseteq DOMAIN Type

VARIABLES
  files,        \* what the directory of models holds
  registry,     \* NotLoaded, or the names that were set
  chats         \* the chats so far: request, and what each model that was tried came to

routerVars == <<files, registry, chats>>

RouterInit == files \in Directory /\ registry = NotLoaded /\ chats = <<>>

BuildFallbackChain(primary) ==
  <<primary>> \o Picked(FallbackModels, {n \in DOMAIN FallbackModels : FallbackModels[n] # primary})

-----------------------------------------------------------------------------
(* modelRegistry.ts                                                         *)

Names(list) == {list[i].name : i \in DOMAIN list}
Sound == \A i \in DOMAIN files : files[i].ok

\* The registry is kept before it is filled: a file that is not valid throws out of the
\* first look-up only, and leaves what was set before it, without the cloud models.
Loaded ==
  IF Sound THEN Names(files) \union Cloud
  ELSE {files[i].name : i \in {j \in DOMAIN files : \A k \in 1 .. j : files[k].ok}}

-----------------------------------------------------------------------------
(* The providers and the services behind them.                              *)

\* raw: the member of the response the router looks for; text: not blank; tool_calls: what is
\* there for validateCapability.  Each provider takes the text from where its service puts
\* it: an answer that says nothing, or calls a tool instead, has a blank one.  The router
\* looks for the calls in the choice and not in its message: calls says that they are there.
OpenAICompatible(says, calls) == [raw |-> "choices", text |-> says, tool_calls |-> calls]
AzureOpenAI(says, calls) == [raw |-> "choices", text |-> says, tool_calls |-> calls]
LocalGguf(says, calls) == [raw |-> "choices", text |-> says, tool_calls |-> calls]
\* tool calls are members of content, candidates or message, where nobody looks for them
Anthropic(says) == [raw |-> "content", text |-> says, tool_calls |-> FALSE]
Google(says) == [raw |-> "candidates", text |-> says, tool_calls |-> FALSE]
Ollama(says) == [raw |-> "message", text |-> says, tool_calls |-> FALSE]
\* an empty list of calls, which counts
Mock(requires) == [raw |-> "content", text |-> TRUE, tool_calls |-> requires = "tools"]

\* what a model of a type may answer; the cloud models only refer to the adapter gateway
Answers(type, requires) ==
  CASE type = "openai-compatible" -> {OpenAICompatible(t, c) : t, c \in BOOLEAN}
    [] type = "azure-openai" -> {AzureOpenAI(t, c) : t, c \in BOOLEAN}
    [] type = "local-gguf" -> {LocalGguf(t, c) : t, c \in BOOLEAN}
    [] type = "anthropic" -> {Anthropic(t) : t \in BOOLEAN}
    [] type = "google" -> {Google(t) : t \in BOOLEAN}
    [] type = "ollama" -> {Ollama(t) : t \in BOOLEAN}
    [] type = "mock" -> {Mock(requires)}
    [] OTHER -> {}

\* Slip: the members Google and Ollama use are accepted, too.
ValidateAnyStructure(a) == a.raw \in {"content", "choices", "candidates", "message"}

ValidateStructure(a) == a.raw \in {"content", "choices"}

ValidateText(a) == a.text

ValidateCapability(a, requires, m) ==
  /\ requires = "vision" => m \notin NoVision
  /\ requires = "tools" => a.tool_calls

\* What calling m may come to: a call fails for a missing key, an HTTP error or its timeout.
Outcomes(m, requires) ==
  IF m \notin registry THEN {"unknown"}
  ELSE {IF /\ ValidateStructure(a) /\ ValidateText(a) /\ ValidateCapability(a, requires, m)
        THEN "ok" ELSE "rejected" : a \in Answers(Type[m], requires)}
       \union (IF Type[m] = "mock" THEN {} ELSE {"failed"})

-----------------------------------------------------------------------------
(* callModel                                                                *)

Chain(chat) == BuildFallbackChain(chat.request.model)
Answered(chat) == chat.tried # <<>> /\ Last(chat.tried) = "ok"
Ended(chat) == Answered(chat) \/ Len(chat.tried) = Len(Chain(chat))

\* up to the look-up of the first model: if it is the one that cannot load the registry,
\* the chat goes on with its next model
CallModel(request) ==
  /\ Len(chats) < MaxChats
  /\ chats' = Append(chats, [request |-> request,
                             tried |-> IF registry = NotLoaded /\ ~ Sound THEN <<"load">> ELSE <<>>])
  /\ registry' = IF registry = NotLoaded THEN Loaded ELSE registry
  /\ UNCHANGED files

TryModel(c) ==
  LET chat == chats[c] IN
  /\ ~ Ended(chat)
  /\ \E outcome \in Outcomes(Chain(chat)[Len(chat.tried) + 1], chat.request.requires) :
       chats' = [chats EXCEPT ![c] = [chat EXCEPT !.tried = Append(chat.tried, outcome)]]
  /\ UNCHANGED <<files, registry>>

RouterNext ==
  \/ \E request \in ChatRequest : CallModel(request)
  \/ \E c \in DOMAIN chats : TryModel(c)

RouterSpec == RouterInit /\ [][RouterNext]_routerVars

-----------------------------------------------------------------------------
OpenAILike == {"openai-compatible", "azure-openai", "local-gguf"}

(* Which answers reach a caller.  What Google and Ollama send is never      *)
(* accepted, however good: their models only delay the chat; and a chat     *)
(* that requires tools is answered by a model of an OpenAI-like service or  *)
(* by the mock, which calls none.  While the model files are all valid and  *)
(* the mock is one of them, every chat is answered that does not require    *)
(* what the mock lacks.  One bad file costs one chat a model and every      *)
(* later chat the models that come after it, for as long as the process     *)
(* lives (modelRouter.ts:52-76, 157-247, modelRegistry.ts:12-42,            *)
(* providers/google.ts:56-61, providers/ollama.ts:31-36,                    *)
(* providers/mock.ts:5-13).                                                 *)
OnlySomeAnswersCount ==
  /\ \A c \in DOMAIN chats : Answered(chats[c]) =>
       LET type == Type[Chain(chats[c])[Len(chats[c].tried)]]
       IN IF chats[c].request.requires = "tools" THEN type \in OpenAILike \union {"mock"}
          ELSE type \in OpenAILike \union {"mock", "anthropic"}
  /\ Sound => \A c \in DOMAIN chats :
       /\ "load" \notin Range(chats[c].tried)
       /\ "mock" \in Loaded /\ Type["mock"] = "mock" /\ Ended(chats[c]) =>
            \/ Answered(chats[c])
            \/ chats[c].request.requires = "vision" /\ "mock" \in NoVision
  /\ ~ Sound => \A c \in DOMAIN chats : \A i \in DOMAIN chats[c].tried :
       LET m == Chain(chats[c])[i]
       IN IF chats[c].tried[i] = "load" THEN c = 1 /\ i = 1
          ELSE chats[c].tried[i] # "unknown" =>
                 \E j \in DOMAIN files : files[j].name = m /\ \A k \in 1 .. j : files[k].ok
=============================================================================

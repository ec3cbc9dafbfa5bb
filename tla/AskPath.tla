------------------------------ MODULE AskPath ------------------------------
(***************************************************************************)
(* The way of a prompt: aida-chat (aidad/chat.py) sends it over the bus    *)
(* (bus/client.py) to the AIDA agent (agents/base.py, agents/aida.py),     *)
(* whose graph (agents/orchestrator.py) asks Hermes for memories, then has *)
(* a model generate an answer through mpi/client.py.  When the bus call    *)
(* raises, the chat runs the same graph in its own process.                *)
(*                                                                         *)
(* Time is not modelled: a timeout may strike whenever a call is pending.  *)
(* NATS and the model providers are external; NATS delivers at most once,  *)
(* hands the messages of a subscription to its callback one at a time and  *)
(* routes a reply to the request it answers.                               *)
(***************************************************************************)
EXTENDS Integers, Sequences, SequencesExt

CONSTANTS
  Chat,        \* the terminals running aida-chat
  Aida,        \* the AIDA agent's callback, which runs one graph at a time
  MaxHistory,  \* 20: messages chat_loop keeps
  Models,      \* what /schedule may choose, of "local" and "cloud"
  MaxPrompts,  \* bound: prompts typed in one terminal
  MaxFaults    \* bound: outages, kills and interrupts, together

ASSUME AskAssumption ==
  /\ Aida \notin Chat
  /\ MaxHistory \in Nat \ {0}
  /\ Models \subseteq {"local", "cloud"}
  /\ MaxPrompts \in Nat /\ MaxFaults \in Nat

Runner == Chat \cup {Aida}

VARIABLES
  nats,     \* the NATS server runs
  up,       \* aidad runs, and with it the agents and /schedule
  agents,   \* the agents' subscriptions: "listening", "reconnecting", "deaf"
  phase,    \* [Chat -> {"idle", "asking", "direct"}]
  prompt,   \* [Chat -> Nat], the number of the last prompt
  history,  \* [Chat -> Seq of messages]
  inbox,    \* requests delivered to the AIDA agent, not yet handled
  run,      \* [Runner -> a graph invocation, or NoRun]
  replies,  \* replies under way to the chats
  started,  \* history: [Chat -> number of graph runs for the last prompt]
  faults    \* history: number of outages, kills and interrupts

vars == <<nats, up, agents, phase, prompt, history, inbox, run, replies,
          started, faults>>
bus == <<nats, up, agents>>
terminal == <<phase, prompt, history>>

Request == [chat : Chat, prompt : Nat]
NoRun == [stage |-> "none"]

Fault == faults < MaxFaults /\ faults' = faults + 1

Init ==
  /\ nats = TRUE /\ up = TRUE /\ agents \in {"listening", "deaf"}
  /\ phase = [c \in Chat |-> "idle"]
  /\ prompt = [c \in Chat |-> 0]
  /\ history = [c \in Chat |-> <<>>]
  /\ inbox = <<>>
  /\ run = [r \in Runner |-> NoRun]
  /\ replies = {}
  /\ started = [c \in Chat |-> 0]
  /\ faults = 0

-----------------------------------------------------------------------------
(* chat_loop and _ask_aida *)

Current(c) == [chat |-> c, prompt |-> prompt[c]]

StartGraphAtRespond(r, request) ==   \* mutant: the edge from START is wrong
  run' = [run EXCEPT ![r] = [stage |-> "schedule", request |-> request]]

\* graph.ainvoke, up to its first await
StartGraph(r, request) ==
  run' = [run EXCEPT ![r] = [stage |-> "memories", request |-> request]]

CountRun(request) ==
  started' = IF request = Current(request.chat)
             THEN [started EXCEPT ![request.chat] = @ + 1] ELSE started

\* A prompt is typed and published on aida.agent.aida.request.
AskBus(c) ==
  /\ phase[c] = "idle" /\ prompt[c] < MaxPrompts
  /\ nats /\ agents = "listening"
  /\ phase' = [phase EXCEPT ![c] = "asking"]
  /\ prompt' = [prompt EXCEPT ![c] = @ + 1]
  /\ inbox' = Append(inbox, [chat |-> c, prompt |-> prompt[c] + 1])
  /\ started' = [started EXCEPT ![c] = 0]
  /\ UNCHANGED <<bus, history, run, replies, faults>>

\* It cannot be: no server, or nobody subscribed.  The graph runs right here.
AskDirect(c) ==
  /\ phase[c] = "idle" /\ prompt[c] < MaxPrompts
  /\ ~(nats /\ agents = "listening")
  /\ phase' = [phase EXCEPT ![c] = "direct"]
  /\ prompt' = [prompt EXCEPT ![c] = @ + 1]
  /\ StartGraph(c, [chat |-> c, prompt |-> prompt[c] + 1])
  /\ started' = [started EXCEPT ![c] = 1]
  /\ UNCHANGED <<bus, history, inbox, replies, faults>>

FallBackToBus(c) ==   \* mutant: the except clause sends the request again
  /\ inbox' = Append(inbox, Current(c))
  /\ UNCHANGED <<phase, run, started>>

FallBack(c) ==
  /\ phase' = [phase EXCEPT ![c] = "direct"]
  /\ StartGraph(c, Current(c))
  /\ CountRun(Current(c))
  /\ UNCHANGED inbox

\* request() raises: 60 seconds have passed, or the connection is lost.
BusTimeout(c) ==
  /\ phase[c] = "asking"
  /\ FallBack(c)
  /\ UNCHANGED <<bus, prompt, history, replies, faults>>

Trim(h) ==
  IF Len(h) > MaxHistory THEN SubSeq(h, Len(h) - MaxHistory + 1, Len(h)) ELSE h

\* The response is printed; both messages are appended and history trimmed.
Show(c, reply) ==
  /\ phase' = [phase EXCEPT ![c] = "idle"]
  /\ history' = [history EXCEPT
       ![c] = Trim(@ \o <<[role |-> "user", of |-> prompt[c], text |-> "prompt"],
                          [role |-> "assistant", of |-> reply.prompt,
                           text |-> reply.text]>>)]
  /\ UNCHANGED prompt

\* The exception is printed and the exchange forgotten.
ShowError(c) ==
  /\ phase' = [phase EXCEPT ![c] = "idle"]
  /\ UNCHANGED <<prompt, history>>

AnyReply(c, reply) ==   \* mutant: replies share one subject per terminal
  phase[c] = "asking" /\ reply.chat = c

\* NATS hands the reply to the request that waits for it.
Awaited(c, reply) ==
  phase[c] = "asking" /\ reply.chat = c /\ reply.prompt = prompt[c]

Deliver(c) ==
  \E reply \in replies :
    /\ Awaited(c, reply)
    /\ Show(c, reply)
    /\ replies' = replies \ {reply}
    /\ UNCHANGED <<bus, inbox, run, started, faults>>

\* A reply nobody waits for any more, or one the server lost.
DropReply ==
  \E reply \in replies :
    /\ ~Awaited(reply.chat, reply) \/ ~nats
    /\ replies' = replies \ {reply}
    /\ UNCHANGED <<bus, terminal, inbox, run, started, faults>>

\* Ctrl-C, and aida-chat is started again: history is not persisted.
Interrupt(c) ==
  /\ Fault
  /\ phase' = [phase EXCEPT ![c] = "idle"]
  /\ history' = [history EXCEPT ![c] = <<>>]
  /\ run' = [run EXCEPT ![c] = NoRun]
  /\ UNCHANGED <<bus, prompt, inbox, replies, started>>

-----------------------------------------------------------------------------
(* The AIDA agent: subscribe_reply's callback and AidaAgent.handle *)

NewestFirst == Len(inbox)   \* mutant: the last message is handled first

\* The position of the message the callback is given.
OldestFirst == 1

StartHandle ==
  /\ up /\ inbox # <<>>
  /\ run[Aida] = NoRun
  /\ StartGraph(Aida, inbox[OldestFirst])
  /\ CountRun(inbox[OldestFirst])
  /\ inbox' = RemoveAt(inbox, OldestFirst)
  /\ UNCHANGED <<bus, terminal, replies, faults>>

\* msg.respond, after which the callback takes the next message.
Respond(request, text) ==
  \/ replies' = replies \cup
       {[chat |-> request.chat, prompt |-> request.prompt, text |-> text]}
  \/ ~nats /\ UNCHANGED replies

-----------------------------------------------------------------------------
(* The graph: _get_memories, _resolve_model, acompletion *)

\* The process that runs the graph is there.
Alive(r) == r = Aida => up

HermesListens == nats /\ up /\ agents = "listening"

MemoriesOrWait ==   \* mutant: without an answer the graph does not go on
  IF HermesListens THEN BOOLEAN ELSE {}

\* Hermes answers, with memories or without any; or 5 seconds pass, or the
\* request raises, and the graph goes on without.
MemoriesOrNone == IF HermesListens THEN BOOLEAN ELSE {FALSE}

GetMemories(r) ==
  /\ Alive(r) /\ run[r].stage = "memories"
  /\ \E found \in MemoriesOrNone :
       run' = [run EXCEPT ![r] = [stage |-> "schedule", request |-> run[r].request,
                                  memories |-> found]]
  /\ UNCHANGED <<bus, terminal, inbox, replies, started, faults>>

\* POST /schedule, without require_local.
ResolveModel(r) ==
  /\ Alive(r) /\ run[r].stage = "schedule" /\ up
  /\ \E m \in Models :
       run' = [run EXCEPT ![r] = [stage |-> "complete", request |-> run[r].request,
                                  memories |-> run[r].memories, model |-> m]]
  /\ UNCHANGED <<bus, terminal, inbox, replies, started, faults>>

\* acompletion returns and the graph ends.
Complete(r) ==
  /\ Alive(r) /\ run[r].stage = "complete"
  /\ run' = [run EXCEPT ![r] = NoRun]
  /\ IF r = Aida
     THEN Respond(run[r].request, "answer") /\ UNCHANGED terminal
     ELSE /\ Show(r, [prompt |-> run[r].request.prompt, text |-> "answer"])
          /\ UNCHANGED replies
  /\ UNCHANGED <<bus, inbox, started, faults>>

\* /schedule has no model, does not answer in 5 seconds or is not there, or
\* the provider raises.  The agent replies {"error": ...}, which _ask_aida
\* reads as a reply without a response; in the chat's own process it raises.
GraphFails(r) ==
  /\ Alive(r) /\ run[r].stage \in {"schedule", "complete"}
  /\ run' = [run EXCEPT ![r] = NoRun]
  /\ IF r = Aida
     THEN Respond(run[r].request, "(no response)") /\ UNCHANGED terminal
     ELSE ShowError(r) /\ UNCHANGED replies
  /\ UNCHANGED <<bus, inbox, started, faults>>

GraphStep(r) ==
  GetMemories(r) \/ ResolveModel(r) \/ Complete(r) \/ GraphFails(r)

-----------------------------------------------------------------------------
(* The processes around it *)

\* aidad dies: the agents' queue and the run in hand are gone.
KillDaemon ==
  /\ up /\ Fault
  /\ up' = FALSE /\ agents' = "deaf"
  /\ inbox' = <<>>
  /\ run' = [run EXCEPT ![Aida] = NoRun]
  /\ UNCHANGED <<nats, terminal, replies, started>>

\* _start_agents: each agent subscribes, or its task ends because connect
\* raised (no server, or the client refuses), and nothing starts it again.
StartDaemon ==
  /\ ~up
  /\ up' = TRUE
  /\ agents' \in IF nats THEN {"listening", "deaf"} ELSE {"deaf"}
  /\ UNCHANGED <<nats, terminal, inbox, run, replies, started, faults>>

\* What the server had not delivered yet is lost.
NatsStops ==
  /\ nats /\ Fault
  /\ nats' = FALSE
  /\ \E n \in 0 .. Len(inbox) : inbox' = SubSeq(inbox, 1, n)
  /\ agents' = IF agents = "listening" THEN "reconnecting" ELSE agents
  /\ UNCHANGED <<up, terminal, run, replies, started>>

NatsStarts ==
  /\ ~nats
  /\ nats' = TRUE
  /\ UNCHANGED <<up, agents, terminal, inbox, run, replies, started, faults>>

\* The client library reconnects and subscribes again on its own.
Reconnect ==
  /\ nats /\ agents = "reconnecting"
  /\ agents' = "listening"
  /\ UNCHANGED <<nats, up, terminal, inbox, run, replies, started, faults>>

\* It has tried as often as it is allowed to and closes for good.
GiveUp ==
  /\ ~nats /\ agents = "reconnecting"
  /\ agents' = "deaf"
  /\ UNCHANGED <<nats, up, terminal, inbox, run, replies, started, faults>>

Next ==
  \/ \E c \in Chat :
       AskBus(c) \/ AskDirect(c) \/ BusTimeout(c) \/ Deliver(c) \/ Interrupt(c)
  \/ DropReply \/ StartHandle
  \/ \E r \in Runner : GraphStep(r)
  \/ KillDaemon \/ StartDaemon \/ NatsStops \/ NatsStarts \/ Reconnect \/ GiveUp

(***************************************************************************)
(* request() has a timeout; a running process takes its next step; every   *)
(* model call ends, with an answer or with the provider's own timeout.     *)
(***************************************************************************)
Fairness ==
  /\ \A c \in Chat : WF_vars(BusTimeout(c) \/ Deliver(c))
  /\ WF_vars(StartHandle)
  /\ \A r \in Runner : WF_vars(GraphStep(r))

Spec == Init /\ [][Next]_vars
FairSpec == Spec /\ Fairness

-----------------------------------------------------------------------------
(* Properties *)

Reply == [chat : Chat, prompt : Nat, text : {"answer", "(no response)"}]

Message == [role : {"user", "assistant"}, of : Nat,
            text : {"prompt", "answer", "(no response)"}]

RunState ==
  {NoRun}
    \cup [stage : {"memories"}, request : Request]
    \cup [stage : {"schedule"}, request : Request, memories : BOOLEAN]
    \cup [stage : {"complete"}, request : Request, memories : BOOLEAN,
          model : {"local", "cloud"}]

\* Every variable has its type.
TypeOK ==
  /\ nats \in BOOLEAN /\ up \in BOOLEAN
  /\ agents \in {"listening", "reconnecting", "deaf"}
  /\ phase \in [Chat -> {"idle", "asking", "direct"}]
  /\ prompt \in [Chat -> Nat]
  /\ history \in [Chat -> Seq(Message)]
  /\ inbox \in Seq(Request)
  /\ run \in [Runner -> RunState]
  /\ replies \subseteq Reply
  /\ started \in [Chat -> Nat]
  /\ faults \in Nat

\* The exchanges of a history: the prompt, and the prompt its answer is for.
Kept(h) == [k \in 1 .. (Len(h) \div 2) |-> <<h[2 * k - 1].of, h[2 * k].of>>]

Busy == [c \in Chat |-> phase[c] # "idle"]
Recent == [c \in Chat |-> Kept(history[c])]

(***************************************************************************)
(* However requests time out, agents die and replies come late, the chats  *)
(* implement ChatService: one outcome per prompt, an answer belongs to the *)
(* prompt it is shown under (chat.py 133-142), history holds the last ten  *)
(* exchanges whole and in order (chat.py 143-144), and (in FairSpec) every *)
(* prompt gets its outcome (chat.py 88-101).                               *)
(***************************************************************************)
Service == INSTANCE ChatService WITH
  Exchanges <- MaxHistory \div 2,
  busy <- Busy,
  recent <- Recent

ImplementsChatService == Service!Spec

(***************************************************************************)
(* A prompt costs at most two graph runs, and so at most two model calls:  *)
(* one by the agent and one by the chat itself.  The fallback is no retry  *)
(* loop (chat.py 88-101).                                                  *)
(***************************************************************************)
WorkBounded == \A c \in Chat : started[c] <= 2

(***************************************************************************)
(* The agent never takes up a request of a terminal after a later one of   *)
(* the same terminal: requests are handled in the order they were sent,    *)
(* abandoned ones included, and a reply under way is never newer than a    *)
(* request that still waits (bus/client.py 59-70).                         *)
(***************************************************************************)
HandledInOrder ==
  \A i \in DOMAIN inbox :
    /\ \A j \in 1 .. i - 1 :
         inbox[j].chat = inbox[i].chat => inbox[j].prompt < inbox[i].prompt
    /\ run[Aida] # NoRun /\ run[Aida].request.chat = inbox[i].chat
         => run[Aida].request.prompt < inbox[i].prompt
    /\ \A reply \in replies :
         reply.chat = inbox[i].chat => reply.prompt < inbox[i].prompt

\* Requests do not pile up for good: the agent gets to the end of its queue,
\* also when the terminals that sent them have given up.
QueueDrains == inbox # <<>> ~> inbox = <<>>

-----------------------------------------------------------------------------
(* What the repository says and the code does not do *)

\* "`No model available` | No models pulled" (docs/chat.md:34): when the
\* scheduler has no model the user is told, not shown an empty reply.
FailureIsShown ==
  \A c \in Chat : \A i \in DOMAIN history[c] :
    history[c][i].text # "(no response)"

=============================================================================

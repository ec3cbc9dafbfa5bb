--------------------------- MODULE AskPath_proof ---------------------------
(***************************************************************************)
(* Theorems about AskPath, for any terminals, any length of the history    *)
(* and every value of the bounds.                                          *)
(***************************************************************************)
EXTENDS AskPath, SequenceTheorems, TLAPS

(* Sequences *)

LEMMA PrefixOf ==
  ASSUME NEW S, NEW s \in Seq(S), NEW n \in 0 .. Len(s)
  PROVE  /\ SubSeq(s, 1, n) \in Seq(S)
         /\ Len(SubSeq(s, 1, n)) = n
         /\ \A i \in 1 .. n : SubSeq(s, 1, n)[i] = s[i]
OBVIOUS

LEMMA WithoutOldest ==
  ASSUME NEW S, NEW s \in Seq(S), s # <<>>
  PROVE  /\ s[OldestFirst] \in S
         /\ RemoveAt(s, OldestFirst) \in Seq(S)
         /\ Len(RemoveAt(s, OldestFirst)) = Len(s) - 1
         /\ \A i \in 1 .. Len(s) - 1 : RemoveAt(s, OldestFirst)[i] = s[i + 1]
<1>1. /\ SubSeq(s, 1, 0) = <<>> /\ SubSeq(s, 2, Len(s)) = Tail(s)
      /\ s[1] \in S
  BY SubSeqEmpty, TailIsSubSeq
<1>2. RemoveAt(s, 1) = SubSeq(s, 1, 0) \o SubSeq(s, 2, Len(s))
  BY DEF RemoveAt
<1>3. RemoveAt(s, 1) = Tail(s)
  BY <1>1, <1>2, HeadTailProperties
<1> QED
  BY <1>1, <1>3, HeadTailProperties DEF OldestFirst

LEMMA TrimType ==
  ASSUME NEW h \in Seq(Message)
  PROVE  Trim(h) \in Seq(Message)
<1>1. CASE Len(h) > MaxHistory
  <2> DEFINE k == Len(h) - MaxHistory + 1
  <2>1. k \in 1 .. Len(h) /\ Len(h) \in Nat
    BY <1>1, AskAssumption
  <2>2. \A i \in k .. Len(h) : h[i] \in Message
    BY <2>1
  <2>3. SubSeq(h, k, Len(h)) \in Seq(Message)
    BY <2>1, <2>2
  <2> QED
    BY <1>1, <2>3 DEF Trim
<1>2. CASE ~(Len(h) > MaxHistory)
  BY <1>2 DEF Trim
<1> QED
  BY <1>1, <1>2

-----------------------------------------------------------------------------
(* Types *)

LEMMA InitTypeOK == Init => TypeOK
BY AskAssumption DEF Init, TypeOK, RunState, Runner

LEMMA NextTypeOK == TypeOK /\ [Next]_vars => TypeOK'
<1> SUFFICES ASSUME TypeOK, [Next]_vars
             PROVE  TypeOK'
  OBVIOUS
<1> USE DEF TypeOK, bus, terminal
<1>c. Chat \subseteq Runner /\ Aida \in Runner /\ Aida \notin Chat
  BY AskAssumption DEF Runner
<1>n. NoRun \in RunState
  BY DEF RunState
<1>f. ASSUME Fault PROVE faults' \in Nat
  BY <1>f DEF Fault
<1>g. ASSUME NEW r \in Runner, NEW request \in Request, StartGraph(r, request)
      PROVE  run' \in [Runner -> RunState]
  BY <1>g DEF StartGraph, RunState
<1>d. ASSUME NEW request \in Request, CountRun(request)
      PROVE  started' \in [Chat -> Nat]
  BY <1>d DEF CountRun, Request
<1>s. ASSUME NEW c \in Chat, NEW reply, reply.prompt \in Nat,
             reply.text \in {"answer", "(no response)"}, Show(c, reply)
      PROVE  /\ phase' \in [Chat -> {"idle", "asking", "direct"}]
             /\ prompt' \in [Chat -> Nat] /\ history' \in [Chat -> Seq(Message)]
  <2> DEFINE both == <<[role |-> "user", of |-> prompt[c], text |-> "prompt"],
                       [role |-> "assistant", of |-> reply.prompt,
                        text |-> reply.text]>>
  <2>1. both \in Seq(Message)
    <3>1. [role |-> "user", of |-> prompt[c], text |-> "prompt"] \in Message
      BY DEF Message
    <3>2. [role |-> "assistant", of |-> reply.prompt, text |-> reply.text]
            \in Message
      BY <1>s DEF Message
    <3> QED
      BY <3>1, <3>2
  <2>2. history[c] \o both \in Seq(Message)
    BY <2>1
  <2>3. Trim(history[c] \o both) \in Seq(Message)
    BY <2>2, TrimType
  <2>4. history' = [history EXCEPT ![c] = Trim(history[c] \o both)]
    BY <1>s DEF Show
  <2> QED
    BY <1>s, <2>3, <2>4 DEF Show
<1>r. ASSUME NEW request \in Request, NEW text \in {"answer", "(no response)"},
             Respond(request, text)
      PROVE  replies' \subseteq Reply
  <2>1. [chat |-> request.chat, prompt |-> request.prompt, text |-> text] \in Reply
    BY DEF Reply, Request
  <2> QED
    BY <1>r, <2>1 DEF Respond
<1>q. ASSUME NEW r \in Runner, run[r].stage \in {"memories", "schedule", "complete"}
      PROVE  run[r].request \in Request
  BY <1>q DEF RunState, NoRun
<1>1. ASSUME NEW c \in Chat, AskBus(c)
      PROVE  TypeOK'
  BY <1>1 DEF AskBus, Request
<1>2. ASSUME NEW c \in Chat, AskDirect(c)
      PROVE  TypeOK'
  <2>1. [chat |-> c, prompt |-> prompt[c] + 1] \in Request
    BY DEF Request
  <2>2. run' \in [Runner -> RunState]
    BY <1>2, <1>c, <1>g, <2>1 DEF AskDirect
  <2> QED
    BY <1>2, <2>2 DEF AskDirect
<1>3. ASSUME NEW c \in Chat, BusTimeout(c)
      PROVE  TypeOK'
  <2>1. Current(c) \in Request
    BY DEF Current, Request
  <2> QED
    BY <1>3, <1>c, <1>g, <1>d, <2>1 DEF BusTimeout, FallBack
<1>4. ASSUME NEW c \in Chat, Deliver(c)
      PROVE  TypeOK'
  <2>1. PICK reply \in replies : Show(c, reply) /\ replies' = replies \ {reply}
    BY <1>4 DEF Deliver
  <2>2. reply.prompt \in Nat /\ reply.text \in {"answer", "(no response)"}
    BY DEF Reply
  <2>3. /\ phase' \in [Chat -> {"idle", "asking", "direct"}]
        /\ prompt' \in [Chat -> Nat] /\ history' \in [Chat -> Seq(Message)]
    BY <1>s, <2>1, <2>2
  <2> QED
    BY <1>4, <2>1, <2>3 DEF Deliver
<1>5. ASSUME NEW c \in Chat, Interrupt(c)
      PROVE  TypeOK'
  BY <1>5, <1>c, <1>n, <1>f DEF Interrupt
<1>6. CASE DropReply
  BY <1>6 DEF DropReply
<1>7. CASE StartHandle
  <2>1. /\ inbox[OldestFirst] \in Request
        /\ RemoveAt(inbox, OldestFirst) \in Seq(Request)
    BY <1>7, WithoutOldest DEF StartHandle
  <2> QED
    BY <1>7, <1>c, <1>g, <1>d, <2>1 DEF StartHandle
<1>8. ASSUME NEW r \in Runner, GetMemories(r)
      PROVE  TypeOK'
  <2>1. PICK found \in BOOLEAN :
          run' = [run EXCEPT ![r] = [stage |-> "schedule",
                    request |-> run[r].request, memories |-> found]]
    BY <1>8 DEF GetMemories, MemoriesOrNone
  <2>2. run[r].request \in Request
    BY <1>8, <1>q DEF GetMemories
  <2>3. run' \in [Runner -> RunState]
    BY <2>1, <2>2 DEF RunState
  <2> QED
    BY <1>8, <2>3 DEF GetMemories
<1>9. ASSUME NEW r \in Runner, ResolveModel(r)
      PROVE  TypeOK'
  <2>1. PICK m \in Models :
          run' = [run EXCEPT ![r] = [stage |-> "complete",
                    request |-> run[r].request,
                    memories |-> run[r].memories, model |-> m]]
    BY <1>9 DEF ResolveModel
  <2>2. run[r].request \in Request /\ run[r].memories \in BOOLEAN
    BY <1>9 DEF ResolveModel, RunState, NoRun
  <2>3. run' \in [Runner -> RunState]
    BY <2>1, <2>2, AskAssumption DEF RunState
  <2> QED
    BY <1>9, <2>3 DEF ResolveModel
<1>10. ASSUME NEW r \in Runner, Complete(r)
       PROVE  TypeOK'
  <2>1. run[r].request \in Request
    BY <1>10, <1>q DEF Complete
  <2>2. CASE r = Aida
    BY <1>10, <1>n, <1>r, <2>1, <2>2 DEF Complete
  <2>3. CASE r # Aida
    <3>1. r \in Chat /\ run[r].request.prompt \in Nat
      BY <2>1, <2>3 DEF Runner, Request
    <3>2. Show(r, [prompt |-> run[r].request.prompt, text |-> "answer"])
      BY <1>10, <2>3 DEF Complete
    <3>3. /\ phase' \in [Chat -> {"idle", "asking", "direct"}]
          /\ prompt' \in [Chat -> Nat] /\ history' \in [Chat -> Seq(Message)]
      BY <1>s, <3>1, <3>2
    <3> QED
      BY <1>10, <1>n, <2>3, <3>3 DEF Complete
  <2> QED
    BY <2>2, <2>3
<1>11. ASSUME NEW r \in Runner, GraphFails(r)
       PROVE  TypeOK'
  <2>1. run[r].request \in Request
    BY <1>11, <1>q DEF GraphFails
  <2>2. CASE r = Aida
    BY <1>11, <1>n, <1>r, <2>1, <2>2 DEF GraphFails
  <2>3. CASE r # Aida
    BY <1>11, <1>n, <2>3 DEF GraphFails, ShowError, Runner
  <2> QED
    BY <2>2, <2>3
<1>12. CASE KillDaemon
  <2>1. run' \in [Runner -> RunState] /\ inbox' \in Seq(Request)
    BY <1>12, <1>c, <1>n DEF KillDaemon
  <2> QED
    BY <1>12, <1>f, <2>1 DEF KillDaemon
<1>13. CASE StartDaemon
  BY <1>13 DEF StartDaemon
<1>14. CASE NatsStops
  <2>1. PICK n \in 0 .. Len(inbox) : inbox' = SubSeq(inbox, 1, n)
    BY <1>14 DEF NatsStops
  <2>2. inbox' \in Seq(Request)
    BY <2>1, PrefixOf
  <2> QED
    BY <1>14, <1>f, <2>2 DEF NatsStops
<1>15. CASE NatsStarts \/ Reconnect \/ GiveUp
  BY <1>15 DEF NatsStarts, Reconnect, GiveUp
<1>16. CASE UNCHANGED vars
  BY <1>16 DEF vars
<1> QED
  BY <1>1, <1>2, <1>3, <1>4, <1>5, <1>6, <1>7, <1>8, <1>9, <1>10, <1>11,
     <1>12, <1>13, <1>14, <1>15, <1>16 DEF Next, GraphStep

(***************************************************************************)
(* Every variable of the terminals, the bus and the agent keeps its type.  *)
(***************************************************************************)
THEOREM Typing == Spec => []TypeOK
BY InitTypeOK, NextTypeOK, PTL DEF Spec

-----------------------------------------------------------------------------
(* The agent's queue *)

\* Nobody has a request of a prompt that has not been typed.
Sent ==
  /\ \A i \in DOMAIN inbox : inbox[i].prompt <= prompt[inbox[i].chat]
  /\ run[Aida] # NoRun =>
       run[Aida].request.prompt <= prompt[run[Aida].request.chat]
  /\ \A reply \in replies : reply.prompt <= prompt[reply.chat]

OrderInv == Sent /\ HandledInOrder

LEMMA ReplyType ==
  ASSUME TypeOK, NEW reply \in replies
  PROVE  reply.chat \in Chat /\ reply.prompt \in Nat
<1>1. reply \in Reply
  BY DEF TypeOK
<1> QED
  BY <1>1 DEF Reply

LEMMA HandlingType ==
  ASSUME TypeOK, run[Aida] # NoRun
  PROVE  run[Aida].request \in Request
BY DEF TypeOK, RunState, Runner, NoRun

(***************************************************************************)
(* Losing the end of the queue, giving up the run in hand, taking it a     *)
(* stage further and replying to it keep the order.                        *)
(***************************************************************************)
LEMMA QueueStep ==
  ASSUME TypeOK, TypeOK', OrderInv,
         \A c \in Chat : prompt[c] <= prompt'[c],
         \A i \in DOMAIN inbox' : i \in DOMAIN inbox /\ inbox'[i] = inbox[i],
         \/ run'[Aida] = NoRun
         \/ run[Aida] # NoRun /\ run'[Aida].request = run[Aida].request,
         \A reply \in replies' :
           \/ reply \in replies
           \/ /\ run[Aida] # NoRun
              /\ reply.chat = run[Aida].request.chat
              /\ reply.prompt = run[Aida].request.prompt
  PROVE  OrderInv'
<1>0. /\ \A c \in Chat : prompt[c] \in Int /\ prompt'[c] \in Int
      /\ \A i \in DOMAIN inbox : inbox[i] \in Request
      /\ \A i \in DOMAIN inbox' : inbox'[i] \in Request
      /\ run[Aida] # NoRun => run[Aida].request \in Request
      /\ \A reply \in replies : reply.chat \in Chat /\ reply.prompt \in Int
      /\ DOMAIN inbox = 1 .. Len(inbox) /\ DOMAIN inbox' = 1 .. Len(inbox')
      /\ Len(inbox) \in Nat /\ Len(inbox') \in Nat
  <2>1. /\ \A c \in Chat : prompt[c] \in Int /\ prompt'[c] \in Int
        /\ inbox \in Seq(Request) /\ inbox' \in Seq(Request)
    BY DEF TypeOK
  <2> QED
    BY <2>1, ReplyType, HandlingType
<1>1. Sent'
  <2>1. ASSUME NEW i \in DOMAIN inbox'
        PROVE  inbox'[i].prompt <= prompt'[inbox'[i].chat]
    BY <1>0 DEF OrderInv, Sent, Request
  <2>2. ASSUME run'[Aida] # NoRun
        PROVE  run'[Aida].request.prompt <= prompt'[run'[Aida].request.chat]
    BY <1>0, <2>2 DEF OrderInv, Sent, Request
  <2>3. ASSUME NEW reply \in replies'
        PROVE  reply.prompt <= prompt'[reply.chat]
    BY <1>0 DEF OrderInv, Sent, Request
  <2> QED
    BY <2>1, <2>2, <2>3 DEF Sent
<1>2. HandledInOrder'
  <2> SUFFICES ASSUME NEW i \in DOMAIN inbox'
               PROVE  /\ \A j \in 1 .. i - 1 :
                           inbox'[j].chat = inbox'[i].chat
                             => inbox'[j].prompt < inbox'[i].prompt
                      /\ run'[Aida] # NoRun
                           /\ run'[Aida].request.chat = inbox'[i].chat
                             => run'[Aida].request.prompt < inbox'[i].prompt
                      /\ \A reply \in replies' :
                           reply.chat = inbox'[i].chat
                             => reply.prompt < inbox'[i].prompt
    BY DEF HandledInOrder
  <2>1. i \in DOMAIN inbox /\ inbox'[i] = inbox[i]
    OBVIOUS
  <2>2. \A j \in 1 .. i - 1 : j \in DOMAIN inbox' /\ inbox'[j] = inbox[j]
    BY <1>0
  <2> QED
    BY <2>1, <2>2 DEF OrderInv, HandledInOrder
<1> QED
  BY <1>1, <1>2 DEF OrderInv

LEMMA NextOrderInv ==
  ASSUME TypeOK, TypeOK', OrderInv, [Next]_vars
  PROVE  OrderInv'
<1> USE DEF bus, terminal
<1>0. /\ Aida \in Runner /\ Aida \notin Chat
      /\ prompt \in [Chat -> Nat]
      /\ inbox \in Seq(Request)
      /\ run \in [Runner -> RunState]
  BY AskAssumption DEF TypeOK, Runner
<1>n. NoRun.stage = "none"
  BY DEF NoRun
<1>1. ASSUME NEW c \in Chat, AskBus(c)
      PROVE  OrderInv'
  <2> DEFINE new == [chat |-> c, prompt |-> prompt[c] + 1]
  <2>1. /\ inbox' = Append(inbox, new)
        /\ prompt' = [prompt EXCEPT ![c] = @ + 1]
        /\ UNCHANGED <<run, replies>>
    BY <1>1 DEF AskBus
  <2>2. /\ Len(inbox') = Len(inbox) + 1 /\ Len(inbox) \in Nat
        /\ inbox'[Len(inbox) + 1] = new
        /\ \A i \in 1 .. Len(inbox) : inbox'[i] = inbox[i] /\ inbox[i] \in Request
    <3>1. new \in Request
      BY <1>0 DEF Request
    <3> QED
      BY <1>0, <2>1, <3>1, AppendProperties
  <2>3. \A d \in Chat : /\ prompt[d] \in Int /\ prompt'[d] \in Int
                       /\ prompt'[d] = IF d = c THEN prompt[d] + 1 ELSE prompt[d]
    BY <2>1 DEF TypeOK
  <2>4. /\ \A reply \in replies : reply.chat \in Chat /\ reply.prompt \in Int
        /\ run[Aida] # NoRun =>
             run[Aida].request.chat \in Chat /\ run[Aida].request.prompt \in Int
    BY ReplyType, HandlingType DEF Request
  <2>5. Sent'
    <3>1. ASSUME NEW i \in 1 .. Len(inbox) + 1
          PROVE  inbox'[i].prompt <= prompt'[inbox'[i].chat]
      <4>1. CASE i = Len(inbox) + 1
        BY <2>2, <2>3, <4>1
      <4>2. CASE i # Len(inbox) + 1
        BY <2>2, <2>3, <4>2 DEF OrderInv, Sent, Request
      <4> QED
        BY <4>1, <4>2
    <3>2. DOMAIN inbox' = 1 .. Len(inbox) + 1
      BY <2>2 DEF TypeOK
    <3>3. ASSUME run'[Aida] # NoRun
          PROVE  run'[Aida].request.prompt <= prompt'[run'[Aida].request.chat]
      BY <2>1, <2>3, <2>4, <3>3 DEF OrderInv, Sent
    <3>4. \A reply \in replies' : reply.prompt <= prompt'[reply.chat]
      BY <2>1, <2>3, <2>4 DEF OrderInv, Sent
    <3> QED
      BY <3>1, <3>2, <3>3, <3>4 DEF Sent
  <2>6. HandledInOrder'
    <3> SUFFICES ASSUME NEW i \in 1 .. Len(inbox) + 1
                 PROVE  /\ \A j \in 1 .. i - 1 :
                             inbox'[j].chat = inbox'[i].chat
                               => inbox'[j].prompt < inbox'[i].prompt
                        /\ run[Aida] # NoRun
                             /\ run[Aida].request.chat = inbox'[i].chat
                               => run[Aida].request.prompt < inbox'[i].prompt
                        /\ \A reply \in replies :
                             reply.chat = inbox'[i].chat
                               => reply.prompt < inbox'[i].prompt
      <4>1. DOMAIN inbox' = 1 .. Len(inbox) + 1
        BY <2>2 DEF TypeOK
      <4> QED
        BY <2>1, <4>1 DEF HandledInOrder
    <3>1. CASE i = Len(inbox) + 1
      <4>1. inbox'[i].chat = c /\ inbox'[i].prompt = prompt[c] + 1
        BY <2>2, <3>1
      <4>2. ASSUME NEW j \in 1 .. i - 1, inbox'[j].chat = c
            PROVE  inbox'[j].prompt < prompt[c] + 1
        BY <2>2, <2>3, <3>1, <4>2 DEF OrderInv, Sent, Request
      <4>3. ASSUME run[Aida] # NoRun, run[Aida].request.chat = c
            PROVE  run[Aida].request.prompt < prompt[c] + 1
        BY <2>3, <2>4, <4>3 DEF OrderInv, Sent
      <4>4. ASSUME NEW reply \in replies, reply.chat = c
            PROVE  reply.prompt < prompt[c] + 1
        BY <2>3, <2>4, <4>4 DEF OrderInv, Sent
      <4> QED
        BY <4>1, <4>2, <4>3, <4>4
    <3>2. CASE i # Len(inbox) + 1
      <4>1. i \in DOMAIN inbox /\ inbox'[i] = inbox[i]
        BY <1>0, <2>2, <3>2
      <4>2. \A j \in 1 .. i - 1 : inbox'[j] = inbox[j]
        BY <2>2, <3>2
      <4> QED
        BY <4>1, <4>2 DEF OrderInv, HandledInOrder
    <3> QED
      BY <3>1, <3>2
  <2> QED
    BY <2>5, <2>6 DEF OrderInv
<1>2. CASE StartHandle
  <2>1. /\ inbox # <<>> /\ run[Aida] = NoRun
        /\ inbox' = RemoveAt(inbox, OldestFirst)
        /\ run'[Aida].request = inbox[OldestFirst]
        /\ UNCHANGED <<prompt, replies>>
    BY <1>0, <1>2 DEF StartHandle, StartGraph
  <2>2. /\ Len(inbox) \in Nat \ {0} /\ Len(inbox') = Len(inbox) - 1
        /\ inbox' \in Seq(Request)
        /\ \A i \in 1 .. Len(inbox) - 1 : inbox'[i] = inbox[i + 1]
        /\ \A i \in 1 .. Len(inbox) : i \in DOMAIN inbox
        /\ run'[Aida].request = inbox[1]
    BY <1>0, <2>1, WithoutOldest DEF OldestFirst
  <2>3. DOMAIN inbox' = 1 .. Len(inbox) - 1
    BY <2>2
  <2>4. \A i \in DOMAIN inbox : inbox[i].prompt <= prompt[inbox[i].chat]
    BY DEF OrderInv, Sent
  <2>5. Sent'
    BY <2>1, <2>2, <2>3, <2>4 DEF OrderInv, Sent
  <2>6. HandledInOrder'
    <3> SUFFICES ASSUME NEW i \in 1 .. Len(inbox) - 1
                 PROVE  /\ \A j \in 1 .. i - 1 :
                             inbox'[j].chat = inbox'[i].chat
                               => inbox'[j].prompt < inbox'[i].prompt
                        /\ inbox[1].chat = inbox'[i].chat
                             => inbox[1].prompt < inbox'[i].prompt
                        /\ \A reply \in replies :
                             reply.chat = inbox'[i].chat
                               => reply.prompt < inbox'[i].prompt
      BY <2>1, <2>2, <2>3 DEF HandledInOrder
    <3>1. i + 1 \in DOMAIN inbox /\ inbox'[i] = inbox[i + 1]
      BY <2>2
    <3>2. \A j \in 1 .. i - 1 : j + 1 \in 1 .. (i + 1) - 1 /\ inbox'[j] = inbox[j + 1]
      BY <2>2
    <3>3. 1 \in 1 .. (i + 1) - 1
      OBVIOUS
    <3>4. \A j \in 1 .. (i + 1) - 1 :
            inbox[j].chat = inbox[i + 1].chat => inbox[j].prompt < inbox[i + 1].prompt
      BY <3>1 DEF OrderInv, HandledInOrder
    <3>5. \A reply \in replies :
            reply.chat = inbox[i + 1].chat => reply.prompt < inbox[i + 1].prompt
      BY <3>1 DEF OrderInv, HandledInOrder
    <3> QED
      BY <3>1, <3>2, <3>3, <3>4, <3>5
  <2> QED
    BY <2>5, <2>6 DEF OrderInv
\* A terminal's own steps, and replies that arrive or are lost.
<1>3. ASSUME \A c \in Chat : prompt[c] <= prompt'[c],
             UNCHANGED <<inbox, run[Aida]>>, replies' \subseteq replies
      PROVE  OrderInv'
  BY <1>3, QueueStep
<1>4. ASSUME NEW c \in Chat,
             AskDirect(c) \/ BusTimeout(c) \/ Deliver(c) \/ Interrupt(c)
      PROVE  OrderInv'
  <2>1. UNCHANGED <<inbox, run[Aida]>> /\ replies' \subseteq replies
    BY <1>0, <1>4
    DEF AskDirect, BusTimeout, FallBack, Deliver, Interrupt, StartGraph
  <2>2. prompt' = prompt \/ prompt' = [prompt EXCEPT ![c] = @ + 1]
    <3>1. CASE AskDirect(c)
      BY <3>1 DEF AskDirect
    <3>2. CASE BusTimeout(c)
      BY <3>2 DEF BusTimeout
    <3>3. CASE Deliver(c)
      BY <3>3 DEF Deliver, Show
    <3>4. CASE Interrupt(c)
      BY <3>4 DEF Interrupt
    <3> QED
      BY <1>4, <3>1, <3>2, <3>3, <3>4
  <2>3. \A d \in Chat : prompt[d] <= prompt'[d]
    BY <1>0, <2>2
  <2> QED
    BY <1>3, <2>1, <2>3
<1>5. CASE DropReply
  BY <1>0, <1>3, <1>5 DEF DropReply
<1>6. ASSUME NEW r \in Runner, GraphStep(r)
      PROVE  OrderInv'
  <2>1. UNCHANGED <<prompt, inbox>>
    BY <1>6
    DEF GraphStep, GetMemories, ResolveModel, Complete, GraphFails, Show, ShowError
  <2>2. CASE r # Aida
    <3>1. UNCHANGED <<run[Aida], replies>>
      BY <1>0, <1>6, <2>2
      DEF GraphStep, GetMemories, ResolveModel, Complete, GraphFails
    <3> QED
      BY <1>0, <1>3, <2>1, <3>1
  <2>3. CASE r = Aida
    <3>1. run[Aida] # NoRun
      <4>1. run[Aida].stage \in {"memories", "schedule", "complete"}
        BY <1>6, <2>3
        DEF GraphStep, GetMemories, ResolveModel, Complete, GraphFails
      <4> QED
        BY <1>n, <4>1
    <3>2. run'[Aida] = NoRun \/ run'[Aida].request = run[Aida].request
      <4>1. CASE GetMemories(r)
        BY <1>0, <2>3, <4>1 DEF GetMemories
      <4>2. CASE ResolveModel(r)
        BY <1>0, <2>3, <4>2 DEF ResolveModel
      <4>3. CASE Complete(r) \/ GraphFails(r)
        BY <1>0, <2>3, <4>3 DEF Complete, GraphFails
      <4> QED
        BY <1>6, <4>1, <4>2, <4>3 DEF GraphStep
    <3>3. \/ UNCHANGED replies
          \/ Respond(run[Aida].request, "answer")
          \/ Respond(run[Aida].request, "(no response)")
      BY <1>6, <2>3
      DEF GraphStep, GetMemories, ResolveModel, Complete, GraphFails
    <3>4. ASSUME NEW reply \in replies'
          PROVE  \/ reply \in replies
                 \/ /\ reply.chat = run[Aida].request.chat
                    /\ reply.prompt = run[Aida].request.prompt
      <4>1. ASSUME NEW text, Respond(run[Aida].request, text)
            PROVE  \/ reply \in replies
                   \/ /\ reply.chat = run[Aida].request.chat
                      /\ reply.prompt = run[Aida].request.prompt
        BY <4>1 DEF Respond
      <4> QED
        BY <3>3, <4>1
    <3> QED
      BY <1>0, <2>1, <3>1, <3>2, <3>4, QueueStep
  <2> QED
    BY <2>2, <2>3
<1>7. CASE KillDaemon
  <2>1. inbox' = <<>> /\ run'[Aida] = NoRun /\ UNCHANGED <<prompt, replies>>
    BY <1>0, <1>7 DEF KillDaemon
  <2> QED
    BY <1>0, <2>1, QueueStep
<1>8. CASE NatsStops
  <2>1. PICK n \in 0 .. Len(inbox) : inbox' = SubSeq(inbox, 1, n)
    BY <1>8 DEF NatsStops
  <2>2. \A i \in DOMAIN inbox' : i \in DOMAIN inbox /\ inbox'[i] = inbox[i]
    BY <1>0, <2>1, PrefixOf
  <2>3. UNCHANGED <<prompt, run, replies>>
    BY <1>8 DEF NatsStops
  <2> QED
    BY <1>0, <2>2, <2>3, QueueStep
<1>9. CASE StartDaemon \/ NatsStarts \/ Reconnect \/ GiveUp
  BY <1>0, <1>3, <1>9 DEF StartDaemon, NatsStarts, Reconnect, GiveUp
<1>10. CASE UNCHANGED vars
  BY <1>0, <1>3, <1>10 DEF vars
<1> QED
  BY <1>1, <1>2, <1>4, <1>5, <1>6, <1>7, <1>8, <1>9, <1>10 DEF Next

LEMMA InitOrderInv == Init => OrderInv
<1> SUFFICES ASSUME Init PROVE OrderInv
  OBVIOUS
<1>1. inbox = <<>> /\ replies = {} /\ run[Aida] = NoRun
  BY DEF Init, Runner
<1> QED
  BY <1>1 DEF OrderInv, Sent, HandledInOrder

(***************************************************************************)
(* The agent takes the requests of each terminal up in the order they were *)
(* sent, for any number of terminals, outages and restarts.                *)
(***************************************************************************)
THEOREM OldestServedFirst == Spec => []HandledInOrder
<1>1. TypeOK /\ TypeOK' /\ OrderInv /\ [Next]_vars => OrderInv'
  BY NextOrderInv
<1>2. OrderInv => HandledInOrder
  BY DEF OrderInv
<1> QED
  BY InitOrderInv, <1>1, <1>2, Typing, PTL DEF Spec

-----------------------------------------------------------------------------
(* The cost of a prompt *)

\* The request of c's last prompt has not been taken up.
Waits(c) == \E i \in DOMAIN inbox : inbox[i] = Current(c)

\* One run is left for the agent while the request waits, and one for the
\* terminal while it asks.
WorkInv ==
  \A c \in Chat :
    /\ started[c] <= 2
    /\ Waits(c) => started[c] <= 1
    /\ phase[c] = "asking" => started[c] <= 1 /\ (Waits(c) => started[c] = 0)

LEMMA QuietWork ==
  ASSUME WorkInv, UNCHANGED started,
         \A c \in Chat : Waits(c)' => Waits(c),
         \A c \in Chat : phase'[c] = "asking" => phase[c] = "asking"
  PROVE  WorkInv'
BY DEF WorkInv

LEMMA FewerWait ==
  ASSUME TypeOK, TypeOK', UNCHANGED prompt,
         \A i \in DOMAIN inbox' : \E j \in DOMAIN inbox : inbox'[i] = inbox[j]
  PROVE  \A c \in Chat : Waits(c)' => Waits(c)
BY DEF Waits, Current

LEMMA NextWorkInv ==
  ASSUME TypeOK, TypeOK', OrderInv, WorkInv, [Next]_vars
  PROVE  WorkInv'
<1> USE DEF bus, terminal
<1>0. /\ Aida \in Runner /\ Aida \notin Chat
      /\ prompt \in [Chat -> Nat] /\ started \in [Chat -> Nat]
      /\ phase \in [Chat -> {"idle", "asking", "direct"}]
      /\ inbox \in Seq(Request)
  BY AskAssumption DEF TypeOK, Runner
<1>1. ASSUME NEW c \in Chat, AskBus(c)
      PROVE  WorkInv'
  <2> DEFINE new == [chat |-> c, prompt |-> prompt[c] + 1]
  <2>1. /\ inbox' = Append(inbox, new)
        /\ prompt' = [prompt EXCEPT ![c] = @ + 1]
        /\ phase' = [phase EXCEPT ![c] = "asking"]
        /\ started' = [started EXCEPT ![c] = 0]
    BY <1>1 DEF AskBus
  <2>2. \A i \in DOMAIN inbox' :
          inbox'[i] = new \/ (i \in DOMAIN inbox /\ inbox'[i] = inbox[i])
    <3>1. new \in Request
      BY <1>0 DEF Request
    <3> QED
      BY <1>0, <2>1, <3>1, AppendProperties
  <2>3. ASSUME NEW d \in Chat \ {c}, Waits(d)'
        PROVE  Waits(d)
    <3>1. PICK i \in DOMAIN inbox' : inbox'[i] = Current(d)'
      BY <2>3 DEF Waits
    <3>2. Current(d)' = Current(d) /\ Current(d).chat = d
      BY <1>0, <2>1 DEF Current
    <3>3. new.chat = c
      OBVIOUS
    <3> QED
      BY <2>2, <3>1, <3>2, <3>3 DEF Waits
  <2>4. started'[c] = 0
    BY <1>0, <2>1
  <2>5. \A d \in Chat \ {c} : started'[d] = started[d] /\ phase'[d] = phase[d]
    BY <1>0, <2>1
  <2> QED
    BY <2>3, <2>4, <2>5 DEF WorkInv
<1>2. ASSUME NEW c \in Chat, AskDirect(c)
      PROVE  WorkInv'
  <2>1. /\ UNCHANGED inbox /\ prompt' = [prompt EXCEPT ![c] = @ + 1]
        /\ phase' = [phase EXCEPT ![c] = "direct"]
        /\ started' = [started EXCEPT ![c] = 1]
    BY <1>2 DEF AskDirect
  <2>2. ASSUME NEW d \in Chat \ {c}, Waits(d)'
        PROVE  Waits(d)
    <3>1. prompt'[d] = prompt[d]
      BY <1>0, <2>1
    <3>2. Current(d)' = Current(d)
      BY <3>1 DEF Current
    <3> QED
      BY <2>1, <2>2, <3>2 DEF Waits
  <2>3. started'[c] = 1 /\ phase'[c] = "direct"
    BY <1>0, <2>1
  <2>4. \A d \in Chat \ {c} : started'[d] = started[d] /\ phase'[d] = phase[d]
    BY <1>0, <2>1
  <2> QED
    BY <2>2, <2>3, <2>4 DEF WorkInv
<1>3. ASSUME NEW c \in Chat, BusTimeout(c)
      PROVE  WorkInv'
  <2>1. /\ UNCHANGED <<inbox, prompt>> /\ phase[c] = "asking"
        /\ phase' = [phase EXCEPT ![c] = "direct"]
        /\ CountRun(Current(c))
    BY <1>3 DEF BusTimeout, FallBack
  <2>2. started' = [started EXCEPT ![c] = @ + 1]
    BY <2>1 DEF CountRun, Current
  <2>3. \A d \in Chat : Waits(d)' <=> Waits(d)
    BY <2>1 DEF Waits, Current
  <2>4. /\ started'[c] = started[c] + 1 /\ phase'[c] = "direct"
        /\ \A d \in Chat \ {c} : started'[d] = started[d] /\ phase'[d] = phase[d]
    BY <1>0, <2>1, <2>2
  <2> QED
    BY <1>0, <2>1, <2>3, <2>4 DEF WorkInv
<1>4. CASE StartHandle
  <2>1. /\ inbox # <<>> /\ inbox' = RemoveAt(inbox, OldestFirst)
        /\ CountRun(inbox[1]) /\ UNCHANGED <<phase, prompt>>
    BY <1>4 DEF StartHandle, OldestFirst
  <2>2. /\ Len(inbox) \in Nat \ {0} /\ DOMAIN inbox' = 1 .. Len(inbox) - 1
        /\ DOMAIN inbox = 1 .. Len(inbox)
        /\ \A i \in 1 .. Len(inbox) - 1 : inbox'[i] = inbox[i + 1]
        /\ inbox[1] \in Request
    <3>1. /\ inbox' \in Seq(Request) /\ Len(inbox') = Len(inbox) - 1
          /\ \A i \in 1 .. Len(inbox) - 1 : inbox'[i] = inbox[i + 1]
      BY <1>0, <2>1, WithoutOldest
    <3>2. Len(inbox) \in Nat \ {0} /\ DOMAIN inbox = 1 .. Len(inbox)
      BY <1>0, <2>1
    <3>3. inbox[1] \in Request
      BY <1>0, <3>2
    <3>4. DOMAIN inbox' = 1 .. Len(inbox')
      BY <3>1
    <3> QED
      BY <3>1, <3>2, <3>3, <3>4
  <2>3. \A d \in Chat : Waits(d)' => Waits(d)
    BY <2>1, <2>2, FewerWait
  <2>4. CASE inbox[1] # Current(inbox[1].chat)
    BY <2>1, <2>3, <2>4, QuietWork DEF CountRun
  <2>5. CASE inbox[1] = Current(inbox[1].chat)
    <3>0. PICK c \in Chat : c = inbox[1].chat
      BY <2>2 DEF Request
    <3>1. started' = [started EXCEPT ![c] = @ + 1]
      BY <2>1, <2>5, <3>0 DEF CountRun
    <3>2. Waits(c)
      BY <2>2, <2>5, <3>0 DEF Waits
    <3>5. Current(c)' = inbox[1]
      BY <2>1, <2>5, <3>0 DEF Current
    <3>3. ~Waits(c)'
      <4> SUFFICES ASSUME NEW i \in 1 .. Len(inbox) - 1, inbox'[i] = inbox[1]
                   PROVE  FALSE
        BY <2>2, <3>5 DEF Waits
      <4>1. inbox[i + 1] = inbox[1] /\ i + 1 \in DOMAIN inbox /\ 1 \in 1 .. (i + 1) - 1
        BY <2>2
      <4>2. inbox[1].prompt < inbox[i + 1].prompt
        BY <4>1 DEF OrderInv, HandledInOrder
      <4>3. inbox[1].prompt \in Nat
        BY <2>2 DEF Request
      <4> QED
        BY <4>1, <4>2, <4>3
    <3>4. /\ started'[c] = started[c] + 1 /\ started[c] \in Nat
          /\ \A d \in Chat \ {c} : started'[d] = started[d]
      BY <1>0, <3>1
    <3> QED
      BY <2>1, <2>3, <3>2, <3>3, <3>4 DEF WorkInv
  <2> QED
    BY <2>4, <2>5
<1>5. ASSUME UNCHANGED <<started, prompt, inbox>>,
             \A c \in Chat : phase'[c] = "asking" => phase[c] = "asking"
      PROVE  WorkInv'
  BY <1>5, FewerWait, QuietWork
<1>6. ASSUME NEW c \in Chat, Deliver(c) \/ Interrupt(c)
      PROVE  WorkInv'
  <2>1. /\ UNCHANGED <<started, prompt, inbox>>
        /\ phase' = [phase EXCEPT ![c] = "idle"]
    BY <1>6 DEF Deliver, Interrupt, Show
  <2> QED
    BY <1>0, <1>5, <2>1
<1>7. CASE DropReply
  BY <1>5, <1>7 DEF DropReply
<1>8. ASSUME NEW r \in Runner, GraphStep(r)
      PROVE  WorkInv'
  <2>1. UNCHANGED <<started, prompt, inbox>>
    BY <1>8
    DEF GraphStep, GetMemories, ResolveModel, Complete, GraphFails, Show, ShowError
  <2>2. UNCHANGED phase \/ phase' = [phase EXCEPT ![r] = "idle"]
    <3>1. CASE GetMemories(r) \/ ResolveModel(r)
      BY <3>1 DEF GetMemories, ResolveModel
    <3>2. CASE Complete(r) \/ GraphFails(r)
      BY <3>2 DEF Complete, GraphFails, Show, ShowError
    <3> QED
      BY <1>8, <3>1, <3>2 DEF GraphStep
  <2> QED
    BY <1>0, <1>5, <2>1, <2>2
<1>9. CASE KillDaemon
  <2>1. inbox' = <<>> /\ UNCHANGED <<started, phase, prompt>>
    BY <1>9 DEF KillDaemon
  <2> QED
    BY <2>1, FewerWait, QuietWork
<1>10. CASE NatsStops
  <2>1. PICK n \in 0 .. Len(inbox) : inbox' = SubSeq(inbox, 1, n)
    BY <1>10 DEF NatsStops
  <2>2. \A i \in DOMAIN inbox' : i \in DOMAIN inbox /\ inbox'[i] = inbox[i]
    BY <1>0, <2>1, PrefixOf
  <2>3. UNCHANGED <<started, phase, prompt>>
    BY <1>10 DEF NatsStops
  <2> QED
    BY <2>2, <2>3, FewerWait, QuietWork
<1>11. CASE StartDaemon \/ NatsStarts \/ Reconnect \/ GiveUp
  BY <1>5, <1>11 DEF StartDaemon, NatsStarts, Reconnect, GiveUp
<1>12. CASE UNCHANGED vars
  BY <1>5, <1>12 DEF vars
<1> QED
  BY <1>1, <1>2, <1>3, <1>4, <1>6, <1>7, <1>8, <1>9, <1>10, <1>11, <1>12 DEF Next

(***************************************************************************)
(* No prompt costs more than two graph runs, however often the bus, the    *)
(* daemon and the terminals fail: the strict order of the queue keeps a    *)
(* request from being taken up twice.                                      *)
(***************************************************************************)
THEOREM TwoRunsAtMost == Spec => []WorkBounded
<1>1. Init => WorkInv
  <2> SUFFICES ASSUME Init PROVE WorkInv
    OBVIOUS
  <2>1. \A c \in Chat : started[c] = 0
    BY DEF Init
  <2> QED
    BY <2>1 DEF WorkInv
<1>2. TypeOK /\ TypeOK' /\ OrderInv /\ WorkInv /\ [Next]_vars => WorkInv'
  BY NextWorkInv
<1>3. TypeOK /\ TypeOK' /\ OrderInv /\ [Next]_vars => OrderInv'
  BY NextOrderInv
<1>4. WorkInv => WorkBounded
  BY DEF WorkInv, WorkBounded
<1> QED
  BY InitOrderInv, <1>1, <1>2, <1>3, <1>4, Typing, PTL DEF Spec

=============================================================================

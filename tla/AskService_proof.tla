-------------------------- MODULE AskService_proof --------------------------
(***************************************************************************)
(* The terminals of AskPath keep the safety promises of ChatService, for   *)
(* any terminals and any even length of the history.                       *)
(***************************************************************************)
EXTENDS AskPath_proof

EvenHistory == \E m \in Nat \ {0} : MaxHistory = 2 * m

(* Histories and the exchanges they hold *)

Exchange == Nat \X Nat

LEMMA OneMore == \A n \in Nat : n + 1 \in Nat
OBVIOUS

LEMMA KeptExchanges ==
  ASSUME NEW h \in Seq(Message), NEW n \in Nat, Len(h) = 2 * n
  PROVE  /\ Kept(h) \in Seq(Exchange)
         /\ Len(Kept(h)) = n
         /\ \A k \in 1 .. n : Kept(h)[k] = <<h[2 * k - 1].of, h[2 * k].of>>
<1>1. Len(h) \div 2 = n
  OBVIOUS
<1>2. Kept(h) = [k \in 1 .. n |-> <<h[2 * k - 1].of, h[2 * k].of>>]
  BY <1>1 DEF Kept
<1>3. ASSUME NEW k \in 1 .. n
      PROVE  <<h[2 * k - 1].of, h[2 * k].of>> \in Exchange
  <2>1. h[2 * k - 1] \in Message /\ h[2 * k] \in Message
    OBVIOUS
  <2> QED
    BY <2>1 DEF Message, Exchange
<1>4. Kept(h) \in [1 .. n -> Exchange]
  BY <1>2, <1>3
<1> QED
  BY <1>2, <1>4

LEMMA KeptAppended ==
  ASSUME NEW h \in Seq(Message), NEW n \in Nat, Len(h) = 2 * n,
         NEW a \in Message, NEW b \in Message
  PROVE  /\ h \o <<a, b>> \in Seq(Message)
         /\ Len(h \o <<a, b>>) = 2 * (n + 1)
         /\ Kept(h \o <<a, b>>) = Append(Kept(h), <<a.of, b.of>>)
<1> DEFINE g == h \o <<a, b>>
           p == <<a.of, b.of>>
<1>1. /\ g \in Seq(Message) /\ Len(g) = 2 * (n + 1)
      /\ \A i \in 1 .. 2 * n : g[i] = h[i]
      /\ g[2 * (n + 1) - 1] = a /\ g[2 * (n + 1)] = b
  OBVIOUS
<1> HIDE DEF g
<1>2. p \in Exchange
  BY DEF Message, Exchange
<1>3. /\ Kept(g) \in Seq(Exchange) /\ Len(Kept(g)) = n + 1
      /\ \A k \in 1 .. n + 1 : Kept(g)[k] = <<g[2 * k - 1].of, g[2 * k].of>>
  <2>1. n + 1 \in Nat
    OBVIOUS
  <2> QED
    BY <1>1, <2>1, KeptExchanges
<1>4. /\ Kept(h) \in Seq(Exchange) /\ Len(Kept(h)) = n
      /\ \A k \in 1 .. n : Kept(h)[k] = <<h[2 * k - 1].of, h[2 * k].of>>
  BY KeptExchanges
<1>5. /\ Append(Kept(h), p) \in Seq(Exchange)
      /\ Len(Append(Kept(h), p)) = n + 1
      /\ \A k \in 1 .. n : Append(Kept(h), p)[k] = Kept(h)[k]
      /\ Append(Kept(h), p)[n + 1] = p
  BY <1>2, <1>4, AppendProperties
<1>6. ASSUME NEW k \in 1 .. n + 1
      PROVE  Kept(g)[k] = Append(Kept(h), p)[k]
  <2>1. CASE k = n + 1
    BY <1>1, <1>3, <1>5, <2>1
  <2>2. CASE k # n + 1
    <3>1. k \in 1 .. n /\ 2 * k - 1 \in 1 .. 2 * n /\ 2 * k \in 1 .. 2 * n
      BY <2>2
    <3> QED
      BY <1>1, <1>3, <1>4, <1>5, <3>1
  <2> QED
    BY <2>1, <2>2
<1>7. Kept(g) = Append(Kept(h), p)
  BY <1>3, <1>5, <1>6, SeqEqual
<1> QED
  BY <1>1, <1>7 DEF g

LEMMA KeptTrimmed ==
  ASSUME EvenHistory,
         NEW g \in Seq(Message), NEW n \in Nat, Len(g) = 2 * n
  PROVE  /\ \E k \in Nat : Len(Trim(g)) = 2 * k
         /\ Kept(Trim(g)) = Service!LastOf(Kept(g), MaxHistory \div 2)
<1>1. PICK m \in Nat \ {0} : MaxHistory = 2 * m
  BY DEF EvenHistory
<1>2. MaxHistory \div 2 = m
  BY <1>1
<1>3. /\ Kept(g) \in Seq(Exchange) /\ Len(Kept(g)) = n
      /\ \A k \in 1 .. n : Kept(g)[k] = <<g[2 * k - 1].of, g[2 * k].of>>
  BY KeptExchanges
<1>4. CASE n <= m
  <2>1. Trim(g) = g
    BY <1>1, <1>4 DEF Trim
  <2>2. Service!LastOf(Kept(g), m) = Kept(g)
    BY <1>3, <1>4 DEF Service!LastOf
  <2> QED
    BY <1>2, <2>1, <2>2
<1>5. CASE n > m
  <2> DEFINE t == SubSeq(g, 2 * n - 2 * m + 1, 2 * n)
             r == SubSeq(Kept(g), n - m + 1, n)
  <2>1. Trim(g) = t /\ Service!LastOf(Kept(g), m) = r
    BY <1>1, <1>3, <1>5 DEF Trim, Service!LastOf
  <2>2. /\ t \in Seq(Message) /\ Len(t) = 2 * m
        /\ \A i \in 1 .. 2 * m : t[i] = g[2 * n - 2 * m + i]
    BY <1>1, <1>5
  <2>3. /\ r \in Seq(Exchange) /\ Len(r) = m
        /\ \A k \in 1 .. m : r[k] = Kept(g)[n - m + k]
    BY <1>1, <1>3, <1>5
  <2> HIDE DEF t, r
  <2>4. /\ Kept(t) \in Seq(Exchange) /\ Len(Kept(t)) = m
        /\ \A k \in 1 .. m : Kept(t)[k] = <<t[2 * k - 1].of, t[2 * k].of>>
    BY <2>2, KeptExchanges
  <2>5. ASSUME NEW k \in 1 .. m
        PROVE  Kept(t)[k] = r[k]
    <3>1. n - m + k \in 1 .. n /\ 2 * k - 1 \in 1 .. 2 * m /\ 2 * k \in 1 .. 2 * m
      BY <1>5
    <3>2. /\ 2 * n - 2 * m + (2 * k - 1) = 2 * (n - m + k) - 1
          /\ 2 * n - 2 * m + 2 * k = 2 * (n - m + k)
      OBVIOUS
    <3>3. t[2 * k - 1] = g[2 * (n - m + k) - 1] /\ t[2 * k] = g[2 * (n - m + k)]
      BY <2>2, <3>1, <3>2
    <3> QED
      BY <1>3, <2>3, <2>4, <3>1, <3>3
  <2>6. Kept(t) = r
    BY <2>3, <2>4, <2>5, SeqEqual
  <2> QED
    BY <1>2, <2>1, <2>2, <2>6
<1> QED
  BY <1>4, <1>5

-----------------------------------------------------------------------------
(* The invariant *)

\* A graph in a terminal's own process answers its last prompt, and histories
\* consist of whole exchanges.
ServiceInv ==
  \A c \in Chat :
    /\ run[c] # NoRun => phase[c] = "direct" /\ run[c].request = Current(c)
    /\ \E n \in Nat : Len(history[c]) = 2 * n

\* Showing a reply is ChatService's Answer: history still holds whole exchanges.
LEMMA ShowAnswers ==
  ASSUME EvenHistory, TypeOK, ServiceInv, NEW c \in Chat, phase[c] # "idle",
         NEW reply, reply.prompt = prompt[c],
         reply.text \in {"answer", "(no response)"}, Show(c, reply)
  PROVE  /\ Service!Answer(c)
         /\ \A d \in Chat : \E n \in Nat : Len(history'[d]) = 2 * n
<1> DEFINE a == [role |-> "user", of |-> prompt[c], text |-> "prompt"]
           b == [role |-> "assistant", of |-> reply.prompt, text |-> reply.text]
           g == history[c] \o <<a, b>>
<1>1. /\ history \in [Chat -> Seq(Message)] /\ prompt \in [Chat -> Nat]
      /\ phase \in [Chat -> {"idle", "asking", "direct"}]
  BY DEF TypeOK
<1>2. /\ phase' = [phase EXCEPT ![c] = "idle"]
      /\ history' = [history EXCEPT ![c] = Trim(g)]
      /\ prompt' = prompt
  BY DEF Show
<1>3. a \in Message /\ b \in Message /\ a.of = prompt[c] /\ b.of = prompt[c]
  BY <1>1 DEF Message
<1> HIDE DEF a, b
<1>4. PICK n \in Nat : Len(history[c]) = 2 * n
  BY DEF ServiceInv
<1>5. /\ g \in Seq(Message) /\ Len(g) = 2 * (n + 1) /\ n + 1 \in Nat
      /\ Kept(g) = Append(Kept(history[c]), <<prompt[c], prompt[c]>>)
  <2>1. history[c] \in Seq(Message)
    BY <1>1
  <2>2. /\ g \in Seq(Message) /\ Len(g) = 2 * (n + 1)
        /\ Kept(g) = Append(Kept(history[c]), <<a.of, b.of>>)
    BY <1>3, <1>4, <2>1, KeptAppended
  <2> HIDE DEF g
  <2>3. <<a.of, b.of>> = <<prompt[c], prompt[c]>>
    BY <1>3
  <2>4. n + 1 \in Nat
    BY OneMore, Zenon
  <2> QED
    BY <2>2, <2>3, <2>4, Zenon
<1> HIDE DEF g
<1>6. /\ \E k \in Nat : Len(Trim(g)) = 2 * k
      /\ Kept(Trim(g)) = Service!LastOf(Kept(g), MaxHistory \div 2)
  BY <1>5, KeptTrimmed
<1>7. Busy[c] /\ Busy' = [Busy EXCEPT ![c] = FALSE]
  BY <1>1, <1>2 DEF Busy
<1>8. Recent' = [Recent EXCEPT ![c] = Kept(Trim(g))]
  BY <1>1, <1>2 DEF Recent
<1>9. Recent[c] = Kept(history[c])
  BY DEF Recent
<1>10. Recent' = [Recent EXCEPT
         ![c] = Service!LastOf(Append(@, <<prompt[c], prompt[c]>>),
                               MaxHistory \div 2)]
  BY <1>5, <1>6, <1>8, <1>9
<1>11. Service!Answer(c)
  BY <1>2, <1>7, <1>10 DEF Service!Answer
<1>12. \A d \in Chat : \E k \in Nat : Len(history'[d]) = 2 * k
  BY <1>1, <1>2, <1>6 DEF ServiceInv
<1> QED
  BY <1>11, <1>12

\* A step that no terminal takes part in.
LEMMA QuietService ==
  ASSUME ServiceInv, UNCHANGED <<phase, prompt, history>>,
         \A c \in Chat : run'[c] = run[c]
  PROVE  ServiceInv' /\ UNCHANGED Service!vars
BY DEF ServiceInv, Current, Service!vars, Busy, Recent

\* One terminal moves and its history stays.
LEMMA OneMoves ==
  ASSUME TypeOK, ServiceInv, NEW c \in Chat, UNCHANGED history,
         \A d \in Chat \ {c} : /\ run'[d] = run[d] /\ phase'[d] = phase[d]
                               /\ prompt'[d] = prompt[d],
         run'[c] # NoRun => phase'[c] = "direct" /\ run'[c].request = Current(c)'
  PROVE  ServiceInv'
<1>1. ASSUME NEW d \in Chat \ {c}, run'[d] # NoRun
      PROVE  phase'[d] = "direct" /\ run'[d].request = Current(d)'
  BY <1>1 DEF ServiceInv, Current
<1> QED
  BY <1>1 DEF ServiceInv

LEMMA NextService ==
  ASSUME EvenHistory, TypeOK, ServiceInv, [Next]_vars
  PROVE  ServiceInv' /\ [Service!Next]_(Service!vars)
<1> USE DEF bus, terminal
<1>0. /\ Aida \in Runner /\ Aida \notin Chat /\ Chat \subseteq Runner
      /\ Runner = Chat \cup {Aida}
      /\ prompt \in [Chat -> Nat] /\ run \in [Runner -> RunState]
      /\ phase \in [Chat -> {"idle", "asking", "direct"}]
  BY AskAssumption DEF TypeOK, Runner
<1>n. NoRun.stage = "none"
  BY DEF NoRun
<1>1. ASSUME NEW c \in Chat, AskBus(c) \/ AskDirect(c)
      PROVE  ServiceInv' /\ Service!Ask(c)
  <2>1. /\ phase[c] = "idle" /\ UNCHANGED history
        /\ prompt' = [prompt EXCEPT ![c] = @ + 1]
        /\ \/ phase' = [phase EXCEPT ![c] = "asking"] /\ UNCHANGED run
           \/ /\ phase' = [phase EXCEPT ![c] = "direct"]
              /\ StartGraph(c, [chat |-> c, prompt |-> prompt[c] + 1])
    BY <1>1 DEF AskBus, AskDirect
  <2>2. run[c] = NoRun
    BY <2>1 DEF ServiceInv
  <2>3. Current(c)' = [chat |-> c, prompt |-> prompt[c] + 1]
    BY <1>0, <2>1 DEF Current
  <2>4. run'[c] # NoRun => phase'[c] = "direct" /\ run'[c].request = Current(c)'
    BY <1>0, <2>1, <2>2, <2>3 DEF StartGraph
  <2>5. \A d \in Chat \ {c} : /\ run'[d] = run[d] /\ phase'[d] = phase[d]
                              /\ prompt'[d] = prompt[d]
    BY <1>0, <2>1 DEF StartGraph
  <2>6. ~Busy[c] /\ Busy' = [Busy EXCEPT ![c] = TRUE] /\ UNCHANGED Recent
    BY <1>0, <2>1 DEF Busy, Recent
  <2> QED
    BY <2>1, <2>4, <2>5, <2>6, OneMoves DEF Service!Ask
<1>2. ASSUME NEW c \in Chat, BusTimeout(c)
      PROVE  ServiceInv' /\ UNCHANGED Service!vars
  <2>1. /\ phase[c] = "asking" /\ UNCHANGED <<prompt, history>>
        /\ phase' = [phase EXCEPT ![c] = "direct"]
        /\ StartGraph(c, Current(c))
    BY <1>2 DEF BusTimeout, FallBack
  <2>2. Current(c)' = Current(c)
    BY <2>1 DEF Current
  <2>3. phase'[c] = "direct" /\ run'[c].request = Current(c)'
    BY <1>0, <2>1, <2>2 DEF StartGraph
  <2>4. \A d \in Chat \ {c} : /\ run'[d] = run[d] /\ phase'[d] = phase[d]
                              /\ prompt'[d] = prompt[d]
    BY <1>0, <2>1 DEF StartGraph
  <2>5. Busy' = Busy /\ Recent' = Recent
    BY <1>0, <2>1 DEF Busy, Recent
  <2> QED
    BY <2>1, <2>3, <2>4, <2>5, OneMoves DEF Service!vars
<1>3. ASSUME NEW c \in Chat, Deliver(c)
      PROVE  ServiceInv' /\ Service!Answer(c)
  <2>1. PICK reply \in replies :
          Awaited(c, reply) /\ Show(c, reply) /\ UNCHANGED run
    BY <1>3 DEF Deliver
  <2>2. /\ phase[c] = "asking" /\ reply.prompt = prompt[c]
        /\ reply.text \in {"answer", "(no response)"}
    BY <2>1 DEF Awaited, TypeOK, Reply
  <2>3. /\ Service!Answer(c)
        /\ \A d \in Chat : \E n \in Nat : Len(history'[d]) = 2 * n
    BY <2>1, <2>2, ShowAnswers
  <2>4. UNCHANGED prompt /\ phase' = [phase EXCEPT ![c] = "idle"]
    BY <2>1 DEF Show
  <2>5. \A d \in Chat : run'[d] # NoRun => d # c
    BY <2>1, <2>2 DEF ServiceInv
  <2>6. ASSUME NEW d \in Chat, run'[d] # NoRun
        PROVE  phase'[d] = "direct" /\ run'[d].request = Current(d)'
    BY <1>0, <2>1, <2>4, <2>5, <2>6 DEF ServiceInv, Current
  <2> QED
    BY <2>3, <2>6 DEF ServiceInv
<1>4. ASSUME NEW c \in Chat, Interrupt(c)
      PROVE  ServiceInv' /\ Service!NewSession(c)
  <2>1. /\ phase' = [phase EXCEPT ![c] = "idle"]
        /\ history' = [history EXCEPT ![c] = <<>>]
        /\ run' = [run EXCEPT ![c] = NoRun] /\ UNCHANGED prompt
    BY <1>4 DEF Interrupt
  <2>2. history \in [Chat -> Seq(Message)]
    BY DEF TypeOK
  <2>3. ASSUME NEW d \in Chat
        PROVE  \E n \in Nat : Len(history'[d]) = 2 * n
    <3>1. CASE d = c
      <4>1. Len(history'[d]) = 2 * 0
        BY <2>1, <2>2, <3>1
      <4> QED
        BY <4>1
    <3>2. CASE d # c
      BY <2>1, <2>2, <3>2 DEF ServiceInv
    <3> QED
      BY <3>1, <3>2
  <2>4. ASSUME NEW d \in Chat, run'[d] # NoRun
        PROVE  phase'[d] = "direct" /\ run'[d].request = Current(d)'
    BY <1>0, <2>1, <2>4 DEF ServiceInv, Current
  <2>5. Kept(<<>>) = <<>>
    BY DEF Kept
  <2>6. Recent' = [Recent EXCEPT ![c] = <<>>]
    BY <2>1, <2>2, <2>5 DEF Recent
  <2>7. Busy' = [Busy EXCEPT ![c] = FALSE]
    BY <1>0, <2>1 DEF Busy
  <2> QED
    BY <2>1, <2>3, <2>4, <2>6, <2>7 DEF ServiceInv, Service!NewSession
<1>5. ASSUME NEW r \in Runner, GetMemories(r) \/ ResolveModel(r)
      PROVE  ServiceInv' /\ UNCHANGED Service!vars
  <2>1. /\ UNCHANGED <<phase, prompt, history>> /\ run[r] # NoRun
        /\ \E next : /\ run' = [run EXCEPT ![r] = next]
                     /\ next.request = run[r].request
    BY <1>5, <1>n DEF GetMemories, ResolveModel
  <2>2. ASSUME NEW c \in Chat, run'[c] # NoRun
        PROVE  phase'[c] = "direct" /\ run'[c].request = Current(c)'
    BY <1>0, <2>1, <2>2 DEF ServiceInv, Current
  <2> QED
    BY <2>1, <2>2 DEF ServiceInv, Service!vars, Busy, Recent
<1>6. ASSUME Complete(Aida) \/ GraphFails(Aida)
      PROVE  ServiceInv' /\ UNCHANGED Service!vars
  <2>1. UNCHANGED <<phase, prompt, history>> /\ run' = [run EXCEPT ![Aida] = NoRun]
    BY <1>6 DEF Complete, GraphFails
  <2> QED
    BY <1>0, <2>1, QuietService
<1>7. ASSUME NEW c \in Chat, Complete(c)
      PROVE  ServiceInv' /\ Service!Answer(c)
  <2> DEFINE reply == [prompt |-> run[c].request.prompt, text |-> "answer"]
  <2>1. /\ run[c] # NoRun /\ Show(c, reply) /\ run' = [run EXCEPT ![c] = NoRun]
    BY <1>0, <1>7, <1>n DEF Complete
  <2>2. phase[c] = "direct" /\ reply.prompt = prompt[c] /\ reply.text = "answer"
    <3>1. phase[c] = "direct" /\ run[c].request = Current(c)
      BY <2>1 DEF ServiceInv
    <3>2. Current(c).prompt = prompt[c]
      BY DEF Current
    <3> QED
      BY <3>1, <3>2
  <2> HIDE DEF reply
  <2>3. /\ Service!Answer(c)
        /\ \A d \in Chat : \E n \in Nat : Len(history'[d]) = 2 * n
    BY <2>1, <2>2, ShowAnswers
  <2>4. UNCHANGED prompt /\ phase' = [phase EXCEPT ![c] = "idle"]
    BY <2>1 DEF Show
  <2>5. ASSUME NEW d \in Chat, run'[d] # NoRun
        PROVE  phase'[d] = "direct" /\ run'[d].request = Current(d)'
    BY <1>0, <2>1, <2>4, <2>5 DEF ServiceInv, Current
  <2> QED
    BY <2>3, <2>5 DEF ServiceInv
<1>8. ASSUME NEW c \in Chat, GraphFails(c)
      PROVE  ServiceInv' /\ Service!Fail(c)
  <2>1. /\ run[c] # NoRun /\ run' = [run EXCEPT ![c] = NoRun]
        /\ phase' = [phase EXCEPT ![c] = "idle"] /\ UNCHANGED <<prompt, history>>
    BY <1>0, <1>8, <1>n DEF GraphFails, ShowError
  <2>2. phase[c] = "direct"
    BY <2>1 DEF ServiceInv
  <2>3. run'[c] = NoRun /\ \A d \in Chat \ {c} : /\ run'[d] = run[d]
                                                 /\ phase'[d] = phase[d]
                                                 /\ prompt'[d] = prompt[d]
    BY <1>0, <2>1
  <2>4. Busy[c] /\ Busy' = [Busy EXCEPT ![c] = FALSE] /\ UNCHANGED Recent
    BY <1>0, <2>1, <2>2 DEF Busy, Recent
  <2> QED
    BY <2>1, <2>3, <2>4, OneMoves DEF Service!Fail
<1>9. CASE \/ DropReply \/ StartHandle \/ KillDaemon \/ StartDaemon
           \/ NatsStops \/ NatsStarts \/ Reconnect \/ GiveUp \/ UNCHANGED vars
  <2>1. /\ UNCHANGED <<phase, prompt, history>>
        /\ \A c \in Chat : run'[c] = run[c]
    BY <1>0, <1>9
    DEF DropReply, StartHandle, StartGraph, KillDaemon, StartDaemon, NatsStops,
        NatsStarts, Reconnect, GiveUp, vars
  <2> QED
    BY <2>1, QuietService
<1> QED
  BY <1>0, <1>1, <1>2, <1>3, <1>4, <1>5, <1>6, <1>7, <1>8, <1>9
  DEF Next, GraphStep, Service!Next

(***************************************************************************)
(* AskPath implements the safety part of ChatService: one outcome per      *)
(* prompt, an answer under the prompt it belongs to and a history of the   *)
(* last exchanges, whole and in order, through every fault of the bus, the *)
(* daemon and the terminals.                                               *)
(***************************************************************************)
THEOREM ServiceKept ==
  ASSUME EvenHistory
  PROVE  Spec => Service!Init /\ [][Service!Next]_(Service!vars)
<1>1. Init => ServiceInv /\ Service!Init
  <2> SUFFICES ASSUME Init PROVE ServiceInv /\ Service!Init
    OBVIOUS
  <2>1. /\ phase = [c \in Chat |-> "idle"] /\ history = [c \in Chat |-> <<>>]
        /\ prompt = [c \in Chat |-> 0] /\ run = [r \in Runner |-> NoRun]
    BY DEF Init
  <2>2. \A c \in Chat : run[c] = NoRun
    BY <2>1 DEF Runner
  <2>3. \A c \in Chat : Len(history[c]) = 2 * 0
    BY <2>1
  <2>4. Kept(<<>>) = <<>>
    BY DEF Kept
  <2>5. Busy = [c \in Chat |-> FALSE] /\ Recent = [c \in Chat |-> <<>>]
    BY <2>1, <2>4 DEF Busy, Recent
  <2> QED
    BY <2>1, <2>2, <2>3, <2>5 DEF ServiceInv, Service!Init
<1>2. TypeOK /\ ServiceInv /\ [Next]_vars
        => ServiceInv' /\ [Service!Next]_(Service!vars)
  BY NextService
<1> QED
  BY <1>1, <1>2, Typing, PTL DEF Spec

=============================================================================

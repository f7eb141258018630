--------------------------------- MODULE Box ---------------------------------
(***************************************************************************)
(* A Box (the inbox and the outbox are two), which is a TSQueue<AF1Msg>    *)
(* with a message handler: the threads that call it, its mutex and its     *)
(* condition variable, one step for each point where another thread can    *)
(* come in between.                                                        *)
(*                                                                         *)
(* The loop thread drains the box with handleMessages, again and again;    *)
(* the handler runs with the mutex free and may itself put messages in.    *)
(* The producers are the WiFi task and any other task that pushes; the     *)
(* waiters call dequeue, which the library offers and does not use.        *)
(***************************************************************************)
EXTENDS Naturals, Sequences, FiniteSets

CONSTANTS
  Producers, Waiters, Loop,   \* the threads
  Nobody,                     \* holds the mutex when it is free
  Nothing,                    \* no message
  MaxSent                     \* bound: messages per sender

Senders == Producers \cup {Loop}
Takers  == Waiters \cup {Loop}
Threads == Senders \cup Takers
Message == [from : Senders, no : 1..MaxSent]

ASSUME BoxAssumption ==
  /\ Producers \cap Waiters = {} /\ Loop \notin Producers \cup Waiters
  /\ Nobody \notin Threads /\ Nothing \notin Message
  /\ IsFiniteSet(Producers) /\ IsFiniteSet(Waiters) /\ MaxSent \in Nat

VARIABLES
  q,       \* the std::queue
  mutex,   \* the thread that holds m, or Nobody
  pc,      \* where each thread is
  op,      \* what it holds or awaits the mutex for: "put" or "take"
  val,     \* the local msg or val of each taker
  sent     \* how many messages each sender has put in

vars == <<q, mutex, pc, op, val, sent>>

\* "idle": outside of the box; "lock": about to take the mutex; "locked": it has it;
\* "notify", "pop": before the second step inside; "wait": in c.wait(lock);
\* "handler": in msgHandler(msg); "got": about to return val.
Places == {"idle", "lock", "locked", "notify", "pop", "wait", "handler", "got"}

TypeOK ==
  /\ q \in Seq(Message)
  /\ mutex \in Threads \cup {Nobody}
  /\ pc \in [Threads -> Places] /\ op \in [Threads -> {"put", "take"}]
  /\ val \in [Takers -> Message \cup {Nothing}]
  /\ sent \in [Senders -> 0..MaxSent]

Init ==
  /\ q = <<>> /\ mutex = Nobody
  /\ pc = [t \in Threads |-> "idle"] /\ op = [t \in Threads |-> "take"]
  /\ val = [t \in Takers |-> Nothing] /\ sent = [s \in Senders |-> 0]

Goto(t, place) == pc' = [pc EXCEPT ![t] = place]

Acquire(t) ==
  /\ pc[t] = "lock" /\ mutex = Nobody
  /\ mutex' = t
  /\ Goto(t, "locked")
  /\ UNCHANGED <<q, op, val, sent>>

-----------------------------------------------------------------------------
(* TSQueue::enqueue, called by a producer or from the handler.              *)

Enqueue(t) ==
  /\ pc[t] = IF t = Loop THEN "handler" ELSE "idle"
  /\ sent[t] < MaxSent
  /\ op' = [op EXCEPT ![t] = "put"]
  /\ Goto(t, "lock")
  /\ UNCHANGED <<q, mutex, val, sent>>

PushedMutant(t) == Nothing   \* the message was moved away before
Pushed(t) == [from |-> t, no |-> sent[t] + 1]

Push(t) ==
  /\ pc[t] = "locked" /\ op[t] = "put"
  /\ sent' = [sent EXCEPT ![t] = @ + 1]
  /\ q' = Append(q, Pushed(t))
  /\ Goto(t, "notify")
  /\ UNCHANGED <<mutex, op, val>>

\* c.notify_one(), which wakes one of the waiting threads if there are any.
Waiting == {w \in Waiters : pc[w] = "wait"}
WakenMutant == IF Waiting = {} \/ Len(q) > 1 THEN {{}} ELSE {{w} : w \in Waiting}
Waken == IF Waiting = {} THEN {{}} ELSE {{w} : w \in Waiting}

\* enqueue notifies, releases the mutex and returns.
Notify(t) ==
  /\ pc[t] = "notify"
  /\ \E woken \in Waken :
       pc' = [u \in Threads |-> IF u \in woken THEN "lock"
                                ELSE IF u # t THEN pc[u]
                                ELSE IF t = Loop THEN "handler" ELSE "idle"]
  /\ mutex' = Nobody
  /\ UNCHANGED <<q, op, val, sent>>

-----------------------------------------------------------------------------
(* Box::handleMessages and TSQueue::dequeue: both copy the front and pop it *)
(* with the mutex held.                                                     *)

StartTaking(t) ==
  /\ pc[t] = "idle"
  /\ op' = [op EXCEPT ![t] = "take"]
  /\ Goto(t, "lock")
  /\ UNCHANGED <<q, mutex, val, sent>>

FrontMutant == q[Len(q)]
Front == Head(q)

ReadFront(t) ==
  /\ pc[t] = "locked" /\ op[t] = "take" /\ q # <<>>
  /\ val' = [val EXCEPT ![t] = Front]
  /\ Goto(t, "pop")
  /\ UNCHANGED <<q, mutex, op, sent>>

AfterPopMutant(t) == IF t = Loop THEN t ELSE Nobody
AfterPop(t) == Nobody   \* who holds the mutex

Pop(t) ==
  /\ pc[t] = "pop"
  /\ q' = Tail(q)
  /\ mutex' = AfterPop(t)
  /\ Goto(t, IF t = Loop THEN "handler" ELSE "got")
  /\ UNCHANGED <<op, val, sent>>

\* handleMessages returns, through all its recursive calls; dequeue waits.
FoundEmpty(t) ==
  /\ pc[t] = "locked" /\ op[t] = "take" /\ q = <<>>
  /\ mutex' = Nobody
  /\ Goto(t, IF t = Loop THEN "idle" ELSE "wait")
  /\ UNCHANGED <<q, op, val, sent>>

\* The handler returned: handleMessages calls itself for the next message.
HandlerDone ==
  /\ pc[Loop] = "handler"
  /\ val' = [val EXCEPT ![Loop] = Nothing]
  /\ op' = [op EXCEPT ![Loop] = "take"]
  /\ Goto(Loop, "lock")
  /\ UNCHANGED <<q, mutex, sent>>

DequeueReturns(w) ==
  /\ pc[w] = "got"
  /\ val' = [val EXCEPT ![w] = Nothing]
  /\ Goto(w, "idle")
  /\ UNCHANGED <<q, mutex, op, sent>>

\* A condition variable may wake a thread up for no reason; dequeue looks again.
SpuriousWakeup(w) ==
  /\ pc[w] = "wait"
  /\ Goto(w, "lock")
  /\ UNCHANGED <<q, mutex, op, val, sent>>

-----------------------------------------------------------------------------
Inside(t) ==
  \/ t \in Senders /\ (Push(t) \/ Notify(t))
  \/ t \in Takers /\ (ReadFront(t) \/ Pop(t) \/ FoundEmpty(t))
  \/ t = Loop /\ HandlerDone
  \/ t \in Waiters /\ DequeueReturns(t)

Next ==
  \/ \E t \in Threads : Acquire(t) \/ Inside(t)
  \/ \E t \in Senders : Enqueue(t)
  \/ \E t \in Takers : StartTaking(t)
  \/ \E w \in Waiters : SpuriousWakeup(w)

Spec == Init /\ [][Next]_vars

\* No thread stops inside the box, update() calls handleMessages again and again, and a
\* thread that keeps asking for the mutex gets it.  Nobody has to push or to dequeue.
FairSpec ==
  /\ Spec
  /\ WF_vars(StartTaking(Loop))
  /\ \A t \in Threads : WF_vars(Inside(t)) /\ SF_vars(Acquire(t))

-----------------------------------------------------------------------------
(* Properties.                                                              *)

\* The Box is the atomic first-in-first-out queue that the rest of the system takes it for:
\* no message is lost, taken twice or overtaken, whichever threads are inside at once.
Fifo == INSTANCE MailboxFifo WITH
          queue <- q,
          holds <- [t \in Takers |-> IF pc[t] = "pop" THEN Nothing ELSE val[t]]
FifoSpec == Fifo!Spec

\* No wake-up is lost: while a thread waits in dequeue, there are as many threads awake that
\* will look at the queue, or about to notify one, as there are messages in it.
Notifying == {t \in Senders : pc[t] = "notify"}
Awake == {w \in Waiters : pc[w] \in {"lock", "locked", "pop"}}
NoLostWakeup == Waiting # {} => Len(q) <= Cardinality(Notifying) + Cardinality(Awake)

\* handleMessages releases the mutex before it calls the handler (box.cpp:40-41), so that a
\* handler that pushes into its own box does not wait for itself: the loop thread gets out
\* of the box again, and update() goes on.
DrainEnds == (pc[Loop] # "idle") ~> (pc[Loop] = "idle")

\* Every message that a thread pushes is taken out in the end.
EveryMessageTaken ==
  \A m \in Message : (\E i \in DOMAIN q : q[i] = m) ~> (\A i \in DOMAIN q : q[i] # m)

=============================================================================

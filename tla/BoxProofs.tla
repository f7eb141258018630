------------------------------ MODULE BoxProofs ------------------------------
(***************************************************************************)
(* Theorems about a Box, for any number of producers, of callers of        *)
(* dequeue and of messages.                                                *)
(***************************************************************************)
EXTENDS Box, TLAPS, SequenceTheorems, FiniteSetTheorems

LEMMA ThreadTypes ==
  /\ Loop \in Senders /\ Loop \in Takers /\ Loop \in Threads /\ Loop \notin Waiters
  /\ Senders \subseteq Threads /\ Takers \subseteq Threads
  /\ Waiters \subseteq Takers /\ Waiters \cap Senders = {}
  /\ Nobody \notin Threads /\ Nothing \notin Message /\ MaxSent \in Nat
  BY BoxAssumption DEF BoxAssumption, Senders, Takers, Threads

-----------------------------------------------------------------------------
(* The inductive invariant.                                                 *)

\* Only the thread that holds the mutex is inside, and what it read at the front of the queue
\* is still there when it comes to pop it.
Exclusion == \A t \in Threads : pc[t] \in {"locked", "notify", "pop"} => mutex = t
FrontRead == \A t \in Takers : pc[t] = "pop" => q # <<>> /\ val[t] = Head(q)

\* A taker that is about to read the front has no message left from before.
Resting(t) == pc[t] \in {"idle", "wait"} \/ (pc[t] \in {"lock", "locked"} /\ op[t] = "take")
NothingHeld == \A t \in Takers : Resting(t) => val[t] = Nothing

\* A sender in enqueue has a message to send.
Putting == \A t \in Senders : pc[t] \in {"lock", "locked"} /\ op[t] = "put" => sent[t] < MaxSent

BoxInv == TypeOK /\ Exclusion /\ FrontRead /\ NothingHeld /\ Putting

LEMMA InitInv == Init => BoxInv
<1> SUFFICES ASSUME Init PROVE BoxInv
  OBVIOUS
<1> USE ThreadTypes
<1>1. q \in Seq(Message)
  BY EmptySeq DEF Init
<1>2. TypeOK
  BY <1>1 DEF Init, TypeOK, Places
<1> QED BY <1>2 DEF Init, BoxInv, Exclusion, FrontRead, NothingHeld, Putting

\* The steps that leave the queue alone.
LEMMA AcquireInv ==
  ASSUME BoxInv, NEW t \in Threads, Acquire(t)
  PROVE  BoxInv'
  BY ThreadTypes DEF BoxInv, TypeOK, Places, Exclusion, FrontRead, NothingHeld, Resting, Putting,
                     Acquire, Goto

LEMMA EnqueueInv ==
  ASSUME BoxInv, NEW t \in Senders, Enqueue(t)
  PROVE  BoxInv'
<1> USE ThreadTypes DEF BoxInv, Enqueue, Goto
<1>1. TypeOK'
  BY DEF TypeOK, Places
<1>2. Exclusion' /\ FrontRead'
  BY DEF TypeOK, Exclusion, FrontRead
<1>3. NothingHeld'
  BY DEF TypeOK, NothingHeld, Resting
<1>4. Putting'
  BY DEF TypeOK, Putting
<1> QED BY <1>1, <1>2, <1>3, <1>4

LEMMA NotifyInv ==
  ASSUME BoxInv, NEW t \in Senders, Notify(t)
  PROVE  BoxInv'
<1> USE ThreadTypes DEF BoxInv
<1>1. PICK woken \in Waken :
        pc' = [u \in Threads |-> IF u \in woken THEN "lock"
                                 ELSE IF u # t THEN pc[u]
                                 ELSE IF t = Loop THEN "handler" ELSE "idle"]
  BY DEF Notify
<1>2. /\ woken \subseteq Waiting /\ Waiting \subseteq Waiters
      /\ mutex' = Nobody /\ mutex = t /\ pc[t] = "notify"
      /\ UNCHANGED <<q, op, val, sent>>
  BY DEF Notify, Waken, Waiting, Exclusion
<1>3. TypeOK'
  BY <1>1, <1>2 DEF TypeOK, Places
<1>4. Exclusion' /\ FrontRead'
  BY <1>1, <1>2 DEF TypeOK, Exclusion, FrontRead
<1>5. NothingHeld'
  <2> SUFFICES ASSUME NEW u \in Takers, Resting(u)' PROVE val[u] = Nothing
    BY <1>2 DEF NothingHeld
  <2>1. CASE u \in woken
    BY <2>1, <1>2 DEF NothingHeld, Resting, Waiting
  <2>2. CASE u \notin woken /\ u # t
    BY <2>2, <1>1, <1>2 DEF NothingHeld, Resting
  <2>3. CASE u \notin woken /\ u = t
    <3>1. u = Loop
      BY <2>3 DEF Senders, Takers
    <3> QED BY <2>3, <3>1, <1>1 DEF Resting
  <2> QED BY <2>1, <2>2, <2>3
<1>6. Putting'
  BY <1>1, <1>2 DEF Putting
<1> QED BY <1>3, <1>4, <1>5, <1>6

LEMMA StartTakingInv ==
  ASSUME BoxInv, NEW t \in Takers, StartTaking(t)
  PROVE  BoxInv'
<1> USE ThreadTypes DEF BoxInv, StartTaking, Goto
<1>1. TypeOK'
  BY DEF TypeOK, Places
<1>2. Exclusion' /\ FrontRead'
  BY DEF TypeOK, Exclusion, FrontRead
<1>3. NothingHeld'
  BY DEF TypeOK, NothingHeld, Resting
<1>4. Putting'
  BY DEF TypeOK, Putting
<1> QED BY <1>1, <1>2, <1>3, <1>4

LEMMA ReadFrontInv ==
  ASSUME BoxInv, NEW t \in Takers, ReadFront(t)
  PROVE  BoxInv'
<1> USE ThreadTypes DEF BoxInv, ReadFront, Front, Goto
<1>1. TypeOK'
  <2>1. Head(q) \in Message
    BY HeadTailProperties DEF TypeOK
  <2> QED BY <2>1 DEF TypeOK, Places
<1>2. Exclusion' /\ FrontRead'
  BY DEF TypeOK, Exclusion, FrontRead
<1>3. NothingHeld'
  BY DEF TypeOK, NothingHeld, Resting
<1>4. Putting'
  BY DEF TypeOK, Putting
<1> QED BY <1>1, <1>2, <1>3, <1>4

LEMMA FoundEmptyInv ==
  ASSUME BoxInv, NEW t \in Takers, FoundEmpty(t)
  PROVE  BoxInv'
<1> USE ThreadTypes DEF BoxInv, FoundEmpty, Goto
<1>1. TypeOK'
  BY DEF TypeOK, Places
<1>2. Exclusion' /\ FrontRead'
  BY DEF TypeOK, Exclusion, FrontRead
<1>3. NothingHeld'
  BY DEF TypeOK, NothingHeld, Resting
<1>4. Putting'
  BY DEF TypeOK, Putting
<1> QED BY <1>1, <1>2, <1>3, <1>4

LEMMA OutsideInv ==
  ASSUME BoxInv, HandlerDone \/ (\E w \in Waiters : DequeueReturns(w) \/ SpuriousWakeup(w))
  PROVE  BoxInv'
<1> USE ThreadTypes DEF BoxInv, Goto
<1>1. CASE HandlerDone
  BY <1>1 DEF HandlerDone, TypeOK, Places, Exclusion, FrontRead, NothingHeld, Resting, Putting
<1>2. ASSUME NEW w \in Waiters, DequeueReturns(w) PROVE BoxInv'
  BY <1>2 DEF DequeueReturns, TypeOK, Places, Exclusion, FrontRead, NothingHeld, Resting, Putting
<1>3. ASSUME NEW w \in Waiters, SpuriousWakeup(w) PROVE BoxInv'
  BY <1>3 DEF SpuriousWakeup, TypeOK, Places, Exclusion, FrontRead, NothingHeld, Resting, Putting
<1> QED BY <1>1, <1>2, <1>3

\* The steps that change it: their thread holds the mutex, so nobody else has read the front.
LEMMA PushInv ==
  ASSUME BoxInv, NEW t \in Senders, Push(t)
  PROVE  BoxInv' /\ sent'[t] = sent[t] + 1 /\ [from |-> t, no |-> sent'[t]] \in Message
<1> USE ThreadTypes DEF BoxInv, Push, Pushed, Goto
<1>1. sent[t] < MaxSent /\ sent[t] \in Nat
  BY DEF Putting, TypeOK
<1>2. sent'[t] = sent[t] + 1 /\ [from |-> t, no |-> sent'[t]] \in Message
  BY <1>1 DEF TypeOK, Message
<1>3. TypeOK'
  <2>1. sent' \in [Senders -> 0..MaxSent]
    BY <1>1 DEF TypeOK
  <2>2. q' \in Seq(Message)
    BY <1>2, AppendProperties DEF TypeOK
  <2> QED BY <2>1, <2>2 DEF TypeOK, Places
<1>4. Exclusion'
  BY DEF TypeOK, Exclusion
<1>5. FrontRead'
  <2>1. \A u \in Takers : pc[u] # "pop"
    BY DEF TypeOK, Exclusion
  <2> QED BY <2>1 DEF TypeOK, FrontRead
<1>6. NothingHeld' /\ Putting'
  BY DEF TypeOK, NothingHeld, Resting, Putting
<1> QED BY <1>2, <1>3, <1>4, <1>5, <1>6

LEMMA PopInv ==
  ASSUME BoxInv, NEW t \in Takers, Pop(t)
  PROVE  BoxInv'
<1> USE ThreadTypes DEF BoxInv, Pop, Goto, AfterPop
<1>1. TypeOK'
  <2>1. q' \in Seq(Message)
    BY HeadTailProperties DEF TypeOK, FrontRead
  <2> QED BY <2>1 DEF TypeOK, Places
<1>2. \A u \in Threads : u # t => pc[u] \notin {"locked", "notify", "pop"}
  BY DEF Exclusion
<1>3. Exclusion' /\ FrontRead'
  BY <1>2 DEF TypeOK, Exclusion, FrontRead
<1>4. NothingHeld' /\ Putting'
  BY DEF TypeOK, NothingHeld, Resting, Putting
<1> QED BY <1>1, <1>3, <1>4

LEMMA StepInv ==
  ASSUME BoxInv, [Next]_vars
  PROVE  BoxInv'
<1>1. CASE UNCHANGED vars
  BY <1>1 DEF vars, BoxInv, TypeOK, Exclusion, FrontRead, NothingHeld, Resting, Putting
<1>2. CASE Next
  BY <1>2, AcquireInv, EnqueueInv, NotifyInv, StartTakingInv, ReadFrontInv, FoundEmptyInv,
     OutsideInv, PushInv, PopInv DEF Next, Inside
<1> QED BY <1>1, <1>2

\* Every reachable state has its type, and only one thread is inside.
THEOREM BoxTypeCorrect == Spec => []BoxInv /\ []TypeOK
<1>1. BoxInv => TypeOK
  BY DEF BoxInv
<1> QED BY <1>1, InitInv, StepInv, PTL DEF Spec

-----------------------------------------------------------------------------
(* Refinement.                                                              *)

Holds == [t \in Takers |-> IF pc[t] = "pop" THEN Nothing ELSE val[t]]

\* A step that changes no message, and no thread's being about to pop, is a stutter.
LEMMA Stutter ==
  ASSUME UNCHANGED <<q, val, sent>>, \A t \in Takers : pc'[t] = "pop" <=> pc[t] = "pop"
  PROVE  UNCHANGED <<q, sent, Holds>>
  BY DEF Holds

LEMMA RefinementStep ==
  ASSUME BoxInv, [Next]_vars
  PROVE  [Fifo!Next]_<<q, sent, Holds>>
<1> USE ThreadTypes
<1>1. CASE UNCHANGED vars
  BY <1>1 DEF vars, Holds
<1>2. ASSUME NEW t \in Threads, Acquire(t)
      PROVE  UNCHANGED <<q, sent, Holds>>
  BY <1>2, Stutter DEF Acquire, Goto, BoxInv, TypeOK
<1>3. ASSUME NEW t \in Senders, Enqueue(t)
      PROVE  UNCHANGED <<q, sent, Holds>>
  BY <1>3, Stutter DEF Enqueue, Goto, BoxInv, TypeOK
<1>4. ASSUME NEW t \in Senders, Notify(t)
      PROVE  UNCHANGED <<q, sent, Holds>>
  BY <1>4, Stutter DEF Notify, Waken, Waiting, BoxInv, TypeOK
<1>5. ASSUME NEW t \in Takers, StartTaking(t) \/ FoundEmpty(t)
      PROVE  UNCHANGED <<q, sent, Holds>>
  BY <1>5, Stutter DEF StartTaking, FoundEmpty, Goto, BoxInv, TypeOK
<1>6. ASSUME NEW w \in Waiters, SpuriousWakeup(w)
      PROVE  UNCHANGED <<q, sent, Holds>>
  BY <1>6, Stutter DEF SpuriousWakeup, Goto, BoxInv, TypeOK
<1>7. ASSUME NEW t \in Takers, ReadFront(t)
      PROVE  UNCHANGED <<q, sent, Holds>>
  <2>1. val[t] = Nothing
    BY <1>7 DEF ReadFront, BoxInv, NothingHeld, Resting
  <2> QED BY <1>7, <2>1 DEF ReadFront, Goto, Holds, BoxInv, TypeOK
<1>8. ASSUME NEW t \in Senders, Push(t)
      PROVE  Fifo!Put(t)
  <2>1. q' = Append(q, [from |-> t, no |-> sent'[t]]) /\ sent' = [sent EXCEPT ![t] = @ + 1]
    BY <1>8 DEF Push, Pushed, BoxInv, TypeOK
  <2>2. Holds' = Holds
    BY <1>8 DEF Push, Goto, Holds, BoxInv, TypeOK
  <2> QED BY <2>1, <2>2 DEF Fifo!Put, Holds
<1>9. ASSUME NEW t \in Takers, Pop(t)
      PROVE  Fifo!Take(t)
  <2>1. q # <<>> /\ val[t] = Head(q) /\ q' = Tail(q) /\ UNCHANGED sent
    BY <1>9 DEF Pop, BoxInv, FrontRead
  <2>2. Holds[t] = Nothing
    BY <1>9 DEF Pop, Holds
  <2>3. Holds' = [Holds EXCEPT ![t] = val[t]]
    BY <1>9 DEF Pop, Goto, Holds, BoxInv, TypeOK
  <2> QED BY <2>1, <2>2, <2>3 DEF Fifo!Take, Holds
<1>10. ASSUME NEW t \in Takers, (t = Loop /\ HandlerDone) \/ (t \in Waiters /\ DequeueReturns(t))
       PROVE  Fifo!Finish(t) \/ UNCHANGED <<q, sent, Holds>>
  <2>1. /\ UNCHANGED <<q, sent>> /\ val' = [val EXCEPT ![t] = Nothing]
        /\ pc[t] # "pop" /\ \E place \in {"lock", "idle"} : pc' = [pc EXCEPT ![t] = place]
    BY <1>10 DEF HandlerDone, DequeueReturns, Goto
  <2>2. Holds' = [Holds EXCEPT ![t] = Nothing]
    BY <2>1 DEF Holds, BoxInv, TypeOK
  <2>3. CASE Holds[t] = Nothing
    BY <2>1, <2>2, <2>3 DEF Holds
  <2>4. CASE Holds[t] # Nothing
    BY <2>1, <2>2, <2>4 DEF Fifo!Finish, Holds
  <2> QED BY <2>3, <2>4
<1>11. CASE Next
  BY <1>11, <1>2, <1>3, <1>4, <1>5, <1>6, <1>7, <1>8, <1>9, <1>10
     DEF Next, Inside, Fifo!Next
<1> QED BY <1>1, <1>11

\* A Box is an atomic first-in-first-out queue.
THEOREM BoxIsFifo == Spec => FifoSpec
<1>1. Init => Fifo!Init
  BY DEF Init, Fifo!Init
<1>2. BoxInv /\ [Next]_vars => [Fifo!Next]_<<q, sent, Holds>>
  BY RefinementStep
<1>3. Spec => []BoxInv
  BY BoxTypeCorrect, PTL
<1> QED BY <1>1, <1>2, <1>3, PTL DEF Spec, FifoSpec, Fifo!Spec, Holds

-----------------------------------------------------------------------------
(* Wake-ups.                                                                *)

LEMMA FiniteThreads == IsFiniteSet(Senders) /\ IsFiniteSet(Waiters)
  BY BoxAssumption, FS_AddElement DEF BoxAssumption, Senders

LEMMA Finite ==
  /\ IsFiniteSet(Notifying) /\ IsFiniteSet(Awake)
  /\ Cardinality(Notifying) \in Nat /\ Cardinality(Awake) \in Nat
<1>1. IsFiniteSet(Notifying) /\ IsFiniteSet(Awake)
  BY FiniteThreads, FS_Subset DEF Notifying, Awake
<1> QED BY <1>1, FS_CardinalityType

LEMMA FiniteNext ==
  /\ IsFiniteSet(Notifying') /\ IsFiniteSet(Awake')
  /\ Cardinality(Notifying') \in Nat /\ Cardinality(Awake') \in Nat
<1>1. Notifying' \subseteq Senders /\ Awake' \subseteq Waiters
  BY DEF Notifying, Awake
<1>2. IsFiniteSet(Notifying') /\ IsFiniteSet(Awake')
  BY <1>1, FiniteThreads, FS_Subset
<1> QED BY <1>2, FS_CardinalityType

\* A step that adds no message, starts nobody's wait and takes no thread out of those that are
\* awake or notify, loses no wake-up.
LEMMA MoreAwake ==
  ASSUME TypeOK, TypeOK', NoLostWakeup, q' = q, Waiting' \subseteq Waiting,
         Notifying' = Notifying, Awake \subseteq Awake'
  PROVE  NoLostWakeup'
<1>1. Cardinality(Awake) <= Cardinality(Awake')
  <2>1. IsFiniteSet(Awake')
    BY FiniteNext
  <2> QED BY <2>1, FS_Subset
<1>2. Cardinality(Awake') \in Nat /\ Len(q) \in Nat
  <2>1. Cardinality(Awake') \in Nat
    BY FiniteNext
  <2> QED BY <2>1, LenProperties DEF TypeOK
<1> QED BY <1>1, <1>2, Finite DEF NoLostWakeup

LEMMA WakeupStep ==
  ASSUME BoxInv, BoxInv', NoLostWakeup, [Next]_vars
  PROVE  NoLostWakeup'
<1> USE ThreadTypes, Finite
<1>0. TypeOK /\ TypeOK' /\ Len(q) \in Nat
  BY LenProperties DEF BoxInv, TypeOK
<1>1. CASE UNCHANGED vars
  BY <1>1 DEF vars, NoLostWakeup, Waiting, Notifying, Awake
<1>2. ASSUME NEW t \in Threads, Acquire(t)
      PROVE  NoLostWakeup'
  <2>1. q' = q /\ pc' = [pc EXCEPT ![t] = "locked"] /\ pc[t] = "lock"
    BY <1>2 DEF Acquire, Goto
  <2>2. Waiting' = Waiting /\ Notifying' = Notifying /\ Awake' = Awake
    BY <1>0, <2>1 DEF TypeOK, Waiting, Notifying, Awake
  <2> QED BY <1>0, <2>1, <2>2, MoreAwake
<1>3. ASSUME NEW t \in Senders, Enqueue(t)
      PROVE  NoLostWakeup'
  <2>1. q' = q /\ pc' = [pc EXCEPT ![t] = "lock"] /\ pc[t] \in {"handler", "idle"} /\ t \notin Waiters
    BY <1>3 DEF Enqueue, Goto
  <2>2. Waiting' = Waiting /\ Notifying' = Notifying /\ Awake' = Awake
    BY <1>0, <2>1 DEF TypeOK, Waiting, Notifying, Awake
  <2> QED BY <1>0, <2>1, <2>2, MoreAwake
<1>4. ASSUME NEW t \in Takers, StartTaking(t)
      PROVE  NoLostWakeup'
  <2>1. q' = q /\ pc' = [pc EXCEPT ![t] = "lock"] /\ pc[t] = "idle"
    BY <1>4 DEF StartTaking, Goto
  <2>2. Waiting' = Waiting /\ Notifying' = Notifying /\ Awake \subseteq Awake'
    BY <1>0, <2>1 DEF TypeOK, Waiting, Notifying, Awake
  <2> QED BY <1>0, <2>1, <2>2, MoreAwake
<1>5. ASSUME NEW w \in Waiters, SpuriousWakeup(w)
      PROVE  NoLostWakeup'
  <2>1. q' = q /\ pc' = [pc EXCEPT ![w] = "lock"] /\ pc[w] = "wait"
    BY <1>5 DEF SpuriousWakeup, Goto
  <2>2. Waiting' \subseteq Waiting /\ Notifying' = Notifying /\ Awake \subseteq Awake'
    BY <1>0, <2>1 DEF TypeOK, Waiting, Notifying, Awake
  <2> QED BY <1>0, <2>1, <2>2, MoreAwake
<1>6. ASSUME NEW t \in Takers, ReadFront(t)
      PROVE  NoLostWakeup'
  <2>1. q' = q /\ pc' = [pc EXCEPT ![t] = "pop"] /\ pc[t] = "locked"
    BY <1>6 DEF ReadFront, Goto
  <2>2. Waiting' = Waiting /\ Notifying' = Notifying /\ Awake' = Awake
    BY <1>0, <2>1 DEF TypeOK, Waiting, Notifying, Awake
  <2> QED BY <1>0, <2>1, <2>2, MoreAwake
<1>7. ASSUME NEW t \in Takers, FoundEmpty(t)
      PROVE  NoLostWakeup'
  <2>1. Len(q') = 0
    BY <1>7 DEF FoundEmpty
  <2>2. Cardinality(Notifying') \in Nat /\ Cardinality(Awake') \in Nat
    BY FiniteNext
  <2> QED BY <2>1, <2>2 DEF NoLostWakeup
<1>8. CASE HandlerDone
  <2>1. q' = q /\ pc' = [pc EXCEPT ![Loop] = "lock"] /\ pc[Loop] = "handler"
    BY <1>8 DEF HandlerDone, Goto
  <2>2. Waiting' = Waiting /\ Notifying' = Notifying /\ Awake' = Awake
    BY <1>0, <2>1 DEF TypeOK, Waiting, Notifying, Awake
  <2> QED BY <1>0, <2>1, <2>2, MoreAwake
<1>9. ASSUME NEW w \in Waiters, DequeueReturns(w)
      PROVE  NoLostWakeup'
  <2>1. q' = q /\ pc' = [pc EXCEPT ![w] = "idle"] /\ pc[w] = "got"
    BY <1>9 DEF DequeueReturns, Goto
  <2>2. Waiting' = Waiting /\ Notifying' = Notifying /\ Awake' = Awake
    BY <1>0, <2>1 DEF TypeOK, Waiting, Notifying, Awake
  <2> QED BY <1>0, <2>1, <2>2, MoreAwake
\* One message more, and one thread more that is about to notify.
<1>10. ASSUME NEW t \in Senders, Push(t)
       PROVE  NoLostWakeup'
  <2>1. pc' = [pc EXCEPT ![t] = "notify"] /\ pc[t] = "locked" /\ t \notin Waiters
    BY <1>10 DEF Push, Goto
  <2>2. Waiting' = Waiting /\ Awake' = Awake /\ Notifying' = Notifying \cup {t} /\ t \notin Notifying
    BY <1>0, <2>1 DEF TypeOK, Waiting, Notifying, Awake
  <2>3. Cardinality(Notifying') = Cardinality(Notifying) + 1
    BY <2>2, FS_AddElement
  <2>4. Len(q') = Len(q) + 1
    <3>1. q' = Append(q, [from |-> t, no |-> sent'[t]]) /\ q \in Seq(Message)
      BY <1>10 DEF Push, Pushed, BoxInv, TypeOK
    <3> QED BY <1>10, <3>1, PushInv, AppendProperties
  <2> QED BY <1>0, <2>2, <2>3, <2>4 DEF NoLostWakeup
\* One thread less that notifies, and one more that is awake if there was one to wake.
<1>11. ASSUME NEW t \in Senders, Notify(t)
       PROVE  NoLostWakeup'
  <2>1. PICK woken \in Waken :
          pc' = [u \in Threads |-> IF u \in woken THEN "lock"
                                   ELSE IF u # t THEN pc[u]
                                   ELSE IF t = Loop THEN "handler" ELSE "idle"]
    BY <1>11 DEF Notify
  <2>2. q' = q /\ pc[t] = "notify" /\ t \notin Waiters
    BY <1>11 DEF Notify
  <2>3. CASE Waiting = {}
    <3>1. Waiting' = {}
      BY <2>1, <2>2, <2>3 DEF Waken, Waiting
    <3> QED BY <3>1 DEF NoLostWakeup
  <2>4. CASE Waiting # {}
    <3>1. PICK w \in Waiters : woken = {w} /\ pc[w] = "wait"
      BY <2>1, <2>4 DEF Waken, Waiting
    <3>2. Notifying' = Notifying \ {t} /\ t \in Notifying
      BY <2>1, <2>2, <3>1 DEF Notifying
    <3>3. Awake' = Awake \cup {w} /\ w \notin Awake
      BY <2>1, <2>2, <3>1 DEF Awake
    <3>4. /\ Cardinality(Notifying') = Cardinality(Notifying) - 1
          /\ Cardinality(Awake') = Cardinality(Awake) + 1
      BY <3>2, <3>3, FS_AddElement, FS_RemoveElement
    <3> QED BY <1>0, <2>2, <2>4, <3>4 DEF NoLostWakeup
  <2> QED BY <2>3, <2>4
\* One message less, and at most one thread less that is awake.
<1>12. ASSUME NEW t \in Takers, Pop(t)
       PROVE  NoLostWakeup'
  <2>1. /\ pc' = [pc EXCEPT ![t] = IF t = Loop THEN "handler" ELSE "got"]
        /\ pc[t] = "pop" /\ q # <<>> /\ q' = Tail(q)
    BY <1>12 DEF Pop, Goto, BoxInv, FrontRead
  <2>2. Waiting' = Waiting /\ Notifying' = Notifying /\ Awake' = Awake \ {t}
    BY <1>0, <2>1 DEF TypeOK, Waiting, Notifying, Awake, Takers
  <2>3. Cardinality(Awake') >= Cardinality(Awake) - 1
    <3>1. Cardinality(Awake \ {t}) = IF t \in Awake THEN Cardinality(Awake) - 1 ELSE Cardinality(Awake)
      BY FS_RemoveElement, Zenon
    <3> QED BY <2>2, <3>1
  <2>4. Len(q') = Len(q) - 1
    BY <1>0, <2>1, HeadTailProperties DEF TypeOK
  <2>5. Cardinality(Awake') \in Nat
    BY FiniteNext
  <2> QED BY <1>0, <2>2, <2>3, <2>4, <2>5 DEF NoLostWakeup
<1> QED BY <1>1, <1>2, <1>3, <1>4, <1>5, <1>6, <1>7, <1>8, <1>9, <1>10, <1>11, <1>12
        DEF Next, Inside

\* However many threads wait in dequeue and are woken, none sleeps through a message.
THEOREM NoWakeupIsLost == Spec => []NoLostWakeup
<1>1. Init => NoLostWakeup
  BY ThreadTypes DEF Init, NoLostWakeup, Waiting, Threads
<1>2. Spec => []BoxInv
  BY BoxTypeCorrect, PTL
<1> QED BY <1>1, <1>2, WakeupStep, PTL DEF Spec

=============================================================================

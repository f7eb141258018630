----------------------------- MODULE MailboxFifo -----------------------------
(***************************************************************************)
(* What a Box promises its callers: enqueue puts a message in atomically,  *)
(* and a taker (the loop thread in handleMessages, or a caller of dequeue) *)
(* gets the oldest one, which nobody else gets.  Messages are numbered by  *)
(* their sender.                                                           *)
(***************************************************************************)
EXTENDS Naturals, Sequences

CONSTANTS Senders, Takers, Nothing

VARIABLES
  queue,
  sent,    \* how many messages each sender has put in
  holds    \* the message that each taker is busy with, or Nothing

Init ==
  /\ queue = <<>>
  /\ sent = [s \in Senders |-> 0]
  /\ holds = [t \in Takers |-> Nothing]

Put(s) ==
  /\ sent' = [sent EXCEPT ![s] = @ + 1]
  /\ queue' = Append(queue, [from |-> s, no |-> sent'[s]])
  /\ UNCHANGED holds

Take(t) ==
  /\ queue # <<>> /\ holds[t] = Nothing
  /\ holds' = [holds EXCEPT ![t] = Head(queue)]
  /\ queue' = Tail(queue)
  /\ UNCHANGED sent

Finish(t) ==
  /\ holds[t] # Nothing
  /\ holds' = [holds EXCEPT ![t] = Nothing]
  /\ UNCHANGED <<queue, sent>>

Next == (\E s \in Senders : Put(s)) \/ (\E t \in Takers : Take(t) \/ Finish(t))

Spec == Init /\ [][Next]_<<queue, sent, holds>>

=============================================================================

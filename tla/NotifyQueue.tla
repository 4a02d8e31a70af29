----------------------------- MODULE NotifyQueue -----------------------------
(***************************************************************************)
(* How status transitions reach the callbacks: notifyStatusKind of         *)
(* src/ssh.go puts them on the bounded channel notifyCh without ever        *)
(* blocking, one dispatcher goroutine takes them off.  All senders but one *)
(* hold m.mu while they send; Connect sends after it released it.          *)
(*                                                                         *)
(* A message is the number of the transition it reports - transitions are  *)
(* made one at a time, under m.mu - and whether m.mu is held until it is   *)
(* sent.  Which transition it is (its status, whether it is terminal) does  *)
(* not influence its way.                                                  *)
(***************************************************************************)
EXTENDS Integers, Sequences

CONSTANTS
  Lockers,         \* goroutines that notify inside the critical section
  Connectors,      \* goroutines inside Connect
  Nobody,
  Cap,             \* capacity of notifyCh (64 in the code)
  MaxTransitions   \* bound on the transitions of one behaviour

ASSUME SendersAssumption == /\ Nobody \notin Lockers \cup Connectors
                            /\ Lockers \cap Connectors = {}
ASSUME CapAssumption == Cap \in Nat \ {0} /\ MaxTransitions \in Nat

Senders == Lockers \cup Connectors
Message == [n : Nat, locked : BOOLEAN]
NoMessage == [n |-> 0, locked |-> TRUE]

VARIABLES
  mu,       \* who holds m.mu
  clock,    \* number of transitions made
  queue,    \* notifyCh
  send,     \* the senders
  disp,     \* the dispatcher
  seen      \* the message the callbacks were last called with

vars == <<mu, clock, queue, send, disp, seen>>

TypeOK ==
  /\ mu \in Lockers \cup {Nobody}
  /\ clock \in 0..MaxTransitions
  /\ queue \in Seq(Message) /\ Len(queue) <= Cap
  /\ send \in [Senders -> [pc : {"idle", "send", "drop", "resend"}, msg : Message]]
  /\ disp \in [pc : {"recv", "lock", "call"}, msg : Message]
  /\ seen \in Message

Init ==
  /\ mu = Nobody
  /\ clock = 0
  /\ queue = <<>>
  /\ send = [g \in Senders |-> [pc |-> "idle", msg |-> NoMessage]]
  /\ disp = [pc |-> "recv", msg |-> NoMessage]
  /\ seen = NoMessage

-----------------------------------------------------------------------------

\* A transition is made and numbered; its sender is about to report it.
Transition(g, locked) ==
  /\ send[g].pc = "idle"
  /\ mu = Nobody
  /\ clock < MaxTransitions
  /\ clock' = clock + 1
  /\ send' = [send EXCEPT ![g] = [pc |-> "send",
                                  msg |-> [n |-> clock + 1, locked |-> locked]]]
  /\ UNCHANGED <<queue, disp, seen>>

\* Under m.mu, which is kept until the message is sent.
LockedTransition(g) == Transition(g, TRUE) /\ mu' = g

\* Connect stores its connection; m.mu is released before the message is sent.
ConnectTransition(g) == Transition(g, FALSE) /\ mu' = mu

\* The message is out of g's hands; a critical section ends.
Done(g) ==
  /\ send' = [send EXCEPT ![g] = [pc |-> "idle", msg |-> NoMessage]]
  /\ mu' = IF mu = g THEN Nobody ELSE mu

SendAnyway(g) == /\ send[g].pc = "send" /\ Done(g)     \* mutant: no bound
                 /\ queue' = Append(queue, send[g].msg)
                 /\ UNCHANGED <<clock, disp, seen>>

\* First select: there is room.
Send(g) ==
  /\ send[g].pc = "send"
  /\ Len(queue) < Cap
  /\ queue' = Append(queue, send[g].msg)
  /\ Done(g)
  /\ UNCHANGED <<clock, disp, seen>>

WaitForRoom(g) == /\ send[g].pc = "send" /\ Len(queue) > Cap     \* mutant: blocks
                  /\ UNCHANGED vars

\* First select: the channel is full.
Full(g) ==
  /\ send[g].pc = "send"
  /\ Len(queue) = Cap
  /\ send' = [send EXCEPT ![g].pc = "drop"]
  /\ UNCHANGED <<mu, clock, queue, disp, seen>>

\* Second select: drop the oldest message, if the dispatcher left one.
Drop(g) ==
  /\ send[g].pc = "drop"
  /\ queue' = IF queue = <<>> THEN queue ELSE Tail(queue)
  /\ send' = [send EXCEPT ![g].pc = "resend"]
  /\ UNCHANGED <<mu, clock, disp, seen>>

ForgetIt(g) == /\ send[g].pc = "resend" /\ Done(g)     \* mutant: no second attempt
               /\ UNCHANGED <<clock, queue, disp, seen>>

\* Third select: once more; if the room is taken again the message is lost.
Resend(g) ==
  /\ send[g].pc = "resend"
  /\ queue' = IF Len(queue) < Cap THEN Append(queue, send[g].msg) ELSE queue
  /\ Done(g)
  /\ UNCHANGED <<clock, disp, seen>>

\* Mutant: a goroutine per message, so that any of them may run first.
ReceiveAny ==
  /\ disp.pc = "recv"
  /\ \E i \in 1..Len(queue) :
       /\ disp' = [pc |-> "lock", msg |-> queue[i]]
       /\ queue' = SubSeq(queue, 1, i - 1) \o SubSeq(queue, i + 1, Len(queue))
  /\ UNCHANGED <<mu, clock, send, seen>>

\* The dispatcher: range over the channel, ...
Receive ==
  /\ disp.pc = "recv"
  /\ queue # <<>>
  /\ disp' = [pc |-> "lock", msg |-> Head(queue)]
  /\ queue' = Tail(queue)
  /\ UNCHANGED <<mu, clock, send, seen>>

\* ... read the callbacks under the read lock, ...
ReadCallbacks ==
  /\ disp.pc = "lock"
  /\ mu = Nobody
  /\ disp' = [disp EXCEPT !.pc = "call"]
  /\ UNCHANGED <<mu, clock, queue, send, seen>>

\* ... and call them.
Deliver ==
  /\ disp.pc = "call"
  /\ seen' = disp.msg
  /\ disp' = [pc |-> "recv", msg |-> NoMessage]
  /\ UNCHANGED <<mu, clock, queue, send>>

SendStep(g) == Send(g) \/ Full(g) \/ Drop(g) \/ Resend(g)

Next ==
  \/ \E g \in Lockers : LockedTransition(g)
  \/ \E g \in Connectors : ConnectTransition(g)
  \/ \E g \in Senders : SendStep(g)
  \/ Receive \/ ReadCallbacks \/ Deliver

\* Goroutines that can run do run; the callbacks return.
Fairness == /\ \A g \in Senders : WF_vars(SendStep(g))
            /\ WF_vars(Receive \/ ReadCallbacks \/ Deliver)

Spec == Init /\ [][Next]_vars /\ Fairness

-----------------------------------------------------------------------------

\* The messages on their way to the callbacks, oldest first.
Pending == (IF disp.pc = "recv" THEN <<>> ELSE <<disp.msg>>) \o queue

\* The callbacks observe the transitions in the order they happened (ssh.go:54,
\* 98), as far as these are reported under m.mu: Connect's report comes late.
InOrder ==
  LET s == <<seen>> \o Pending
  IN  \A i, j \in DOMAIN s : i < j /\ s[i].locked /\ s[j].locked => s[i].n < s[j].n

\* When the channel overflows it is the newest state that survives, the one that
\* matters (ssh.go:172): its sender leaves it in the channel - unless a Connect,
\* which does not hold m.mu, took the room made for it.
NewestSurvives ==
  [][\A g \in Senders :
       send[g].pc # "idle" /\ send'[g].pc = "idle" /\ send[g].msg.n = clock
         => LET last == queue'[Len(queue')]
            IN  queue' # <<>> /\ (last = send[g].msg \/ ~last.locked)]_vars

\* Notifying under m.mu cannot lock up the manager: the sender gets through even
\* when the channel is full and the dispatcher waits for m.mu (ssh.go:154).
NeverStuck == \A g \in Senders : send[g].pc # "idle" ~> send[g].pc = "idle"
=============================================================================

-------------------------- MODULE NotifyQueueProofs --------------------------
(***************************************************************************)
(* Theorems about NotifyQueue: the callbacks see the transitions in order  *)
(* and the newest one survives an overflow, for any capacity, any number   *)
(* of goroutines and any number of transitions.                            *)
(***************************************************************************)
EXTENDS NotifyQueue, TLAPS

-----------------------------------------------------------------------------
(* Order, without concatenations.                                          *)

\* A message the dispatcher is working on, and one whose sender is not done.
Dispatched == disp.pc # "recv" /\ disp.msg.locked
Busy(g) == send[g].pc # "idle"

\* Messages sent under m.mu are numbered at most k.
Below(k) ==
  /\ seen.locked => seen.n <= k
  /\ Dispatched => disp.msg.n <= k
  /\ \A i \in DOMAIN queue : queue[i].locked => queue[i].n <= k

Ordered ==
  /\ \A i, j \in DOMAIN queue :
       i < j /\ queue[i].locked /\ queue[j].locked => queue[i].n < queue[j].n
  /\ Dispatched => \A i \in DOMAIN queue : queue[i].locked => disp.msg.n < queue[i].n
  /\ seen.locked => /\ Dispatched => seen.n < disp.msg.n
                    /\ \A i \in DOMAIN queue : queue[i].locked => seen.n < queue[i].n

\* Who sends under m.mu reports the last transition, and everything else that was
\* sent under m.mu is older.
Holder ==
  \A g \in Senders : Busy(g) /\ send[g].msg.locked =>
    mu = g /\ send[g].msg.n = clock /\ Below(clock - 1)

\* No two senders report the same transition, nor one that was not made.
Distinct ==
  /\ \A g \in Senders : Busy(g) => send[g].msg.n <= clock
  /\ \A g, h \in Senders : g # h /\ Busy(g) /\ Busy(h) => send[g].msg.n # send[h].msg.n

\* The room made for the newest message is there, or went to a Connect.
RoomMade ==
  \A g \in Senders : send[g].pc = "resend" /\ send[g].msg.n = clock =>
    Len(queue) < Cap \/ ~queue[Len(queue)].locked

IInv == TypeOK /\ Below(clock) /\ Ordered /\ Holder /\ Distinct /\ RoomMade

SendRec == [pc : {"idle", "send", "drop", "resend"}, msg : Message]

LEMMA NoMessageType == NoMessage \in Message /\ NoMessage.n = 0 /\ NoMessage.locked
BY DEF NoMessage, Message

LEMMA IInvInit == Init => IInv
<1> SUFFICES ASSUME Init PROVE IInv
    OBVIOUS
<1> USE NoMessageType
<1>1. /\ \A g \in Senders : send[g].pc = "idle"
      /\ disp.pc = "recv" /\ disp.msg = NoMessage
      /\ queue = <<>> /\ seen = NoMessage /\ clock = 0 /\ mu = Nobody
  BY DEF Init
<1>2. TypeOK
  BY CapAssumption DEF Init, TypeOK
<1> QED BY <1>1, <1>2 DEF IInv, Below, Ordered, Holder, Distinct, RoomMade, Dispatched, Busy

-----------------------------------------------------------------------------
(* What the steps preserve.                                                *)

\* A message is appended: by a sender under m.mu the newest one, or by a Connect.
LEMMA AppendKeeps ==
  ASSUME NEW g \in Senders, IInv, Busy(g), Len(queue) < Cap,
         queue' = Append(queue, send[g].msg), Done(g), UNCHANGED <<clock, disp, seen>>
  PROVE  IInv'
<1> DEFINE m == send[g].msg
           q == queue'
<1>1. /\ queue \in Seq(Message) /\ m \in Message /\ clock \in Nat
      /\ send \in [Senders -> SendRec] /\ Cap \in Nat
  BY CapAssumption DEF IInv, TypeOK, SendRec
<1>2. /\ q \in Seq(Message) /\ Len(q) = Len(queue) + 1 /\ q[Len(q)] = m
      /\ \A i \in DOMAIN queue : i \in DOMAIN q /\ q[i] = queue[i] /\ i < Len(q)
      /\ \A i \in DOMAIN q : i \in DOMAIN queue \/ i = Len(q)
  BY <1>1
<1>3. /\ send' \in [Senders -> SendRec] /\ send'[g].pc = "idle"
      /\ \A h \in Senders : h # g => send'[h] = send[h]
  BY <1>1, NoMessageType DEF Done, SendRec
<1>4. TypeOK'
  BY <1>1, <1>2, <1>3 DEF IInv, TypeOK, Done, SendRec
<1>5. m.locked => m.n = clock /\ Below(clock - 1)
  BY DEF IInv, Holder
<1>6. Below(clock)'
  BY <1>1, <1>2, <1>5 DEF IInv, Below, Dispatched
<1>7. Ordered'
  <2>1. \A i \in DOMAIN queue : queue[i] \in Message
    BY <1>1
  <2>2. m.locked => \A i \in DOMAIN queue : queue[i].locked => queue[i].n < m.n
    BY <1>1, <1>5, <2>1 DEF Below, Message
  <2>3. \A i, j \in DOMAIN q : i < j /\ q[i].locked /\ q[j].locked => q[i].n < q[j].n
    <3> SUFFICES ASSUME NEW i \in DOMAIN q, NEW j \in DOMAIN q, i < j, q[i].locked, q[j].locked
                 PROVE  q[i].n < q[j].n
        OBVIOUS
    <3>1. i \in DOMAIN queue
      BY <1>1, <1>2
    <3>2. CASE j \in DOMAIN queue
      BY <1>2, <3>1, <3>2 DEF IInv, Ordered
    <3>3. CASE j = Len(q)
      BY <1>2, <2>2, <3>1, <3>3
    <3> QED BY <1>2, <3>2, <3>3
  <2>4. Dispatched /\ m.locked => disp.msg.n < m.n
    BY <1>1, <1>5 DEF Below, IInv, TypeOK, Message
  <2>5. seen.locked /\ m.locked => seen.n < m.n
    BY <1>1, <1>5 DEF Below, IInv, TypeOK, Message
  <2>6. disp' = disp /\ seen' = seen /\ (Dispatched' <=> Dispatched)
    BY DEF Dispatched
  <2> QED BY <1>2, <2>3, <2>4, <2>5, <2>6 DEF IInv, Ordered
<1>8. Holder'
  <2> SUFFICES ASSUME NEW h \in Senders, Busy(h)', send'[h].msg.locked
               PROVE  mu' = h /\ send'[h].msg.n = clock /\ Below(clock - 1)'
      BY DEF Holder
  <2>1. h # g /\ send'[h] = send[h]
    BY <1>3 DEF Busy
  <2>2. mu = h /\ send[h].msg.n = clock /\ Below(clock - 1)
    BY <2>1 DEF IInv, Holder, Busy
  <2>3. ~m.locked
    BY <2>1, <2>2 DEF IInv, Holder
  <2> QED BY <1>2, <2>1, <2>2, <2>3 DEF Done, Below, Dispatched
<1>9. Distinct'
  BY <1>3 DEF IInv, Distinct, Busy
<1>10. RoomMade'
  <2> SUFFICES ASSUME NEW h \in Senders, send'[h].pc = "resend", send'[h].msg.n = clock
               PROVE  ~q[Len(q)].locked
      BY DEF RoomMade
  <2>1. h # g /\ send[h].pc = "resend" /\ send[h].msg.n = clock
    BY <1>3
  <2>2. m.n # clock
    BY <2>1 DEF IInv, Distinct, Busy
  <2> QED BY <1>2, <1>5, <2>2
<1> QED BY <1>4, <1>6, <1>7, <1>8, <1>9, <1>10 DEF IInv

\* The oldest message is taken off the channel: nobody's order suffers.
LEMMA TailOrder ==
  ASSUME IInv, queue # <<>>, queue' = Tail(queue)
  PROVE  /\ queue' \in Seq(Message) /\ Len(queue') = Len(queue) - 1 /\ Len(queue') < Cap
         /\ \A i \in DOMAIN queue' : i + 1 \in DOMAIN queue /\ queue'[i] = queue[i + 1]
         /\ \A i \in DOMAIN queue' : 1 < i + 1
         /\ 1 \in DOMAIN queue /\ Head(queue) = queue[1] /\ Head(queue) \in Message
<1>1. queue \in Seq(Message) /\ Len(queue) <= Cap /\ Cap \in Nat
  BY CapAssumption DEF IInv, TypeOK
<1>2. Len(queue) \in Nat /\ Len(queue) > 0
  BY <1>1
<1> QED BY <1>1, <1>2

LEMMA DropKeeps == ASSUME NEW g \in Senders, IInv, Drop(g) PROVE IInv'
<1>1. /\ queue \in Seq(Message) /\ send \in [Senders -> SendRec] /\ Cap \in Nat \ {0}
      /\ clock \in Nat
  BY CapAssumption DEF IInv, TypeOK, SendRec
<1>2. /\ queue' \in Seq(Message) /\ Len(queue') < Cap
      /\ \A i \in DOMAIN queue' : \E k \in DOMAIN queue : queue'[i] = queue[k]
      /\ \A i, j \in DOMAIN queue' :
           i < j => \E k, l \in DOMAIN queue : k < l /\ queue'[i] = queue[k] /\ queue'[j] = queue[l]
  <2>1. CASE queue = <<>>
    BY <1>1, <2>1 DEF Drop
  <2>2. CASE queue # <<>>
    <3>1. queue' = Tail(queue)
      BY <2>2 DEF Drop
    <3>2. \A i, j \in DOMAIN queue' : i < j => i + 1 < j + 1
      BY <1>1, <3>1
    <3> QED BY <2>2, <3>1, <3>2, TailOrder
  <2> QED BY <2>1, <2>2
<1>3. /\ send' \in [Senders -> SendRec] /\ send'[g] = [send[g] EXCEPT !.pc = "resend"]
      /\ \A h \in Senders : h # g => send'[h] = send[h]
  BY <1>1 DEF Drop, SendRec
<1>4. \A h \in Senders : send'[h].msg = send[h].msg /\ (Busy(h)' <=> Busy(h))
  BY <1>1, <1>3 DEF Busy, Drop, SendRec
<1>5. UNCHANGED <<mu, clock, disp, seen>>
  BY DEF Drop
<1>6. TypeOK'
  BY <1>1, <1>2, <1>3, <1>5 DEF IInv, TypeOK, SendRec
<1>7. \A k \in Int : Below(k) => Below(k)'
  BY <1>2, <1>5 DEF Below, Dispatched
<1>8. Ordered'
  BY <1>2, <1>5 DEF IInv, Ordered, Dispatched
<1>9. (Holder /\ Distinct)'
  BY <1>1, <1>4, <1>5, <1>7 DEF IInv, Holder, Distinct
<1> QED BY <1>1, <1>2, <1>5, <1>6, <1>7, <1>8, <1>9 DEF IInv, RoomMade

LEMMA TransitionKeeps ==
  ASSUME NEW g \in Senders, NEW locked \in BOOLEAN, IInv, Transition(g, locked),
         locked => mu' = g, ~locked => mu' = mu, mu' \in Lockers \cup {Nobody}
  PROVE  IInv'
<1>1. /\ send \in [Senders -> SendRec] /\ clock \in Nat /\ MaxTransitions \in Nat
      /\ clock' = clock + 1 /\ clock' \in 0..MaxTransitions
      /\ mu = Nobody /\ UNCHANGED <<queue, disp, seen>>
  BY CapAssumption DEF IInv, TypeOK, SendRec, Transition
<1>2. [n |-> clock + 1, locked |-> locked] \in Message
  BY <1>1 DEF Message
<1>3. /\ send' \in [Senders -> SendRec]
      /\ send'[g] = [pc |-> "send", msg |-> [n |-> clock + 1, locked |-> locked]]
      /\ \A h \in Senders : h # g => send'[h] = send[h]
  BY <1>1, <1>2 DEF Transition, SendRec
<1>4. send'[g].pc = "send" /\ send'[g].msg.n = clock + 1 /\ send'[g].msg.locked = locked
  BY <1>3
<1>5. TypeOK'
  BY <1>1, <1>3 DEF IInv, TypeOK, SendRec
<1>6. /\ seen'.locked => seen'.n <= clock
      /\ Dispatched' => disp'.msg.n <= clock
      /\ \A i \in DOMAIN queue' : queue'[i].locked => queue'[i].n <= clock
  BY <1>1 DEF IInv, Below, Dispatched
<1>12. Below(clock)'
  <2>1. queue \in Seq(Message) /\ seen \in Message /\ disp.msg \in Message
    BY DEF IInv, TypeOK
  <2>2. \A i \in DOMAIN queue : queue[i] \in Message
    BY <2>1
  <2>3. \A m \in Message : m.n \in Nat
    BY DEF Message
  <2> QED BY <1>1, <1>6, <2>1, <2>2, <2>3 DEF Below
<1>13. Below(clock - 1)'
  BY <1>1, <1>6 DEF Below
<1>7. \A h \in Senders : ~(Busy(h) /\ send[h].msg.locked)
  BY <1>1, SendersAssumption DEF IInv, Holder, Senders
<1>8. Holder'
  <2> SUFFICES ASSUME NEW h \in Senders, Busy(h)', send'[h].msg.locked
               PROVE  mu' = h /\ send'[h].msg.n = clock'
      BY <1>13 DEF Holder
  <2>1. h = g
    BY <1>3, <1>7 DEF Busy
  <2> QED BY <1>1, <1>4, <2>1
<1>9. Distinct'
  <2>1. \A h \in Senders : send[h].msg.n \in Nat
    BY <1>1 DEF SendRec, Message
  <2> QED BY <1>1, <1>3, <1>4, <2>1 DEF IInv, Distinct, Busy
<1>10. RoomMade'
  <2> SUFFICES ASSUME NEW h \in Senders, send'[h].pc = "resend", send'[h].msg.n = clock'
               PROVE  FALSE
      BY DEF RoomMade
  <2>1. h # g /\ Busy(h) /\ send[h].msg.n = clock + 1
    BY <1>1, <1>3, <1>4 DEF Busy
  <2> QED BY <1>1, <2>1 DEF IInv, Distinct
<1>11. Ordered'
  BY <1>1 DEF IInv, Ordered, Dispatched
<1> QED BY <1>5, <1>8, <1>9, <1>10, <1>11, <1>12 DEF IInv

\* A sender finds the channel full, or gives up on it.
LEMMA GivesWay ==
  ASSUME NEW g \in Senders, IInv, UNCHANGED <<clock, queue, disp, seen>>,
         \/ Full(g)
         \/ Done(g)
  PROVE  IInv'
<1>1. send \in [Senders -> SendRec]
  BY DEF IInv, TypeOK, SendRec
<1>2. /\ send' \in [Senders -> SendRec]
      /\ \A h \in Senders : h # g => send'[h] = send[h]
      /\ send'[g].pc # "resend" /\ (Busy(g)' => Busy(g) /\ send'[g].msg = send[g].msg /\ mu' = mu)
  BY <1>1, NoMessageType DEF Full, Done, SendRec, Busy
<1>3. mu' \in {mu, Nobody} /\ (mu' # mu => mu = g)
  BY DEF Full, Done
<1>4. TypeOK'
  BY <1>2, <1>3 DEF IInv, TypeOK, SendRec
<1>5. (Ordered /\ \A k \in Int : Below(k) => Below(k)') /\ Below(clock)'
  BY DEF IInv, Ordered, Below, Dispatched
<1>6. Ordered'
  BY DEF IInv, Ordered, Dispatched
<1>7. \A h \in Senders : Busy(h)' => Busy(h) /\ send'[h].msg = send[h].msg
  BY <1>2 DEF Busy
<1>8. Holder'
  <2> SUFFICES ASSUME NEW h \in Senders, Busy(h)', send'[h].msg.locked
               PROVE  mu' = h /\ send'[h].msg.n = clock /\ Below(clock - 1)'
      BY DEF Holder
  <2>1. mu = h /\ send[h].msg.n = clock /\ Below(clock - 1)
    BY <1>7 DEF IInv, Holder
  <2>2. mu' = h
    BY <1>2, <1>3, <2>1
  <2> QED BY <1>7, <2>1, <2>2 DEF Below, Dispatched
<1>9. Distinct'
  BY <1>7 DEF IInv, Distinct
<1>10. RoomMade'
  BY <1>2 DEF IInv, RoomMade
<1> QED BY <1>4, <1>5, <1>6, <1>8, <1>9, <1>10 DEF IInv

\* The dispatcher's steps move the front of the order along.
LEMMA DispatcherKeeps ==
  ASSUME IInv, Receive \/ ReadCallbacks \/ Deliver PROVE IInv'
<1>1. /\ queue \in Seq(Message) /\ disp \in [pc : {"recv", "lock", "call"}, msg : Message]
      /\ clock \in Nat /\ Cap \in Nat
  BY CapAssumption DEF IInv, TypeOK
<1>2. CASE Receive
  <2>1. queue # <<>> /\ queue' = Tail(queue) /\ UNCHANGED <<mu, clock, send, seen>>
        /\ disp' = [pc |-> "lock", msg |-> Head(queue)] /\ disp.pc = "recv"
    BY <1>2 DEF Receive
  <2>2. disp'.pc = "lock" /\ disp'.msg = queue[1] /\ disp'.msg \in Message
        /\ (Dispatched' <=> queue[1].locked) /\ ~Dispatched
    BY <2>1, TailOrder DEF Dispatched
  <2>3. TypeOK'
    <3>1. queue' \in Seq(Message) /\ Len(queue') <= Cap
      BY <1>1, <2>1, TailOrder
    <3>2. disp' \in [pc : {"recv", "lock", "call"}, msg : Message]
      BY <2>1, <2>2
    <3> QED BY <2>1, <3>1, <3>2 DEF IInv, TypeOK
  <2>4. \A k \in Int : Below(k) => Below(k)'
    BY <2>1, <2>2, TailOrder DEF Below
  <2>5. Ordered'
    <3>1. \A i, j \in DOMAIN queue' : i < j => i + 1 < j + 1
      BY <1>1, <2>1
    <3> QED BY <2>1, <2>2, <3>1, TailOrder DEF IInv, Ordered
  <2>6. (Holder /\ Distinct)'
    BY <1>1, <2>1, <2>4 DEF IInv, Holder, Distinct, Busy
  <2> QED BY <1>1, <2>1, <2>3, <2>4, <2>5, <2>6, TailOrder DEF IInv, RoomMade
<1>3. CASE ReadCallbacks
  <2>1. /\ disp' = [disp EXCEPT !.pc = "call"] /\ disp.pc = "lock"
        /\ UNCHANGED <<mu, clock, queue, send, seen>>
    BY <1>3 DEF ReadCallbacks
  <2>2. disp'.msg = disp.msg /\ (Dispatched' <=> Dispatched)
    BY <1>1, <2>1 DEF Dispatched
  <2>3. TypeOK'
    BY <2>1 DEF IInv, TypeOK
  <2> QED BY <2>1, <2>2, <2>3 DEF IInv, Below, Ordered, Holder, Distinct, RoomMade, Busy
<1>4. CASE Deliver
  <2>1. /\ seen' = disp.msg /\ disp' = [pc |-> "recv", msg |-> NoMessage] /\ disp.pc = "call"
        /\ UNCHANGED <<mu, clock, queue, send>>
    BY <1>4 DEF Deliver
  <2>2. ~Dispatched' /\ (seen'.locked <=> Dispatched)
    BY <2>1 DEF Dispatched
  <2>3. TypeOK'
    BY <2>1, NoMessageType DEF IInv, TypeOK
  <2>4. \A k \in Int : Below(k) => Below(k)'
    BY <2>1, <2>2 DEF Below
  <2>5. Ordered'
    BY <2>1, <2>2 DEF IInv, Ordered
  <2>6. (Holder /\ Distinct)'
    BY <1>1, <2>1, <2>4 DEF IInv, Holder, Distinct, Busy
  <2> QED BY <1>1, <2>1, <2>3, <2>4, <2>5, <2>6 DEF IInv, RoomMade
<1> QED BY <1>2, <1>3, <1>4

LEMMA IInvStep == IInv /\ [Next]_vars => IInv'
<1> SUFFICES ASSUME IInv, [Next]_vars PROVE IInv'
    OBVIOUS
<1>1. ASSUME NEW g \in Lockers, LockedTransition(g) PROVE IInv'
  <2>1. g \in Senders /\ mu' = g
    BY <1>1 DEF LockedTransition, Senders
  <2> QED BY <1>1, <2>1, TransitionKeeps DEF LockedTransition
<1>2. ASSUME NEW g \in Connectors, ConnectTransition(g) PROVE IInv'
  <2>1. g \in Senders /\ mu' = mu /\ mu \in Lockers \cup {Nobody}
    BY <1>2 DEF ConnectTransition, Senders, IInv, TypeOK
  <2> QED BY <1>2, <2>1, TransitionKeeps DEF ConnectTransition
<1>3. ASSUME NEW g \in Senders, Send(g) PROVE IInv'
  BY <1>3, AppendKeeps DEF Send, Busy
<1>4. ASSUME NEW g \in Senders, Full(g) PROVE IInv'
  BY <1>4, GivesWay DEF Full
<1>5. ASSUME NEW g \in Senders, Drop(g) PROVE IInv'
  BY <1>5, DropKeeps
<1>6. ASSUME NEW g \in Senders, Resend(g) PROVE IInv'
  <2>1. CASE Len(queue) < Cap
    BY <1>6, <2>1, AppendKeeps DEF Resend, Busy
  <2>2. CASE ~(Len(queue) < Cap)
    BY <1>6, <2>2, GivesWay DEF Resend
  <2> QED BY <2>1, <2>2
<1>7. CASE UNCHANGED vars
  BY <1>7 DEF vars, IInv, TypeOK, Below, Ordered, Holder, Distinct, RoomMade, Dispatched, Busy
<1> QED BY <1>1, <1>2, <1>3, <1>4, <1>5, <1>6, <1>7, DispatcherKeeps DEF Next, SendStep

LEMMA Inductive == Spec => []IInv
BY IInvInit, IInvStep, PTL DEF Spec

-----------------------------------------------------------------------------

LEMMA OrderedIsInOrder == IInv => InOrder
<1> SUFFICES ASSUME IInv PROVE InOrder
    OBVIOUS
<1>1. queue \in Seq(Message) /\ seen \in Message /\ disp.msg \in Message
  BY DEF IInv, TypeOK
<1>2. CASE disp.pc = "recv"
  <2> DEFINE s == <<seen>> \o (<<>> \o queue)
  <2>1. /\ s \in Seq(Message) /\ s[1] = seen /\ Len(s) = Len(queue) + 1
        /\ \A i \in DOMAIN s : i = 1 \/ (i - 1 \in DOMAIN queue /\ s[i] = queue[i - 1])
    BY <1>1
  <2>2. \A i, j \in DOMAIN s : i < j /\ s[i].locked /\ s[j].locked => s[i].n < s[j].n
    BY <2>1 DEF IInv, Ordered
  <2> QED BY <1>2, <2>2 DEF InOrder, Pending
<1>3. CASE disp.pc # "recv"
  <2> DEFINE s == <<seen>> \o (<<disp.msg>> \o queue)
  <2>1. /\ s \in Seq(Message) /\ s[1] = seen /\ s[2] = disp.msg /\ Len(s) = Len(queue) + 2
        /\ \A i \in DOMAIN s : i = 1 \/ i = 2 \/ (i - 2 \in DOMAIN queue /\ s[i] = queue[i - 2])
    BY <1>1
  <2>2. \A i, j \in DOMAIN s : i < j /\ s[i].locked /\ s[j].locked => s[i].n < s[j].n
    <3> SUFFICES ASSUME NEW i \in DOMAIN s, NEW j \in DOMAIN s, i < j, s[i].locked, s[j].locked
                 PROVE  s[i].n < s[j].n
        OBVIOUS
    <3>1. j = 2 \/ (j - 2 \in DOMAIN queue /\ s[j] = queue[j - 2])
      BY <2>1
    <3>2. CASE i = 1
      BY <1>3, <2>1, <3>1, <3>2 DEF IInv, Ordered, Dispatched
    <3>3. CASE i = 2
      BY <1>3, <2>1, <3>1, <3>3 DEF IInv, Ordered, Dispatched
    <3>4. CASE i # 1 /\ i # 2
      <4>1. i - 2 \in DOMAIN queue /\ s[i] = queue[i - 2] /\ j # 2 /\ i - 2 < j - 2
        BY <2>1, <3>4
      <4> QED BY <3>1, <4>1 DEF IInv, Ordered
    <3> QED BY <3>2, <3>3, <3>4
  <2> QED BY <1>3, <2>2 DEF InOrder, Pending
<1> QED BY <1>2, <1>3

\* The channel never holds more than its capacity, and every sender and message is
\* of its type (ssh.go:71).
THEOREM QueueTypes == Spec => []TypeOK
BY Inductive, PTL DEF IInv

\* The callbacks see what is reported under m.mu in the order it happened, for any
\* capacity of the channel and any number of goroutines (ssh.go:54, 98).
THEOREM ReportsInOrder == Spec => []InOrder
BY Inductive, OrderedIsInOrder, PTL

\* The sender of the newest transition leaves it in the channel, unless a Connect
\* took the room made for it (ssh.go:172).
THEOREM NewestStays == Spec => NewestSurvives
<1> DEFINE Kept == \A g \in Senders :
       send[g].pc # "idle" /\ send'[g].pc = "idle" /\ send[g].msg.n = clock
         => LET last == queue'[Len(queue')]
            IN  queue' # <<>> /\ (last = send[g].msg \/ ~last.locked)
<1>1. ASSUME IInv, [Next]_vars PROVE [Kept]_vars
  <2> SUFFICES ASSUME NEW g \in Senders, send[g].pc # "idle", send'[g].pc = "idle",
                      send[g].msg.n = clock
               PROVE  queue' # <<>> /\ (queue'[Len(queue')] = send[g].msg \/ ~queue'[Len(queue')].locked)
      OBVIOUS
  <2>1. /\ send \in [Senders -> SendRec] /\ queue \in Seq(Message) /\ Cap \in Nat \ {0}
        /\ Len(queue) <= Cap
    BY <1>1, CapAssumption DEF IInv, TypeOK, SendRec
  <2>2. Send(g) \/ Resend(g)
    <3>1. ~UNCHANGED send
      OBVIOUS
    <3>2. ASSUME NEW h \in Senders, h # g,
                 \/ \E locked \in BOOLEAN : Transition(h, locked)
                 \/ SendStep(h)
          PROVE  FALSE
      <4>1. send'[g] = send[g]
        BY <2>1, <3>2 DEF Transition, SendStep, Send, Full, Drop, Resend, Done
      <4> QED BY <4>1
    <3>3. ~(\E locked \in BOOLEAN : Transition(g, locked))
      BY DEF Transition
    <3>4. ~Full(g) /\ ~Drop(g)
      BY <2>1 DEF Full, Drop, SendRec
    <3>5. ~Receive /\ ~ReadCallbacks /\ ~Deliver
      BY <3>1 DEF Receive, ReadCallbacks, Deliver
    <3>6. \A h \in Lockers \cup Connectors : h \in Senders
      BY DEF Senders
    <3>7. CASE \E h \in Lockers : LockedTransition(h)
      BY <3>2, <3>3, <3>6, <3>7 DEF LockedTransition
    <3>8. CASE \E h \in Connectors : ConnectTransition(h)
      BY <3>2, <3>3, <3>6, <3>8 DEF ConnectTransition
    <3>9. CASE \E h \in Senders : SendStep(h)
      BY <3>2, <3>4, <3>9 DEF SendStep
    <3> QED BY <1>1, <3>1, <3>5, <3>7, <3>8, <3>9 DEF Next, vars
  <2>3. CASE queue' = Append(queue, send[g].msg)
    BY <2>1, <2>3
  <2>4. CASE queue' = queue /\ ~(Len(queue) < Cap) /\ send[g].pc = "resend"
    BY <1>1, <2>1, <2>4 DEF IInv, RoomMade
  <2> QED BY <2>2, <2>3, <2>4 DEF Send, Resend
<1>2. IInv /\ [Next]_vars => [Kept]_vars
  BY <1>1
<1> QED BY <1>2, Inductive, PTL DEF Spec, NewestSurvives
===============================================================================

--------------------------- MODULE NetRelayProofs ---------------------------
(***************************************************************************)
(* The relay link, proved for every length of the line queues and any       *)
(* number of rooms and lines, however many of them find a queue full.  One  *)
(* thing is assumed: no CREATE or JOIN is given while the last socket, or a *)
(* line from it, is still there ("reopen").  The two cores then never meet  *)
(* at the ends of a queue.                                                  *)
(***************************************************************************)
EXTENDS NetRelay, TLAPS

LastGone == "reopen" \notin Windows

-----------------------------------------------------------------------------
(* The queues.                                                               *)

NetTypes ==
    /\ inq \in Queue /\ out \in Queue
    /\ openReq \in 0 .. MaxOpens /\ openAck \in 0 .. openReq
    /\ closeReq \in BOOLEAN
    /\ pc0 \in {"events", "open", "close", "timeout", "flush", "send", "pop", "frame"}
    /\ ws \in {"idle", "resolving", "connecting", "handshake", "open"}
    /\ late \in BOOLEAN /\ answered \in BOOLEAN /\ unheard \in BOOLEAN
    /\ first \in Line /\ held \in Line
    /\ pc1 \in {"idle", "pump", "pop", "line", "act", "bump", "join", "leave"}
    /\ at0 \in Nat /\ at1 \in Nat
    /\ cmd \in {"poll", "join", "leave", "say", "wait"}
    /\ state \in States
    /\ pending \in 0 .. openReq
    /\ answer \in {"none", "ok", "error"}
    /\ stray \in BOOLEAN /\ lines \in 0 .. MaxLines

Fits(q) == q.tail <= q.head /\ q.head - q.tail <= QueueLen

\* The tail of a queue is moved by its consumer alone.
TailsOwned ==
    /\ Fits(inq) /\ Fits(out)
    /\ pc0 = "pop" => at0 = out.tail /\ HasLine(out)
    /\ pc0 = "frame" => out.tail = at0 + 1
    /\ pc1 = "pop" => at1 = inq.tail /\ HasLine(inq)
    /\ pc1 = "line" => inq.tail = at1 + 1

\* A popped line stays what it was until so many lines have come in behind it
\* that its slot is used again.
HeldStable == pc1 \in {"pop", "line"} /\ inq.head <= at1 + QueueLen => LineAt(inq, at1) = held

-----------------------------------------------------------------------------
(* The first line.                                                           *)

\* A socket that was asked for, or is there, and over which nothing was sent.
Fresh == first = NoLine /\ (ws # "idle" \/ openReq # openAck)

\* A CREATE or JOIN that has not asked for its socket yet.
Before == pc1 = "bump" \/ (cmd = "join" /\ pc1 \in {"pump", "act"})

Sockets ==
    /\ pc0 \in {"send", "pop", "frame"} => ws = "open"
    /\ ws # "open" => first = NoLine
    /\ answered => first # NoLine
    /\ openReq # openAck => ws = "idle"
    /\ pc1 \in {"bump", "join"} => cmd = "join"
    /\ pc1 \in {"pop", "line"} => cmd # "join"
    /\ pc1 = "join" => openReq # 0
    /\ pc1 = "leave" => cmd = "leave"
    /\ Before => ws = "idle" /\ openReq = openAck /\ openReq < MaxOpens
    /\ Before \/ Fresh => ~HasLine(inq) /\ pc1 \notin {"pop", "line"}

\* The line core 0 sends next, or is sending.
NextOut == IF pc0 = "frame" THEN at0 ELSE out.tail

JoinIsFirst ==
    /\ pc1 \in {"bump", "join"} => first = NoLine /\ ~HasLine(out) /\ pc0 \notin {"pop", "frame"}
    /\ Fresh /\ pc1 # "join" =>
          /\ \/ LineAt(out, NextOut) = Msg("join", openReq) /\ out.head = NextOut + 1
             \/ out.head = NextOut                          \* it was lost
          /\ \/ pending # 0 /\ answer = "none" /\ (pc1 = "idle" \/ cmd = "wait")
             \/ state = "none" /\ pc1 # "leave"
    /\ FirstLineJoins

LinkInv == NetTypes /\ TailsOwned /\ HeldStable /\ Sockets /\ JoinIsFirst

-----------------------------------------------------------------------------
(* What core 1 has still to read, and the room.                             *)

Unread == inq.tail .. inq.head - 1
InRoom == state \in {"inroom", "spectator", "running", "desync"}
Harmless(op) == op \notin {"room", "start", "desync"}

\* The line in core 1's hands, and all that come after it.
AllHarmless == /\ \A t \in Unread : Harmless(LineAt(inq, t).op)
               /\ pc1 \in {"pop", "line"} => Harmless(held.op)

\* In no room, and asking for none: a line that says otherwise is a stray one.
Outside == state = "none" /\ pending = 0

\* The last thing core 1 will read is that the link is down.
Ended == IF HasLine(inq) THEN LineAt(inq, inq.head - 1).op = "link"
                         ELSE pc1 = "line" /\ held.op = "link"

RoomInv ==
    /\ ws # "open" => \/ ~InRoom /\ (AllHarmless \/ Outside)
                      \/ Ended \/ unheard \/ stray
    /\ closeReq => Outside \/ stray
    /\ cmd # "wait" /\ pc1 # "idle" => pending = 0
    /\ cmd = "join" /\ pc1 # "idle" => ~closeReq /\ AllHarmless

\* A socket that is being closed while it is set up was given up by core 1.
GivenUp == closeReq /\ Fresh => Outside

-----------------------------------------------------------------------------
(* What the operations do to a queue.                                        *)

LEMMA SlotsDiffer ==
    ASSUME NEW a \in Nat, NEW b \in Nat, a < b, b < a + QueueLen
    PROVE  a % QueueLen # b % QueueLen
  <1> DEFINE n == QueueLen
  <1>0. n \in Nat \ {0} BY NetAssumption
  <1> HIDE DEF n
  <1> SUFFICES ASSUME a % n = b % n PROVE FALSE BY DEF n
  <1>1. PICK p \in Int, q \in Int : a = (n * p) + (a % n) /\ b = (n * q) + (b % n)
    <2>1. /\ a = (n * (a \div n)) + (a % n) /\ b = (n * (b \div n)) + (b % n)
          /\ a \div n \in Int /\ b \div n \in Int
      BY <1>0
    <2> QED BY <2>1
  <1>2. b - a = n * (q - p) BY <1>0, <1>1
  <1>3. CASE q - p <= 0
    <2>1. n * (q - p) <= 0 BY <1>0, <1>3
    <2> QED BY <1>0, <1>2, <2>1
  <1>4. CASE q - p >= 1
    <2>1. n * (q - p) >= n BY <1>0, <1>4
    <2> QED BY <1>0, <1>2, <2>1 DEF n
  <1> QED BY <1>3, <1>4

\* ... and the one just that many on has the same slot.
LEMMA SlotAgain == ASSUME NEW a \in Nat PROVE (a + QueueLen) % QueueLen = a % QueueLen
  <1> DEFINE n == QueueLen
             b == a + n
  <1>0. n \in Nat \ {0} /\ b \in Nat BY NetAssumption
  <1> HIDE DEF n
  <1>1. /\ a = (n * (a \div n)) + (a % n) /\ a \div n \in Int /\ a % n \in 0 .. n - 1
    BY <1>0
  <1>2. b = (n * (b \div n)) + (b % n) /\ b \div n \in Int /\ b % n \in 0 .. n - 1
    <2> HIDE DEF b
    <2> QED BY <1>0
  <1>3. PICK p \in Int, q \in Int : a = (n * p) + (a % n) /\ b = (n * q) + (b % n)
    BY <1>1, <1>2
  <1>4. (b % n) - (a % n) = n * (p + 1 - q)
    <2> DEFINE r == b % n
               t == a % n
    <2>1. r \in Int /\ t \in Int /\ b = (n * q) + r /\ a = (n * p) + t BY <1>1, <1>2, <1>3
    <2> HIDE DEF r, t
    <2>2. r - t = n * (p + 1 - q) BY <1>0, <2>1
    <2> QED BY <2>2 DEF r, t
  <1>5. CASE p + 1 - q <= -1
    <2>1. n * (p + 1 - q) <= -n BY <1>0, <1>5
    <2> QED BY <1>0, <1>1, <1>2, <1>4, <2>1
  <1>6. CASE p + 1 - q >= 1
    <2>1. n * (p + 1 - q) >= n BY <1>0, <1>6
    <2> QED BY <1>0, <1>1, <1>2, <1>4, <2>1
  <1>7. CASE p + 1 - q = 0 BY <1>0, <1>1, <1>2, <1>4, <1>7 DEF n
  <1> QED BY <1>5, <1>6, <1>7

LEMMA SlotOf == \A t \in Nat : t % QueueLen \in 0 .. QueueLen - 1
  BY NetAssumption

LEMMA LineAtIsLine == ASSUME NEW q \in Queue, NEW t \in Nat PROVE LineAt(q, t) \in Line
  BY SlotOf DEF LineAt, Queue

LEMMA PushKeeps ==
    ASSUME NEW q \in Queue, Fits(q), NEW l \in Line
    PROVE  /\ Push(q, l) \in Queue /\ Fits(Push(q, l)) /\ Push(q, l).tail = q.tail
           /\ Push(q, l).head \in {q.head, q.head + 1}
           /\ q.head - q.tail < QueueLen => /\ Push(q, l).head = q.head + 1
                                            /\ LineAt(Push(q, l), q.head) = l
           /\ \A t \in Nat : t < q.head /\ q.head < t + QueueLen =>
                                LineAt(Push(q, l), t) = LineAt(q, t)
           /\ Push(q, l).head = q.head => Push(q, l) = q
  <1>1. CASE q.head - q.tail >= QueueLen
    <2>1. Push(q, l) = q BY <1>1 DEF Push
    <2> QED BY <1>1, <2>1, NetAssumption DEF Queue
  <1>2. CASE ~(q.head - q.tail >= QueueLen)
    <2> DEFINE s == q.head % QueueLen
    <2>1. s \in 0 .. QueueLen - 1 BY SlotOf DEF Queue
    <2> HIDE DEF s
    <2>2. PICK r : r = [q EXCEPT !.head = @ + 1, !.lines[s] = l] OBVIOUS
    <2>3. Push(q, l) = r BY <1>2, <2>2 DEF Push, s
    <2>4. /\ r.head = q.head + 1 /\ r.tail = q.tail /\ r.lines = [q.lines EXCEPT ![s] = l]
          /\ r \in Queue
      <3>1. PICK f : f = [q.lines EXCEPT ![s] = l] OBVIOUS
      <3>2. f \in [0 .. QueueLen - 1 -> Line] BY <2>1, <3>1 DEF Queue
      <3>3. r = [head |-> q.head + 1, tail |-> q.tail, lines |-> f] BY <2>2, <3>1 DEF Queue
      <3> HIDE DEF Line
      <3> QED BY <3>1, <3>2, <3>3 DEF Queue
    <2>5. r.lines[s] = l BY <2>1, <2>4 DEF Queue
    <2>6. ASSUME NEW t \in Nat, t < q.head, q.head < t + QueueLen
          PROVE  LineAt(r, t) = LineAt(q, t)
      <3>1. t % QueueLen # s BY <2>6, SlotsDiffer DEF Queue, s
      <3>2. t % QueueLen \in 0 .. QueueLen - 1 BY SlotOf
      <3> QED BY <2>4, <3>1, <3>2 DEF LineAt, Queue
    <2>7. LineAt(r, q.head) = l BY <2>5 DEF LineAt, s
    <2>8. Fits(r) BY <1>2, <2>4, NetAssumption DEF Fits, Queue
    <2> QED BY <1>2, <2>3, <2>4, <2>6, <2>7, <2>8 DEF Queue
  <1> QED BY <1>1, <1>2

\* Clearing an empty queue changes nothing.
LEMMA ClearsNothing == ASSUME NEW q \in Queue, ~HasLine(q) PROVE Clear(q) = q
  BY DEF Queue, HasLine, Clear

LEMMA ClearKeeps ==
    ASSUME NEW q \in Queue
    PROVE  /\ Clear(q) \in Queue /\ Fits(Clear(q)) /\ ~HasLine(Clear(q))
           /\ Clear(q).tail = q.head /\ Clear(q).head = q.head
           /\ \A t \in Nat : LineAt(Clear(q), t) = LineAt(q, t)
  BY NetAssumption DEF Queue, Fits, HasLine, Clear, LineAt

LEMMA PopKeeps ==
    ASSUME NEW q \in Queue, Fits(q), HasLine(q)
    PROVE  /\ [q EXCEPT !.tail = q.tail + 1] \in Queue
           /\ Fits([q EXCEPT !.tail = q.tail + 1])
           /\ [q EXCEPT !.tail = q.tail + 1].tail = q.tail + 1
           /\ [q EXCEPT !.tail = q.tail + 1].head = q.head
           /\ \A t \in Nat : LineAt([q EXCEPT !.tail = q.tail + 1], t) = LineAt(q, t)
  BY NetAssumption DEF Queue, Fits, HasLine, LineAt

LEMMA MsgIsLine ==
    ASSUME NEW op \in {"join", "leave", "say", "room", "error", "link"} \cup Chatter, NEW n \in 0 .. MaxOpens
    PROVE  Msg(op, n) \in Line
  BY DEF Msg, Line, Ops

\* What core 0 tells core 1 fits its queue as any line does.
LEMMA TellKeeps ==
    ASSUME NetTypes, Fits(inq),
           NEW op \in {"join", "leave", "say", "room", "error", "link"} \cup Chatter, Tell(op)
    PROVE  /\ inq' \in Queue /\ Fits(inq') /\ inq'.tail = inq.tail
           /\ inq'.head \in {inq.head, inq.head + 1}
           /\ inq.head - inq.tail < QueueLen => /\ inq'.head = inq.head + 1
                                                /\ LineAt(inq', inq.head) = Msg(op, Here)
           /\ \A t \in Nat : t < inq.head /\ inq.head < t + QueueLen => LineAt(inq', t) = LineAt(inq, t)
           /\ inq'.head = inq.head => inq' = inq
  <1>1. Here \in 0 .. MaxOpens BY NetAssumption DEF NetTypes, Here
  <1>2. Msg(op, Here) \in Line BY <1>1, MsgIsLine
  <1>3. inq' = Push(inq, Msg(op, Here)) BY DEF Tell
  <1>4. inq \in Queue BY DEF NetTypes
  <1> QED BY <1>2, <1>3, <1>4, PushKeeps

LEMMA SayKeeps ==
    ASSUME NetTypes, Fits(out),
           NEW op \in {"join", "leave", "say"}, out' = Push(out, Msg(op, openReq))
    PROVE  /\ out' \in Queue /\ Fits(out') /\ out'.tail = out.tail
           /\ out'.head \in {out.head, out.head + 1}
           /\ out.head - out.tail < QueueLen => /\ out'.head = out.head + 1
                                                /\ LineAt(out', out.head) = Msg(op, openReq)
  <1>1. Msg(op, openReq) \in Line BY MsgIsLine DEF NetTypes
  <1>2. out \in Queue BY DEF NetTypes
  <1> QED BY <1>1, <1>2, PushKeeps

LEMMA LinkStarts == Init => LinkInv
  <1> SUFFICES ASSUME Init PROVE LinkInv OBVIOUS
  <1>1. NoLine \in Line BY MsgIsLine, NetAssumption DEF NoLine
  <1>2. EmptyQueue \in Queue /\ Fits(EmptyQueue) /\ ~HasLine(EmptyQueue)
    BY <1>1, NetAssumption DEF EmptyQueue, Queue, Fits, HasLine
  <1>3. NetTypes
    <2>1. 0 \in 0 .. MaxOpens /\ 0 \in 0 .. MaxLines /\ 0 \in 0 .. 0 /\ 0 \in Nat BY NetAssumption
    <2> QED BY <1>1, <1>2, <2>1 DEF Init, NetTypes, States
  <1>4. TailsOwned /\ HeldStable BY <1>2 DEF Init, TailsOwned, HeldStable
  <1>5. Sockets /\ JoinIsFirst
    BY <1>2 DEF Init, Sockets, JoinIsFirst, Before, Fresh, FirstLineJoins
  <1> QED BY <1>3, <1>4, <1>5 DEF LinkInv

-----------------------------------------------------------------------------
(* Types.                                                                    *)

LEMMA TypesKept == ASSUME LinkInv, [Next]_vars PROVE NetTypes'
  <1> USE DEF LinkInv
  <1>1. /\ inq \in Queue /\ out \in Queue /\ Fits(inq) /\ Fits(out)
        /\ \A t \in Nat : LineAt(inq, t) \in Line /\ LineAt(out, t) \in Line
        /\ inq.tail \in Nat /\ out.tail \in Nat /\ inq.head \in Nat /\ out.head \in Nat
    BY LineAtIsLine DEF NetTypes, TailsOwned, Queue
  <1>2. NoLine \in Line BY MsgIsLine, NetAssumption DEF NoLine
  <1>3. CASE UNCHANGED vars
    BY <1>3 DEF vars, queues, requests, core0, core1, socket, session, NetTypes
  <1>4. CASE \E c \in {"poll", "join", "leave", "say", "wait"} : Command(c)
    BY <1>4 DEF Command, queues, requests, core0, socket, session, NetTypes
  <1>5. CASE Reset BY <1>5, NetAssumption DEF Reset, queues, core0, socket, NetTypes, States
  <1>6. CASE PopHead BY <1>1, <1>6 DEF PopHead, queues, requests, core0, socket, session, NetTypes
  <1>7. CASE PopTail
    <2>1. inq' \in Queue BY <1>1, <1>7, PopKeeps DEF PopTail, TailsOwned
    <2> QED BY <1>7, <2>1 DEF PopTail, requests, core0, socket, session, NetTypes
  <1>8. CASE HandleLine
    <2>1. state' \in States /\ answer' \in {"none", "ok", "error"}
      BY <1>8 DEF HandleLine, Answer, NetTypes, States
    <2>2. stray' \in BOOLEAN /\ held' \in Line BY <1>2, <1>8 DEF HandleLine
    <2> QED BY <1>8, <2>1, <2>2 DEF HandleLine, queues, requests, core0, socket, NetTypes
  <1>9. CASE Poll \/ Wait
    BY <1>9 DEF Poll, Wait, queues, requests, core0, socket, session, NetTypes
  <1>10. CASE Open
    <2>1. out' \in Queue BY <1>1, <1>10, ClearKeeps DEF Open
    <2> QED BY <1>10, <2>1 DEF Open, requests, core0, socket, session, NetTypes
  <1>11. CASE RequestOpen
    <2>1. openReq < MaxOpens BY <1>11 DEF RequestOpen, Sockets, Before
    <2>2. openReq' \in 0 .. MaxOpens /\ openAck \in 0 .. openReq' /\ pending \in 0 .. openReq'
      BY <1>11, <2>1, NetAssumption DEF RequestOpen, NetTypes
    <2> QED BY <1>11, <2>2 DEF RequestOpen, queues, core0, socket, session, NetTypes
  <1>12. CASE SendJoin
    <2>1. out' \in Queue BY <1>1, <1>12, SayKeeps DEF SendJoin
    <2> QED BY <1>12, <2>1 DEF SendJoin, requests, core0, socket, NetTypes
  <1>13. CASE Leave
    <2>1. out' \in Queue BY <1>1, <1>13, SayKeeps DEF Leave
    <2> QED BY <1>13, <2>1 DEF Leave, requests, core0, socket, session, NetTypes
  <1>14. CASE LeaveRoom BY <1>14 DEF LeaveRoom, queues, core0, socket, NetTypes, States
  <1>15. CASE Say
    <2>1. out' \in Queue BY <1>1, <1>15, SayKeeps DEF Say
    <2>2. lines' \in 0 .. MaxLines BY <1>15, NetAssumption DEF Say, NetTypes
    <2> QED BY <1>15, <2>1, <2>2 DEF Say, requests, core0, socket, session, NetTypes
  <1>16. CASE Resolved \/ Connected \/ EndEvents \/ PollFlush
    BY <1>16 DEF Resolved, Connected, EndEvents, PollFlush,
         queues, requests, socket, core1, session, NetTypes
  <1>26. CASE TimePasses
    BY <1>26 DEF TimePasses, queues, requests, core1, session, NetTypes
  <1>25. CASE Upgraded
    <2>1. /\ UNCHANGED <<queues, requests, at0, late, first, answered, pc1, at1, cmd, held, session, lines>>
          /\ ws' = "open" /\ pc0' = "send" /\ unheard' \in BOOLEAN /\ stray' \in BOOLEAN
      BY <1>25 DEF Upgraded
    <2> QED BY <2>1 DEF queues, requests, session, NetTypes
  <1>17. CASE ConnectFails \/ HangUp
    <2>1. inq' \in Queue BY <1>1, <1>17, TellKeeps DEF ConnectFails, HangUp
    <2>2. unheard' \in BOOLEAN BY <1>17 DEF ConnectFails, HangUp, NetTypes
    <2> QED BY <1>2, <1>17, <2>1, <2>2 DEF ConnectFails, HangUp, CloseSocket, requests, core1, session, NetTypes
  <1>18. CASE RelayAnswers
    <2>1. inq' \in Queue BY <1>1, <1>18, TellKeeps DEF RelayAnswers
    <2> QED BY <1>18, <2>1 DEF RelayAnswers, requests, core1, session, NetTypes
  <1>19. CASE \E op \in Chatter : RelaySpeaks(op)
    <2>1. inq' \in Queue BY <1>1, <1>19, TellKeeps DEF RelaySpeaks
    <2>2. lines' \in 0 .. MaxLines BY <1>19, NetAssumption DEF RelaySpeaks, NetTypes
    <2> QED BY <1>19, <2>1, <2>2 DEF RelaySpeaks, requests, socket, core1, session, NetTypes
  <1>20. CASE PollOpen
    <2>1. inq' \in Queue BY <1>1, <1>20, ClearKeeps DEF PollOpen
    <2>2. openAck' \in 0 .. openReq BY <1>20 DEF PollOpen, NetTypes
    <2>3. /\ ws' \in {"idle", "resolving", "connecting", "handshake", "open"}
          /\ late' \in BOOLEAN /\ answered' \in BOOLEAN /\ unheard' \in BOOLEAN /\ first' \in Line
      BY <1>2, <1>20 DEF PollOpen, socket, NetTypes
    <2>4. /\ pc0' = "close"
          /\ UNCHANGED <<out, openReq, closeReq, at0, pc1, at1, cmd, held, state, pending, answer, stray, lines>>
      BY <1>20 DEF PollOpen, core1, session
    <2> QED BY <2>1, <2>2, <2>3, <2>4 DEF NetTypes
  <1>21. CASE PollClose
    <2>1. /\ UNCHANGED <<queues, openReq, openAck, at0, core1, lines, unheard>>
          /\ pc0' = "timeout" /\ closeReq' \in BOOLEAN
          /\ UNCHANGED <<ws, late, first, answered>> \/ CloseSocket
      BY <1>21 DEF PollClose, socket, NetTypes
    <2>2. /\ ws' \in {"idle", "resolving", "connecting", "handshake", "open"}
          /\ late' \in BOOLEAN /\ answered' \in BOOLEAN /\ unheard' \in BOOLEAN /\ first' \in Line
      BY <1>2, <2>1 DEF CloseSocket, NetTypes
    <2> QED BY <2>1, <2>2 DEF queues, core1, session, NetTypes
  <1>22. CASE PollTimeout
    <2>1. inq' \in Queue BY <1>1, <1>22, TellKeeps DEF PollTimeout
    <2>2. /\ UNCHANGED <<out, requests, at0, core1, lines, unheard>> /\ pc0' = "flush"
          /\ UNCHANGED <<ws, late, first, answered>> \/ CloseSocket
      BY <1>22 DEF PollTimeout, socket
    <2>3. /\ ws' \in {"idle", "resolving", "connecting", "handshake", "open"}
          /\ late' \in BOOLEAN /\ answered' \in BOOLEAN /\ unheard' \in BOOLEAN /\ first' \in Line
      BY <1>2, <2>2 DEF CloseSocket, NetTypes
    <2> QED BY <2>1, <2>2, <2>3 DEF requests, core1, session, NetTypes
  <1>23. CASE SendHead \/ SendFrame
    BY <1>1, <1>23 DEF SendHead, SendFrame, queues, requests, socket, core1, session, NetTypes
  <1>24. CASE SendTail
    <2>1. out' \in Queue BY <1>1, <1>24, PopKeeps DEF SendTail, TailsOwned
    <2> QED BY <1>24, <2>1 DEF SendTail, requests, socket, core1, session, NetTypes
  <1> QED
    BY <1>3, <1>4, <1>5, <1>6, <1>7, <1>8, <1>9, <1>10, <1>11, <1>12, <1>13, <1>14, <1>15, <1>16,
       <1>17, <1>18, <1>19, <1>20, <1>21, <1>22, <1>23, <1>24, <1>25, <1>26
    DEF Next, Network, Loop0, Body1

-----------------------------------------------------------------------------
(* The ends of the queues.                                                   *)

\* A line told by core 0 leaves alone what core 1 holds.
LEMMA ToldKeepsHeld ==
    ASSUME LinkInv, UNCHANGED <<pc1, at1, held>>,
           inq'.tail = inq.tail, inq'.head \in {inq.head, inq.head + 1}, Fits(inq'),
           \A t \in Nat : t < inq.head /\ inq.head < t + QueueLen => LineAt(inq', t) = LineAt(inq, t),
           inq'.head = inq.head => inq' = inq
    PROVE  /\ HeldStable'
           /\ (pc1 = "pop" => at1 = inq.tail /\ HasLine(inq))'
           /\ (pc1 = "line" => inq.tail = at1 + 1)'
  <1> USE DEF LinkInv
  <1>1. inq.head \in Nat /\ inq.tail \in Nat /\ at1 \in Nat /\ inq.tail <= inq.head /\ QueueLen \in Nat
    BY NetAssumption DEF NetTypes, Queue, TailsOwned, Fits
  <1>2. pc1 \in {"pop", "line"} => at1 < inq.head
    BY <1>1 DEF TailsOwned, HasLine
  <1>3. HeldStable' BY <1>1, <1>2 DEF HeldStable
  <1>4. (pc1 = "pop" => at1 = inq.tail /\ HasLine(inq))' BY <1>1 DEF TailsOwned, HasLine
  <1>5. (pc1 = "line" => inq.tail = at1 + 1)' BY DEF TailsOwned
  <1> QED BY <1>3, <1>4, <1>5

LEMMA QueuesKept ==
    ASSUME LinkInv, [Next]_vars
    PROVE  /\ TailsOwned' /\ HeldStable'
           /\ inq'.tail >= inq.tail /\ out'.tail >= out.tail
  <1> USE DEF LinkInv
  <1>1. /\ inq \in Queue /\ out \in Queue /\ Fits(inq) /\ Fits(out) /\ at0 \in Nat /\ at1 \in Nat
        /\ inq.tail \in Nat /\ out.tail \in Nat /\ inq.head \in Nat /\ out.head \in Nat
    BY DEF NetTypes, TailsOwned, Queue
  \* Neither core is at a queue but to read it.
  <1>2. ASSUME UNCHANGED queues, UNCHANGED <<at0, at1, held>>,
               pc0' \in {"pop", "frame"} => pc0' = pc0, pc1' \in {"pop", "line"} => pc1' = pc1
        PROVE  TailsOwned' /\ HeldStable' /\ inq'.tail >= inq.tail /\ out'.tail >= out.tail
    BY <1>1, <1>2 DEF queues, TailsOwned, HeldStable, Fits, HasLine
  <1>3. CASE UNCHANGED vars BY <1>2, <1>3 DEF vars, core0, core1
  <1>4. CASE \E c \in {"poll", "join", "leave", "say", "wait"} : Command(c)
    BY <1>2, <1>4 DEF Command, core0, core1
  <1>5. CASE Reset BY <1>2, <1>5 DEF Reset, core0
  <1>6. CASE PopHead
    <2>1. CASE ~HasLine(inq) BY <1>2, <1>6, <2>1 DEF PopHead, core0
    <2>2. CASE HasLine(inq)
      <3>1. /\ UNCHANGED <<inq, out, pc0, at0>>
            /\ pc1' = "pop" /\ at1' = inq.tail /\ held' = LineAt(inq, inq.tail)
        BY <1>6, <2>2 DEF PopHead, queues, core0
      <3> QED BY <1>1, <2>2, <3>1 DEF TailsOwned, HeldStable, Fits, HasLine
    <2> QED BY <2>1, <2>2
  <1>7. CASE PopTail
    <2>1. /\ UNCHANGED <<out, pc0, at0, at1, held>> /\ pc1 = "pop" /\ pc1' = "line"
          /\ at1 = inq.tail /\ HasLine(inq) /\ inq' = [inq EXCEPT !.tail = inq.tail + 1]
      BY <1>7 DEF PopTail, core0, TailsOwned
    <2>2. /\ Fits(inq') /\ inq'.tail = inq.tail + 1 /\ inq'.head = inq.head
          /\ LineAt(inq', at1) = LineAt(inq, at1)
      BY <1>1, <2>1, PopKeeps
    <2> QED BY <1>1, <2>1, <2>2 DEF TailsOwned, HeldStable
  <1>8. CASE HandleLine
    <2>1. UNCHANGED <<inq, out, pc0, at0>> /\ pc1' = "pump" BY <1>8 DEF HandleLine, queues, core0
    <2> QED BY <1>1, <2>1 DEF TailsOwned, HeldStable, Fits, HasLine
  <1>9. CASE Poll \/ Wait BY <1>2, <1>9 DEF Poll, Wait, core0
  <1>10. CASE Open
    <2>1. pc0 \notin {"pop", "frame"} /\ pc1' = "bump" /\ UNCHANGED <<inq, pc0>>
      BY <1>10 DEF Open, Sockets, Before, core0
    <2>2. Fits(out') /\ out'.tail = out.head BY <1>1, <1>10, ClearKeeps DEF Open
    <2> QED BY <1>1, <2>1, <2>2 DEF TailsOwned, HeldStable, Fits
  <1>11. CASE RequestOpen \/ LeaveRoom BY <1>2, <1>11 DEF RequestOpen, LeaveRoom, core0
  <1>12. CASE SendJoin \/ Leave \/ Say
    <2>1. /\ UNCHANGED <<inq, pc0, at0, at1, held>> /\ pc1' \notin {"pop", "line"}
      BY <1>12 DEF SendJoin, Leave, Say, core0
    <2>2. \/ UNCHANGED out
          \/ Fits(out') /\ out'.tail = out.tail /\ out'.head \in {out.head, out.head + 1}
      BY <1>1, <1>12, SayKeeps DEF SendJoin, Leave, Say
    <2> QED BY <1>1, <2>1, <2>2 DEF TailsOwned, HeldStable, HasLine, Fits
  <1>13. CASE Resolved \/ Connected \/ Upgraded \/ EndEvents \/ TimePasses \/ PollFlush \/ PollClose
    BY <1>2, <1>13 DEF Resolved, Connected, Upgraded, EndEvents, TimePasses, PollFlush, PollClose, core1
  <1>14. CASE ConnectFails \/ HangUp \/ RelayAnswers \/ PollTimeout \/ \E op \in Chatter : RelaySpeaks(op)
    <2>1. /\ UNCHANGED <<out, at0, pc1, at1, held>> /\ pc0' \notin {"pop", "frame"}
      BY <1>14 DEF ConnectFails, HangUp, RelayAnswers, PollTimeout, RelaySpeaks, core1
    <2>2. CASE UNCHANGED inq BY <1>1, <2>1, <2>2 DEF TailsOwned, HeldStable, Fits, HasLine
    <2>3. ASSUME NEW op \in {"join", "leave", "say", "room", "error", "link"} \cup Chatter, Tell(op)
          PROVE  TailsOwned' /\ HeldStable' /\ inq'.tail >= inq.tail /\ out'.tail >= out.tail
      <3>1. /\ Fits(inq') /\ inq'.tail = inq.tail /\ inq'.head \in {inq.head, inq.head + 1}
            /\ \A t \in Nat : t < inq.head /\ inq.head < t + QueueLen => LineAt(inq', t) = LineAt(inq, t)
            /\ inq'.head = inq.head => inq' = inq
        BY <1>1, <2>3, TellKeeps
      <3>2. /\ HeldStable' /\ (pc1 = "pop" => at1 = inq.tail /\ HasLine(inq))'
            /\ (pc1 = "line" => inq.tail = at1 + 1)'
        BY <2>1, <3>1, ToldKeepsHeld
      <3> QED BY <1>1, <2>1, <3>1, <3>2 DEF TailsOwned, Fits
    <2> QED BY <1>14, <2>2, <2>3 DEF ConnectFails, HangUp, RelayAnswers, PollTimeout, RelaySpeaks
  <1>15. CASE PollOpen
    <2>1. UNCHANGED inq
      <3>1. openReq # openAck => ~HasLine(inq) BY DEF Sockets, Fresh
      <3> QED BY <1>1, <1>15, <3>1, ClearsNothing DEF PollOpen
    <2> QED BY <1>2, <1>15, <2>1 DEF PollOpen, queues, core1
  <1>16. CASE SendHead
    <2>1. CASE ~HasLine(out) BY <1>2, <1>16, <2>1 DEF SendHead, core1
    <2>2. CASE HasLine(out)
      <3>1. UNCHANGED <<inq, out, pc1, at1, held>> /\ pc0' = "pop" /\ at0' = out.tail
        BY <1>16, <2>2 DEF SendHead, queues, core1
      <3> QED BY <1>1, <2>2, <3>1 DEF TailsOwned, HeldStable, Fits, HasLine
    <2> QED BY <2>1, <2>2
  <1>17. CASE SendTail
    <2>1. /\ UNCHANGED <<inq, pc1, at1, held, at0>> /\ pc0' = "frame"
          /\ at0 = out.tail /\ HasLine(out) /\ out' = [out EXCEPT !.tail = out.tail + 1]
      BY <1>17 DEF SendTail, core1, TailsOwned
    <2>2. Fits(out') /\ out'.tail = out.tail + 1 BY <1>1, <2>1, PopKeeps
    <2> QED BY <1>1, <2>1, <2>2 DEF TailsOwned, HeldStable, Fits, HasLine
  <1>18. CASE SendFrame BY <1>2, <1>18 DEF SendFrame, core1
  <1> QED
    BY <1>3, <1>4, <1>5, <1>6, <1>7, <1>8, <1>9, <1>10, <1>11, <1>12, <1>13, <1>14, <1>15, <1>16,
       <1>17, <1>18 DEF Next, Network, Loop0, Body1

-----------------------------------------------------------------------------
(* The sockets and the requests for them.                                    *)

LEMMA SocketsKept == ASSUME LastGone, LinkInv, [Next]_vars PROVE Sockets'
  <1> USE DEF LinkInv
  <1>1. CASE UNCHANGED vars
    BY <1>1 DEF vars, queues, requests, core0, core1, socket, session, Sockets, Before, Fresh, HasLine
  <1>2. ASSUME NEW c \in {"poll", "join", "leave", "say", "wait"}, Command(c) PROVE Sockets'
    BY <1>2 DEF LastGone, Command, Orderly, Quiet, queues, requests, core0, socket, session,
         Sockets, Before, Fresh, HasLine
  <1>3. CASE Reset BY <1>3 DEF Reset, queues, core0, socket, Sockets, Before, Fresh, HasLine
  <1>4. CASE PopHead
    BY <1>4 DEF PopHead, queues, requests, core0, socket, session, Sockets, Before, Fresh, HasLine
  <1>5. CASE PopTail
    BY <1>5 DEF PopTail, requests, core0, socket, session, Sockets, Before, Fresh, HasLine
  <1>6. CASE HandleLine
    BY <1>6 DEF HandleLine, queues, requests, core0, socket, Sockets, Before, Fresh, HasLine
  <1>7. CASE Poll \/ Wait
    BY <1>7 DEF Poll, Wait, queues, requests, core0, socket, session, Sockets, Before, Fresh, HasLine
  <1>8. CASE Open
    BY <1>8 DEF Open, requests, core0, socket, session, Sockets, Before, Fresh, HasLine
  <1>9. CASE RequestOpen
    BY <1>9 DEF RequestOpen, queues, core0, socket, session, Sockets, Before, Fresh, HasLine, NetTypes
  <1>10. CASE SendJoin \/ Leave \/ Say
    BY <1>10 DEF SendJoin, Leave, Say, requests, core0, socket, session, Sockets, Before, Fresh, HasLine
  <1>11. CASE LeaveRoom
    BY <1>11 DEF LeaveRoom, queues, core0, socket, Sockets, Before, Fresh, HasLine
  <1>12. CASE Resolved \/ Connected \/ Upgraded \/ EndEvents \/ TimePasses
    BY <1>12 DEF Resolved, Connected, Upgraded, EndEvents, TimePasses, Connecting,
         queues, requests, socket, core1, session, Sockets, Before, Fresh, HasLine
  <1>13. CASE ConnectFails \/ HangUp
    BY <1>13 DEF ConnectFails, HangUp, CloseSocket, Connecting, requests, core1, session,
         Sockets, Before, Fresh, HasLine
  <1>14. CASE RelayAnswers
    BY <1>14 DEF RelayAnswers, requests, core1, session, Sockets, Before, Fresh, HasLine, NoLine, Msg
  <1>15. CASE \E op \in Chatter : RelaySpeaks(op)
    BY <1>15 DEF RelaySpeaks, requests, socket, core1, session, Sockets, Before, Fresh, HasLine
  <1>16. CASE PollOpen
    <2>1. CASE openReq = openAck
      BY <1>16, <2>1 DEF PollOpen, socket, core1, session, Sockets, Before, Fresh, HasLine
    <2>2. CASE openReq # openAck
      <3>1. ~HasLine(inq) /\ inq \in Queue BY <2>2 DEF Sockets, Fresh, NetTypes
      <3>2. inq' = inq BY <1>16, <2>2, <3>1, ClearsNothing DEF PollOpen
      <3> QED
        BY <1>16, <2>2, <3>2 DEF PollOpen, core1, session, Sockets, Before, Fresh, HasLine
    <2> QED BY <2>1, <2>2
  <1>17. CASE PollClose
    BY <1>17 DEF PollClose, CloseSocket, queues, socket, core1, session, Sockets, Before, Fresh, HasLine
  <1>18. CASE PollTimeout
    BY <1>18 DEF PollTimeout, CloseSocket, Connecting, requests, socket, core1, session,
         Sockets, Before, Fresh, HasLine
  <1>19. CASE PollFlush \/ SendHead
    BY <1>19 DEF PollFlush, SendHead, queues, requests, socket, core1, session,
         Sockets, Before, Fresh, HasLine
  <1>20. CASE SendTail \/ SendFrame
    BY <1>20 DEF SendTail, SendFrame, queues, requests, socket, core1, session,
         Sockets, Before, Fresh, HasLine
  <1> QED
    BY <1>1, <1>2, <1>3, <1>4, <1>5, <1>6, <1>7, <1>8, <1>9, <1>10, <1>11, <1>12, <1>13, <1>14,
       <1>15, <1>16, <1>17, <1>18, <1>19, <1>20 DEF Next, Network, Loop0, Body1

LEMMA JoinKept == ASSUME LastGone, LinkInv, [Next]_vars PROVE JoinIsFirst'
  <1> USE DEF LinkInv
  <1>0. /\ out \in Queue /\ Fits(out) /\ out.head \in Nat /\ out.tail \in Nat /\ at0 \in Nat
        /\ pc1 \in {"bump", "join"} => first = NoLine /\ ~HasLine(out) /\ pc0 \notin {"pop", "frame"}
        /\ FirstLineJoins
    BY DEF NetTypes, TailsOwned, Queue, JoinIsFirst
  \* Core 1 goes on, with nothing for the relay.
  <1>1. ASSUME UNCHANGED <<out, openReq, openAck, pc0, at0, ws, first>>,
               pc1 \notin {"bump", "join"}, pc1' \notin {"bump", "join"},
               Fresh => \/ pending' # 0 /\ answer' = "none" /\ (pc1' = "idle" \/ cmd' = "wait")
                        \/ state' = "none" /\ pc1' # "leave"
        PROVE  JoinIsFirst'
    <2>1. Fresh' = Fresh /\ NextOut' = NextOut /\ FirstLineJoins' BY <1>0, <1>1 DEF Fresh, NextOut, FirstLineJoins, Here
    <2>2. CASE ~Fresh BY <1>1, <2>1, <2>2 DEF JoinIsFirst
    <2>3. CASE Fresh
      <3>1. \/ LineAt(out, NextOut) = Msg("join", openReq) /\ out.head = NextOut + 1
            \/ out.head = NextOut
        BY <1>1, <2>3 DEF JoinIsFirst
      <3>2. \/ LineAt(out', NextOut') = Msg("join", openReq') /\ out'.head = NextOut' + 1
            \/ out'.head = NextOut'
        BY <1>1, <2>1, <3>1
      <3> QED BY <1>1, <2>1, <2>3, <3>2 DEF JoinIsFirst
    <2> QED BY <2>2, <2>3
  \* Core 0 goes on, over the same socket or with none any more.
  <1>2. ASSUME UNCHANGED <<out, openReq, openAck, pc1, cmd, state, pending, answer, at0>>,
               pc0' # "frame", pc0 # "frame", pc0' = "pop" => pc0 = "pop" \/ HasLine(out),
               \/ UNCHANGED first /\ (ws' # "idle" => ws # "idle")
               \/ first' = NoLine /\ ws' = "idle" /\ ws # "idle"
        PROVE  JoinIsFirst'
    BY <1>0, <1>2 DEF JoinIsFirst, Fresh, FirstLineJoins, Here, HasLine, NextOut, LineAt, Sockets
  <1>3. CASE UNCHANGED vars
    BY <1>0, <1>3
       DEF vars, queues, requests, core0, core1, socket, session, JoinIsFirst, Fresh, FirstLineJoins,
           Here, HasLine, NextOut, LineAt
  <1>4. ASSUME NEW c \in {"poll", "join", "leave", "say", "wait"}, Command(c) PROVE JoinIsFirst'
    <2>1. c = "join" => ~Fresh BY <1>4 DEF Command, LastGone, Orderly, Quiet, Fresh
    <2> QED
      BY <1>1, <1>4, <2>1 DEF Command, queues, requests, core0, socket, session, JoinIsFirst
  <1>5. CASE Reset BY <1>1, <1>5 DEF Reset, queues, core0, socket
  <1>6. CASE PopHead \/ PopTail \/ HandleLine
    <2>1. Fresh => PopHead /\ pc1' = "act" BY <1>6 DEF PopHead, PopTail, HandleLine, Sockets
    <2>2. Fresh => UNCHANGED <<pending, answer, state, cmd>>
      BY <2>1 DEF PopHead, session
    <2>3. pc1' \notin {"bump", "join", "leave", "idle"} /\ pc1 \notin {"bump", "join", "idle", "leave"}
      BY <1>6 DEF PopHead, PopTail, HandleLine
    <2>4. UNCHANGED <<out, openReq, openAck, pc0, at0, ws, first>>
      BY <1>6 DEF PopHead, PopTail, HandleLine, queues, requests, core0, socket
    <2> QED BY <1>1, <2>1, <2>2, <2>3, <2>4 DEF JoinIsFirst
  <1>7. CASE Poll \/ Wait
    BY <1>1, <1>7 DEF Poll, Wait, queues, requests, core0, socket, session, JoinIsFirst
  <1>8. CASE Open
    <2>1. ws = "idle" /\ openReq = openAck /\ first = NoLine /\ pc0 \notin {"pop", "frame"}
      BY <1>8 DEF Open, Sockets, Before
    <2>2. ~HasLine(out') BY <1>0, <1>8, ClearKeeps DEF Open
    <2> QED
      BY <1>8, <2>1, <2>2 DEF Open, requests, core0, socket, JoinIsFirst, Fresh, FirstLineJoins
  <1>9. CASE RequestOpen
    BY <1>0, <1>9 DEF RequestOpen, queues, core0, socket, JoinIsFirst, Fresh, FirstLineJoins, HasLine
  <1>10. CASE SendJoin
    <2>1. /\ first = NoLine /\ ~HasLine(out) /\ pc0 \notin {"pop", "frame"}
          /\ UNCHANGED <<openReq, openAck, pc0, at0, ws, first>>
          /\ pending' # 0 /\ answer' = "none" /\ pc1' = "idle"
      BY <1>0, <1>10 DEF SendJoin, requests, core0, socket, Sockets
    <2>2. out.head - out.tail < QueueLen BY <1>0, <2>1, NetAssumption DEF HasLine
    <2>3. /\ out'.tail = out.tail /\ out'.head = out.head + 1
          /\ LineAt(out', out.head) = Msg("join", openReq)
      BY <1>0, <1>10, <2>2, SayKeeps DEF SendJoin
    <2> QED BY <1>0, <2>1, <2>3 DEF JoinIsFirst, Fresh, FirstLineJoins, HasLine, NextOut
  <1>11. CASE Leave \/ Say
    <2>1. /\ UNCHANGED <<openReq, openAck, pc0, at0, ws, first>>
          /\ pc1 = "act" /\ pc1' \in {"idle", "leave"} /\ cmd \in {"leave", "say"}
          /\ UNCHANGED <<state, pending, answer>>
          /\ state = "none" => UNCHANGED out /\ pc1' = "idle"
      BY <1>11 DEF Leave, Say, requests, core0, socket, session
    <2>2. CASE Fresh BY <1>1, <2>1, <2>2 DEF JoinIsFirst
    <2>3. CASE ~Fresh BY <1>0, <2>1, <2>3 DEF JoinIsFirst, Fresh, FirstLineJoins, Here
    <2> QED BY <2>2, <2>3
  <1>12. CASE LeaveRoom
    <2>1. ~Fresh BY <1>12 DEF LeaveRoom, JoinIsFirst, Sockets
    <2> QED BY <1>1, <1>12, <2>1 DEF LeaveRoom, queues, core0, socket
  <1>13. CASE Resolved \/ Connected \/ Upgraded \/ EndEvents \/ TimePasses \/ PollFlush
    <2>1. /\ UNCHANGED <<out, openReq, openAck, pc1, cmd, state, pending, answer, at0, first>>
          /\ ws' # "idle" => ws # "idle"
      BY <1>13 DEF Resolved, Connected, Upgraded, EndEvents, TimePasses, PollFlush, Connecting,
         queues, requests, socket, core1, session
    <2>2. pc0' # "frame" /\ pc0 # "frame" /\ (pc0' = "pop" => pc0 = "pop")
      <3>1. CASE TimePasses BY <3>1 DEF TimePasses, Connecting, Sockets
      <3> QED BY <1>13, <3>1 DEF Resolved, Connected, Upgraded, EndEvents, PollFlush
    <2> QED BY <1>2, <2>1, <2>2
  <1>14. CASE ConnectFails \/ HangUp
    BY <1>2, <1>14 DEF ConnectFails, HangUp, CloseSocket, Connecting, requests, core1, session
  <1>15. CASE RelayAnswers \/ \E op \in Chatter : RelaySpeaks(op)
    BY <1>2, <1>15 DEF RelayAnswers, RelaySpeaks, requests, socket, core1, session
  <1>16. CASE PollClose \/ PollTimeout
    BY <1>2, <1>16 DEF PollClose, PollTimeout, CloseSocket, Connecting, queues, requests, socket, core1,
         session, Sockets
  <1>17. CASE PollOpen
    <2>1. CASE openReq = openAck
      BY <1>2, <1>17, <2>1 DEF PollOpen, socket, core1, session
    <2>2. CASE openReq # openAck
      <3>1. ws = "idle" /\ first = NoLine /\ Fresh BY <2>2 DEF Sockets, Fresh
      <3>2. /\ UNCHANGED <<out, openReq, pc1, cmd, state, pending, answer, at0>>
            /\ first' = NoLine /\ pc0 = "open" /\ pc0' = "close"
        BY <1>17, <2>2 DEF PollOpen, core1, session
      <3> QED
        BY <1>0, <3>1, <3>2 DEF JoinIsFirst, FirstLineJoins, HasLine, NextOut, LineAt
    <2> QED BY <2>1, <2>2
  <1>18. CASE SendHead
    BY <1>0, <1>18 DEF SendHead, queues, requests, socket, core1, session,
         JoinIsFirst, Fresh, FirstLineJoins, Here, HasLine, NextOut, LineAt
  <1>19. CASE SendTail
    <2>1. /\ at0 = out.tail /\ HasLine(out) /\ out' = [out EXCEPT !.tail = out.tail + 1]
          /\ pc0 = "pop" /\ pc0' = "frame"
          /\ UNCHANGED <<openReq, openAck, at0, ws, first, pc1, cmd, state, pending, answer>>
      BY <1>19 DEF SendTail, TailsOwned, requests, socket, core1, session
    <2>2. out'.head = out.head /\ LineAt(out', at0) = LineAt(out, at0)
      BY <1>0, <2>1, PopKeeps
    <2> QED BY <1>0, <2>1, <2>2 DEF JoinIsFirst, Fresh, FirstLineJoins, Here, NextOut
  <1>20. CASE SendFrame
    <2>1. /\ ws = "open" /\ openReq = openAck /\ pc0 = "frame" /\ pc0' = "send"
          /\ UNCHANGED <<out, openReq, openAck, ws, pc1, cmd, state, pending, answer>>
          /\ first' \in {first, IF first = NoLine THEN LineAt(out, at0) ELSE first}
          /\ pc1 \notin {"bump", "join"} /\ out.tail = at0 + 1 /\ out.tail <= out.head
      BY <1>0, <1>20 DEF SendFrame, Sockets, TailsOwned, Fits, queues, requests, core1, session
    <2>2. CASE first # NoLine
      <3>1. first' = first BY <2>1, <2>2
      <3> QED BY <1>0, <2>1, <2>2, <3>1 DEF JoinIsFirst, Fresh, FirstLineJoins, Here
    <2>3. CASE first = NoLine
      <3>1. Fresh /\ NextOut = at0 BY <2>1, <2>3 DEF Fresh, NextOut
      <3>2. out.head # at0 BY <1>0, <2>1
      <3>3. LineAt(out, at0) = Msg("join", openReq) /\ out.head = at0 + 1
        BY <2>1, <3>1, <3>2 DEF JoinIsFirst
      <3>4. CASE first' = NoLine
        <4>1. NextOut' = out.tail /\ out'.head = NextOut' BY <2>1, <3>3 DEF NextOut
        <4>2. \/ pending # 0 /\ answer = "none" /\ (pc1 = "idle" \/ cmd = "wait")
              \/ state = "none" /\ pc1 # "leave"
          BY <2>1, <3>1 DEF JoinIsFirst
        <4> QED BY <2>1, <3>4, <4>1, <4>2 DEF JoinIsFirst, FirstLineJoins
      <3>5. CASE first' = Msg("join", openReq)
        <4>1. Msg("join", openReq) # NoLine BY DEF Msg, NoLine
        <4> QED BY <2>1, <3>5, <4>1 DEF JoinIsFirst, Fresh, FirstLineJoins, Here
      <3> QED BY <2>1, <2>3, <3>3, <3>4, <3>5
    <2> QED BY <2>2, <2>3
  <1> QED
    BY <1>3, <1>4, <1>5, <1>6, <1>7, <1>8, <1>9, <1>10, <1>11, <1>12, <1>13, <1>14,
       <1>15, <1>16, <1>17, <1>18, <1>19, <1>20 DEF Next, Network, Loop0, Body1

LEMMA LinkKept == ASSUME LastGone, LinkInv, [Next]_vars PROVE LinkInv'
  BY TypesKept, QueuesKept, SocketsKept, JoinKept DEF LinkInv

\* The first message over every socket is the create or join it was opened for,
\* whatever a room before it has left in the queue of lines.
THEOREM JoinGoesFirst == ASSUME LastGone PROVE Spec => []FirstLineJoins
  <1>1. Init => LinkInv BY LinkStarts
  <1>2. LinkInv /\ [Next]_vars => LinkInv' BY LinkKept
  <1>3. LinkInv => FirstLineJoins BY DEF LinkInv, JoinIsFirst
  <1> QED BY <1>1, <1>2, <1>3, PTL DEF Spec

LEMMA TypesAreTypeOK == LinkInv => TypeOK
  BY DEF LinkInv, NetTypes, TailsOwned, Fits, TypeOK

\* The queues stay in step, whatever their length and however fast the relay
\* speaks: the ends keep their order and only move on, and the line core 1 holds
\* is whole until the relay has filled the ring behind it.
THEOREM QueuesStayInStep == ASSUME LastGone PROVE Spec => QueuesInStep
  <1>1. Init => LinkInv BY LinkStarts
  <1>2. LinkInv /\ [Next]_vars => LinkInv' BY LinkKept
  <1>3. LinkInv => TypeOK /\ PoppedLineStable
    BY TypesAreTypeOK, NetAssumption DEF LinkInv, HeldStable, NetTypes, PoppedLineStable, Queue
  <1>4. LinkInv /\ [Next]_vars => inq'.tail >= inq.tail /\ out'.tail >= out.tail BY QueuesKept
  <1> QED BY <1>1, <1>2, <1>3, <1>4, PTL DEF Spec, QueuesInStep

-----------------------------------------------------------------------------
(* The room.                                                                 *)

\* Nothing is unread while a socket is on its way.
LEMMA NothingUnread ==
    ASSUME LinkInv, Fresh
    PROVE  Unread = {} /\ ~HasLine(inq) /\ AllHarmless /\ ~Ended
  <1>1. /\ inq.head \in Nat /\ inq.head = inq.tail /\ ~HasLine(inq)
        /\ pc1 \notin {"pop", "line"}
    BY DEF LinkInv, NetTypes, Queue, Sockets, HasLine
  <1>2. Unread = {} BY <1>1 DEF Unread
  <1> QED BY <1>1, <1>2 DEF AllHarmless, Ended

LEMMA Counters ==
    ASSUME LinkInv
    PROVE  /\ inq \in Queue /\ inq.head \in Nat /\ inq.tail \in Nat /\ at1 \in Nat
           /\ inq.tail <= inq.head /\ inq.head - inq.tail <= QueueLen
           /\ HasLine(inq) <=> inq.tail < inq.head
           /\ Unread \subseteq Nat /\ (Unread = {} <=> ~HasLine(inq))
           /\ QueueLen \in Nat \ {0}
  <1>1. /\ inq \in Queue /\ inq.head \in Nat /\ inq.tail \in Nat /\ at1 \in Nat
        /\ inq.tail <= inq.head /\ inq.head - inq.tail <= QueueLen /\ QueueLen \in Nat \ {0}
    BY NetAssumption DEF LinkInv, NetTypes, Queue, TailsOwned, Fits
  <1>2. HasLine(inq) <=> inq.tail < inq.head BY <1>1 DEF HasLine
  <1>3. Unread \subseteq Nat BY <1>1 DEF Unread
  <1>4. Unread = {} => ~HasLine(inq)
    <2>1. HasLine(inq) => inq.tail \in Unread BY <1>1, <1>2 DEF Unread
    <2> QED BY <2>1
  <1>5. ~HasLine(inq) => Unread = {} BY <1>1, <1>2 DEF Unread
  <1> QED BY <1>1, <1>2, <1>3, <1>4, <1>5

\* handleLine sees the line core 1 has popped, or the last one of the queue.
LEMMA WhatIsRead ==
    ASSUME LinkInv, pc1 = "line"
    PROVE  \/ LineAt(inq, at1) = held
           \/ inq.head - 1 \in Unread /\ LineAt(inq, at1) = LineAt(inq, inq.head - 1)
  <1>1. inq.tail = at1 + 1 BY DEF LinkInv, TailsOwned
  <1>2. CASE inq.head <= at1 + QueueLen BY <1>2 DEF LinkInv, HeldStable
  <1>3. CASE ~(inq.head <= at1 + QueueLen)
    <2>1. inq.head - 1 = at1 + QueueLen /\ inq.head - 1 \in Unread
      BY <1>1, <1>3, Counters DEF Unread
    <2>2. (at1 + QueueLen) % QueueLen = at1 % QueueLen BY Counters, SlotAgain
    <2> QED BY <2>1, <2>2 DEF LineAt
  <1> QED BY <1>2, <1>3

\* A step that neither tells core 1 anything nor has it take in a line.
LEMMA NothingTold ==
    ASSUME LinkInv, RoomInv, UNCHANGED inq, pc1 \notin {"pop", "line"}, pc1' \notin {"pop", "line"},
           \/ UNCHANGED <<state, pending>>
           \/ pc1 = "join" /\ state' = state
           \/ pending' = 0 /\ state' \in {state, "none"},
           unheard' = unheard, stray' = stray,
           ws' # "open" => ws # "open" \/ closeReq,
           closeReq' => closeReq \/ Outside',
           cmd' # "wait" /\ pc1' # "idle" => pending' = 0,
           cmd' = "join" /\ pc1' # "idle" => ~closeReq' /\ AllHarmless
    PROVE  RoomInv'
  <1>1. AllHarmless' <=> AllHarmless BY DEF AllHarmless, Unread, LineAt
  <1>2. ~Ended' /\ HasLine(inq) => ~Ended BY DEF Ended, HasLine, LineAt
  <1>3. Ended => Ended' BY DEF Ended, HasLine, LineAt
  <1>4. InRoom' => InRoom BY DEF InRoom
  <1>5. Outside => Outside' \/ pc1 = "join" BY DEF Outside
  <1>6. pc1 = "join" => ~closeReq /\ AllHarmless BY DEF RoomInv, LinkInv, Sockets
  <1>7. (ws # "open" => (~InRoom /\ (AllHarmless \/ Outside)) \/ Ended \/ unheard \/ stray)'
    <2>1. Outside => ~InRoom BY DEF Outside, InRoom
    <2> QED BY <1>1, <1>3, <1>4, <1>5, <1>6, <2>1 DEF RoomInv
  <1>8. (closeReq => Outside \/ stray)' BY <1>5, <1>6 DEF RoomInv
  <1> QED BY <1>1, <1>7, <1>8 DEF RoomInv
\* Core 0 says why there is no socket, if there is room to: nothing that puts
\* core 1 into a room.
LEMMA BadNewsTold ==
    ASSUME LinkInv, RoomInv,
           NEW op \in {"link", "error"}, Tell(op), ws' = "idle",
           \/ ws = "open" /\ op = "link" /\ unheard' = (inq' = inq)
           \/ ws # "open" /\ Fresh /\ unheard' = unheard,
           UNCHANGED <<closeReq, pc1, at1, cmd, held, state, pending, stray>>
    PROVE  RoomInv'
  <1>1. /\ inq' \in Queue /\ Fits(inq') /\ inq'.tail = inq.tail
        /\ inq'.head \in {inq.head, inq.head + 1}
        /\ inq.head - inq.tail < QueueLen => /\ inq'.head = inq.head + 1
                                             /\ LineAt(inq', inq.head) = Msg(op, Here)
        /\ \A t \in Nat : t < inq.head /\ inq.head < t + QueueLen => LineAt(inq', t) = LineAt(inq, t)
        /\ inq'.head = inq.head => inq' = inq
    BY TellKeeps DEF LinkInv, TailsOwned
  <1>2. CASE inq' = inq
    <2>1. /\ AllHarmless' <=> AllHarmless
          /\ Ended' <=> Ended
          /\ InRoom' <=> InRoom
          /\ Outside' <=> Outside
      BY <1>2 DEF AllHarmless, Unread, LineAt, Ended, HasLine, InRoom, Outside
    <2>2. ws # "open" => unheard' = unheard OBVIOUS
    <2>3. ws = "open" => unheard' BY <1>2
    <2>4. (ws # "open" => (~InRoom /\ (AllHarmless \/ Outside)) \/ Ended \/ unheard \/ stray)'
      BY <2>1, <2>2, <2>3 DEF RoomInv
    <2>5. /\ (closeReq => Outside \/ stray)'
          /\ (cmd # "wait" /\ pc1 # "idle" => pending = 0)'
          /\ (cmd = "join" /\ pc1 # "idle" => ~closeReq /\ AllHarmless)'
      BY <2>1 DEF RoomInv
    <2> QED BY <2>4, <2>5 DEF RoomInv
  <1>3. CASE inq' # inq
    <2>1. /\ inq'.head = inq.head + 1 /\ inq.head - inq.tail < QueueLen
          /\ LineAt(inq', inq.head).op = op
      <3>1. inq'.head = inq.head + 1 BY <1>1, <1>3
      <3>2. inq.head - inq.tail < QueueLen
        BY <1>1, <3>1, Counters DEF Tell, Push
      <3> QED BY <1>1, <3>1, <3>2 DEF Msg
    <2>2. Unread' = Unread \cup {inq.head} /\ HasLine(inq') /\ inq'.head - 1 = inq.head
      BY <1>1, <2>1, Counters DEF Unread, HasLine
    <2>3. \A t \in Unread : LineAt(inq', t) = LineAt(inq, t)
      <3>1. \A t \in Unread : t \in Nat /\ t < inq.head /\ inq.head < t + QueueLen
        BY <2>1, Counters DEF Unread
      <3> QED BY <1>1, <3>1
    <2>4. AllHarmless => AllHarmless' BY <2>1, <2>2, <2>3 DEF AllHarmless, Harmless
    <2>5. op = "link" => Ended' BY <2>1, <2>2 DEF Ended
    <2>6. (InRoom' <=> InRoom) /\ (Outside' <=> Outside) BY DEF InRoom, Outside
    <2>7. CASE ws = "open" /\ op = "link" BY <2>4, <2>5, <2>6, <2>7 DEF RoomInv
    <2>8. CASE ws # "open" /\ Fresh /\ unheard' = unheard
      <3>1. AllHarmless /\ ~Ended BY <2>8, NothingUnread
      <3> QED BY <2>4, <2>6, <2>8, <3>1 DEF RoomInv
    <2> QED BY <2>7, <2>8
  <1> QED BY <1>2, <1>3

\* Core 1 takes in the line it has popped.
LEMMA HandledRoom == ASSUME LinkInv, RoomInv, HandleLine PROVE RoomInv'
  <1>1. /\ UNCHANGED <<inq, ws, closeReq, cmd, pending, unheard>> /\ pc1 = "line" /\ pc1' = "pump"
        /\ stray' = (stray \/ (state = "none" /\ pending = 0 /\ state' # "none"))
    BY DEF HandleLine, queues, requests, core0, socket
  <1>2. PICK op \in Ops \cup {"garbled"} :
          /\ Read(op)
          /\ op = "link" => state' \in {"none", "dropped"}
          /\ Harmless(op) => state' = state \/ state' = "dropped"
    <2>1. PICK op \in Ops \cup {"garbled"} :
            Read(op) /\
            \/ op = "room"
            \/ op = "start"
            \/ op \in {"desync", "dropped"} /\ state' = op
            \/ op = "link" /\ state' = IF state = "none" THEN state ELSE "dropped"
            \/ op = "error" /\ state' = state
            \/ op \in {"members", "garbled"} /\ state' = state
      BY DEF HandleLine
    <2> QED BY <2>1 DEF Harmless
  <1>3. /\ AllHarmless => Harmless(op) /\ AllHarmless'
    <2>1. ASSUME AllHarmless PROVE Harmless(op)
      BY <1>1, <1>2, <2>1, WhatIsRead DEF AllHarmless, Read, Harmless
    <2>2. ASSUME AllHarmless PROVE AllHarmless'
      BY <1>1, <2>2 DEF AllHarmless, Unread, LineAt
    <2> QED BY <2>1, <2>2
  <1>4. Outside => Outside' \/ stray' BY <1>1 DEF Outside
  <1>5. ~InRoom /\ AllHarmless => ~InRoom' /\ AllHarmless' BY <1>2, <1>3 DEF InRoom
  <1>6. Ended => Ended' \/ (~InRoom' /\ AllHarmless')
    <2>1. CASE HasLine(inq) BY <1>1, <2>1 DEF Ended, HasLine, LineAt
    <2>2. CASE ~HasLine(inq)
      <3>1. Unread = {} BY <2>2, Counters
      <3>2. LineAt(inq, at1) = held BY <1>1, <3>1, WhatIsRead
      <3>3. Ended => op = "link" BY <1>2, <2>2, <3>2 DEF Ended, Read
      <3>4. AllHarmless' BY <1>1, <3>1 DEF AllHarmless, Unread
      <3> QED BY <1>2, <3>3, <3>4 DEF InRoom
    <2> QED BY <2>1, <2>2
  <1>7. cmd # "join" BY <1>1 DEF LinkInv, Sockets
  <1>8. Outside' => ~InRoom' BY DEF Outside, InRoom
  <1>9. (ws # "open" => (~InRoom /\ (AllHarmless \/ Outside)) \/ Ended \/ unheard \/ stray)'
    BY <1>1, <1>4, <1>5, <1>6, <1>8 DEF RoomInv
  <1>10. (closeReq => Outside \/ stray)' BY <1>1, <1>4 DEF RoomInv
  <1> QED BY <1>1, <1>7, <1>9, <1>10 DEF RoomInv
LEMMA RoomStarts == Init => RoomInv
  <1> SUFFICES ASSUME Init PROVE RoomInv OBVIOUS
  <1>1. /\ inq.head = 0 /\ inq.tail = 0 /\ pc1 = "idle" /\ state = "none" /\ ws = "idle"
        /\ ~closeReq
    BY DEF Init, EmptyQueue
  <1>2. Unread = {} BY <1>1 DEF Unread
  <1> QED BY <1>1, <1>2 DEF RoomInv, AllHarmless, InRoom

LEMMA GivenUpKept == ASSUME LastGone, LinkInv, RoomInv, GivenUp, [Next]_vars PROVE GivenUp'
  <1>0. /\ Connecting => Fresh
        /\ Fresh => pc1 # "line"
        /\ pc1 \in {"bump", "join"} => cmd = "join" /\ ~closeReq
        /\ cmd # "wait" /\ pc1 # "idle" => pending = 0
        /\ pc0 = "send" \/ pc0 = "pop" \/ pc0 = "frame" => ws = "open"
        /\ openReq # openAck => ws = "idle"
    BY DEF LinkInv, Sockets, Fresh, Connecting, RoomInv
  <1>1. CASE UNCHANGED vars \/ \E c \in {"poll", "join", "leave", "say", "wait"} : Command(c)
    BY <1>1 DEF Command, vars, queues, requests, core0, core1, socket, session, GivenUp, Fresh, Outside
  <1>2. CASE Reset BY <1>2 DEF Reset, GivenUp, Outside
  <1>3. CASE PopHead \/ PopTail \/ Poll \/ Wait \/ Open \/ Leave \/ Say
    BY <1>3 DEF PopHead, PopTail, Poll, Wait, Open, Leave, Say, requests, core0, socket, session,
         GivenUp, Fresh, Outside
  <1>4. CASE HandleLine
    BY <1>0, <1>4 DEF HandleLine, requests, core0, socket, GivenUp, Fresh
  <1>5. CASE RequestOpen \/ SendJoin
    BY <1>0, <1>5 DEF RequestOpen, SendJoin, requests, GivenUp
  <1>6. CASE LeaveRoom
    <2>1. cmd = "leave" /\ pc1 = "leave" BY <1>6 DEF LeaveRoom, LinkInv, Sockets
    <2> QED BY <1>0, <1>6, <2>1 DEF LeaveRoom, GivenUp, Outside
  <1>7. ASSUME UNCHANGED <<state, pending>>, closeReq' => closeReq, closeReq' /\ Fresh' => Fresh
        PROVE  GivenUp'
    BY <1>7 DEF GivenUp, Outside
  <1>8. CASE Resolved \/ Connected \/ Upgraded \/ ConnectFails \/ HangUp
    BY <1>0, <1>7, <1>8
       DEF Resolved, Connected, Upgraded, ConnectFails, HangUp, CloseSocket, requests, core1, session,
           Fresh, Connecting
  <1>9. CASE RelayAnswers \/ \E op \in Chatter : RelaySpeaks(op)
    BY <1>7, <1>9 DEF RelayAnswers, RelaySpeaks, requests, socket, core1, session, Fresh
  <1>10. CASE EndEvents \/ TimePasses \/ PollFlush \/ SendHead \/ SendTail
    BY <1>7, <1>10
       DEF EndEvents, TimePasses, PollFlush, SendHead, SendTail, requests, socket, core1, session, Fresh
  <1>11. CASE PollClose \/ PollTimeout
    BY <1>0, <1>7, <1>11
       DEF PollClose, PollTimeout, CloseSocket, requests, socket, core1, session, Fresh, Connecting
  <1>12. CASE PollOpen
    <2>1. openReq # openAck => Fresh BY DEF LinkInv, Sockets, Fresh
    <2> QED BY <1>7, <1>12, <2>1 DEF PollOpen, socket, core1, session, Fresh
  <1>13. CASE SendFrame
    BY <1>0, <1>7, <1>13 DEF SendFrame, requests, core1, session, Fresh
  <1> QED
    BY <1>1, <1>2, <1>3, <1>4, <1>5, <1>6, <1>7, <1>8, <1>9, <1>10, <1>11, <1>12, <1>13
       DEF Next, Network, Loop0, Body1

LEMMA RoomKept == ASSUME LastGone, LinkInv, RoomInv, GivenUp, [Next]_vars PROVE RoomInv'
  <1>0. /\ Connecting => Fresh
        /\ pc1 \in {"bump", "join"} => cmd = "join" /\ first = NoLine
        /\ cmd = "join" /\ pc1 # "idle" => pc1 \in {"pump", "act", "bump", "join"}
        /\ cmd = "join" /\ pc1 \in {"pump", "act"} => ws = "idle"
        /\ answered => first # NoLine
        /\ Unread = {} <=> ~HasLine(inq)
    BY Counters DEF LinkInv, NetTypes, Sockets, Before, JoinIsFirst, Fresh, Connecting
  <1>1. CASE UNCHANGED vars
    BY <1>1 DEF vars, queues, requests, core0, core1, socket, session, RoomInv, AllHarmless, Unread,
         LineAt, Ended, HasLine, InRoom, Outside
  <1>2. ASSUME NEW c \in {"poll", "join", "leave", "say", "wait"}, Command(c) PROVE RoomInv'
    <2>1. /\ UNCHANGED <<inq, ws, closeReq, state, pending, unheard, stray>>
          /\ pc1 = "idle" /\ pc1' = "pump" /\ cmd' = c
          /\ c # "wait" => pending = 0
      BY <1>2 DEF Command, queues, requests, core0, socket, session
    <2>2. c = "join" => ~closeReq /\ AllHarmless
      BY <1>0, <1>2, <2>1 DEF Command, LastGone, Orderly, Quiet, AllHarmless
    <2> QED BY <2>1, <2>2, NothingTold
  <1>3. CASE Reset
    <2>1. /\ UNCHANGED <<inq, ws, unheard, stray, pc1, cmd>> /\ closeReq' /\ pc1 = "idle"
          /\ state' = "none" /\ pending' = 0
      BY <1>3 DEF Reset, queues, core0, socket
    <2> QED BY <2>1, NothingTold DEF Outside
  <1>4. CASE PopHead
    <2>1. /\ UNCHANGED <<inq, ws, closeReq, state, pending, unheard, stray, cmd>>
          /\ pc1 = "pump"
      BY <1>4 DEF PopHead, queues, requests, core0, socket, session
    <2>2. CASE ~HasLine(inq)
      <3>1. pc1' = "act" BY <1>4, <2>2 DEF PopHead
      <3>2. AllHarmless BY <1>0, <2>1, <2>2 DEF AllHarmless
      <3> QED BY <2>1, <3>1, <3>2, NothingTold DEF RoomInv
    <2>3. CASE HasLine(inq)
      <3>1. pc1' = "pop" /\ held' = LineAt(inq, inq.tail) BY <1>4, <2>3 DEF PopHead
      <3>2. inq.tail \in Unread BY <2>3, Counters DEF Unread
      <3>3. /\ AllHarmless => AllHarmless'
            /\ Ended' <=> Ended
            /\ InRoom' <=> InRoom
            /\ Outside' <=> Outside
        BY <2>1, <2>3, <3>1, <3>2 DEF AllHarmless, Unread, LineAt, Ended, HasLine, InRoom, Outside
      <3> QED BY <2>1, <3>1, <3>3 DEF RoomInv
    <2> QED BY <2>2, <2>3
  <1>5. CASE PopTail
    <2>1. /\ inq \in Queue /\ Fits(inq) /\ HasLine(inq) /\ at1 = inq.tail
          /\ inq' = [inq EXCEPT !.tail = inq.tail + 1] /\ pc1 = "pop" /\ pc1' = "line"
          /\ UNCHANGED <<at1, held, ws, closeReq, state, pending, unheard, stray, cmd>>
          /\ LineAt(inq, at1) = held
      BY <1>5, Counters
         DEF PopTail, LinkInv, NetTypes, TailsOwned, HeldStable, core0, socket, session, requests
    <2>2. /\ inq'.head = inq.head /\ inq'.tail = inq.tail + 1
          /\ \A t \in Nat : LineAt(inq', t) = LineAt(inq, t)
      BY <2>1, PopKeeps
    <2>3. Unread' \subseteq Unread /\ Unread \subseteq Nat BY <2>2, Counters DEF Unread
    <2>4. AllHarmless => AllHarmless' BY <2>1, <2>2, <2>3 DEF AllHarmless
    <2>5. Ended => Ended'
      <3>1. inq.head - 1 \in Nat BY <2>1, Counters
      <3>2. CASE HasLine(inq') BY <2>1, <2>2, <3>1, <3>2 DEF Ended
      <3>3. CASE ~HasLine(inq')
        <4>1. inq.head - 1 = at1 BY <2>1, <2>2, <3>3, Counters DEF HasLine
        <4> QED BY <2>1, <3>3, <4>1 DEF Ended
      <3> QED BY <3>2, <3>3
    <2>6. (InRoom' <=> InRoom) /\ (Outside' <=> Outside) BY <2>1 DEF InRoom, Outside
    <2> QED BY <2>1, <2>4, <2>5, <2>6 DEF RoomInv
  <1>6. CASE HandleLine BY <1>6, HandledRoom
  <1>7. CASE Poll \/ Wait \/ Leave \/ Say
    <2>1. /\ UNCHANGED <<inq, ws, closeReq, state, unheard, stray, cmd>>
          /\ pending' \in {pending, 0} /\ pc1 = "act" /\ pc1' \in {"idle", "leave"}
          /\ pc1' = "leave" => cmd = "leave"
      BY <1>7 DEF Poll, Wait, Leave, Say, queues, requests, core0, socket, session
    <2> QED BY <2>1, NothingTold DEF RoomInv
  <1>8. CASE Open \/ RequestOpen
    <2>1. /\ UNCHANGED <<inq, ws, closeReq, state, pending, unheard, stray, cmd>>
          /\ pc1 \in {"act", "bump"} /\ pc1' \in {"bump", "join"} /\ cmd = "join"
      BY <1>0, <1>8 DEF Open, RequestOpen, queues, requests, core0, socket, session
    <2> QED BY <2>1, NothingTold DEF RoomInv
  <1>9. CASE SendJoin
    <2>1. /\ UNCHANGED <<inq, ws, closeReq, state, unheard, stray, cmd>>
          /\ pc1 = "join" /\ pc1' = "idle" /\ cmd = "join"
      BY <1>0, <1>9 DEF SendJoin, requests, core0, socket
    <2> QED BY <2>1, NothingTold DEF RoomInv
  <1>10. CASE LeaveRoom
    <2>1. /\ UNCHANGED <<inq, ws, pending, unheard, stray, cmd>> /\ cmd = "leave"
          /\ pc1 = "leave" /\ pc1' = "idle" /\ state' = "none"
      BY <1>10 DEF LeaveRoom, queues, core0, socket, LinkInv, Sockets
    <2>2. pending = 0 BY <2>1 DEF RoomInv
    <2> QED BY <2>1, <2>2, NothingTold DEF Outside
  \* Core 0 alone.
  <1>11. ASSUME UNCHANGED <<inq, pc1, at1, held, cmd, state, pending, unheard, stray>>,
                ws' # "open" => ws # "open" \/ closeReq, closeReq' => closeReq
         PROVE  RoomInv'
    <2>1. /\ AllHarmless' <=> AllHarmless
          /\ Ended' <=> Ended
          /\ InRoom' <=> InRoom
          /\ Outside' <=> Outside
      BY <1>11 DEF AllHarmless, Unread, LineAt, Ended, HasLine, InRoom, Outside
    <2>2. Outside => ~InRoom BY DEF Outside, InRoom
    <2> QED BY <1>11, <2>1, <2>2 DEF RoomInv
  <1>12. CASE Upgraded
    <2>1. /\ Fresh
      BY <1>0, <1>12 DEF Upgraded, Connecting
    <2>2. /\ UNCHANGED <<inq, pc1, at1, held, cmd, state, pending, closeReq>> /\ ws' = "open"
      BY <1>12 DEF Upgraded, queues, requests, session
    <2>3. (AllHarmless' <=> AllHarmless) /\ (Outside' <=> Outside)
      BY <2>2 DEF AllHarmless, Unread, LineAt, Outside
    <2> QED BY <2>1, <2>2, <2>3 DEF RoomInv, GivenUp
  <1>13. CASE \/ Resolved \/ Connected \/ EndEvents \/ TimePasses \/ PollFlush
              \/ PollClose \/ SendHead \/ SendTail \/ SendFrame
    BY <1>11, <1>13
       DEF Resolved, Connected, EndEvents, TimePasses, PollFlush, PollClose, CloseSocket, SendHead,
           SendTail, SendFrame, queues, requests, socket, core1, session
  <1>14. CASE ConnectFails
    BY <1>0, <1>14, BadNewsTold DEF ConnectFails, Connecting, CloseSocket, requests, core1, session
  <1>15. CASE HangUp
    <2>1. CASE ws = "open" /\ Tell("link") /\ unheard' = (inq' = inq)
      BY <1>15, <2>1, BadNewsTold DEF HangUp, CloseSocket, requests, core1, session
    <2>2. CASE ws = "handshake" /\ UNCHANGED <<inq, unheard>>
      BY <1>11, <1>15, <2>2 DEF HangUp, requests, core1, session
    <2> QED BY <1>15, <2>1, <2>2 DEF HangUp
  <1>16. CASE RelayAnswers \/ \E op \in Chatter : RelaySpeaks(op)
    <2>1. /\ UNCHANGED <<closeReq, pc1, cmd, state, pending, stray>> /\ ws = "open" /\ ws' = "open"
          /\ first # NoLine
      BY <1>0, <1>16 DEF RelayAnswers, RelaySpeaks, requests, socket, core1, session, NoLine, Msg
    <2>2. ~(cmd = "join" /\ pc1 # "idle") BY <1>0, <2>1
    <2> QED BY <2>1, <2>2 DEF RoomInv, Outside
  <1>17. CASE PollOpen
    <2>1. openReq # openAck => ws = "idle" /\ Clear(inq) = inq
      BY ClearsNothing DEF LinkInv, NetTypes, Sockets, Fresh
    <2> QED BY <1>11, <1>17, <2>1 DEF PollOpen, socket, core1, session
  <1>18. CASE PollTimeout
    <2>1. CASE Connecting /\ late
      BY <1>0, <1>18, <2>1, BadNewsTold
         DEF PollTimeout, Connecting, CloseSocket, requests, core1, session
    <2>2. CASE ~(Connecting /\ late)
      BY <1>11, <1>18, <2>2 DEF PollTimeout, requests, socket, core1, session
    <2> QED BY <2>1, <2>2
  <1> QED
    BY <1>1, <1>2, <1>3, <1>4, <1>5, <1>6, <1>7, <1>8, <1>9, <1>10, <1>12, <1>13, <1>14,
       <1>15, <1>16, <1>17, <1>18 DEF Next, Network, Loop0, Body1

\* A Z80 that believes to be in a room has a socket to it, or a line to read that
\* will tell it otherwise, or a request of its own that is still to be served, in
\* games of any length: unless the line about the end of its link found the queue
\* full, or it has taken in a line of a room it had left.
THEOREM ToldOfTheEnd == ASSUME LastGone PROVE Spec => []NoGhostRoom
  <1>1. Init => LinkInv /\ RoomInv /\ GivenUp
    BY LinkStarts, RoomStarts DEF Init, GivenUp, Outside
  <1>2. LinkInv /\ RoomInv /\ GivenUp /\ [Next]_vars => LinkInv' /\ RoomInv' /\ GivenUp'
    BY LinkKept, RoomKept, GivenUpKept
  <1>3. RoomInv => NoGhostRoom
    BY DEF RoomInv, Ended, NoGhostRoom, InRoom
  <1> QED BY <1>1, <1>2, <1>3, PTL DEF Spec
=============================================================================

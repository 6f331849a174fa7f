------------------------------ MODULE NetRelay ------------------------------
(***************************************************************************)
(* The multiplayer relay link: UnicardNet on core 1 (the Z80's commands)   *)
(* and the WebSocket client of net_relay.cpp on core 0, which share two    *)
(* line queues and a few flags and no lock.  One step is what one core     *)
(* does between two accesses to a word the other core writes.  The lwIP    *)
(* callbacks run inside cyw43_arch_poll() on core 0, never beside its loop.*)
(***************************************************************************)
EXTENDS Integers

CONSTANTS
    QueueLen,   \* NET_QUEUE_LEN
    MaxOpens,   \* bound on the CREATE and JOIN commands
    MaxLines,   \* bound on the lines of a game, either way
    Chatter,    \* the lines the relay sends unasked
    Windows     \* subset of {"reopen", "hangup"}: see below

(***************************************************************************)
(* The runs choose which of the windows known to go wrong they look into:  *)
(*   "reopen"  CREATE or JOIN while the last socket, or a line from it, is *)
(*             still there;                                                *)
(*   "hangup"  the relay closes the connection during the handshake.       *)
(***************************************************************************)
ASSUME NetAssumption ==
    /\ QueueLen \in Nat \ {0}
    /\ MaxOpens \in Nat /\ MaxLines \in Nat
    /\ Chatter \subseteq {"start", "members", "desync", "dropped"}
    /\ Windows \subseteq {"reopen", "hangup"}

-----------------------------------------------------------------------------
VARIABLES
    inq,       \* g_in: relay -> core 1
    out,       \* g_out: core 1 -> relay
    openReq,   \* g_open_req
    openAck,   \* g_open_ack
    closeReq,  \* g_close_req
    \* --- core 0
    pc0, at0,  \* where the loop is, and the line it holds
    ws,        \* g_ws
    late,      \* NET_CONNECT_TIMEOUT_MS have passed since g_started_ms
    first,     \* history: the first line sent over this socket
    answered,  \* history: the relay has answered it
    unheard,   \* history: the line that the last socket is down found g_in full
    \* --- core 1
    pc1, at1, cmd,
    held,      \* history: the line as it was when it was popped, till it is handled
    state,     \* state_, from stINROOM on ("none" below that)
    pending,   \* the open request pending_cmd_ waits for (0 = none)
    answer,    \* pending_done_ and pending_err_
    stray,     \* history: core 1 went into a room it had not asked for
    lines      \* lines of a game so far

queues == <<inq, out>>
requests == <<openReq, openAck, closeReq>>
socket == <<ws, late, first, answered, unheard>>
core0 == <<pc0, at0, socket>>
session == <<state, pending, answer>>
core1 == <<pc1, at1, cmd, held, session, stray>>
vars == <<queues, requests, core0, core1, lines>>

\* A line, tagged with the open request its socket was made for.
Ops == {"join", "leave", "say", "room", "error", "link"} \cup Chatter
Line == [op : Ops, room : 0 .. MaxOpens]
Msg(op, n) == [op |-> op, room |-> n]
NoLine == Msg("error", 0)

States == {"none", "inroom", "spectator", "running", "desync", "dropped"}
Connecting == ws \in {"resolving", "connecting", "handshake"}
\* The open request the present socket serves: ws_start copies g_open_req.
Here == openAck

-----------------------------------------------------------------------------
\* LineQueue: a ring with monotonic counters.

Queue == [head : Nat, tail : Nat, lines : [0 .. QueueLen - 1 -> Line]]
EmptyQueue == [head |-> 0, tail |-> 0, lines |-> [i \in 0 .. QueueLen - 1 |-> NoLine]]

\* Mutant: the producer's ring is one line shorter than the consumer's.
PushShortRing(q, l) ==
    IF q.head - q.tail >= QueueLen THEN q
    ELSE [q EXCEPT !.head = @ + 1, !.lines[q.head % (QueueLen - 1)] = l]

\* A line that does not fit is dropped: no caller but cmdSEND looks.
Push(q, l) ==
    IF q.head - q.tail >= QueueLen THEN q
    ELSE [q EXCEPT !.head = @ + 1, !.lines[q.head % QueueLen] = l]

LineAt(q, t) == q.lines[t % QueueLen]

HasLine(q) == q.head # q.tail

\* Run by the producer, although tail is the consumer's.
Clear(q) == [q EXCEPT !.tail = q.head]

-----------------------------------------------------------------------------
Init ==
    /\ inq = EmptyQueue /\ out = EmptyQueue
    /\ openReq = 0 /\ openAck = 0 /\ closeReq = FALSE
    /\ pc0 = "events" /\ at0 = 0
    /\ ws = "idle" /\ late = FALSE /\ first = NoLine /\ answered = FALSE /\ unheard = FALSE
    /\ pc1 = "idle" /\ at1 = 0 /\ cmd = "poll" /\ held = NoLine
    /\ state = "none" /\ pending = 0 /\ answer = "none"
    /\ stray = FALSE /\ lines = 0

-----------------------------------------------------------------------------
\* Core 1: the commands of the Unicard's NET extension.

\* Nothing of the last socket is left.
Quiet == /\ ws = "idle"
         /\ openReq = openAck
         /\ ~closeReq
         /\ ~HasLine(inq)

Orderly == Quiet \/ "reopen" \in Windows

\* While a CREATE or JOIN is pending the Unicard refuses every command, and
\* each access to its ports polls for the answer.
Command(c) ==
    /\ pc1 = "idle"
    /\ c = "wait" <=> pending # 0
    /\ c = "join" => Orderly /\ openReq < MaxOpens
    /\ pc1' = "pump"
    /\ cmd' = c
    /\ UNCHANGED <<queues, requests, core0, at1, held, session, stray, lines>>

\* pump(): pop() reads head and tail ...
PopHead ==
    /\ pc1 = "pump"
    /\ IF HasLine(inq)
       THEN /\ pc1' = "pop"
            /\ at1' = inq.tail
            /\ held' = LineAt(inq, inq.tail)
       ELSE pc1' = "act" /\ UNCHANGED <<at1, held>>
    /\ UNCHANGED <<queues, requests, core0, cmd, session, stray, lines>>

\* ... moves the tail on ...
PopTail ==
    /\ pc1 = "pop"
    /\ inq' = [inq EXCEPT !.tail = at1 + 1]
    /\ pc1' = "line"
    /\ UNCHANGED <<out, requests, core0, at1, cmd, held, session, stray, lines>>

Answer(a) == answer' = IF pending # 0 THEN a ELSE answer

\* What handleLine can make of the slot it has a pointer to: if the relay has
\* filled the ring behind it, the line that was there, the one that is being
\* copied over it, or letters of both, which are no operation at all.
Read(op) == \/ op = LineAt(inq, at1).op
            \/ LineAt(inq, at1) # held /\ op \in {held.op, "garbled"}

\* ... and hands out a pointer into the ring: handleLine.
HandleLine ==
    /\ pc1 = "line"
    /\ \E op \in Ops \cup {"garbled"} : Read(op) /\
       \/ /\ op = "room"
          /\ state' \in {"inroom", "spectator"}
          /\ Answer("ok")
       \/ /\ op = "start"
          /\ state' = IF state = "spectator" THEN state ELSE "running"
          /\ UNCHANGED answer
       \/ /\ op \in {"desync", "dropped"}
          /\ state' = op
          /\ UNCHANGED answer
       \/ /\ op = "link"
          /\ state' = IF state = "none" THEN state ELSE "dropped"
          /\ Answer("error")
       \/ /\ op = "error"
          /\ UNCHANGED state
          /\ Answer("error")
       \/ /\ op \in {"members", "garbled"}
          /\ UNCHANGED <<state, answer>>
    /\ stray' = (stray \/ (state = "none" /\ pending = 0 /\ state' # "none"))
    /\ held' = NoLine
    /\ pc1' = "pump"
    /\ UNCHANGED <<queues, requests, core0, at1, cmd, pending, lines>>

\* cmdSTATUS, cmdPOLL, cmdRECV: nothing beyond the pump.
Poll ==
    /\ pc1 = "act"
    /\ cmd = "poll"
    /\ pc1' = "idle"
    /\ UNCHANGED <<queues, requests, core0, at1, cmd, held, session, stray, lines>>

\* asyncPoll, from the Unicard's finishAsync.
Wait ==
    /\ pc1 = "act"
    /\ cmd = "wait"
    /\ pending' = IF answer = "none" THEN pending ELSE 0
    /\ answer' = "none"
    /\ pc1' = "idle"
    /\ UNCHANGED <<queues, requests, core0, at1, cmd, held, state, stray, lines>>

\* Mutant: what an earlier room left in the queue is not cleared.
OpenUncleared ==
    /\ pc1 = "act"
    /\ cmd = "join"
    /\ pc1' = "bump"
    /\ UNCHANGED <<queues, requests, core0, at1, cmd, held, session, stray, lines>>

\* cmdCREATE and cmdJOIN: net_relay_open, ...
Open ==
    /\ pc1 = "act"
    /\ cmd = "join"
    /\ out' = Clear(out)
    /\ pc1' = "bump"
    /\ UNCHANGED <<inq, requests, core0, at1, cmd, held, session, stray, lines>>

RequestOpen ==
    /\ pc1 = "bump"
    /\ openReq' = openReq + 1
    /\ pc1' = "join"
    /\ UNCHANGED <<queues, openAck, closeReq, core0, at1, cmd, held, session, stray, lines>>

\* ... the create or join line, and the wait for the room.
SendJoin ==
    /\ pc1 = "join"
    /\ out' = Push(out, Msg("join", openReq))
    /\ pending' = openReq
    /\ answer' = "none"
    /\ pc1' = "idle"
    /\ UNCHANGED <<inq, requests, core0, at1, cmd, held, state, stray, lines>>

\* cmdLEAVE, refused outside a room.
Leave ==
    /\ pc1 = "act"
    /\ cmd = "leave"
    /\ IF state = "none"
       THEN pc1' = "idle" /\ UNCHANGED out
       ELSE pc1' = "leave" /\ out' = Push(out, Msg("leave", openReq))
    /\ UNCHANGED <<inq, requests, core0, at1, cmd, held, session, stray, lines>>

LeaveRoom ==
    /\ pc1 = "leave"
    /\ closeReq' = TRUE
    /\ state' = "none"
    /\ pc1' = "idle"
    /\ UNCHANGED <<queues, openReq, openAck, core0, at1, cmd, held, pending, answer, stray, lines>>

\* cmdREADY, cmdSEND, cmdHASH, cmdMSG.
Say ==
    /\ pc1 = "act"
    /\ cmd = "say"
    /\ IF state = "none" \/ lines = MaxLines
       THEN UNCHANGED <<out, lines>>
       ELSE out' = Push(out, Msg("say", openReq)) /\ lines' = lines + 1
    /\ pc1' = "idle"
    /\ UNCHANGED <<inq, requests, core0, at1, cmd, held, session, stray>>

\* UnicardNet::reset, from a Z80 reset or cmdRESET.
Reset ==
    /\ pc1 = "idle"
    /\ closeReq' = TRUE
    /\ state' = "none"
    /\ pending' = 0
    /\ answer' = "none"
    /\ UNCHANGED <<queues, openReq, openAck, core0, pc1, at1, cmd, held, stray, lines>>

-----------------------------------------------------------------------------
\* Core 0: ws_reset, and what it tells core 1.

CloseSocket == /\ ws' = "idle"
               /\ late' = FALSE
               /\ first' = NoLine
               /\ answered' = FALSE

Tell(op) == inq' = Push(inq, Msg(op, Here))

\* The network, as the callbacks of the socket see it.

Resolved ==
    /\ pc0 = "events"
    /\ ws = "resolving"
    /\ ws' = "connecting"
    /\ UNCHANGED <<queues, requests, pc0, at0, late, first, answered, unheard, core1, lines>>

Connected ==
    /\ pc0 = "events"
    /\ ws = "connecting"
    /\ ws' = "handshake"
    /\ UNCHANGED <<queues, requests, pc0, at0, late, first, answered, unheard, core1, lines>>

\* "101": ws_flush_out follows at once.
Upgraded ==
    /\ pc0 = "events"
    /\ ws = "handshake"
    /\ ws' = "open"
    /\ pc0' = "send"
    /\ unheard' = FALSE /\ stray' = FALSE
    /\ UNCHANGED <<queues, requests, at0, late, first, answered, pc1, at1, cmd, held, session, lines>>

\* dns failed, ws_err, or a reply that is not "101".
ConnectFails ==
    /\ pc0 = "events"
    /\ Connecting
    /\ CloseSocket
    /\ Tell("error")
    /\ UNCHANGED <<out, requests, pc0, at0, unheard, core1, lines>>

\* Mutant: core 1 is not told that the link is down.
SilentHangUp ==
    /\ pc0 = "events"
    /\ ws = "open"
    /\ CloseSocket
    /\ UNCHANGED <<queues, requests, pc0, at0, unheard, core1, lines>>

\* ws_recv without data: the other side has closed.
HangUp ==
    /\ pc0 = "events"
    /\ \/ ws = "open" /\ Tell("link") /\ unheard' = (inq' = inq)
       \/ ws = "handshake" /\ "hangup" \in Windows /\ UNCHANGED <<inq, unheard>>
    /\ CloseSocket
    /\ UNCHANGED <<out, requests, pc0, at0, core1, lines>>

\* The answer to create or join.
RelayAnswers ==
    /\ pc0 = "events"
    /\ ws = "open"
    /\ first.op = "join" /\ ~answered
    /\ Tell("room") \/ Tell("error")
    /\ answered' = TRUE
    /\ UNCHANGED <<out, requests, pc0, at0, ws, late, first, unheard, core1, lines>>

\* The traffic of a room.
RelaySpeaks(op) ==
    /\ pc0 = "events"
    /\ ws = "open"
    /\ answered
    /\ lines < MaxLines
    /\ Tell(op)
    /\ lines' = lines + 1
    /\ UNCHANGED <<out, requests, pc0, at0, socket, core1>>

-----------------------------------------------------------------------------
\* Core 0: net_relay_poll.

EndEvents ==
    /\ pc0 = "events"
    /\ pc0' = "open"
    /\ UNCHANGED <<queues, requests, at0, socket, core1, lines>>

\* ws_start closes what is open, and clears g_in.
PollOpen ==
    /\ pc0 = "open"
    /\ pc0' = "close"
    /\ IF openReq # openAck
       THEN /\ openAck' = openReq
            /\ inq' = Clear(inq)
            /\ ws' = "resolving"
            /\ late' = FALSE /\ first' = NoLine /\ answered' = FALSE
            /\ UNCHANGED unheard
       ELSE UNCHANGED <<openAck, inq, socket>>
    /\ UNCHANGED <<out, openReq, closeReq, at0, core1, lines>>

PollClose ==
    /\ pc0 = "close"
    /\ pc0' = "timeout"
    /\ IF closeReq THEN closeReq' = FALSE /\ CloseSocket /\ UNCHANGED unheard
                   ELSE UNCHANGED <<closeReq, socket>>
    /\ UNCHANGED <<queues, openReq, openAck, at0, core1, lines>>

\* The clock: NET_CONNECT_TIMEOUT_MS go by before the socket is open.
TimePasses ==
    /\ Connecting
    /\ ~late
    /\ late' = TRUE
    /\ UNCHANGED <<queues, requests, pc0, at0, ws, first, answered, unheard, core1, lines>>

\* Mutant: a timeout that core 1 does not hear of.
SilentTimeout ==
    /\ pc0 = "timeout"
    /\ pc0' = "flush"
    /\ IF Connecting /\ late THEN CloseSocket /\ UNCHANGED unheard ELSE UNCHANGED socket
    /\ UNCHANGED <<queues, requests, at0, core1, lines>>

PollTimeout ==
    /\ pc0 = "timeout"
    /\ pc0' = "flush"
    /\ IF Connecting /\ late THEN CloseSocket /\ Tell("error") /\ UNCHANGED unheard
                             ELSE UNCHANGED <<socket, inq>>
    /\ UNCHANGED <<out, requests, at0, core1, lines>>

PollFlush ==
    /\ pc0 = "flush"
    /\ pc0' = IF ws = "open" /\ HasLine(out) THEN "send" ELSE "events"
    /\ UNCHANGED <<queues, requests, at0, socket, core1, lines>>

\* ws_flush_out: pop() again, and a frame for the line it hands out.
SendHead ==
    /\ pc0 = "send"
    /\ IF HasLine(out)
       THEN pc0' = "pop" /\ at0' = out.tail
       ELSE pc0' = "events" /\ UNCHANGED at0
    /\ UNCHANGED <<queues, requests, socket, core1, lines>>

SendTail ==
    /\ pc0 = "pop"
    /\ out' = [out EXCEPT !.tail = at0 + 1]
    /\ pc0' = "frame"
    /\ UNCHANGED <<inq, requests, at0, socket, core1, lines>>

\* If tcp_write has no room for the header the line is gone, and nothing says
\* so.  One whose body finds no room counts as sent here: the relay is not made
\* to answer, and cannot answer that one.
SendFrame ==
    /\ pc0 = "frame"
    /\ first' \in {first, IF first = NoLine THEN LineAt(out, at0) ELSE first}
    /\ pc0' = "send"
    /\ UNCHANGED <<queues, requests, at0, ws, late, answered, unheard, core1, lines>>

-----------------------------------------------------------------------------
Network == \/ Resolved \/ Connected \/ Upgraded \/ ConnectFails \/ HangUp
           \/ RelayAnswers
           \/ \E op \in Chatter : RelaySpeaks(op)

Loop0 == \/ EndEvents \/ PollOpen \/ PollClose \/ PollTimeout \/ PollFlush
         \/ SendHead \/ SendTail \/ SendFrame

Body1 == \/ PopHead \/ PopTail \/ HandleLine \/ Poll \/ Wait
         \/ Open \/ RequestOpen \/ SendJoin \/ Leave \/ LeaveRoom \/ Say

Next == \/ Network \/ Loop0 \/ TimePasses
        \/ Body1 \/ Reset
        \/ \E c \in {"poll", "join", "leave", "say", "wait"} : Command(c)

Spec == Init /\ [][Next]_vars

\* Both cores run, the clock ticks, and a program that waits for an answer reads
\* the status port.  Nothing is asked of the network or the relay.
FairSpec == /\ Spec
            /\ WF_vars(Loop0) /\ WF_vars(Body1) /\ WF_vars(TimePasses)
            /\ WF_vars(Command("wait"))

-----------------------------------------------------------------------------
TypeOK ==
    /\ inq \in Queue /\ out \in Queue
    /\ \A q \in {inq, out} : q.tail <= q.head /\ q.head - q.tail <= QueueLen
    /\ openReq \in 0 .. MaxOpens /\ openAck \in 0 .. openReq
    /\ closeReq \in BOOLEAN
    /\ pc0 \in {"events", "open", "close", "timeout", "flush", "send", "pop", "frame"}
    /\ ws \in {"idle", "resolving", "connecting", "handshake", "open"}
    /\ late \in BOOLEAN /\ answered \in BOOLEAN /\ unheard \in BOOLEAN
    /\ first \in Line /\ held \in Line
    /\ pc1 \in {"idle", "pump", "pop", "line", "act", "bump", "join", "leave"}
    /\ at0 \in Nat /\ at1 \in Nat
    /\ cmd \in {"poll", "join", "leave", "say", "wait"}
    /\ state \in States
    /\ pending \in 0 .. openReq
    /\ answer \in {"none", "ok", "error"}
    /\ stray \in BOOLEAN /\ lines \in 0 .. MaxLines

\* pop() gives the slot back before its line is read.  Still the queues, indexed
\* by monotonic counters, never cross, no line is read twice, and a popped line
\* stays what it was until the relay has filled the whole ring behind it and
\* copies into its slot.  The types are part of it.
PoppedLineStable == pc1 = "line" /\ inq.head - at1 <= QueueLen => LineAt(inq, at1) = held
QueuesInStep ==
    [][TypeOK' /\ PoppedLineStable' /\ inq'.tail >= inq.tail /\ out'.tail >= out.tail]_vars

\* The first message over a socket is the create or join it was opened for: if
\* that one is lost nothing else goes out in its place.
FirstLineJoins == first # NoLine => first = Msg("join", Here)

\* Once all is quiet, a Z80 that believes to be in a room has a socket to it.
\* Two things only can deceive it: the line that the link is down found g_in full
\* (ws_reset does not look at what push() returns), or a line of a room it had
\* left was still to be read (nothing in handleLine asks whether it is in one).
NoGhostRoom ==
    state \in {"inroom", "spectator", "running", "desync"} =>
        \/ ws = "open" \/ HasLine(inq) \/ closeReq \/ openReq # openAck
        \/ pc1 # "idle"
        \/ unheard \/ stray

\* A CREATE or JOIN whose socket is being set up is answered with an error, or
\* the socket opens.  (From then on nothing in the code limits its wait.)
ConnectAnswered ==
    (pending # 0 /\ (Connecting \/ openReq # openAck)) ~> (pending = 0 \/ ws = "open")
=============================================================================

------------------------------ MODULE Gateway ------------------------------
(***************************************************************************)
(* proxy.Gateway: one exchange, from the node that Pick returned to the    *)
(* end of its handler.  The handler dials the node, waits for its answer   *)
(* and serves the client: a CONNECT by two goroutines that copy in         *)
(* opposite directions, any other request by copying one response.  What   *)
(* comes before and after is in Selector, ConnSlots and Usage.             *)
(* A connection is a pair of queues of segments; time is counted in ticks, *)
(* which pass only when no goroutine can move.                             *)
(***************************************************************************)
EXTENDS Naturals, Sequences

CONSTANTS
    Kinds,      \* kinds of nodes that are dialled
    IdleTO,     \* ticks of proxy_idle_timeout_seconds, 0 for no timeout
    MaxSent,    \* segments that each peer sends
    Window      \* segments that a peer lets wait unread

ASSUME GatewayAssumption ==
    /\ Kinds \subseteq {"proxy", "direct", "header"}
    /\ {IdleTO, MaxSent} \subseteq Nat /\ Window \in Nat \ {0}

VARIABLES
    mode,       \* "connect" or "http"
    kind,       \* the node: a proxy, a target dialler with a header or without
    sized,      \* the request has a Content-Length
    pc,         \* the handler
    copier,     \* its goroutines, by direction
    open,       \* the gateway's end of its two connections
    sent,       \* segments that the peers have sent
    fin, gone,  \* peers that send nothing more, and that have left
    toGate,     \* what waits to be read by the gateway
    fromGate,   \* what waits to be read by a peer
    got,        \* what the peers have read
    answer,     \* what the node has said before its data
    bill,       \* the arguments of RecordTraffic
    ended,      \* history: how the exchange ended
    dropped     \* history: peers whose first segments went into a buffer that was dropped

request == <<mode, kind, sized>>
peers == <<sent, fin, gone, answer>>
queues == <<toGate, fromGate, got>>
vars == <<request, pc, copier, open, peers, queues, bill, ended, dropped>>

-----------------------------------------------------------------------------
Conns == {"client", "target"}
Directions == {"up", "down"}
Source(d) == IF d = "up" THEN "client" ELSE "target"
Sink(d) == IF d = "up" THEN "target" ELSE "client"
Other(d) == IF d = "up" THEN "down" ELSE "up"

(* IsTargetDialProtocol: socks, vless and vmess read an answer, ss and     *)
(* trojan do not.                                                          *)
TargetDial == kind # "proxy"

Stopped == [pc |-> "off", seg |-> 0, count |-> 0, waited |-> 0]
CopierSteps == {"off", "read", "write", "close", "done"}
HandlerSteps == {"start", "dial", "greet", "await", "respond", "tunnel", "send", "head", "body", "end"}

Init ==
    /\ mode \in {"connect", "http"} /\ kind \in Kinds /\ sized \in BOOLEAN
    /\ (mode = "connect" => sized)
    /\ pc = "start"
    /\ copier = [d \in Directions |-> Stopped]
    /\ open = [c \in Conns |-> c = "client"]
    /\ sent = [c \in Conns |-> 0]
    /\ fin = [c \in Conns |-> FALSE] /\ gone = [c \in Conns |-> FALSE]
    /\ toGate = [c \in Conns |-> <<>>] /\ fromGate = [c \in Conns |-> <<>>]
    /\ got = [c \in Conns |-> <<>>]
    /\ answer = "none"
    /\ bill = <<>> /\ ended = "no" /\ dropped = {}

Goto(step) == pc' = step
Become(d, x) == copier' = [copier EXCEPT ![d] = x]
Quiet == UNCHANGED <<request, peers, bill, ended, dropped>>

-----------------------------------------------------------------------------
(* The peers.  They may stop at any point, and need not read.              *)
TargetSpeaks ==
    IF mode = "http" THEN pc \in {"head", "body"} /\ answer = "ok"
    ELSE answer = "ok" \/ (kind = "direct" /\ pc \in {"respond", "tunnel"})

Send(c) ==
    /\ sent[c] < MaxSent /\ ~fin[c] /\ open[c] /\ pc # "end"
    /\ Len(toGate[c]) < Window
    /\ c = "target" => TargetSpeaks
    /\ sent' = [sent EXCEPT ![c] = @ + 1]
    /\ toGate' = [toGate EXCEPT ![c] = Append(@, sent'[c])]
    /\ UNCHANGED <<request, pc, copier, open, fin, gone, answer, fromGate, got, bill, ended, dropped>>

Finish(c) ==
    /\ ~fin[c] /\ open[c]
    /\ fin' = [fin EXCEPT ![c] = TRUE]
    /\ UNCHANGED <<request, pc, copier, open, sent, gone, answer, queues, bill, ended, dropped>>

Leave(c) ==
    /\ ~gone[c] /\ open[c]
    /\ fin' = [fin EXCEPT ![c] = TRUE] /\ gone' = [gone EXCEPT ![c] = TRUE]
    /\ fromGate' = [fromGate EXCEPT ![c] = <<>>]
    /\ UNCHANGED <<request, pc, copier, open, sent, answer, toGate, got, bill, ended, dropped>>

Receive(c) ==
    /\ fromGate[c] # <<>>
    /\ got' = [got EXCEPT ![c] = Append(@, Head(fromGate[c]))]
    /\ fromGate' = [fromGate EXCEPT ![c] = Tail(@)]
    /\ UNCHANGED <<request, pc, copier, open, peers, toGate, bill, ended, dropped>>

(* The answer to CONNECT, or of a target dialler, or the head of a         *)
(* response.                                                               *)
Answer ==
    /\ answer = "none" /\ ~fin["target"] /\ open["target"]
    /\ pc \in {"await", "head"}
    /\ answer' \in {"ok", "no"}
    /\ UNCHANGED <<request, pc, copier, open, sent, fin, gone, queues, bill, ended, dropped>>

-----------------------------------------------------------------------------
(* The handler: dial the node and wait for its answer.  An exchange that   *)
(* ends before a tunnel, or without one, closes the node, and the client   *)
(* of a CONNECT; after another request net/http keeps the client.          *)
End(how) ==
    /\ Goto("end") /\ ended' = how
    /\ open' = [c \in Conns |-> c = "client" /\ mode = "http"]
    /\ UNCHANGED <<request, copier, peers, queues, dropped>>

(* An error goes to the client as 502.                                     *)
Give502 == End("failed") /\ UNCHANGED bill

(* A read through a buffer that is dropped loses what it read ahead.       *)
DropBuffered(c) ==
    \E n \in 0..Len(toGate[c]) :
        /\ toGate' = [toGate EXCEPT ![c] = SubSeq(@, n + 1, Len(@))]
        /\ dropped' = IF n = 0 THEN dropped ELSE dropped \cup {c}
        /\ UNCHANGED <<fromGate, got>>

(* Hijack returns the connection and the buffer of the server.             *)
Hijack ==
    /\ pc = "start" /\ mode = "connect"
    /\ Goto("dial")
    /\ DropBuffered("client")
    /\ UNCHANGED <<request, copier, open, peers, bill, ended>>

Prepare ==
    /\ pc = "start" /\ mode = "http"
    /\ Goto("dial")
    /\ UNCHANGED <<copier, open, queues>> /\ Quiet

Dial ==
    /\ pc = "dial"
    /\ open' = [open EXCEPT !["target"] = TRUE]
    /\ Goto(IF mode = "http" /\ ~TargetDial THEN "send" ELSE "greet")
    /\ UNCHANGED <<copier, queues>> /\ Quiet

(* No credentials, no address, a handshake that fails, or the timeout.     *)
DialFails == pc = "dial" /\ Give502

(* Mistake: the goroutines start before the node has answered.             *)
FaultyGreet ==
    /\ pc = "greet"
    /\ Goto(IF kind # "direct" THEN "await" ELSE IF mode = "http" THEN "send" ELSE "respond")
    /\ copier' = [d \in Directions |-> [Stopped EXCEPT !.pc = "read"]]
    /\ UNCHANGED <<open, queues>> /\ Quiet

(* CONNECT, or the frame of the protocol with the address of the target.   *)
Greet ==
    /\ pc = "greet"
    /\ Goto(IF kind # "direct" THEN "await" ELSE IF mode = "http" THEN "send" ELSE "respond")
    /\ UNCHANGED <<copier, open, queues>> /\ Quiet

GreetFails == pc = "greet" /\ gone["target"] /\ Give502

(* establishTunnel reads through a buffer, the target diallers read what   *)
(* is theirs.                                                              *)
Established ==
    /\ pc = "await" /\ answer = "ok"
    /\ Goto(IF mode = "http" THEN "send" ELSE "respond")
    /\ IF kind = "proxy" THEN DropBuffered("target") ELSE UNCHANGED <<queues, dropped>>
    /\ answer' = IF mode = "http" THEN "none" ELSE answer
    /\ UNCHANGED <<request, copier, open, sent, fin, gone, bill, ended>>

(* Mistake: the connection of a node that refuses is left open.            *)
FaultyRefused ==
    /\ pc = "await" /\ (answer = "no" \/ (fin["target"] /\ answer = "none"))
    /\ Goto("end") /\ ended' = "failed"
    /\ open' = [open EXCEPT !["client"] = FALSE]
    /\ UNCHANGED <<request, copier, peers, queues, bill, dropped>>

(* Mistake: a node that refuses is tried again.                            *)
FaultyRetry ==
    /\ pc = "await" /\ (answer = "no" \/ (fin["target"] /\ answer = "none"))
    /\ Goto("dial")
    /\ UNCHANGED <<copier, open, queues>> /\ Quiet

Refused ==
    /\ pc = "await" /\ (answer = "no" \/ (fin["target"] /\ answer = "none"))
    /\ Give502

(* Mistake: the deadline is cleared before the answer is read.             *)
FaultyConnectTimeout == FALSE

(* SetDeadline(connectTO); the target diallers set none.                   *)
ConnectTimeout ==
    /\ pc = "await" /\ kind = "proxy" /\ answer = "none"
    /\ Give502

-----------------------------------------------------------------------------
(* CONNECT: the 200, then a goroutine for each direction.                  *)
Respond ==
    /\ pc = "respond"
    /\ Goto("tunnel")
    /\ copier' = [d \in Directions |-> [Stopped EXCEPT !.pc = "read"]]
    /\ UNCHANGED <<open, queues>> /\ Quiet

CopyRead(d) ==
    LET c == Source(d) IN
    /\ copier[d].pc = "read" /\ open[c] /\ toGate[c] # <<>>
    /\ Become(d, [copier[d] EXCEPT !.pc = "write", !.seg = Head(toGate[c]), !.waited = 0])
    /\ toGate' = [toGate EXCEPT ![c] = Tail(@)]
    /\ UNCHANGED <<pc, open, fromGate, got>> /\ Quiet

(* Mistake: what the peer has no room for is dropped.                      *)
FaultyCopyWrite(d) ==
    LET c == Sink(d) IN
    /\ copier[d].pc = "write" /\ open[c] /\ ~gone[c]
    /\ fromGate' = [fromGate EXCEPT ![c] = IF Len(@) < Window THEN Append(@, copier[d].seg) ELSE @]
    /\ Become(d, [copier[d] EXCEPT !.pc = "read", !.count = @ + 1, !.waited = 0])
    /\ UNCHANGED <<pc, open, toGate, got>> /\ Quiet

CopyWrite(d) ==
    LET c == Sink(d) IN
    /\ copier[d].pc = "write" /\ open[c] /\ ~gone[c] /\ Len(fromGate[c]) < Window
    /\ fromGate' = [fromGate EXCEPT ![c] = Append(@, copier[d].seg)]
    /\ Become(d, [copier[d] EXCEPT !.pc = "read", !.count = @ + 1, !.waited = 0])
    /\ UNCHANGED <<pc, open, toGate, got>> /\ Quiet

CopyStop(d) ==
    /\ Become(d, [copier[d] EXCEPT !.pc = "close"])
    /\ UNCHANGED <<pc, open, queues>> /\ Quiet

(* The end of the stream, a connection that is closed, or a deadline.      *)
CopyEnds(d) ==
    LET in == Source(d)
        out == Sink(d) IN
    /\ \/ copier[d].pc = "read" /\ (~open[in] \/ gone[in] \/ (fin[in] /\ toGate[in] = <<>>))
       \/ copier[d].pc = "write" /\ (~open[out] \/ gone[out])
    /\ CopyStop(d)

CopyTimeout(d) ==
    /\ copier[d].pc \in {"read", "write"}
    /\ IdleTO > 0 /\ copier[d].waited = IdleTO
    /\ CopyStop(d)

(* The sink is closed in both directions: the other goroutine ends too.    *)
CopyClose(d) ==
    /\ copier[d].pc = "close"
    /\ Become(d, [copier[d] EXCEPT !.pc = "done"])
    /\ open' = [open EXCEPT ![Sink(d)] = FALSE]
    /\ UNCHANGED <<pc, queues>> /\ Quiet

(* Mistake: the handler waits for one of its goroutines only.              *)
FaultyRecordTunnel ==
    /\ pc = "tunnel" /\ \E d \in Directions : copier[d].pc = "done"
    /\ bill' = <<[up |-> copier["up"].count, down |-> copier["down"].count]>>
    /\ Goto("end") /\ ended' = "served"
    /\ open' = [open EXCEPT !["client"] = FALSE]
    /\ UNCHANGED <<request, copier, peers, queues, dropped>>

(* RecordTraffic with a context of its own, and the deferred Close of the  *)
(* client; nothing but a goroutine closes the node of a tunnel.            *)
RecordTunnel ==
    /\ pc = "tunnel" /\ \A d \in Directions : copier[d].pc = "done"
    /\ bill' = <<[up |-> copier["up"].count, down |-> copier["down"].count]>>
    /\ Goto("end") /\ ended' = "served"
    /\ open' = [open EXCEPT !["client"] = FALSE]
    /\ UNCHANGED <<request, copier, peers, queues, dropped>>

-----------------------------------------------------------------------------
(* Any other request: it is read to its end, written, and its response     *)
(* copied by the handler itself.                                           *)
SendRequest ==
    /\ pc = "send" /\ fin["client"]
    /\ toGate' = [toGate EXCEPT !["client"] = <<>>]
    /\ fromGate' = [fromGate EXCEPT !["target"] = IF gone["target"] THEN <<>> ELSE toGate["client"]]
    /\ copier' = [copier EXCEPT !["up"].count = Len(toGate["client"])]
    /\ Goto("head")
    /\ UNCHANGED <<open, got>> /\ Quiet

(* A peer has left, or the deadline of a write to a target that does not   *)
(* read is over.                                                           *)
SendFails ==
    /\ pc = "send"
    /\ gone["client"] \/ gone["target"] \/ (fin["client"] /\ (~TargetDial \/ IdleTO > 0))
    /\ Give502

ReadHead ==
    /\ pc = "head" /\ answer = "ok"
    /\ Goto("body")
    /\ copier' = [copier EXCEPT !["down"].pc = "read", !["down"].waited = 0]
    /\ UNCHANGED <<open, queues>> /\ Quiet

(* respHdrTO for a proxy, the idle timeout for a target dialler.           *)
HeadFails ==
    /\ pc = "head" /\ answer # "ok"
    /\ answer = "no" \/ fin["target"] \/ ~TargetDial \/ IdleTO > 0
    /\ Give502

(* RecordTraffic with the context of the request, which is cancelled when  *)
(* the client leaves.  Content-Length is -1 for a body of unknown length.  *)
RecordResponse ==
    /\ pc = "body" /\ copier["down"].pc = "close"
    /\ \/ bill' = <<[up |-> IF sized THEN copier["up"].count ELSE 0, down |-> copier["down"].count]>>
       \/ gone["client"] /\ UNCHANGED bill
    /\ End("served")

-----------------------------------------------------------------------------
Handler ==
    \/ Hijack \/ Prepare \/ Dial \/ DialFails \/ Greet \/ GreetFails
    \/ Established \/ Refused \/ ConnectTimeout \/ Respond \/ RecordTunnel
    \/ SendRequest \/ SendFails \/ ReadHead \/ HeadFails \/ RecordResponse

CopyStep(d) ==
    CopyRead(d) \/ CopyWrite(d) \/ CopyEnds(d) \/ CopyTimeout(d) \/ (pc = "tunnel" /\ CopyClose(d))

Peer == Answer \/ \E c \in Conns : Send(c) \/ Finish(c) \/ Leave(c) \/ Receive(c)

(* A goroutine that waits for a peer, and under which deadline.            *)
Blocked(d) ==
    LET in == Source(d)
        out == Sink(d)
        x == copier[d] IN
    \/ x.pc = "read" /\ open[in] /\ toGate[in] = <<>> /\ ~fin[in]
    \/ x.pc = "write" /\ open[out] /\ ~gone[out] /\ Len(fromGate[out]) = Window

(* net/http writes a response without a deadline.                          *)
Timed(d) == ~(mode = "http" /\ copier[d].pc = "write")

Tick ==
    /\ IdleTO > 0
    /\ \A d \in Directions :
          copier[d].pc \in {"off", "done"} \/ (Blocked(d) /\ (copier[d].waited < IdleTO \/ ~Timed(d)))
    /\ \E d \in Directions : Blocked(d) /\ Timed(d)
    /\ copier' = [d \in Directions |->
          IF Blocked(d) /\ Timed(d) THEN [copier[d] EXCEPT !.waited = @ + 1] ELSE copier[d]]
    /\ UNCHANGED <<pc, open, queues>> /\ Quiet

Next == Handler \/ Peer \/ Tick \/ \E d \in Directions : CopyStep(d)

Spec == Init /\ [][Next]_vars

(* Goroutines are scheduled and deadlines expire; a peer owes nothing.     *)
FairSpec == Spec /\ WF_vars(Handler \/ Tick) /\ \A d \in Directions : WF_vars(CopyStep(d))

-----------------------------------------------------------------------------
Segments == 1..MaxSent
Bills == [up : Nat, down : Nat]

(* Types, and that nothing is copied before the node has answered.         *)
TypeOK ==
    /\ mode \in {"connect", "http"} /\ kind \in {"proxy", "direct", "header"} /\ sized \in BOOLEAN
    /\ pc \in HandlerSteps
    /\ copier \in [Directions -> [pc : CopierSteps, seg : Segments \cup {0}, count : Nat, waited : 0..IdleTO]]
    /\ pc # "tunnel" /\ mode = "connect" /\ ended # "served" => copier = [d \in Directions |-> Stopped]
    /\ open \in [Conns -> BOOLEAN]
    /\ sent \in [Conns -> 0..MaxSent] /\ fin \in [Conns -> BOOLEAN] /\ gone \in [Conns -> BOOLEAN]
    /\ \A queue \in {toGate, fromGate, got} : queue \in [Conns -> Seq(Segments)]
    /\ answer \in {"none", "ok", "no"}
    /\ bill \in Seq(Bills) /\ Len(bill) <= 1
    /\ ended \in {"no", "failed", "served"} /\ dropped \subseteq Conns

(* What a peer has received is the beginning of what the other one sent,   *)
(* without a gap, unless the first segments of it went into a buffer that  *)
(* Hijack or establishTunnel drops.                                        *)
StreamsIntact ==
    \A d \in Directions :
        Source(d) \in dropped
        \/ got[Sink(d)] \o fromGate[Sink(d)] = [i \in 1..Len(got[Sink(d)] \o fromGate[Sink(d)]) |-> i]

(* When the handler is done both connections are closed, whichever step    *)
(* failed, and none of its goroutines is left.                             *)
NothingLeftBehind ==
    pc = "end" =>
        /\ ~open["target"] /\ (mode = "connect" => ~open["client"])
        /\ mode = "connect" => \A d \in Directions : copier[d].pc \in {"off", "done"}

(* All that passed is on the bill, also what is still on its way when the  *)
(* exchange ends, and nothing that did not: of a request without a length  *)
(* the upload is not counted, and nothing of one whose client has left.    *)
Passed(d) == Len(got[Sink(d)]) + Len(fromGate[Sink(d)])
NothingFree ==
    /\ ended # "served" => bill = <<>>
    /\ ended = "served" /\ bill = <<>> => mode = "http" /\ gone["client"]
    /\ bill # <<>> => \A d \in Directions :
          /\ Passed(d) <= bill[1][d] \/ (d = "up" /\ ~sized)
          /\ bill[1][d] <= sent[Source(d)]

(* A deadline closes a tunnel only if the tunnel has been idle: the other  *)
(* direction has been as quiet, or has ended, or moves at this very tick.  *)
IdleOnly ==
    [][\A d \in Directions :
         CopyTimeout(d) /\ mode = "connect" /\ copier[Other(d)].pc \in {"read", "write"}
           => copier[Other(d)].waited \in {0, IdleTO}]_vars

(* Waits without a deadline: for the header of a target dialler, for the   *)
(* body of a request, for the client to take a response.                   *)
NoDeadline ==
    \/ pc = "await" /\ TargetDial
    \/ pc = "send"
    \/ pc = "body" /\ copier["down"].pc = "write"

(* With an idle timeout every exchange ends, or hangs in one of the three. *)
EventuallyEnds == <>[](pc = "end" \/ NoDeadline)

(* What an exchange has left to do: steps of the handler and of its        *)
(* goroutines, segments on their way, and what the peers may still do.     *)
HandlerLeft ==
    [start |-> 11, dial |-> 10, greet |-> 9, await |-> 8, respond |-> 6, send |-> 5,
     head |-> 4, tunnel |-> 1, body |-> 1, end |-> 0]
CopierLeft == [off |-> 0, read |-> 2, write |-> 4, close |-> 1, done |-> 0]
One(b) == IF b THEN 1 ELSE 0

LeftAt(c) ==
    5 * (MaxSent - sent[c]) + 4 * Len(toGate[c]) + Len(fromGate[c]) + One(~fin[c]) + One(~gone[c])
Left ==
    HandlerLeft[pc] + CopierLeft[copier["up"].pc] + CopierLeft[copier["down"].pc]
      + LeftAt("client") + LeftAt("target") + One(answer = "none")
Patience == (IdleTO - copier["up"].waited) + (IdleTO - copier["down"].waited)

(* Something of the gateway can move: a guard of Handler, CopyStep or Tick.*)
HandlerReady ==
    \/ pc \in {"start", "dial", "greet", "respond"}
    \/ pc = "await" /\ (answer # "none" \/ kind = "proxy")
    \/ pc = "tunnel" /\ \A d \in Directions : copier[d].pc = "done"
    \/ pc = "head"
    \/ pc = "body" /\ copier["down"].pc = "close"
CopierReady(d) ==
    \/ copier[d].pc \in {"read", "write"} /\ (~Blocked(d) \/ copier[d].waited = IdleTO)
    \/ copier[d].pc = "close" /\ pc = "tunnel"
TickReady ==
    /\ \A d \in Directions :
          copier[d].pc \in {"off", "done"} \/ (Blocked(d) /\ copier[d].waited < IdleTO)
    /\ \E d \in Directions : Blocked(d) /\ Timed(d)

(* The argument for EventuallyEnds: no step leaves as much to do as there  *)
(* was, unless time has passed for someone who waits, so that an exchange  *)
(* cannot go round in circles; and where it stops, it has ended or waits   *)
(* for a peer without a deadline.                                          *)
Nearer == Left' < Left \/ (Left' = Left /\ Patience' < Patience)
AlwaysNearer ==
    /\ [][Nearer]_vars
    /\ [](IdleTO > 0 =>
             pc = "end" \/ NoDeadline \/ HandlerReady \/ TickReady \/ \E d \in Directions : CopierReady(d))
=============================================================================

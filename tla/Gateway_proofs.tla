--------------------------- MODULE Gateway_proofs ---------------------------
(***************************************************************************)
(* Theorems about Gateway for every idle timeout, every number of segments *)
(* and every window.                                                       *)
(***************************************************************************)
EXTENDS Gateway, SequenceTheorems, TLAPS

Copiers == [pc : CopierSteps, seg : Segments \cup {0}, count : Nat, waited : 0..IdleTO]
Queues == [Conns -> Seq(Segments)]
Early == {"start", "dial", "greet", "await", "respond", "send"}
Idlers == [d \in Directions |-> Stopped]

Types ==
    /\ mode \in {"connect", "http"} /\ kind \in {"proxy", "direct", "header"} /\ sized \in BOOLEAN
    /\ pc \in HandlerSteps
    /\ copier \in [Directions -> Copiers]
    /\ \A d \in Directions : copier[d].pc = "write" => copier[d].seg # 0
    /\ open \in [Conns -> BOOLEAN]
    /\ sent \in [Conns -> 0..MaxSent] /\ fin \in [Conns -> BOOLEAN] /\ gone \in [Conns -> BOOLEAN]
    /\ toGate \in Queues /\ fromGate \in Queues /\ got \in Queues
    /\ answer \in {"none", "ok", "no"}
    /\ bill \in Seq(Bills) /\ Len(bill) <= 1
    /\ ended \in {"no", "failed", "served"} /\ dropped \subseteq Conns

(* What each step of the handler knows of its goroutines and connections.  *)
Stages ==
    /\ mode = "connect" => sized /\ pc \notin {"send", "head", "body"}
    /\ mode = "http" => /\ pc \notin {"respond", "tunnel"} /\ dropped = {}
                        /\ pc \in {"greet", "await"} => kind # "proxy"
                        /\ copier["up"].pc = "off"
                        /\ pc # "body" => copier["down"].pc \in {"off", "close"}
    /\ pc \in Early => copier = Idlers
    /\ pc = "head" => copier["down"] = Stopped
    /\ pc = "tunnel" =>
          \A d \in Directions : copier[d].pc # "off" /\ (copier[d].pc = "done" => ~open[Sink(d)])
    /\ pc = "end" =>
          /\ ~open["target"]
          /\ mode = "connect" =>
                /\ ~open["client"]
                /\ \A d \in Directions : copier[d].pc \in {"off", "done"}
                /\ ended = "failed" => copier = Idlers

Booked ==
    /\ ended = "no" <=> pc # "end"
    /\ bill # <<>> =>
          /\ ended = "served"
          /\ Len(bill) = 1
          /\ bill[1].down = copier["down"].count
          /\ bill[1].up = copier["up"].count \/ (~sized /\ bill[1].up = 0)
    /\ ended = "served" /\ bill = <<>> => mode = "http" /\ gone["client"]

(* Where the segments of a direction are: those that were passed on, the   *)
(* one that its goroutine holds, and those that wait to be read.           *)
Held(x) == IF x.pc = "write" THEN 1 ELSE 0

Waiting(c) == \A i \in 1..Len(toGate[c]) : toGate[c][i] = sent[c] - Len(toGate[c]) + i

Counted(d) ==
    LET c == Source(d)
        x == copier[d] IN
    /\ x.count + Held(x) + Len(toGate[c]) <= sent[c]
    /\ c \notin dropped /\ x.pc \in {"off", "read", "write"} => x.count + Held(x) + Len(toGate[c]) = sent[c]
    /\ c \notin dropped /\ x.pc = "write" => x.seg = x.count + 1

Delivered(d) ==
    LET k == Sink(d) IN
    /\ Passed(d) <= copier[d].count
    /\ ~gone[k] => Passed(d) = copier[d].count
    /\ Source(d) \notin dropped =>
          /\ \A i \in 1..Len(got[k]) : got[k][i] = i
          /\ \A i \in 1..Len(fromGate[k]) : fromGate[k][i] = Len(got[k]) + i

Flows ==
    /\ \A c \in Conns : Waiting(c)
    /\ \A d \in Directions : Counted(d)
    /\ \A d \in Directions : Delivered(d)

IInv == Types /\ Stages /\ Booked /\ Flows

-----------------------------------------------------------------------------
USE DEF Conns, Directions, Source, Sink

LEMMA DropFront ==
  ASSUME NEW S, NEW s \in Seq(S), NEW n \in 0..Len(s)
  PROVE  /\ SubSeq(s, n + 1, Len(s)) \in Seq(S)
         /\ Len(SubSeq(s, n + 1, Len(s))) = Len(s) - n
         /\ \A i \in 1..(Len(s) - n) : SubSeq(s, n + 1, Len(s))[i] = s[n + i]
<1> DEFINE m == n + 1
<1>1. Len(s) \in Nat /\ m \in Int /\ m >= 1
  BY LenProperties
<1>2. \A i \in m..Len(s) : s[i] \in S
  BY <1>1, ElementOfSeq
<1>3. /\ SubSeq(s, m, Len(s)) \in Seq(S)
      /\ Len(SubSeq(s, m, Len(s))) = IF m <= Len(s) THEN Len(s) - m + 1 ELSE 0
      /\ \A i \in 1..(Len(s) - m + 1) : SubSeq(s, m, Len(s))[i] = s[m + i - 1]
  BY <1>1, <1>2, SubSeqProperties
<1> HIDE DEF m
<1>4. m = n + 1
  BY DEF m
<1> QED BY <1>1, <1>3, <1>4

LEMMA PassOn ==
  ASSUME NEW S, NEW s \in Seq(S), NEW t \in Seq(S), s # <<>>
  PROVE  /\ Head(s) \in S /\ Len(s) \in Nat \ {0}
         /\ Len(Tail(s)) = Len(s) - 1
         /\ \A i \in 1..Len(Tail(s)) : Tail(s)[i] = s[i + 1]
         /\ Len(Append(t, Head(s))) = Len(t) + 1
         /\ \A i \in 1..Len(t) : Append(t, Head(s))[i] = t[i]
         /\ Append(t, Head(s))[Len(t) + 1] = s[1]
<1>1. Len(s) \in Nat \ {0}
  BY EmptySeq
<1>2. /\ Head(s) \in S
      /\ Len(Tail(s)) = Len(s) - 1
      /\ \A i \in 1..Len(Tail(s)) : Tail(s)[i] = s[i + 1]
  BY HeadTailProperties
<1>3. Head(s) = s[1]
  OBVIOUS
<1>4. /\ Len(Append(t, Head(s))) = Len(t) + 1
      /\ \A i \in 1..Len(t) : Append(t, Head(s))[i] = t[i]
      /\ Append(t, Head(s))[Len(t) + 1] = Head(s)
  BY <1>2, AppendProperties
<1> QED BY <1>1, <1>2, <1>3, <1>4

LEMMA Constants == IdleTO \in Nat /\ MaxSent \in Nat
BY GatewayAssumption

LEMMA CopierTyped ==
  ASSUME NEW x \in Copiers, NEW p \in CopierSteps
  PROVE  /\ [x EXCEPT !.pc = p] \in Copiers
         /\ [x EXCEPT !.pc = p, !.waited = 0] \in Copiers
         /\ [x EXCEPT !.pc = p, !.count = @ + 1, !.waited = 0] \in Copiers
         /\ \A s \in Segments : [x EXCEPT !.pc = p, !.seg = s, !.waited = 0] \in Copiers
<1>1. 0 \in 0..IdleTO /\ x.count + 1 \in Nat
  BY Constants DEF Copiers
<1>2. [x EXCEPT !.pc = p] \in Copiers
  BY DEF Copiers
<1>3. [x EXCEPT !.pc = p, !.waited = 0] \in Copiers
  BY <1>1 DEF Copiers
<1>4. [x EXCEPT !.pc = p, !.count = @ + 1, !.waited = 0] \in Copiers
  BY <1>1 DEF Copiers
<1>5. ASSUME NEW s \in Segments
      PROVE  [x EXCEPT !.pc = p, !.seg = s, !.waited = 0] \in Copiers
  BY <1>1 DEF Copiers
<1> QED BY <1>2, <1>3, <1>4, <1>5

LEMMA StoppedTyped == Stopped \in Copiers
BY GatewayAssumption DEF Stopped, Copiers, CopierSteps, Segments

LEMMA InitInvariant == Init => IInv
<1> SUFFICES ASSUME Init PROVE IInv
  OBVIOUS
<1> USE DEF Init
<1>0. <<>> \in Seq(Segments) /\ <<>> \in Seq(Bills) /\ Len(<<>>) = 0
  BY EmptySeq
<1>a. copier \in [Directions -> Copiers]
  BY StoppedTyped
<1>b. \A d \in Directions : copier[d].pc # "write"
  BY DEF Stopped
<1>c. sent \in [Conns -> 0..MaxSent]
  BY Constants
<1>1. Types
  BY <1>0, <1>a, <1>b, <1>c, GatewayAssumption DEF Types, HandlerSteps, Queues
<1>2. Stages /\ Booked
  BY DEF Stages, Booked, Early, Idlers, Stopped
<1>3. Flows
  BY <1>0 DEF Flows, Waiting, Counted, Delivered, Held, Passed, Stopped
<1> QED BY <1>1, <1>2, <1>3 DEF IInv

-----------------------------------------------------------------------------
(* The types.                                                              *)
LEMMA DropTyped ==
  ASSUME Types, NEW c \in Conns, DropBuffered(c)
  PROVE  /\ toGate' \in Queues /\ fromGate' \in Queues /\ got' \in Queues
         /\ dropped' \subseteq Conns
<1>1. PICK n \in 0..Len(toGate[c]) :
        /\ toGate' = [toGate EXCEPT ![c] = SubSeq(@, n + 1, Len(@))]
        /\ dropped' = IF n = 0 THEN dropped ELSE dropped \cup {c}
        /\ UNCHANGED <<fromGate, got>>
  BY DEF DropBuffered
<1>2. toGate[c] \in Seq(Segments)
  BY DEF Types, Queues
<1>3. SubSeq(toGate[c], n + 1, Len(toGate[c])) \in Seq(Segments)
  BY <1>2, DropFront
<1> QED BY <1>1, <1>3 DEF Types, Queues

LEMMA CountsNat ==
  ASSUME Types
  PROVE  \A d \in Directions : copier[d].count \in Nat /\ copier[d] \in Copiers
BY DEF Types, Copiers

LEMMA BillTyped ==
  ASSUME NEW u \in Nat, NEW v \in Nat
  PROVE  <<[up |-> u, down |-> v]>> \in Seq(Bills) /\ Len(<<[up |-> u, down |-> v]>>) = 1
<1>1. [up |-> u, down |-> v] \in Bills
  BY DEF Bills
<1> QED BY <1>1

LEMMA TypesNext ==
  ASSUME Types, Next
  PROVE  Types'
<1> USE DEF Types, Goto, Become, Quiet, queues, peers, request
<1>a. ASSUME NEW how, End(how), how \in {"failed", "served"},
             bill' \in Seq(Bills), Len(bill') <= 1
      PROVE  Types'
  BY <1>a DEF End, HandlerSteps
<1>b. ASSUME Give502 PROVE Types'
  BY <1>b, <1>a DEF Give502
<1>1. CASE Hijack
  <2>1. toGate' \in Queues /\ fromGate' \in Queues /\ got' \in Queues /\ dropped' \subseteq Conns
    BY <1>1, DropTyped DEF Hijack
  <2>2. pc' \in HandlerSteps
    BY <1>1 DEF Hijack, HandlerSteps
  <2> QED BY <1>1, <2>1, <2>2 DEF Hijack
<1>2. CASE Prepare \/ Dial \/ Greet
  BY <1>2 DEF Prepare, Dial, Greet, HandlerSteps
<1>3. CASE DialFails \/ GreetFails \/ Refused \/ ConnectTimeout \/ SendFails \/ HeadFails
  BY <1>3, <1>b DEF DialFails, GreetFails, Refused, ConnectTimeout, SendFails, HeadFails
<1>4. CASE Established
  <2>1. toGate' \in Queues /\ fromGate' \in Queues /\ got' \in Queues /\ dropped' \subseteq Conns
    BY <1>4, DropTyped DEF Established
  <2> QED BY <1>4, <2>1 DEF Established, HandlerSteps
<1>5. CASE Respond
  <2>1. [Stopped EXCEPT !.pc = "read"] \in Copiers
    BY StoppedTyped, CopierTyped DEF CopierSteps
  <2>2. [Stopped EXCEPT !.pc = "read"].pc = "read"
    BY DEF Stopped
  <2> QED BY <1>5, <2>1, <2>2 DEF Respond, HandlerSteps
<1>6. CASE RecordTunnel
  BY <1>6, BillTyped, CountsNat DEF RecordTunnel, HandlerSteps
<1>7. CASE SendRequest
  <2>1. Len(toGate["client"]) \in Nat
    BY LenProperties DEF Queues
  <2>2. <<>> \in Seq(Segments)
    BY EmptySeq
  <2>3. copier["up"] \in Copiers
    OBVIOUS
  <2>4. [copier["up"] EXCEPT !.count = Len(toGate["client"])] \in Copiers
    BY <2>1, <2>3 DEF Copiers
  <2>5. copier' = [copier EXCEPT !["up"] = [copier["up"] EXCEPT !.count = Len(toGate["client"])]]
    BY <1>7 DEF SendRequest
  <2>6. copier' \in [Directions -> Copiers]
    BY <2>4, <2>5
  <2>7. toGate' \in Queues /\ fromGate' \in Queues
    BY <1>7, <2>2 DEF SendRequest, Queues
  <2> QED BY <1>7, <2>6, <2>7 DEF SendRequest, HandlerSteps
<1>8. CASE ReadHead
  <2>1. [copier["down"] EXCEPT !.pc = "read", !.waited = 0] \in Copiers
    BY CopierTyped DEF CopierSteps
  <2>2. copier' = [copier EXCEPT !["down"] = [copier["down"] EXCEPT !.pc = "read", !.waited = 0]]
    BY <1>8 DEF ReadHead
  <2> QED BY <1>8, <2>1, <2>2 DEF ReadHead, HandlerSteps
<1>9. CASE RecordResponse
  <2>1. ASSUME NEW u \in Nat, NEW v \in Nat, bill' = <<[up |-> u, down |-> v]>>
        PROVE  bill' \in Seq(Bills) /\ Len(bill') <= 1
    BY <2>1, BillTyped
  <2>2. copier["up"].count \in Nat /\ copier["down"].count \in Nat
    BY CountsNat
  <2>3. (IF sized THEN copier["up"].count ELSE 0) \in Nat
    BY <2>2
  <2>4. bill' \in Seq(Bills) /\ Len(bill') <= 1
    BY <1>9, <2>1, <2>2, <2>3 DEF RecordResponse
  <2> QED BY <1>9, <2>4, <1>a DEF RecordResponse
<1>10. ASSUME NEW c \in Conns, Send(c) PROVE Types'
  <2>1. sent[c] + 1 \in Segments /\ sent' = [sent EXCEPT ![c] = @ + 1]
    BY <1>10, GatewayAssumption DEF Send, Segments
  <2>2. sent'[c] \in Segments
    BY <2>1
  <2>3. Append(toGate[c], sent'[c]) \in Seq(Segments)
    BY <2>2, AppendProperties DEF Queues
  <2>4. toGate' \in Queues
    BY <1>10, <2>3 DEF Send, Queues
  <2>5. sent' \in [Conns -> 0..MaxSent]
    BY <2>1 DEF Segments
  <2> QED BY <1>10, <2>4, <2>5 DEF Send
<1>11. ASSUME NEW c \in Conns, Finish(c) PROVE Types'
  BY <1>11 DEF Finish
<1>12. ASSUME NEW c \in Conns, Leave(c) PROVE Types'
  <2>1. <<>> \in Seq(Segments)
    BY EmptySeq
  <2>2. fromGate' \in Queues
    BY <1>12, <2>1 DEF Leave, Queues
  <2> QED BY <1>12, <2>2 DEF Leave
<1>13. ASSUME NEW c \in Conns, Receive(c) PROVE Types'
  <2>1. fromGate[c] \in Seq(Segments) /\ fromGate[c] # <<>> /\ got[c] \in Seq(Segments)
    BY <1>13 DEF Receive, Queues
  <2>2. Head(fromGate[c]) \in Segments /\ Tail(fromGate[c]) \in Seq(Segments)
    BY <2>1, HeadTailProperties
  <2>3. Append(got[c], Head(fromGate[c])) \in Seq(Segments)
    BY <2>1, <2>2, AppendProperties
  <2> QED BY <1>13, <2>2, <2>3 DEF Receive, Queues
<1>14. CASE Answer
  BY <1>14 DEF Answer
<1>15. CASE Tick
  <2>1. ASSUME NEW d \in Directions, Blocked(d), Timed(d)
        PROVE  [copier[d] EXCEPT !.waited = @ + 1] \in Copiers
    <3>1. PICK x \in Copiers : x = copier[d]
      OBVIOUS
    <3>2. x.waited < IdleTO
      BY <1>15, <2>1, <3>1 DEF Tick, Blocked
    <3>3. x.waited + 1 \in 0..IdleTO
      BY <3>2, GatewayAssumption DEF Copiers
    <3> QED BY <3>1, <3>3 DEF Copiers
  <2>2. copier' \in [Directions -> Copiers]
    BY <1>15, <2>1 DEF Tick
  <2> QED BY <1>15, <2>2 DEF Tick
<1>16. ASSUME NEW d \in Directions, CopyRead(d) PROVE Types'
  <2>1. toGate[Source(d)] \in Seq(Segments) /\ toGate[Source(d)] # <<>>
    BY <1>16 DEF CopyRead, Queues
  <2>2. Head(toGate[Source(d)]) \in Segments /\ Tail(toGate[Source(d)]) \in Seq(Segments)
    BY <2>1, HeadTailProperties
  <2>3. [copier[d] EXCEPT !.pc = "write", !.seg = Head(toGate[Source(d)]), !.waited = 0] \in Copiers
    BY <2>2, CopierTyped DEF CopierSteps
  <2>4. copier' \in [Directions -> Copiers] /\ toGate' \in Queues
    BY <1>16, <2>2, <2>3 DEF CopyRead, Queues
  <2>5. Head(toGate[Source(d)]) # 0
    BY <2>2, Constants DEF Segments
  <2>6. ASSUME NEW e \in Directions, copier'[e].pc = "write" PROVE copier'[e].seg # 0
    <3>1. CASE e = d
      BY <1>16, <2>5, <3>1 DEF CopyRead, Copiers
    <3>2. CASE e # d
      BY <1>16, <2>6, <3>2 DEF CopyRead
    <3> QED BY <3>1, <3>2
  <2> QED BY <1>16, <2>4, <2>6 DEF CopyRead
<1>17. ASSUME NEW d \in Directions, CopyWrite(d) PROVE Types'
  <2>0. copier[d].seg \in Segments
    BY <1>17 DEF CopyWrite, Copiers
  <2>1. Append(fromGate[Sink(d)], copier[d].seg) \in Seq(Segments)
    BY <2>0, AppendProperties DEF Queues
  <2>2. [copier[d] EXCEPT !.pc = "read", !.count = @ + 1, !.waited = 0] \in Copiers
    BY CopierTyped DEF CopierSteps
  <2>3. copier' \in [Directions -> Copiers] /\ fromGate' \in Queues
    BY <1>17, <2>1, <2>2 DEF CopyWrite, Queues
  <2> QED BY <1>17, <2>3 DEF CopyWrite
<1>18. ASSUME NEW d \in Directions, CopyEnds(d) \/ CopyTimeout(d) PROVE Types'
  <2>1. [copier[d] EXCEPT !.pc = "close"] \in Copiers
    BY CopierTyped DEF CopierSteps
  <2>2. copier' = [copier EXCEPT ![d] = [copier[d] EXCEPT !.pc = "close"]]
        /\ UNCHANGED <<pc, open, queues>> /\ Quiet
    BY <1>18 DEF CopyEnds, CopyTimeout, CopyStop
  <2>3. copier' \in [Directions -> Copiers]
    BY <2>1, <2>2
  <2>4. ASSUME NEW e \in Directions, copier'[e].pc = "write" PROVE copier'[e].seg # 0
    BY <2>2, <2>4 DEF Copiers
  <2> QED BY <2>2, <2>3, <2>4
<1>19. ASSUME NEW d \in Directions, CopyClose(d) PROVE Types'
  <2>1. [copier[d] EXCEPT !.pc = "done"] \in Copiers
    BY CopierTyped DEF CopierSteps
  <2> QED BY <1>19, <2>1 DEF CopyClose
<1> QED
  BY <1>1, <1>2, <1>3, <1>4, <1>5, <1>6, <1>7, <1>8, <1>9, <1>10, <1>11, <1>12, <1>13,
     <1>14, <1>15, <1>16, <1>17, <1>18, <1>19 DEF Next, Handler, Peer, CopyStep

-----------------------------------------------------------------------------
(* What the handler knows, and the bill.                                   *)
LEMMA EndStages ==
  ASSUME Types, Stages, NEW how, End(how), pc # "tunnel", pc # "end",
         how = "failed" \/ mode = "http",
         mode = "http" => copier["down"].pc \in {"off", "close"}
  PROVE  Stages'
<1>1. mode = "connect" => how = "failed" /\ pc \in Early
  BY DEF Types, Stages, Early, HandlerSteps
<1>2. mode = "connect" => copier = Idlers
  BY <1>1 DEF Stages
<1>3. mode = "connect" => \A d \in Directions : copier[d].pc \in {"off", "done"}
  BY <1>2 DEF Idlers, Stopped
<1>4. /\ pc' = "end" /\ ended' = how
      /\ open' = [c \in Conns |-> c = "client" /\ mode = "http"]
      /\ UNCHANGED <<mode, kind, sized, copier, dropped>>
  BY DEF End, Goto, request
<1> QED BY <1>1, <1>2, <1>3, <1>4 DEF Stages, Early, Types

LEMMA StagesNext ==
  ASSUME Types, Stages, Next
  PROVE  Stages'
<1> USE DEF Goto, Become, Quiet, queues, peers, request
<1>b. ASSUME Give502, pc \in Early \cup {"head"} PROVE Stages'
  <2>1. mode = "http" => copier["down"].pc \in {"off", "close"}
    BY <1>b DEF Stages, Early
  <2> QED BY <1>b, <2>1, EndStages DEF Give502, Early
<1>1. CASE Hijack
  BY <1>1 DEF Hijack, DropBuffered, Stages, Early
<1>2. CASE Prepare
  BY <1>2 DEF Prepare, Stages, Early
<1>3. CASE Dial
  BY <1>3 DEF Dial, Stages, Early, TargetDial
<1>4. CASE Greet
  BY <1>4 DEF Greet, Stages, Early, Types
<1>5. CASE DialFails \/ GreetFails \/ Refused \/ ConnectTimeout \/ SendFails \/ HeadFails
  BY <1>5, <1>b DEF DialFails, GreetFails, Refused, ConnectTimeout, SendFails, HeadFails, Early
<1>6. CASE Established
  BY <1>6 DEF Established, DropBuffered, Stages, Early, Types
<1>7. CASE Respond
  <2>1. \A d \in Directions : copier'[d].pc = "read"
    BY <1>7 DEF Respond, Stopped
  <2> QED BY <1>7, <2>1 DEF Respond, Stages, Early, Types
<1>8. CASE RecordTunnel
  <2>1. \A d \in Directions : copier[d].pc = "done" /\ ~open[Sink(d)]
    BY <1>8 DEF RecordTunnel, Stages
  <2>2. ~open["target"] /\ mode = "connect"
    BY <1>8, <2>1 DEF RecordTunnel, Stages, Types
  <2>3. ~open'["target"] /\ ~open'["client"]
    BY <1>8, <2>2 DEF RecordTunnel, Types
  <2> QED BY <1>8, <2>1, <2>2, <2>3 DEF RecordTunnel, Stages, Early
<1>9. CASE SendRequest
  <2>1. copier'["up"].pc = "off" /\ copier'["down"] = Stopped
    BY <1>9 DEF SendRequest, Stages, Early, Idlers, Stopped
  <2>2. mode = "http" /\ mode' = "http" /\ pc' = "head" /\ UNCHANGED <<kind, sized, dropped>>
    BY <1>9 DEF SendRequest, Stages, Types
  <2> QED BY <2>1, <2>2 DEF Stages, Early, Stopped
<1>10. CASE ReadHead
  <2>1. copier'["up"] = copier["up"]
    BY <1>10 DEF ReadHead, Types
  <2> QED BY <1>10, <2>1 DEF ReadHead, Stages, Early
<1>11. CASE RecordResponse
  BY <1>11, EndStages DEF RecordResponse, Stages, Types
<1>12. ASSUME NEW c \in Conns, Send(c) \/ Finish(c) \/ Leave(c) \/ Receive(c) PROVE Stages'
  BY <1>12 DEF Send, Finish, Leave, Receive, Stages, Early
<1>13. CASE Answer
  BY <1>13 DEF Answer, Stages, Early
<1>14. CASE Tick
  <2>1. \A d \in Directions : copier'[d].pc = copier[d].pc
    BY <1>14 DEF Tick, Types, Copiers
  <2>2. \A d \in Directions : copier[d].pc = "off" => copier'[d] = copier[d]
    BY <1>14 DEF Tick, Blocked
  <2>3. pc \notin Early /\ ~(pc = "head") /\ ~(pc = "end" /\ mode = "connect")
    <3>1. PICK d \in Directions : Blocked(d)
      BY <1>14 DEF Tick
    <3>2. copier[d].pc \in {"read", "write"}
      BY <3>1 DEF Blocked
    <3>3. pc \notin Early
      BY <3>2 DEF Stages, Idlers, Stopped
    <3>4. ~(pc = "head")
      BY <3>2 DEF Stages, Stopped, Types
    <3> QED BY <3>2, <3>3, <3>4 DEF Stages
  <2> QED BY <1>14, <2>1, <2>3 DEF Tick, Stages
<1>15. ASSUME NEW d \in Directions, CopyStep(d) PROVE Stages'
  <2>1. PICK p \in CopierSteps :
          /\ copier' = [copier EXCEPT ![d] = copier'[d]]
          /\ copier'[d].pc = p /\ p # "off"
          /\ pc # "tunnel" => p # "done"
          /\ p = "done" => ~open'[Sink(d)]
          /\ \A c \in Conns : open'[c] => open[c]
          /\ UNCHANGED <<pc, mode, kind, sized, dropped, ended>>
          /\ copier[d].pc \in {"read", "write", "close"}
          /\ pc # "tunnel" => copier[d].pc # "close"
    <3>1. CASE CopyRead(d)
      <4>1. copier'[d].pc = "write"
        BY <3>1 DEF CopyRead, Types, Copiers
      <4> QED BY <3>1, <4>1 DEF CopyRead, CopierSteps, Types
    <3>2. CASE CopyWrite(d)
      <4>1. copier'[d].pc = "read"
        BY <3>2 DEF CopyWrite, Types, Copiers
      <4> QED BY <3>2, <4>1 DEF CopyWrite, CopierSteps, Types
    <3>3. CASE CopyEnds(d) \/ CopyTimeout(d)
      <4>1. copier'[d].pc = "close"
        BY <3>3 DEF CopyEnds, CopyTimeout, CopyStop, Types, Copiers
      <4> QED BY <3>3, <4>1 DEF CopyEnds, CopyTimeout, CopyStop, CopierSteps, Types
    <3>4. CASE pc = "tunnel" /\ CopyClose(d)
      <4>1. copier'[d].pc = "done"
        BY <3>4 DEF CopyClose, Types, Copiers
      <4>2. ~open'[Sink(d)] /\ \A c \in Conns : open'[c] => open[c]
        BY <3>4 DEF CopyClose, Types
      <4> QED BY <3>4, <4>1, <4>2 DEF CopyClose, CopierSteps, Types
    <3> QED BY <1>15, <3>1, <3>2, <3>3, <3>4 DEF CopyStep
  <2>2. \A e \in Directions : copier'[e] = IF e = d THEN copier'[d] ELSE copier[e]
    BY <2>1 DEF Types
  <2>3. pc \notin Early /\ ~(pc = "end" /\ mode = "connect") /\ ~(mode = "http" /\ d = "up")
    BY <2>1 DEF Stages, Idlers, Stopped
  <2>4. mode = "http" => pc = "body"
    <3>1. SUFFICES ASSUME mode = "http", pc # "body" PROVE FALSE
      OBVIOUS
    <3>2. d = "down" /\ copier[d].pc = "close" /\ pc = "tunnel"
      BY <2>1, <2>3, <3>1 DEF Stages
    <3> QED BY <3>1, <3>2 DEF Stages
  <2>5. pc \in {"tunnel", "body"} \/ (pc = "head" /\ FALSE)
    BY <2>3, <2>4 DEF Types, Stages, HandlerSteps, Early
  <2> QED BY <2>1, <2>2, <2>3, <2>4, <2>5 DEF Stages, Early, Types
<1> QED
  BY <1>1, <1>2, <1>3, <1>4, <1>5, <1>6, <1>7, <1>8, <1>9, <1>10, <1>11, <1>12, <1>13,
     <1>14, <1>15 DEF Next, Handler, Peer

LEMMA BookedNext ==
  ASSUME Types, Stages, Booked, Next
  PROVE  Booked'
<1> USE DEF Goto, Become, Quiet, queues, peers, request, Booked
<1>b. ASSUME Give502, pc # "end" PROVE Booked'
  BY <1>b DEF Give502, End
<1>1. CASE Hijack \/ Prepare \/ Dial \/ Greet \/ Established \/ Respond \/ SendRequest \/ ReadHead
  BY <1>1 DEF Hijack, Prepare, Dial, Greet, Established, Respond, SendRequest, ReadHead
<1>2. CASE DialFails \/ GreetFails \/ Refused \/ ConnectTimeout \/ SendFails \/ HeadFails
  BY <1>2, <1>b DEF DialFails, GreetFails, Refused, ConnectTimeout, SendFails, HeadFails
<1>3. CASE RecordTunnel
  BY <1>3 DEF RecordTunnel
<1>4. CASE RecordResponse
  BY <1>4 DEF RecordResponse, End, Stages, Types
<1>5. ASSUME NEW c \in Conns, Send(c) \/ Finish(c) \/ Leave(c) \/ Receive(c) PROVE Booked'
  BY <1>5 DEF Send, Finish, Leave, Receive, Types
<1>6. CASE Answer
  BY <1>6 DEF Answer
<1>7. CASE Tick
  <2>1. \A d \in Directions : copier'[d].count = copier[d].count
    BY <1>7 DEF Tick, Types, Copiers
  <2> QED BY <1>7, <2>1 DEF Tick
<1>8. ASSUME NEW d \in Directions, CopyStep(d) PROVE Booked'
  <2>1. pc # "end"
    <3>1. copier[d].pc \in {"read", "write"} \/ pc = "tunnel"
      BY <1>8 DEF CopyStep, CopyRead, CopyWrite, CopyEnds, CopyTimeout
    <3> QED BY <3>1 DEF Stages, Types
  <2>2. UNCHANGED <<pc, bill, ended, mode, gone>>
    BY <1>8 DEF CopyStep, CopyRead, CopyWrite, CopyEnds, CopyTimeout, CopyClose, CopyStop
  <2> QED BY <2>1, <2>2
<1> QED
  BY <1>1, <1>2, <1>3, <1>4, <1>5, <1>6, <1>7, <1>8 DEF Next, Handler, Peer

-----------------------------------------------------------------------------
(* The segments.  First the steps that move none of them.                  *)
Moved == <<sent, gone, toGate, fromGate, got>>

Settles(x, y) ==
    /\ y.count = x.count
    /\ Held(y) <= Held(x)
    /\ y.pc \in {"off", "read", "write"} => x.pc \in {"off", "read", "write"} /\ Held(y) = Held(x)
    /\ y.pc = "write" => x.pc = "write" /\ y.seg = x.seg

LEMMA FlowTyped ==
  ASSUME Types
  PROVE  /\ \A c \in Conns :
              /\ toGate[c] \in Seq(Segments) /\ fromGate[c] \in Seq(Segments) /\ got[c] \in Seq(Segments)
              /\ Len(toGate[c]) \in Nat /\ Len(fromGate[c]) \in Nat /\ Len(got[c]) \in Nat
              /\ sent[c] \in Nat
         /\ \A d \in Directions : copier[d].count \in Nat /\ copier[d].seg \in Nat /\ Held(copier[d]) \in Nat
<1>1. \A c \in Conns : toGate[c] \in Seq(Segments) /\ fromGate[c] \in Seq(Segments) /\ got[c] \in Seq(Segments)
  BY DEF Types, Queues
<1>2. \A c \in Conns : Len(toGate[c]) \in Nat /\ Len(fromGate[c]) \in Nat /\ Len(got[c]) \in Nat
  BY <1>1, LenProperties
<1>3. \A c \in Conns : sent[c] \in Nat
  BY Constants DEF Types
<1>4. \A d \in Directions : copier[d].count \in Nat /\ copier[d].seg \in Nat
  BY Constants DEF Types, Copiers, Segments
<1>5. \A d \in Directions : Held(copier[d]) \in Nat
  BY DEF Held
<1> QED BY <1>1, <1>2, <1>3, <1>4, <1>5

LEMMA FlowsSettle ==
  ASSUME Types, Flows, UNCHANGED Moved, dropped' = dropped,
         \A d \in Directions : Settles(copier[d], copier'[d])
  PROVE  Flows'
<1> USE DEF Flows, Moved
<1>1. ASSUME NEW c \in Conns PROVE Waiting(c)'
  BY <1>1 DEF Waiting
<1>2. ASSUME NEW d \in Directions PROVE Counted(d)'
  <2>1. Settles(copier[d], copier'[d]) /\ Counted(d)
    BY <1>2
  <2>2. Held(copier'[d]) \in Nat /\ Held(copier[d]) \in Nat
    BY DEF Held
  <2>3. \A c \in Conns : Len(toGate[c]) \in Nat /\ sent[c] \in Nat
    BY FlowTyped
  <2>4. copier[d].count \in Nat
    BY FlowTyped
  <2>5. PICK c \in Conns : c = Source(d)
    OBVIOUS
  <2>6. toGate'[c] = toGate[c] /\ sent'[c] = sent[c] /\ dropped' = dropped
    OBVIOUS
  <2> HIDE DEF Source, Conns, Flows, Moved
  <2> QED BY <2>1, <2>2, <2>3, <2>4, <2>5, <2>6 DEF Counted, Settles
<1>3. ASSUME NEW d \in Directions PROVE Delivered(d)'
  <2>1. copier'[d].count = copier[d].count /\ Delivered(d)
    BY <1>3 DEF Settles
  <2> QED BY <1>3, <2>1 DEF Delivered, Passed
<1> QED BY <1>1, <1>2, <1>3

LEMMA FlowsDrop ==
  ASSUME Types, Flows, NEW c \in Conns, DropBuffered(c), UNCHANGED <<copier, sent, gone>>
  PROVE  Flows'
<1>1. PICK n \in 0..Len(toGate[c]) :
        /\ toGate' = [toGate EXCEPT ![c] = SubSeq(@, n + 1, Len(@))]
        /\ dropped' = IF n = 0 THEN dropped ELSE dropped \cup {c}
        /\ UNCHANGED <<fromGate, got>>
  BY DEF DropBuffered
<1>2. Len(toGate[c]) \in Nat /\ n \in Nat /\ n <= Len(toGate[c])
  BY FlowTyped
<1>3. /\ toGate'[c] = SubSeq(toGate[c], n + 1, Len(toGate[c]))
      /\ \A e \in Conns : e # c => toGate'[e] = toGate[e]
  BY <1>1 DEF Types, Queues
<1>4. /\ Len(toGate'[c]) = Len(toGate[c]) - n
      /\ \A i \in 1..(Len(toGate[c]) - n) : toGate'[c][i] = toGate[c][n + i]
  <2>1. PICK s \in Seq(Segments) : s = toGate[c]
    BY FlowTyped
  <2>2. /\ Len(SubSeq(s, n + 1, Len(s))) = Len(s) - n
        /\ \A i \in 1..(Len(s) - n) : SubSeq(s, n + 1, Len(s))[i] = s[n + i]
    BY <2>1, DropFront
  <2> QED BY <1>3, <2>1, <2>2, Zenon
<1>5. ASSUME NEW e \in Conns PROVE Waiting(e)'
  <2>1. CASE e # c
    BY <1>3, <2>1 DEF Flows, Waiting
  <2>2. CASE e = c
    <3>1. SUFFICES ASSUME NEW i \in 1..Len(toGate'[c])
                   PROVE  toGate'[c][i] = sent[c] - Len(toGate'[c]) + i
      BY <2>2 DEF Waiting
    <3>2. n + i \in 1..Len(toGate[c]) /\ i \in 1..(Len(toGate[c]) - n) /\ i \in Nat
      BY <1>2, <1>4, <3>1
    <3>3. toGate[c][n + i] = sent[c] - Len(toGate[c]) + (n + i)
      BY <3>2 DEF Flows, Waiting
    <3>4. sent[c] \in Nat
      BY FlowTyped
    <3>5. toGate'[c][i] = toGate[c][n + i]
      BY <1>4, <3>2
    <3> QED BY <1>2, <1>4, <3>2, <3>3, <3>4, <3>5
  <2> QED BY <2>1, <2>2
<1>6. ASSUME NEW d \in Directions PROVE Counted(d)'
  <2>1. Counted(d)
    BY DEF Flows
  <2>2. CASE Source(d) # c
    BY <1>1, <1>3, <2>1, <2>2 DEF Counted
  <2>3. CASE Source(d) = c /\ n = 0
    <3>1. Len(toGate'[c]) = Len(toGate[c]) /\ dropped' = dropped
      BY <1>1, <1>2, <1>4, <2>3
    <3> QED BY <2>1, <2>3, <3>1 DEF Counted
  <2>4. CASE Source(d) = c /\ n # 0
    <3>1. c \in dropped' /\ Len(toGate'[c]) <= Len(toGate[c]) /\ Len(toGate'[c]) \in Nat
      BY <1>1, <1>2, <1>4, <2>4
    <3>2. sent[c] \in Nat /\ copier[d].count \in Nat /\ Held(copier[d]) \in Nat
      BY FlowTyped
    <3>3. copier[d].count + Held(copier[d]) + Len(toGate[c]) <= sent[c]
      BY <2>1, <2>4 DEF Counted
    <3>4. \A i, h, l, m, s \in Nat : i + h + l <= s /\ m <= l => i + h + m <= s
      OBVIOUS
    <3>5. copier[d].count + Held(copier[d]) + Len(toGate'[c]) <= sent[c]
      BY <1>2, <3>1, <3>2, <3>3, <3>4, Zenon
    <3>6. Source(d) = c /\ c \in dropped' /\ UNCHANGED <<copier, sent>>
      BY <1>1, <2>4, <3>1
    <3> QED BY <3>5, <3>6, Zenon DEF Counted
  <2> QED BY <2>2, <2>3, <2>4
<1>7. ASSUME NEW d \in Directions PROVE Delivered(d)'
  <2>1. Delivered(d) /\ dropped \subseteq dropped'
    BY <1>1 DEF Flows
  <2> QED BY <1>1, <2>1 DEF Delivered, Passed
<1> QED BY <1>5, <1>6, <1>7 DEF Flows

LEMMA FlowsSend ==
  ASSUME Types, Flows, NEW c \in Conns, Send(c)
  PROVE  Flows'
<1>1. /\ sent'[c] = sent[c] + 1 /\ toGate'[c] = Append(toGate[c], sent'[c])
      /\ \A e \in Conns : e # c => sent'[e] = sent[e] /\ toGate'[e] = toGate[e]
      /\ UNCHANGED <<copier, gone, fromGate, got, dropped>>
  BY DEF Types, Queues, Send
<1>2. sent'[c] \in Segments
  <2>1. sent[c] \in 0..MaxSent /\ sent[c] < MaxSent
    BY DEF Types, Send
  <2> QED BY <1>1, <2>1, Constants DEF Segments
<1>3. /\ Len(toGate'[c]) = Len(toGate[c]) + 1
      /\ \A i \in 1..Len(toGate[c]) : toGate'[c][i] = toGate[c][i]
      /\ toGate'[c][Len(toGate[c]) + 1] = sent[c] + 1
  <2>1. PICK s \in Seq(Segments), m \in Segments : s = toGate[c] /\ m = sent'[c]
    BY <1>2, FlowTyped
  <2>2. /\ Len(Append(s, m)) = Len(s) + 1
        /\ \A i \in 1..Len(s) : Append(s, m)[i] = s[i]
        /\ Append(s, m)[Len(s) + 1] = m
    BY AppendProperties
  <2> QED BY <1>1, <2>1, <2>2, Zenon
<1>4. ASSUME NEW e \in Conns PROVE Waiting(e)'
  <2>1. CASE e # c
    BY <1>1, <2>1 DEF Flows, Waiting
  <2>2. CASE e = c
    <3>1. SUFFICES ASSUME NEW i \in 1..(Len(toGate[c]) + 1)
                   PROVE  toGate'[c][i] = sent[c] - Len(toGate[c]) + i
      <4>1. Len(toGate[c]) \in Nat /\ sent[c] \in Nat
        BY FlowTyped
      <4>2. sent'[c] - Len(toGate'[c]) = sent[c] - Len(toGate[c])
        BY <1>1, <1>3, <4>1
      <4> QED BY <1>3, <2>2, <4>2 DEF Waiting
    <3>2. Len(toGate[c]) \in Nat /\ sent[c] \in Nat
      BY FlowTyped
    <3>3. CASE i \in 1..Len(toGate[c])
      <4>1. toGate[c][i] = sent[c] - Len(toGate[c]) + i
        BY <3>3 DEF Flows, Waiting
      <4> QED BY <1>3, <3>3, <4>1
    <3>4. CASE i = Len(toGate[c]) + 1
      BY <1>3, <3>2, <3>4
    <3> QED BY <3>2, <3>3, <3>4
  <2> QED BY <2>1, <2>2
<1>5. ASSUME NEW d \in Directions PROVE Counted(d)'
  <2>1. Counted(d)
    BY DEF Flows
  <2>2. CASE Source(d) # c
    BY <1>1, <2>1, <2>2 DEF Counted
  <2>3. CASE Source(d) = c
    <3>1. /\ Len(toGate[c]) \in Nat /\ sent[c] \in Nat
          /\ copier[d].count \in Nat /\ Held(copier[d]) \in Nat
      BY FlowTyped
    <3>2. Len(toGate'[c]) = Len(toGate[c]) + 1 /\ sent'[c] = sent[c] + 1 /\ UNCHANGED <<copier, dropped>>
      BY <1>1, <1>3
    <3>3. copier[d].count + Held(copier[d]) + Len(toGate'[c]) <= sent'[c]
      <4>1. copier[d].count + Held(copier[d]) + Len(toGate[c]) <= sent[c]
        BY <2>1, <2>3, Zenon DEF Counted
      <4>2. \A i, h, l, m \in Nat : i + h + l <= m => i + h + (l + 1) <= m + 1
        OBVIOUS
      <4> QED BY <3>1, <3>2, <4>1, <4>2, Zenon
    <3>4. copier[d].count + Held(copier[d]) + Len(toGate[c]) = sent[c]
            => copier[d].count + Held(copier[d]) + Len(toGate'[c]) = sent'[c]
      <4>1. PICK h \in Nat : h = copier[d].count + Held(copier[d])
        BY <3>1
      <4>2. PICK n \in Nat, m \in Nat : n = Len(toGate[c]) /\ m = sent[c]
        BY <3>1
      <4>3. h + n = m => h + (n + 1) = m + 1
        OBVIOUS
      <4>4. Len(toGate'[c]) = n + 1 /\ sent'[c] = m + 1
        BY <3>2, <4>2
      <4> QED BY <4>1, <4>2, <4>3, <4>4
    <3> QED BY <2>1, <2>3, <3>2, <3>3, <3>4 DEF Counted
  <2> QED BY <2>2, <2>3
<1>6. ASSUME NEW d \in Directions PROVE Delivered(d)'
  BY <1>1, <1>6 DEF Flows, Delivered, Passed
<1> QED BY <1>4, <1>5, <1>6 DEF Flows

LEMMA FlowsLeave ==
  ASSUME Types, Flows, NEW c \in Conns, Leave(c)
  PROVE  Flows'
<1>1. /\ fromGate'[c] = <<>> /\ gone'[c]
      /\ \A e \in Conns : e # c => fromGate'[e] = fromGate[e] /\ gone'[e] = gone[e]
      /\ UNCHANGED <<copier, sent, toGate, got, dropped>>
  BY DEF Types, Queues, Leave
<1>2. \A e \in Conns : Waiting(e)'
  BY <1>1 DEF Flows, Waiting
<1>3. \A d \in Directions : Counted(d)'
  BY <1>1 DEF Flows, Counted
<1>4. ASSUME NEW d \in Directions PROVE Delivered(d)'
  <2>1. Delivered(d)
    BY DEF Flows
  <2>2. CASE Sink(d) # c
    BY <1>1, <2>1, <2>2 DEF Delivered, Passed
  <2>3. CASE Sink(d) = c
    <3>1. Len(fromGate'[c]) = 0
      BY <1>1
    <3>2. Len(got[c]) \in Nat /\ Len(fromGate[c]) \in Nat /\ copier[d].count \in Nat
      BY FlowTyped
    <3>3. Passed(d) = Len(got[c]) + Len(fromGate[c])
      BY <2>3 DEF Passed
    <3>a. Passed(d)' = Len(got[c]) + 0
      BY <1>1, <2>3, <3>1 DEF Passed
    <3>b. Len(got[c]) + Len(fromGate[c]) <= copier[d].count
      BY <2>1, <3>3 DEF Delivered
    <3>c. Len(got[c]) + 0 <= copier[d].count
      <4>1. PICK a \in Nat, b \in Nat, n \in Nat :
              a = Len(got[c]) /\ b = Len(fromGate[c]) /\ n = copier[d].count
        BY <3>2
      <4>2. a + b <= n => a + 0 <= n
        OBVIOUS
      <4> QED BY <3>b, <4>1, <4>2
    <3>4. Passed(d)' <= copier'[d].count
      BY <1>1, <3>a, <3>c
    <3> QED BY <1>1, <2>1, <2>3, <3>1, <3>4 DEF Delivered
  <2> QED BY <2>2, <2>3
<1> QED BY <1>2, <1>3, <1>4 DEF Flows

LEMMA FlowsReceive ==
  ASSUME Types, Flows, NEW c \in Conns, Receive(c)
  PROVE  Flows'
<1>1. /\ fromGate[c] # <<>>
      /\ got'[c] = Append(got[c], Head(fromGate[c])) /\ fromGate'[c] = Tail(fromGate[c])
      /\ \A e \in Conns : e # c => fromGate'[e] = fromGate[e] /\ got'[e] = got[e]
      /\ UNCHANGED <<copier, sent, toGate, gone, dropped>>
  BY DEF Types, Queues, Receive, peers, queues, request
<1>2. \A e \in Conns : Waiting(e)'
  BY <1>1 DEF Flows, Waiting
<1>3. \A d \in Directions : Counted(d)'
  BY <1>1 DEF Flows, Counted
<1>a. fromGate[c] \in Seq(Segments) /\ got[c] \in Seq(Segments)
  BY FlowTyped
<1>4. /\ Len(fromGate'[c]) = Len(fromGate[c]) - 1 /\ Len(fromGate[c]) \in Nat \ {0}
      /\ \A i \in 1..Len(fromGate'[c]) : fromGate'[c][i] = fromGate[c][i + 1]
      /\ Len(got'[c]) = Len(got[c]) + 1
      /\ \A i \in 1..Len(got[c]) : got'[c][i] = got[c][i]
      /\ got'[c][Len(got[c]) + 1] = fromGate[c][1]
  BY <1>1, <1>a, PassOn
<1>5. Len(got[c]) \in Nat
  BY FlowTyped
<1>6. ASSUME NEW d \in Directions PROVE Delivered(d)'
  <2>1. Delivered(d)
    BY DEF Flows
  <2>2. CASE Sink(d) # c
    BY <1>1, <2>1, <2>2 DEF Delivered, Passed
  <2>3. CASE Sink(d) = c
    <3>1. Passed(d)' = Passed(d)
      <4>1. Len(got'[c]) + Len(fromGate'[c]) = Len(got[c]) + Len(fromGate[c])
        <5>1. Len(got'[c]) = Len(got[c]) + 1 /\ Len(fromGate'[c]) = Len(fromGate[c]) - 1
          BY <1>4
        <5>2. Len(got[c]) \in Nat /\ Len(fromGate[c]) \in Nat
          BY FlowTyped
        <5>3. PICK a \in Nat, b \in Nat : a = Len(got[c]) /\ b = Len(fromGate[c])
          BY <5>2
        <5>4. (a + 1) + (b - 1) = a + b
          OBVIOUS
        <5> QED BY <5>1, <5>3, <5>4
      <4> QED BY <2>3, <4>1 DEF Passed
    <3>2. ASSUME Source(d) \notin dropped, NEW i \in 1..Len(got'[c])
          PROVE  got'[c][i] = i
      <4>1. fromGate[c][1] = Len(got[c]) + 1
        BY <1>4, <2>1, <2>3, <3>2 DEF Delivered
      <4>2. CASE i \in 1..Len(got[c])
        BY <1>4, <2>1, <2>3, <3>2, <4>2 DEF Delivered
      <4>3. CASE i = Len(got[c]) + 1
        BY <1>4, <4>1, <4>3
      <4> QED BY <1>4, <1>5, <3>2, <4>2, <4>3
    <3>3. ASSUME Source(d) \notin dropped, NEW i \in 1..Len(fromGate'[c])
          PROVE  fromGate'[c][i] = Len(got'[c]) + i
      <4>1. i + 1 \in 1..Len(fromGate[c]) /\ i \in Nat
        BY <1>4, <3>3
      <4>2. fromGate[c][i + 1] = Len(got[c]) + (i + 1)
        BY <2>1, <2>3, <3>3, <4>1 DEF Delivered
      <4>3. fromGate'[c][i] = fromGate[c][i + 1]
        BY <1>4, <3>3
      <4>4. Len(got[c]) + (i + 1) = Len(got'[c]) + i
        <5>1. Len(got'[c]) = Len(got[c]) + 1
          BY <1>4
        <5>2. Len(got[c]) \in Nat /\ i \in Nat
          BY <1>5, <4>1
        <5>3. PICK a \in Nat : a = Len(got[c])
          BY <5>2
        <5>4. a + (i + 1) = (a + 1) + i
          BY <5>2
        <5> QED BY <5>1, <5>3, <5>4
      <4> QED BY <4>2, <4>3, <4>4
    <3> QED BY <1>1, <2>1, <2>3, <3>1, <3>2, <3>3 DEF Delivered
  <2> QED BY <2>2, <2>3
<1> QED BY <1>2, <1>3, <1>6 DEF Flows

LEMMA FlowsRead ==
  ASSUME Types, Flows, NEW d \in Directions, CopyRead(d)
  PROVE  Flows'
<1> DEFINE c == Source(d)
           s == toGate[c]
           x == copier[d]
<1>1. /\ x.pc = "read" /\ s # <<>>
      /\ copier' = [copier EXCEPT ![d] = [x EXCEPT !.pc = "write", !.seg = Head(s), !.waited = 0]]
      /\ toGate' = [toGate EXCEPT ![c] = Tail(s)]
      /\ UNCHANGED <<fromGate, got, sent, gone, dropped>>
  BY DEF CopyRead, Become, Quiet, peers
<1>2. c \in Conns /\ x \in Copiers /\ s \in Seq(Segments)
  BY FlowTyped DEF Types
<1>3. /\ copier'[d].pc = "write" /\ copier'[d].seg = Head(s) /\ copier'[d].count = x.count
      /\ \A e \in Directions : e # d => copier'[e] = copier[e]
  BY <1>1, <1>2 DEF Types, Copiers
<1>4. toGate'[c] = Tail(s) /\ \A k \in Conns : k # c => toGate'[k] = toGate[k]
  BY <1>1, <1>2 DEF Types, Queues
<1>5. /\ Len(s) \in Nat \ {0} /\ Len(toGate'[c]) = Len(s) - 1
      /\ \A i \in 1..Len(toGate'[c]) : toGate'[c][i] = s[i + 1]
      /\ Head(s) = s[1]
  <2>1. PICK q \in Seq(Segments) : q = s
    BY <1>2
  <2>2. q # <<>> /\ toGate'[c] = Tail(q)
    BY <1>1, <1>4, <2>1
  <2>3. /\ Len(q) \in Nat \ {0} /\ Len(Tail(q)) = Len(q) - 1
        /\ \A i \in 1..Len(Tail(q)) : Tail(q)[i] = q[i + 1]
    BY <2>2, PassOn
  <2>4. Head(q) = q[1]
    OBVIOUS
  <2> HIDE DEF s, c
  <2> QED BY <2>1, <2>2, <2>3, <2>4
<1>6. sent[c] \in Nat /\ x.count \in Nat
  BY <1>2, FlowTyped
<1>7. Waiting(c) /\ Counted(d)
  BY <1>2 DEF Flows
<1>8. ASSUME NEW k \in Conns PROVE Waiting(k)'
  <2>1. CASE k # c
    BY <1>1, <1>4, <2>1 DEF Flows, Waiting
  <2>2. CASE k = c
    <3>1. SUFFICES ASSUME NEW i \in 1..Len(toGate'[c])
                   PROVE  toGate'[c][i] = sent[c] - Len(toGate'[c]) + i
      BY <1>1, <2>2 DEF Waiting
    <3>2. PICK n \in Nat \ {0}, m \in Nat : n = Len(s) /\ m = sent[c]
      BY <1>5, <1>6
    <3>3. Len(toGate'[c]) = n - 1
      BY <1>5, <3>2
    <3>4. i \in 1..(n - 1)
      BY <3>1, <3>3
    <3>5. i + 1 \in 1..n /\ m - (n - 1) + i = m - n + (i + 1)
      BY <3>4
    <3>6. s[i + 1] = m - n + (i + 1)
      BY <1>7, <3>2, <3>5 DEF Waiting
    <3>7. toGate'[c][i] = s[i + 1]
      BY <1>5, <3>1
    <3> QED BY <3>2, <3>3, <3>5, <3>6, <3>7
  <2> QED BY <2>1, <2>2
<1>9. ASSUME NEW e \in Directions PROVE Counted(e)'
  <2>1. CASE e # d
    <3>1. Source(e) # c /\ Source(e) \in Conns /\ Counted(e)
      BY <2>1 DEF Flows
    <3>2. toGate'[Source(e)] = toGate[Source(e)] /\ copier'[e] = copier[e]
      BY <1>3, <1>4, <2>1, <3>1
    <3> QED BY <1>1, <3>1, <3>2 DEF Counted
  <2>2. CASE e = d
    <3>1. Held(x) = 0 /\ Held(copier'[d]) = 1
      BY <1>1, <1>3 DEF Held
    <3>2. PICK n \in Nat \ {0}, m \in Nat, k \in Nat : n = Len(s) /\ m = sent[c] /\ k = x.count
      BY <1>5, <1>6
    <3>3. k + 0 + n <= m /\ (c \notin dropped => k + 0 + n = m)
      BY <1>1, <1>7, <3>1, <3>2 DEF Counted
    <3>4. k + 1 + (n - 1) <= m /\ (c \notin dropped => k + 1 + (n - 1) = m)
      BY <3>3
    <3>5. /\ copier'[d].count = k /\ Len(toGate'[c]) = n - 1 /\ sent'[c] = m /\ dropped' = dropped
      BY <1>1, <1>3, <1>5, <3>2
    <3>6. ASSUME c \notin dropped PROVE copier'[d].seg = k + 1
      <4>1. 1 \in 1..n /\ m - n + 1 = k + 1
        BY <3>3, <3>6
      <4>2. s[1] = m - n + 1
        BY <1>7, <3>2, <4>1 DEF Waiting
      <4> QED BY <1>3, <1>5, <4>1, <4>2
    <3> QED BY <2>2, <3>1, <3>4, <3>5, <3>6 DEF Counted
  <2> QED BY <2>1, <2>2
<1>10. ASSUME NEW e \in Directions PROVE Delivered(e)'
  <2>1. copier'[e].count = copier[e].count /\ Delivered(e)
    BY <1>3 DEF Flows
  <2> QED BY <1>1, <2>1 DEF Delivered, Passed
<1> QED BY <1>8, <1>9, <1>10 DEF Flows

LEMMA FlowsWrite ==
  ASSUME Types, Flows, NEW d \in Directions, CopyWrite(d)
  PROVE  Flows'
<1> DEFINE c == Sink(d)
           s == fromGate[c]
           x == copier[d]
<1>1. /\ x.pc = "write" /\ ~gone[c]
      /\ copier' = [copier EXCEPT ![d] = [x EXCEPT !.pc = "read", !.count = @ + 1, !.waited = 0]]
      /\ fromGate' = [fromGate EXCEPT ![c] = Append(s, x.seg)]
      /\ UNCHANGED <<toGate, got, sent, gone, dropped>>
  BY DEF CopyWrite, Become, Quiet, peers
<1>2. c \in Conns /\ x \in Copiers /\ s \in Seq(Segments) /\ x.count \in Nat
  BY FlowTyped DEF Types
<1>a. x.seg \in Segments
  BY <1>1 DEF Types, Copiers
<1>3. /\ copier'[d].pc = "read" /\ copier'[d].count = x.count + 1
      /\ \A e \in Directions : e # d => copier'[e] = copier[e]
  BY <1>1, <1>2 DEF Types, Copiers
<1>4. fromGate'[c] = Append(s, x.seg) /\ \A k \in Conns : k # c => fromGate'[k] = fromGate[k]
  BY <1>1, <1>2 DEF Types, Queues
<1>5. /\ Len(s) \in Nat /\ Len(fromGate'[c]) = Len(s) + 1
      /\ \A i \in 1..Len(s) : fromGate'[c][i] = s[i]
      /\ fromGate'[c][Len(s) + 1] = x.seg
  BY <1>2, <1>a, <1>4, LenProperties, AppendProperties
<1>6. \A k \in Conns : Waiting(k)'
  BY <1>1 DEF Flows, Waiting
<1>7. ASSUME NEW e \in Directions PROVE Counted(e)'
  <2>1. Counted(e)
    BY DEF Flows
  <2>2. CASE e # d
    BY <1>1, <1>3, <2>1, <2>2 DEF Counted
  <2>3. CASE e = d
    <3>1. Held(x) = 1 /\ Held(copier'[d]) = 0
      BY <1>1, <1>3 DEF Held
    <3>2. PICK n \in Nat, m \in Nat, k \in Nat :
            n = Len(toGate[Source(d)]) /\ m = sent[Source(d)] /\ k = x.count
      BY <1>2, FlowTyped
    <3>3. k + 1 + n <= m /\ (Source(d) \notin dropped => k + 1 + n = m)
      BY <1>1, <2>1, <2>3, <3>1, <3>2 DEF Counted
    <3>4. (k + 1) + 0 + n <= m /\ (Source(d) \notin dropped => (k + 1) + 0 + n = m)
      BY <3>3
    <3>5. copier'[d].count = k + 1 /\ toGate' = toGate /\ sent' = sent /\ dropped' = dropped
      BY <1>1, <1>3, <3>2
    <3>6. PICK k2 \in Nat : k2 = k + 1
      OBVIOUS
    <3>7. Held(copier'[d]) = 0 /\ copier'[d].count = k2 /\ copier'[d].pc = "read"
      BY <1>3, <3>1, <3>5, <3>6
    <3>8. copier'[d].count + Held(copier'[d]) + Len(toGate'[Source(d)]) = k2 + 0 + n
      BY <3>2, <3>5, <3>7
    <3>9. /\ k2 + 0 + n <= sent'[Source(d)]
          /\ Source(d) \notin dropped' => k2 + 0 + n = sent'[Source(d)]
      BY <3>2, <3>4, <3>5, <3>6
    <3> QED BY <2>3, <3>7, <3>8, <3>9 DEF Counted
  <2> QED BY <2>2, <2>3
<1>8. ASSUME NEW e \in Directions PROVE Delivered(e)'
  <2>1. Delivered(e) /\ Counted(e)
    BY DEF Flows
  <2>2. CASE e # d
    <3>1. Sink(e) # c /\ Sink(e) \in Conns
      BY <2>2
    <3>2. fromGate'[Sink(e)] = fromGate[Sink(e)] /\ copier'[e] = copier[e]
      BY <1>3, <1>4, <2>2, <3>1
    <3>3. UNCHANGED <<got, gone, dropped>>
      BY <1>1
    <3> QED BY <2>1, <3>2, <3>3 DEF Delivered, Passed
  <2>3. CASE e = d
    <3>1. PICK a \in Nat, b \in Nat, k \in Nat : a = Len(got[c]) /\ b = Len(s) /\ k = x.count
      BY <1>2, <1>5, FlowTyped
    <3>2. a + b = k
      BY <1>1, <2>1, <2>3, <3>1 DEF Delivered, Passed
    <3>3. a + (b + 1) = k + 1
      BY <3>2
    <3>4. Len(got'[c]) = a /\ Len(fromGate'[c]) = b + 1 /\ copier'[d].count = k + 1
      BY <1>1, <1>3, <1>5, <3>1
    <3>5. Passed(d)' = copier'[d].count
      BY <3>3, <3>4 DEF Passed
    <3>6. copier'[d].count <= copier'[d].count
      BY <3>1, <3>4
    <3>7. ASSUME Source(d) \notin dropped, NEW i \in 1..Len(fromGate'[c])
          PROVE  fromGate'[c][i] = Len(got'[c]) + i
      <4>0. i \in 1..(b + 1)
        BY <3>4, <3>7
      <4>1. CASE i \in 1..b
        <5>1. Sink(d) = c /\ fromGate[c][i] = Len(got[c]) + i
          BY <1>1, <2>1, <2>3, <3>1, <3>7, <4>1, <1>5 DEF Delivered
        <5>2. fromGate'[c][i] = fromGate[c][i]
          BY <1>5, <3>1, <4>1
        <5> QED BY <3>1, <3>4, <5>1, <5>2
      <4>2. CASE i = b + 1
        <5>1. x.seg = k + 1
          BY <1>1, <2>1, <2>3, <3>1, <3>7 DEF Counted
        <5> QED BY <1>5, <3>1, <3>3, <3>4, <4>2, <5>1
      <4> QED BY <4>0, <4>1, <4>2
    <3>8. ASSUME Source(d) \notin dropped, NEW i \in 1..Len(got'[c])
          PROVE  got'[c][i] = i
      BY <1>1, <2>1, <2>3, <3>8 DEF Delivered
    <3> QED BY <1>1, <2>3, <3>5, <3>6, <3>7, <3>8 DEF Delivered
  <2> QED BY <2>2, <2>3
<1> QED BY <1>6, <1>7, <1>8 DEF Flows

LEMMA FlowsRequest ==
  ASSUME Types, Stages, Flows, SendRequest
  PROVE  Flows'
<1> DEFINE s == toGate["client"]
<1>0. "client" \in Conns /\ "target" \in Conns /\ "up" \in Directions /\ "down" \in Directions
  OBVIOUS
<1>1. /\ pc = "send"
      /\ toGate' = [toGate EXCEPT !["client"] = <<>>]
      /\ fromGate' = [fromGate EXCEPT !["target"] = IF gone["target"] THEN <<>> ELSE s]
      /\ copier' = [copier EXCEPT !["up"] = [copier["up"] EXCEPT !.count = Len(s)]]
      /\ UNCHANGED <<got, sent, gone, dropped>>
  BY DEF SendRequest, Quiet, peers
<1>2. copier = Idlers /\ mode = "http" /\ dropped = {}
  BY <1>1 DEF Stages, Early, Types
<1>3. copier["up"].count = 0 /\ copier["up"].pc = "off"
  BY <1>2 DEF Idlers, Stopped
<1>4. copier["up"] \in Copiers
  BY DEF Types
<1>5. /\ copier'["up"].count = Len(s) /\ copier'["up"].pc = "off"
      /\ copier'["down"] = copier["down"]
  BY <1>1, <1>3, <1>4 DEF Types, Copiers
<1>6. /\ toGate'["client"] = <<>> /\ toGate'["target"] = toGate["target"]
      /\ fromGate'["client"] = fromGate["client"]
      /\ fromGate'["target"] = IF gone["target"] THEN <<>> ELSE s
  BY <1>1 DEF Types, Queues
<1>7. PICK n \in Nat : n = Len(s)
  BY FlowTyped
<1>a. PICK a \in Nat, b \in Nat : a = Len(got["target"]) /\ b = Len(fromGate["target"])
  BY FlowTyped
<1>8. a = 0
  <2>1. a + b <= 0
    BY <1>0, <1>3, <1>a DEF Flows, Delivered, Passed
  <2> QED BY <2>1
<1>9. n = sent["client"] /\ \A i \in 1..n : s[i] = i
  <2>1. PICK m \in Nat : m = sent["client"]
    BY FlowTyped
  <2>2. 0 + 0 + n = m
    BY <1>0, <1>2, <1>3, <1>7, <2>1 DEF Flows, Counted, Held
  <2>3. \A i \in 1..n : s[i] = m - n + i
    BY <1>0, <1>7, <2>1 DEF Flows, Waiting
  <2> QED BY <2>1, <2>2, <2>3
<1>b. Len(<<>>) = 0
  OBVIOUS
<1>10. Waiting("client")' /\ Waiting("target")'
  <2>1. Waiting("target")
    BY DEF Flows
  <2> QED BY <1>1, <1>6, <1>b, <2>1 DEF Waiting
<1>11. Counted("up")'
  <2>1. Held(copier'["up"]) = 0 /\ copier'["up"].count = n /\ Len(toGate'["client"]) = 0
    BY <1>5, <1>6, <1>7, <1>b DEF Held
  <2>2. n + 0 + 0 <= n /\ n + 0 + 0 = n
    OBVIOUS
  <2>3. sent'["client"] = n
    BY <1>1, <1>9
  <2>4. Source("up") = "client" /\ copier'["up"].pc # "write"
    BY <1>5
  <2> QED BY <2>1, <2>2, <2>3, <2>4 DEF Counted
<1>12. Counted("down")'
  <2>1. Counted("down")
    BY DEF Flows
  <2> QED BY <1>1, <1>5, <1>6, <2>1 DEF Counted
<1>13. Delivered("up")'
  <2>1. Passed("up")' = IF gone["target"] THEN 0 + 0 ELSE 0 + n
    <3>1. Len(got'["target"]) = 0
      BY <1>1, <1>8, <1>a
    <3>2. Len(fromGate'["target"]) = IF gone["target"] THEN 0 ELSE n
      BY <1>6, <1>7, <1>b
    <3>3. Passed("up")' = Len(got'["target"]) + Len(fromGate'["target"])
      BY DEF Passed
    <3> QED BY <3>1, <3>2, <3>3
  <2>2. Passed("up")' <= n /\ (~gone["target"] => Passed("up")' = n)
    BY <2>1
  <2>3. \A i \in 1..Len(got'["target"]) : got'["target"][i] = i
    BY <1>1, <1>8, <1>a
  <2>4. ASSUME NEW i \in 1..Len(fromGate'["target"])
        PROVE  fromGate'["target"][i] = Len(got'["target"]) + i
    <3>1. ~gone["target"] /\ i \in 1..n /\ fromGate'["target"][i] = s[i]
      BY <1>6, <1>7, <1>b, <2>4
    <3>2. 0 + i = i /\ Len(got'["target"]) = 0
      BY <1>1, <1>8, <1>a, <3>1
    <3> QED BY <1>9, <3>1, <3>2
  <2>5. Sink("up") = "target" /\ copier'["up"].count = n /\ gone' = gone
    BY <1>1, <1>5, <1>7
  <2> QED BY <2>2, <2>3, <2>4, <2>5 DEF Delivered
<1>14. Delivered("down")'
  <2>1. Delivered("down")
    BY DEF Flows
  <2> QED BY <1>1, <1>5, <1>6, <2>1 DEF Delivered, Passed
<1> QED BY <1>10, <1>11, <1>12, <1>13, <1>14 DEF Flows

LEMMA FlowsNext ==
  ASSUME Types, Stages, Flows, Next
  PROVE  Flows'
<1> USE DEF Goto, Become, Quiet, queues, peers, request
<1>a. \A d \in Directions : Settles(copier[d], copier[d])
  BY FlowTyped DEF Settles, Held
<1>b. ASSUME UNCHANGED <<Moved, copier, dropped>> PROVE Flows'
  BY <1>a, <1>b, FlowsSettle
<1>1. CASE Hijack
  BY <1>1, FlowsDrop DEF Hijack
<1>2. CASE Prepare \/ Dial \/ Greet
  BY <1>2, <1>b DEF Prepare, Dial, Greet, Moved
<1>3. CASE DialFails \/ GreetFails \/ Refused \/ ConnectTimeout \/ SendFails \/ HeadFails
  BY <1>3, <1>b DEF DialFails, GreetFails, Refused, ConnectTimeout, SendFails, HeadFails,
                    Give502, End, Moved
<1>4. CASE Established
  BY <1>4, <1>b, FlowsDrop DEF Established, Moved
<1>5. CASE Respond
  <2>1. copier = Idlers
    BY <1>5 DEF Respond, Stages, Early
  <2>2. \A d \in Directions : Settles(copier[d], copier'[d])
    BY <1>5, <2>1 DEF Respond, Settles, Held, Idlers, Stopped
  <2> QED BY <1>5, <2>2, FlowsSettle DEF Respond, Moved
<1>6. CASE RecordTunnel \/ RecordResponse
  BY <1>6, <1>b DEF RecordTunnel, RecordResponse, End, Moved
<1>7. CASE SendRequest
  BY <1>7, FlowsRequest
<1>8. CASE ReadHead
  <2>1. copier["down"] = Stopped /\ copier["up"] \in Copiers
    BY <1>8 DEF ReadHead, Stages, Types
  <2>2. copier' = [copier EXCEPT !["down"] = [copier["down"] EXCEPT !.pc = "read", !.waited = 0]]
    BY <1>8 DEF ReadHead
  <2>3. copier'["down"].pc = "read" /\ copier'["down"].count = copier["down"].count
        /\ copier["down"].pc = "off" /\ copier'["up"] = copier["up"]
    BY <2>1, <2>2 DEF Stopped, Types
  <2>4. Settles(copier["down"], copier'["down"])
    BY <2>3 DEF Settles, Held
  <2>5. \A d \in Directions : Settles(copier[d], copier'[d])
    BY <1>a, <2>3, <2>4
  <2> QED BY <1>8, <2>5, FlowsSettle DEF ReadHead, Moved
<1>9. ASSUME NEW c \in Conns, Send(c) \/ Finish(c) \/ Leave(c) \/ Receive(c) PROVE Flows'
  <2>1. CASE Finish(c)
    BY <2>1, <1>b DEF Finish, Moved
  <2> QED BY <1>9, <2>1, FlowsSend, FlowsLeave, FlowsReceive
<1>10. CASE Answer
  BY <1>10, <1>b DEF Answer, Moved
<1>11. CASE Tick
  <2>1. ASSUME NEW d \in Directions PROVE Settles(copier[d], copier'[d])
    <3>1. copier[d] \in Copiers
      BY DEF Types
    <3>2. /\ copier'[d].count = copier[d].count /\ copier'[d].pc = copier[d].pc
          /\ copier'[d].seg = copier[d].seg
      BY <1>11, <3>1 DEF Tick, Copiers
    <3> QED BY <3>2, FlowTyped DEF Settles, Held
  <2> QED BY <1>11, <2>1, FlowsSettle DEF Tick, Moved
<1>12. ASSUME NEW d \in Directions, CopyEnds(d) \/ CopyTimeout(d) \/ CopyClose(d) PROVE Flows'
  <2>1. PICK p \in {"close", "done"} :
          copier' = [copier EXCEPT ![d] = [copier[d] EXCEPT !.pc = p]]
    BY <1>12 DEF CopyEnds, CopyTimeout, CopyStop, CopyClose
  <2>2. copier'[d].pc = p /\ copier'[d].count = copier[d].count
        /\ \A e \in Directions : e # d => copier'[e] = copier[e]
    BY <2>1 DEF Types, Copiers
  <2>3. Settles(copier[d], copier'[d])
    BY <2>1, <2>2, FlowTyped DEF Settles, Held
  <2>4. \A e \in Directions : Settles(copier[e], copier'[e])
    BY <1>a, <2>2, <2>3
  <2>5. UNCHANGED Moved /\ dropped' = dropped
    BY <1>12 DEF CopyEnds, CopyTimeout, CopyStop, CopyClose, Moved
  <2> QED BY <2>4, <2>5, FlowsSettle
<1>13. ASSUME NEW d \in Directions, CopyStep(d) PROVE Flows'
  BY <1>12, <1>13, FlowsRead, FlowsWrite DEF CopyStep
<1> QED
  BY <1>1, <1>2, <1>3, <1>4, <1>5, <1>6, <1>7, <1>8, <1>9, <1>10, <1>11, <1>13
     DEF Next, Handler, Peer

-----------------------------------------------------------------------------
(* The inductive invariant: the types, what each step of the handler knows *)
(* of its goroutines and connections, what the bill is made of, and where  *)
(* every segment is that a peer has sent.                                  *)
THEOREM GatewayInvariant == Spec => []IInv
<1>1. Init => IInv
  BY InitInvariant
<1>2. IInv /\ [Next]_vars => IInv'
  <2>1. ASSUME IInv, Next PROVE IInv'
    BY <2>1, TypesNext, StagesNext, BookedNext, FlowsNext DEF IInv
  <2>2. ASSUME IInv, UNCHANGED vars PROVE IInv'
    <3>1. UNCHANGED <<mode, kind, sized, pc, copier, open, sent, fin, gone, answer>>
          /\ UNCHANGED <<toGate, fromGate, got, bill, ended, dropped>>
      BY <2>2 DEF vars, request, peers, queues
    <3>2. Types' /\ Stages' /\ Booked'
      BY <2>2, <3>1 DEF IInv, Types, Stages, Booked
    <3>3. Flows'
      BY <2>2, <3>1 DEF IInv, Flows, Waiting, Counted, Delivered, Passed
    <3> QED BY <3>2, <3>3 DEF IInv
  <2> QED BY <2>1, <2>2
<1> QED BY <1>1, <1>2, PTL DEF Spec

(* The types, and no goroutine of a CONNECT copies before the node has     *)
(* answered: there is none before the handler is in its tunnel, and none   *)
(* ever in an exchange that failed.                                        *)
THEOREM GatewayTypeOK == Spec => []TypeOK
<1>1. IInv => TypeOK
  <2> SUFFICES ASSUME IInv PROVE TypeOK
    OBVIOUS
  <2>1. Types /\ Stages /\ Booked
    BY DEF IInv
  <2>2. ASSUME pc # "tunnel", mode = "connect", ended # "served"
        PROVE  copier = [d \in Directions |-> Stopped]
    BY <2>1, <2>2 DEF Types, Stages, Booked, Early, Idlers, HandlerSteps
  <2>3. \A queue \in {toGate, fromGate, got} : queue \in [Conns -> Seq(Segments)]
    BY <2>1 DEF Types, Queues
  <2> QED BY <2>1, <2>2, <2>3 DEF Types, TypeOK, Copiers
<1> QED BY <1>1, GatewayInvariant, PTL

(* What a peer has received, or has been written to it, is the beginning   *)
(* of what the other one sent, for every window and number of segments.    *)
THEOREM GatewayStreamsIntact == Spec => []StreamsIntact
<1>1. IInv => StreamsIntact
  <2> SUFFICES ASSUME IInv, NEW d \in Directions, Source(d) \notin dropped
               PROVE  got[Sink(d)] \o fromGate[Sink(d)]
                        = [i \in 1..Len(got[Sink(d)] \o fromGate[Sink(d)]) |-> i]
    BY DEF StreamsIntact
  <2>1. PICK s \in Seq(Segments), t \in Seq(Segments) : s = got[Sink(d)] /\ t = fromGate[Sink(d)]
    BY FlowTyped DEF IInv
  <2>2. /\ \A i \in 1..Len(s) : s[i] = i
        /\ \A i \in 1..Len(t) : t[i] = Len(s) + i
    BY <2>1 DEF IInv, Flows, Delivered
  <2>3. /\ s \o t \in Seq(Segments) /\ Len(s \o t) = Len(s) + Len(t)
        /\ \A i \in 1..(Len(s) + Len(t)) : (s \o t)[i] = IF i <= Len(s) THEN s[i] ELSE t[i - Len(s)]
    BY ConcatProperties
  <2>4. Len(s) \in Nat /\ Len(t) \in Nat
    BY LenProperties
  <2>5. ASSUME NEW i \in 1..(Len(s) + Len(t)) PROVE (s \o t)[i] = i
    <3>1. CASE i <= Len(s)
      BY <2>2, <2>3, <2>4, <3>1
    <3>2. CASE ~(i <= Len(s))
      <4>1. PICK n \in Nat, m \in Nat : n = Len(s) /\ m = Len(t)
        BY <2>4
      <4>2. i - n \in 1..m /\ n + (i - n) = i
        BY <3>2, <4>1
      <4>3. (s \o t)[i] = t[i - n]
        BY <2>3, <3>2, <4>1
      <4> QED BY <2>2, <4>1, <4>2, <4>3
    <3> QED BY <3>1, <3>2
  <2>6. PICK u \in Seq(Segments) : u = s \o t
    BY <2>3
  <2>7. \A i \in 1..Len(u) : u[i] = i
    BY <2>3, <2>5, <2>6
  <2>8. u = [i \in 1..Len(u) |-> i]
    BY <2>7
  <2> QED BY <2>1, <2>6, <2>8
<1> QED BY <1>1, GatewayInvariant, PTL

(* When the handler is done, whichever step failed, the gateway holds no   *)
(* connection of the exchange and has no goroutine left.                   *)
THEOREM GatewayNothingLeftBehind == Spec => []NothingLeftBehind
<1>1. IInv => NothingLeftBehind
  BY DEF IInv, Stages, NothingLeftBehind
<1> QED BY <1>1, GatewayInvariant, PTL

(* What passed is on the bill and nothing else, whatever ended the         *)
(* exchange; only the client of a plain request can leave without a bill.  *)
THEOREM GatewayNothingFree == Spec => []NothingFree
<1>1. IInv => NothingFree
  <2> SUFFICES ASSUME IInv PROVE NothingFree
    OBVIOUS
  <2>1. Booked /\ Flows /\ Types
    BY DEF IInv
  <2>2. (ended # "served" => bill = <<>>)
        /\ (ended = "served" /\ bill = <<>> => mode = "http" /\ gone["client"])
    BY <2>1 DEF Booked
  <2>3. ASSUME bill # <<>>, NEW d \in Directions
        PROVE  /\ Passed(d) <= bill[1][d] \/ (d = "up" /\ ~sized)
               /\ bill[1][d] <= sent[Source(d)]
    <3>1. bill[1][d] = copier[d].count \/ (d = "up" /\ ~sized /\ bill[1][d] = 0)
      BY <2>1, <2>3 DEF Booked
    <3>2. Passed(d) <= copier[d].count
      BY <2>1 DEF Flows, Delivered
    <3>3. PICK k \in Nat, h \in Nat, n \in Nat, m \in Nat :
            /\ k = copier[d].count /\ h = Held(copier[d])
            /\ n = Len(toGate[Source(d)]) /\ m = sent[Source(d)]
      BY <2>1, FlowTyped
    <3>4. k + h + n <= m
      BY <2>1, <3>3 DEF Flows, Counted
    <3>5. k <= m /\ 0 <= m
      BY <3>4
    <3> QED BY <3>1, <3>2, <3>3, <3>5
  <2> QED BY <2>2, <2>3 DEF NothingFree
<1> QED BY <1>1, GatewayInvariant, PTL

-----------------------------------------------------------------------------
(* Nothing waits in front of a peer, or of the gateway, beyond the window, *)
(* and the goroutine of a response runs while the handler is in it.        *)
Room ==
    /\ \A c \in Conns : Len(toGate[c]) <= Window /\ Len(fromGate[c]) <= Window
    /\ pc = "body" => copier["down"].pc \in {"read", "write", "close"}

LEMMA RoomNext ==
  ASSUME IInv, Room, [Next]_vars
  PROVE  Room'
<1> USE DEF Goto, Become, Quiet, queues, peers, request
<1>0. /\ Window \in Nat \ {0}
      /\ \A c \in Conns : Len(toGate[c]) \in Nat /\ Len(fromGate[c]) \in Nat
      /\ \A c \in Conns : toGate[c] \in Seq(Segments) /\ fromGate[c] \in Seq(Segments)
      /\ toGate \in Queues /\ fromGate \in Queues
  BY GatewayAssumption, LenProperties DEF IInv, Types, Queues
<1>1. ASSUME UNCHANGED <<toGate, fromGate>>, pc' # "body" \/ UNCHANGED <<pc, copier>> PROVE Room'
  BY <1>1 DEF Room
<1>2. ASSUME UNCHANGED fromGate, NEW c \in Conns, DropBuffered(c), pc' # "body" PROVE Room'
  <2>1. PICK n \in 0..Len(toGate[c]) : toGate' = [toGate EXCEPT ![c] = SubSeq(@, n + 1, Len(@))]
    BY <1>2 DEF DropBuffered
  <2>2. Len(toGate'[c]) = Len(toGate[c]) - n /\ \A k \in Conns : k # c => toGate'[k] = toGate[k]
    BY <1>0, <2>1, DropFront DEF Queues
  <2> QED BY <1>0, <1>2, <2>2 DEF Room
<1>3. CASE Hijack
  BY <1>2, <1>3 DEF Hijack, DropBuffered
<1>4. CASE Prepare \/ Dial \/ Greet \/ Respond \/ RecordTunnel
  BY <1>1, <1>4 DEF Prepare, Dial, Greet, Respond, RecordTunnel
<1>5. CASE DialFails \/ GreetFails \/ Refused \/ ConnectTimeout \/ SendFails \/ HeadFails \/ RecordResponse
  BY <1>1, <1>5 DEF DialFails, GreetFails, Refused, ConnectTimeout, SendFails, HeadFails,
                    RecordResponse, Give502, End
<1>6. CASE Established
  <2>1. pc' # "body"
    BY <1>6 DEF Established
  <2> QED BY <1>1, <1>2, <1>6, <2>1 DEF Established, DropBuffered
<1>7. CASE SendRequest
  <2>1. toGate'["client"] = <<>> /\ toGate'["target"] = toGate["target"] /\ pc' # "body"
    BY <1>0, <1>7 DEF SendRequest, Queues
  <2>2. fromGate'["client"] = fromGate["client"] /\ fromGate'["target"] \in {<<>>, toGate["client"]}
    BY <1>0, <1>7 DEF SendRequest, Queues
  <2>3. Len(<<>>) = 0
    OBVIOUS
  <2> QED BY <1>0, <2>1, <2>2, <2>3 DEF Room
<1>8. CASE ReadHead
  <2>1. copier'["down"].pc = "read" /\ UNCHANGED <<toGate, fromGate>>
    BY <1>8 DEF ReadHead, IInv, Types, Copiers
  <2> QED BY <2>1 DEF Room
<1>9. ASSUME NEW c \in Conns, Send(c) PROVE Room'
  <2>1. /\ toGate' = [toGate EXCEPT ![c] = Append(@, sent'[c])] /\ Len(toGate[c]) < Window
        /\ UNCHANGED <<fromGate, pc, copier>>
    BY <1>9 DEF Send
  <2>2. sent'[c] \in Segments
    BY <1>9, GatewayAssumption DEF Send, Segments, IInv, Types
  <2>3. Len(Append(toGate[c], sent'[c])) = Len(toGate[c]) + 1
    BY <1>0, <2>2, AppendProperties
  <2> QED BY <1>0, <2>1, <2>3 DEF Room, Queues
<1>10. ASSUME NEW c \in Conns, Finish(c) PROVE Room'
  BY <1>1, <1>10 DEF Finish
<1>11. ASSUME NEW c \in Conns, Leave(c) PROVE Room'
  <2>1. Len(<<>>) = 0
    OBVIOUS
  <2> QED BY <1>0, <1>11, <2>1 DEF Leave, Room, Queues
<1>12. ASSUME NEW c \in Conns, Receive(c) PROVE Room'
  <2>1. Len(Tail(fromGate[c])) = Len(fromGate[c]) - 1
    BY <1>0, <1>12, HeadTailProperties DEF Receive
  <2> QED BY <1>0, <1>12, <2>1 DEF Receive, Room, Queues
<1>13. CASE Answer
  BY <1>1, <1>13 DEF Answer
<1>14. CASE Tick
  <2>1. copier'["down"].pc = copier["down"].pc
    BY <1>14 DEF Tick, IInv, Types, Copiers
  <2> QED BY <1>14, <2>1 DEF Tick, Room
<1>15. ASSUME NEW d \in Directions, CopyRead(d) PROVE Room'
  <2>1. Len(Tail(toGate[Source(d)])) = Len(toGate[Source(d)]) - 1
    BY <1>0, <1>15, HeadTailProperties DEF CopyRead
  <2>2. copier'[d].pc = "write" /\ \A e \in Directions : e # d => copier'[e] = copier[e]
    BY <1>15 DEF CopyRead, IInv, Types, Copiers
  <2> QED BY <1>0, <1>15, <2>1, <2>2 DEF CopyRead, Room, Queues
<1>16. ASSUME NEW d \in Directions, CopyWrite(d) PROVE Room'
  <2>1. copier[d].seg \in Segments
    BY <1>16 DEF CopyWrite, IInv, Types, Copiers
  <2>2. Len(Append(fromGate[Sink(d)], copier[d].seg)) = Len(fromGate[Sink(d)]) + 1
    BY <1>0, <2>1, AppendProperties
  <2>3. copier'[d].pc = "read" /\ \A e \in Directions : e # d => copier'[e] = copier[e]
    BY <1>16 DEF CopyWrite, IInv, Types, Copiers
  <2> QED BY <1>0, <1>16, <2>2, <2>3 DEF CopyWrite, Room, Queues
<1>17. ASSUME NEW d \in Directions, CopyEnds(d) \/ CopyTimeout(d) PROVE Room'
  <2>1. copier'[d].pc = "close" /\ \A e \in Directions : e # d => copier'[e] = copier[e]
    BY <1>17 DEF CopyEnds, CopyTimeout, CopyStop, IInv, Types, Copiers
  <2> QED BY <1>17, <2>1 DEF CopyEnds, CopyTimeout, CopyStop, Room
<1>18. ASSUME NEW d \in Directions, CopyClose(d), pc = "tunnel" PROVE Room'
  BY <1>18 DEF CopyClose, Room
<1>19. CASE UNCHANGED vars
  BY <1>1, <1>19 DEF vars
<1> QED
  BY <1>3, <1>4, <1>5, <1>6, <1>7, <1>8, <1>9, <1>10, <1>11, <1>12, <1>13, <1>14, <1>15, <1>16,
     <1>17, <1>18, <1>19 DEF Next, Handler, Peer, CopyStep

(* Where nobody can move the exchange has ended, or waits without a        *)
(* deadline: each step of the handler has a way on, and a goroutine that   *)
(* has none is blocked, and under a deadline.                              *)
LEMMA SomebodyMoves ==
  ASSUME IInv, Room, IdleTO > 0, pc # "end", ~NoDeadline
  PROVE  HandlerReady \/ TickReady \/ \E d \in Directions : CopierReady(d)
<1> SUFFICES ASSUME ~HandlerReady, \A d \in Directions : ~CopierReady(d)
             PROVE  TickReady
  OBVIOUS
<1>1. pc \in {"tunnel", "body"}
  <2>1. pc \in HandlerSteps /\ kind \in {"proxy", "direct", "header"}
    BY DEF IInv, Types
  <2> QED BY <2>1 DEF HandlerReady, HandlerSteps, NoDeadline, TargetDial
<1>2. ASSUME NEW d \in Directions, copier[d].pc \in {"read", "write"}
      PROVE  Blocked(d) /\ copier[d].waited < IdleTO
  <2>1. copier[d].waited \in 0..IdleTO
    BY DEF IInv, Types, Copiers
  <2> QED BY <1>2, <2>1, GatewayAssumption DEF CopierReady
<1>3. \A d \in Directions : copier[d].pc \in CopierSteps
  BY DEF IInv, Types, Copiers
<1>4. CASE pc = "tunnel"
  <2>1. \A d \in Directions : copier[d].pc \in {"read", "write", "done"}
    BY <1>3, <1>4 DEF IInv, Stages, CopierReady, CopierSteps
  <2>2. mode = "connect"
    BY <1>4 DEF IInv, Stages, Types
  <2>3. PICK d \in Directions : copier[d].pc # "done"
    BY <1>4 DEF HandlerReady
  <2>4. Blocked(d) /\ Timed(d)
    BY <1>2, <2>1, <2>2, <2>3 DEF Timed
  <2> QED BY <1>2, <2>1, <2>4 DEF TickReady
<1>5. CASE pc = "body"
  <2>1. copier["up"].pc = "off" /\ mode = "http"
    BY <1>5 DEF IInv, Stages, Types
  <2>2. copier["down"].pc = "read"
    BY <1>5 DEF Room, HandlerReady, NoDeadline
  <2>3. Blocked("down") /\ copier["down"].waited < IdleTO
    BY <1>2, <2>2
  <2>4. Timed("down")
    BY <2>2 DEF Timed
  <2> QED BY <2>1, <2>3, <2>4 DEF TickReady
<1> QED BY <1>1, <1>4, <1>5

-----------------------------------------------------------------------------
(* The terms of what is left are numbers.                                  *)
LEMMA LeftTyped ==
  ASSUME Types
  PROVE  /\ HandlerLeft[pc] \in Nat
         /\ \A d \in Directions : CopierLeft[copier[d].pc] \in 0..4
         /\ \A c \in Conns : LeftAt(c) \in Nat
         /\ One(answer = "none") \in 0..1
<1>1. HandlerLeft[pc] \in Nat
  BY DEF Types, HandlerSteps, HandlerLeft
<1>2. ASSUME NEW d \in Directions PROVE CopierLeft[copier[d].pc] \in 0..4
  <2>1. copier[d].pc \in CopierSteps
    BY DEF Types, Copiers
  <2> QED BY <2>1 DEF CopierSteps, CopierLeft
<1>3. ASSUME NEW c \in Conns PROVE LeftAt(c) \in Nat
  <2>1. sent[c] \in 0..MaxSent /\ MaxSent \in Nat
    BY Constants DEF Types
  <2>2. Len(toGate[c]) \in Nat /\ Len(fromGate[c]) \in Nat
    BY LenProperties DEF Types, Queues
  <2>3. One(~fin[c]) \in Nat /\ One(~gone[c]) \in Nat
    BY DEF One
  <2>4. 5 * (MaxSent - sent[c]) \in Nat /\ 4 * Len(toGate[c]) \in Nat
    <3>1. \A m \in Nat : \A n \in 0..m : 5 * (m - n) \in Nat
      OBVIOUS
    <3>2. \A n \in Nat : 4 * n \in Nat
      OBVIOUS
    <3> QED BY <2>1, <2>2, <3>1, <3>2, Zenon
  <2>5. PICK a, b, p, q, r :
          /\ a = 5 * (MaxSent - sent[c]) /\ b = 4 * Len(toGate[c])
          /\ p = Len(fromGate[c]) /\ q = One(~fin[c]) /\ r = One(~gone[c])
    OBVIOUS
  <2>6. a \in Nat /\ b \in Nat /\ p \in Nat /\ q \in Nat /\ r \in Nat
    BY <2>2, <2>3, <2>4, <2>5
  <2>7. LeftAt(c) = a + b + p + q + r
    BY <2>5, Zenon DEF LeftAt
  <2>8. a + b + p + q + r \in Nat
    BY <2>6
  <2> QED BY <2>7, <2>8, Zenon
<1>4. One(answer = "none") \in 0..1
  BY DEF One
<1> QED BY <1>1, <1>2, <1>3, <1>4

Leftovers ==
    /\ HandlerLeft[pc] \in Nat
    /\ CopierLeft[copier["up"].pc] \in Nat /\ CopierLeft[copier["down"].pc] \in Nat
    /\ LeftAt("client") \in Nat /\ LeftAt("target") \in Nat
    /\ One(answer = "none") \in Nat

LEMMA LeftoversNat == Types => Leftovers
  BY LeftTyped DEF Leftovers

(* What is left, in three sums: the handler, its goroutines with the       *)
(* answer, and the connections.                                            *)
CopiersLeft ==
    CopierLeft[copier["up"].pc] + CopierLeft[copier["down"].pc] + One(answer = "none")
ConnsLeft == LeftAt("client") + LeftAt("target")

Sums ==
    /\ HandlerLeft[pc] \in Nat /\ CopiersLeft \in Nat /\ ConnsLeft \in Nat
    /\ Left = HandlerLeft[pc] + CopiersLeft + ConnsLeft

LEMMA SumsAdd == Types => Sums
<1> SUFFICES ASSUME Types PROVE Sums
  OBVIOUS
<1>1. PICK h, p, q, x, y, a :
        /\ h = HandlerLeft[pc] /\ p = CopierLeft[copier["up"].pc] /\ q = CopierLeft[copier["down"].pc]
        /\ x = LeftAt("client") /\ y = LeftAt("target") /\ a = One(answer = "none")
  OBVIOUS
<1>2. h \in Nat /\ p \in Nat /\ q \in Nat /\ x \in Nat /\ y \in Nat /\ a \in Nat
  BY <1>1, LeftoversNat, Zenon DEF Leftovers
<1>3. Left = h + p + q + x + y + a
  BY <1>1, Zenon DEF Left
<1>4. CopiersLeft = p + q + a
  BY <1>1, Zenon DEF CopiersLeft
<1>5. ConnsLeft = x + y
  BY <1>1, Zenon DEF ConnsLeft
<1>6. h + p + q + x + y + a = h + (p + q + a) + (x + y) /\ p + q + a \in Nat /\ x + y \in Nat
  BY <1>2
<1> QED BY <1>1, <1>2, <1>3, <1>4, <1>5, <1>6, Zenon DEF Sums

LEMMA LeftDrops ==
  ASSUME Types, Types',
         NEW k \in Nat, HandlerLeft[pc]' + k < HandlerLeft[pc],
         CopiersLeft' <= CopiersLeft + k, ConnsLeft' <= ConnsLeft
  PROVE  Left' < Left
<1>1. Types' => Sums'
  BY SumsAdd, PTL
<1>2. Sums /\ Sums'
  BY <1>1, SumsAdd
<1>3. \A h, p, x, h2, p2, x2 \in Nat :
        h2 + k < h /\ p2 <= p + k /\ x2 <= x => h2 + p2 + x2 < h + p + x
  OBVIOUS
<1> QED BY <1>2, <1>3, Zenon DEF Sums

LEMMA CopiersGrow ==
  ASSUME Types, Types', NEW i \in Nat, NEW j \in Nat, NEW k \in Nat,
         CopierLeft[copier["up"].pc]' <= CopierLeft[copier["up"].pc] + i,
         CopierLeft[copier["down"].pc]' <= CopierLeft[copier["down"].pc] + j,
         One(answer = "none")' <= One(answer = "none") + k
  PROVE  CopiersLeft' <= CopiersLeft + (i + j + k)
<1>1. Types' => Leftovers'
  BY LeftoversNat, PTL
<1>2. Leftovers /\ Leftovers'
  BY <1>1, LeftoversNat
<1>3. \A p, q, a, p2, q2, a2 \in Nat :
        p2 <= p + i /\ q2 <= q + j /\ a2 <= a + k => p2 + q2 + a2 <= (p + q + a) + (i + j + k)
  OBVIOUS
<1> QED BY <1>2, <1>3, Zenon DEF Leftovers, CopiersLeft

LEMMA CopiersStay ==
  ASSUME Types, Types', copier'["up"].pc = copier["up"].pc,
         copier'["down"].pc = copier["down"].pc, answer' = answer
  PROVE  CopiersLeft' <= CopiersLeft + 0
<1>1. CopiersLeft' = CopiersLeft
  BY Zenon DEF CopiersLeft
<1>2. CopiersLeft \in Nat
  BY SumsAdd, Zenon DEF Sums
<1>3. \A n \in Nat : n <= n + 0
  OBVIOUS
<1> QED BY <1>1, <1>2, <1>3, Zenon

(* How the rest changes where segments move.                               *)
Amounts ==
    \A c \in Conns : sent[c] \in 0..MaxSent /\ Len(toGate[c]) \in Nat /\ Len(fromGate[c]) \in Nat

LEMMA AmountsNat == Types => Amounts
  BY LenProperties DEF Types, Queues, Amounts

LEMMA LeftAtMoves ==
  ASSUME Amounts, Amounts', NEW c \in Conns, fin'[c] = fin[c], gone'[c] = gone[c]
  PROVE  LeftAt(c)' = LeftAt(c) + 5 * (sent[c] - sent'[c])
                        + 4 * (Len(toGate'[c]) - Len(toGate[c]))
                        + (Len(fromGate'[c]) - Len(fromGate[c]))
<1>1. PICK s, t, u, s2, t2, u2, x, y :
        /\ s = sent[c] /\ t = Len(toGate[c]) /\ u = Len(fromGate[c])
        /\ s2 = sent'[c] /\ t2 = Len(toGate'[c]) /\ u2 = Len(fromGate'[c])
        /\ x = One(~fin[c]) /\ y = One(~gone[c])
  OBVIOUS
<1>2. MaxSent \in Nat /\ s \in Nat /\ t \in Nat /\ u \in Nat /\ s2 \in Nat /\ t2 \in Nat /\ u2 \in Nat
  <2>1. MaxSent \in Nat /\ \A i \in 0..MaxSent : i \in Nat
    BY Constants
  <2>2. s \in Nat /\ t \in Nat /\ u \in Nat
    BY <1>1, <2>1, Zenon DEF Amounts
  <2>3. s2 \in Nat /\ t2 \in Nat /\ u2 \in Nat
    BY <1>1, <2>1, Zenon DEF Amounts
  <2> QED BY <2>1, <2>2, <2>3
<1>3. x \in Nat /\ y \in Nat
  BY <1>1 DEF One
<1>4. LeftAt(c) = 5 * (MaxSent - s) + 4 * t + u + x + y
  BY <1>1, Zenon DEF LeftAt
<1>5. LeftAt(c)' = 5 * (MaxSent - s2) + 4 * t2 + u2 + x + y
  BY <1>1, Zenon DEF LeftAt
<1>6. 5 * (MaxSent - s2) + 4 * t2 + u2 + x + y
        = (5 * (MaxSent - s) + 4 * t + u + x + y) + 5 * (s - s2) + 4 * (t2 - t) + (u2 - u)
  BY <1>2, <1>3
<1> QED BY <1>1, <1>4, <1>5, <1>6, Zenon

LEMMA LeftAtKept ==
  ASSUME Types, NEW c \in Conns,
         sent'[c] = sent[c], toGate'[c] = toGate[c], fromGate'[c] = fromGate[c],
         fin'[c] = fin[c], gone'[c] = gone[c]
  PROVE  LeftAt(c)' = LeftAt(c)
  BY DEF LeftAt

LEMMA HandlerNearer ==
  ASSUME IInv, Types', Handler
  PROVE  Left' < Left
<1> USE DEF Goto, Become, Quiet, queues, peers, request
<1>0. Types
  BY DEF IInv
<1>1. /\ \A d \in Directions : CopierLeft[copier[d].pc] \in 0..4
      /\ One(answer = "none") \in 0..1
      /\ \A c \in Conns : LeftAt(c) \in Nat
      /\ \A c \in Conns : Len(toGate[c]) \in Nat /\ Len(fromGate[c]) \in Nat
  BY <1>0, LeftTyped, LenProperties DEF Types, Queues
<1>15. Amounts /\ Amounts'
  <2>1. Types' => Amounts'
    BY AmountsNat, PTL
  <2> QED BY <1>0, <2>1, AmountsNat
<1>2. ASSUME UNCHANGED <<sent, toGate, fromGate, fin, gone>>
      PROVE  ConnsLeft' <= ConnsLeft
  <2>1. \A c \in Conns : LeftAt(c)' = LeftAt(c)
    BY <1>0, <1>2, LeftAtKept
  <2>2. ConnsLeft' = ConnsLeft
    BY <2>1, Zenon DEF ConnsLeft
  <2>3. ConnsLeft \in Nat
    BY <1>0, SumsAdd, Zenon DEF Sums
  <2>4. \A n \in Nat : n <= n
    OBVIOUS
  <2> QED BY <2>2, <2>3, <2>4, Zenon
<1>3. ASSUME NEW c \in Conns, DropBuffered(c), UNCHANGED <<sent, fin, gone>>
      PROVE  ConnsLeft' <= ConnsLeft
  <2>1. PICK n \in 0..Len(toGate[c]) :
          /\ toGate' = [toGate EXCEPT ![c] = SubSeq(@, n + 1, Len(@))]
          /\ UNCHANGED fromGate
    BY <1>3 DEF DropBuffered
  <2>2. Len(toGate'[c]) = Len(toGate[c]) - n /\ \A k \in Conns : k # c => toGate'[k] = toGate[k]
    BY <1>0, <2>1, DropFront DEF Types, Queues
  <2>3. LeftAt(c)' <= LeftAt(c)
    <3>1. LeftAt(c)' = LeftAt(c) + 5 * (sent[c] - sent'[c]) + 4 * (Len(toGate'[c]) - Len(toGate[c]))
                         + (Len(fromGate'[c]) - Len(fromGate[c]))
      BY <1>3, <1>15, LeftAtMoves
    <3>2. sent'[c] = sent[c] /\ Len(fromGate'[c]) = Len(fromGate[c]) /\ sent[c] \in Nat
      BY <1>0, <1>3, <2>1, Constants DEF Types
    <3> QED BY <1>1, <2>2, <3>1, <3>2
  <2>4. \A k \in Conns : k # c => LeftAt(k)' = LeftAt(k)
    BY <1>0, <1>3, <2>1, <2>2, LeftAtKept
  <2>5. PICK other \in Conns : other # c /\ {c, other} = Conns
    OBVIOUS
  <2>6. /\ LeftAt(other)' = LeftAt(other) /\ LeftAt(c) \in Nat /\ LeftAt(other) \in Nat
        /\ LeftAt(c)' \in Int
    <3>1. Types' => Leftovers'
      BY LeftoversNat, PTL
    <3>2. LeftAt("client")' \in Nat /\ LeftAt("target")' \in Nat
      BY <3>1 DEF Leftovers
    <3>3. LeftAt(c)' \in Nat
      <4>1. CASE c = "client"
        BY <3>2, <4>1
      <4>2. CASE c = "target"
        BY <3>2, <4>2
      <4> QED BY <4>1, <4>2
    <3> QED BY <1>1, <2>4, <2>5, <3>3
  <2>7. \A x, y \in Nat : \A z \in Int : z <= x => z + y <= x + y /\ y + z <= y + x
    OBVIOUS
  <2>8. CASE c = "client"
    <3>1. other = "target"
      BY <2>5, <2>8
    <3> QED BY <2>3, <2>6, <2>7, <2>8, <3>1, Zenon DEF ConnsLeft
  <2>9. CASE c = "target"
    <3>1. other = "client"
      BY <2>5, <2>9
    <3> QED BY <2>3, <2>6, <2>7, <2>9, <3>1, Zenon DEF ConnsLeft
  <2> QED BY <2>8, <2>9
<1>4. ASSUME UNCHANGED <<copier, answer, sent, toGate, fromGate, fin, gone>>,
             HandlerLeft[pc]' < HandlerLeft[pc]
      PROVE  Left' < Left
  <2>1. HandlerLeft[pc]' + 0 < HandlerLeft[pc]
    BY <1>0, <1>4, LeftoversNat DEF Types, HandlerSteps, HandlerLeft
  <2>2. CopiersLeft' <= CopiersLeft + 0
    BY <1>0, <1>4, CopiersStay
  <2> QED BY <1>0, <1>2, <1>4, <2>1, <2>2, LeftDrops
<1>5. CASE Hijack
  <2>1. HandlerLeft[pc]' + 0 < HandlerLeft[pc]
    BY <1>5 DEF Hijack, HandlerLeft
  <2>2. CopiersLeft' <= CopiersLeft + 0
    BY <1>0, <1>5, CopiersStay DEF Hijack
  <2>3. ConnsLeft' <= ConnsLeft
    BY <1>3, <1>5 DEF Hijack
  <2> QED BY <1>0, <2>1, <2>2, <2>3, LeftDrops
<1>6. CASE Prepare \/ Greet
  <2>1. HandlerLeft[pc]' < HandlerLeft[pc]
    BY <1>6 DEF Prepare, Greet, HandlerLeft
  <2> QED BY <1>4, <1>6, <2>1 DEF Prepare, Greet
<1>7. CASE Dial
  <2>1. HandlerLeft[pc]' < HandlerLeft[pc]
    BY <1>7 DEF Dial, HandlerLeft
  <2> QED BY <1>4, <1>7, <2>1 DEF Dial
<1>8. ASSUME pc # "end", pc' = "end", UNCHANGED <<copier, answer, sent, toGate, fromGate, fin, gone>>
      PROVE  Left' < Left
  <2>1. HandlerLeft[pc]' < HandlerLeft[pc]
    BY <1>0, <1>8 DEF Types, HandlerSteps, HandlerLeft
  <2> QED BY <1>4, <1>8, <2>1
<1>9. CASE DialFails \/ GreetFails \/ Refused \/ ConnectTimeout \/ SendFails \/ HeadFails
  BY <1>8, <1>9 DEF DialFails, GreetFails, Refused, ConnectTimeout, SendFails, HeadFails, Give502, End
<1>10. CASE RecordTunnel \/ RecordResponse
  BY <1>8, <1>10 DEF RecordTunnel, RecordResponse, End
<1>11. CASE Established
  <2>1. HandlerLeft[pc]' + 1 < HandlerLeft[pc]
    BY <1>11 DEF Established, HandlerLeft
  <2>2. One(answer = "none")' \in 0..1
    BY DEF One
  <2>3. CopiersLeft' <= CopiersLeft + 1
    <3>1. copier' = copier
      BY <1>11 DEF Established
    <3>2. One(answer = "none")' <= One(answer = "none") + 1
      BY <1>1, <2>2
    <3>3. /\ CopierLeft[copier["up"].pc]' <= CopierLeft[copier["up"].pc] + 0
          /\ CopierLeft[copier["down"].pc]' <= CopierLeft[copier["down"].pc] + 0
      BY <1>1, <3>1
    <3>4. CopiersLeft' <= CopiersLeft + (0 + 0 + 1)
      BY <1>0, <3>2, <3>3, CopiersGrow
    <3> QED BY <3>4
  <2>4. ConnsLeft' <= ConnsLeft
    BY <1>2, <1>3, <1>11 DEF Established
  <2> QED BY <1>0, <2>1, <2>3, <2>4, LeftDrops
<1>12. CASE Respond
  <2>1. HandlerLeft[pc]' + 4 < HandlerLeft[pc]
    BY <1>12 DEF Respond, HandlerLeft
  <2>2. copier'["up"].pc = "read" /\ copier'["down"].pc = "read" /\ answer' = answer
    BY <1>12 DEF Respond, Stopped
  <2>3. CopierLeft[copier["up"].pc]' = 2 /\ CopierLeft[copier["down"].pc]' = 2
    BY <2>2 DEF CopierLeft
  <2>4. CopiersLeft' <= CopiersLeft + 4
    <3>1. /\ CopierLeft[copier["up"].pc]' <= CopierLeft[copier["up"].pc] + 2
          /\ CopierLeft[copier["down"].pc]' <= CopierLeft[copier["down"].pc] + 2
      BY <1>1, <2>3
    <3>2. One(answer = "none")' <= One(answer = "none") + 0
      BY <1>1, <2>2
    <3>3. CopiersLeft' <= CopiersLeft + (2 + 2 + 0)
      BY <1>0, <3>1, <3>2, CopiersGrow
    <3> QED BY <3>3
  <2>5. ConnsLeft' <= ConnsLeft
    BY <1>2, <1>12 DEF Respond
  <2> QED BY <1>0, <2>1, <2>4, <2>5, LeftDrops
<1>13. CASE SendRequest
  <2>1. HandlerLeft[pc]' + 0 < HandlerLeft[pc]
    BY <1>13 DEF SendRequest, HandlerLeft
  <2>2. copier'["up"].pc = copier["up"].pc /\ copier'["down"].pc = copier["down"].pc /\ answer' = answer
    BY <1>0, <1>13 DEF SendRequest, Types, Copiers
  <2>3. CopiersLeft' <= CopiersLeft + 0
    BY <1>0, <2>2, CopiersStay
  <2>4. ConnsLeft' <= ConnsLeft
    <3>1. /\ toGate'["client"] = <<>> /\ toGate'["target"] = toGate["target"]
          /\ fromGate'["client"] = fromGate["client"] /\ fromGate'["target"] \in {<<>>, toGate["client"]}
          /\ UNCHANGED <<sent, fin, gone>>
      BY <1>0, <1>13 DEF SendRequest, Types, Queues
    <3>2. PICK l \in Nat, f \in Nat : l = Len(toGate["client"]) /\ f = Len(fromGate["target"])
      BY <1>1
    <3>3. Len(toGate'["client"]) = 0 /\ Len(fromGate'["target"]) \in {0, l}
      <4>1. Len(<<>>) = 0
        OBVIOUS
      <4> QED BY <3>1, <3>2, <4>1
    <3>4. /\ sent["client"] \in Nat /\ sent["target"] \in Nat
          /\ sent'["client"] = sent["client"] /\ sent'["target"] = sent["target"]
          /\ Len(fromGate'["client"]) = Len(fromGate["client"]) /\ Len(fromGate["client"]) \in Nat
          /\ Len(toGate'["target"]) = Len(toGate["target"]) /\ Len(toGate["target"]) \in Nat
      BY <1>0, <1>1, <3>1, Constants DEF Types
    <3>5. \A c \in Conns :
            LeftAt(c)' = LeftAt(c) + 5 * (sent[c] - sent'[c]) + 4 * (Len(toGate'[c]) - Len(toGate[c]))
                         + (Len(fromGate'[c]) - Len(fromGate[c]))
      BY <1>15, <3>1, LeftAtMoves
    <3>6. LeftAt("client")' = LeftAt("client") + 4 * (0 - l)
      <4>1. PICK x, y, t, f1 :
              /\ x = LeftAt("client")' /\ y = LeftAt("client") /\ t = sent["client"] /\ f1 = Len(fromGate["client"])
        OBVIOUS
      <4>2. y \in Nat /\ t \in Nat /\ f1 \in Nat
        BY <1>1, <3>4, <4>1
      <4>3. x = y + 5 * (t - t) + 4 * (0 - l) + (f1 - f1)
        BY <3>2, <3>3, <3>4, <3>5, <4>1, Zenon
      <4>4. x = y + 4 * (0 - l)
        BY <3>2, <4>2, <4>3
      <4> QED BY <4>1, <4>4, Zenon
    <3>7. LeftAt("target")' = LeftAt("target") + (Len(fromGate'["target"]) - f)
      <4>1. PICK x, y, t, g, v :
              /\ x = LeftAt("target")' /\ y = LeftAt("target") /\ t = sent["target"]
              /\ g = Len(toGate["target"]) /\ v = Len(fromGate'["target"])
        OBVIOUS
      <4>2. y \in Nat /\ t \in Nat /\ g \in Nat /\ v \in Nat
        <5>1. v = 0 \/ v = l
          BY <3>3, <4>1
        <5>2. 0 \in Nat /\ l \in Nat
          BY <3>2
        <5> QED BY <1>1, <3>4, <4>1, <5>1, <5>2
      <4>3. x = y + 5 * (t - t) + 4 * (g - g) + (v - f)
        BY <3>2, <3>3, <3>4, <3>5, <4>1, Zenon
      <4>4. x = y + (v - f)
        BY <3>2, <4>2, <4>3
      <4> QED BY <4>1, <4>4, Zenon
    <3> QED
      <4>1. PICK x, y, v, a, b :
              /\ x = LeftAt("client") /\ y = LeftAt("target") /\ v = Len(fromGate'["target"])
              /\ a = LeftAt("client")' /\ b = LeftAt("target")'
        OBVIOUS
      <4>2. x \in Nat /\ y \in Nat /\ v \in {0, l}
        BY <1>1, <3>3, <4>1
      <4>3. a = x + 4 * (0 - l) /\ b = y + (v - f)
        BY <3>6, <3>7, <4>1, Zenon
      <4>4. \A i, j, m, n \in Nat :
              /\ (i + 4 * (0 - m)) + (j + (0 - n)) <= i + j
              /\ (i + 4 * (0 - m)) + (j + (m - n)) <= i + j
        OBVIOUS
      <4>5. v = 0 \/ v = l
        BY <4>2
      <4>6. a + b <= x + y
        BY <3>2, <4>2, <4>3, <4>4, <4>5, Zenon
      <4> QED BY <4>1, <4>6, Zenon DEF ConnsLeft
  <2> QED BY <1>0, <2>1, <2>3, <2>4, LeftDrops
<1>14. CASE ReadHead
  <2>1. HandlerLeft[pc]' + 2 < HandlerLeft[pc]
    BY <1>14 DEF ReadHead, HandlerLeft
  <2>2. copier'["down"].pc = "read" /\ copier'["up"] = copier["up"] /\ answer' = answer
    BY <1>0, <1>14 DEF ReadHead, Types, Copiers
  <2>3. CopiersLeft' <= CopiersLeft + 2
    <3>1. CopierLeft[copier["down"].pc]' = 2
      BY <2>2 DEF CopierLeft
    <3>2. CopierLeft[copier["up"].pc]' = CopierLeft[copier["up"].pc]
      BY <2>2
    <3>3. /\ CopierLeft[copier["up"].pc]' <= CopierLeft[copier["up"].pc] + 0
          /\ CopierLeft[copier["down"].pc]' <= CopierLeft[copier["down"].pc] + 2
      BY <1>1, <3>1, <3>2
    <3>4. One(answer = "none")' <= One(answer = "none") + 0
      BY <1>1, <2>2
    <3>5. CopiersLeft' <= CopiersLeft + (0 + 2 + 0)
      BY <1>0, <3>3, <3>4, CopiersGrow
    <3> QED BY <3>5
  <2>4. ConnsLeft' <= ConnsLeft
    BY <1>2, <1>14 DEF ReadHead
  <2> QED BY <1>0, <2>1, <2>3, <2>4, LeftDrops
<1> QED
  BY <1>5, <1>6, <1>7, <1>9, <1>10, <1>11, <1>12, <1>13, <1>14 DEF Handler

(* A peer or a goroutine moves one connection and one goroutine at most.   *)
LEMMA OthersNearer ==
  ASSUME IInv, Types', UNCHANGED pc,
         NEW d \in Directions, \A e \in Directions : e # d => copier'[e].pc = copier[e].pc,
         NEW c \in Conns, \A e \in Conns : e # c => LeftAt(e)' = LeftAt(e),
         CopierLeft[copier[d].pc]' + LeftAt(c)' + One(answer = "none")'
           < CopierLeft[copier[d].pc] + LeftAt(c) + One(answer = "none")
  PROVE  Left' < Left
<1>1. Leftovers /\ Leftovers'
  <2>1. Types' => Leftovers'
    BY LeftoversNat, PTL
  <2> QED BY <2>1, LeftoversNat DEF IInv
<1>2. PICK h, p, q, x, y, a, p2, q2, x2, y2, a2 :
        /\ h = HandlerLeft[pc] /\ p = CopierLeft[copier[d].pc] /\ q = CopierLeft[copier[Other(d)].pc]
        /\ x = LeftAt(c) /\ y = LeftAt(IF c = "client" THEN "target" ELSE "client")
        /\ a = One(answer = "none")
        /\ p2 = CopierLeft[copier[d].pc]' /\ q2 = CopierLeft[copier[Other(d)].pc]'
        /\ x2 = LeftAt(c)' /\ y2 = LeftAt(IF c = "client" THEN "target" ELSE "client")'
        /\ a2 = One(answer = "none")'
  OBVIOUS
<1>3. /\ h \in Nat /\ p \in Nat /\ q \in Nat /\ x \in Nat /\ y \in Nat /\ a \in Nat
      /\ p2 \in Nat /\ q2 \in Nat /\ x2 \in Nat /\ y2 \in Nat /\ a2 \in Nat
  <2>1. CASE d = "up" /\ c = "client"
    BY <1>1, <1>2, <2>1 DEF Leftovers, Other
  <2>2. CASE d = "up" /\ c = "target"
    BY <1>1, <1>2, <2>2 DEF Leftovers, Other
  <2>3. CASE d = "down" /\ c = "client"
    BY <1>1, <1>2, <2>3 DEF Leftovers, Other
  <2>4. CASE d = "down" /\ c = "target"
    BY <1>1, <1>2, <2>4 DEF Leftovers, Other
  <2> QED BY <2>1, <2>2, <2>3, <2>4
<1>4. Left = h + p + q + x + y + a
  <2>1. CASE d = "up" /\ c = "client"
    BY <1>2, <1>3, <2>1 DEF Left, Other
  <2>2. CASE d = "up" /\ c = "target"
    BY <1>2, <1>3, <2>2 DEF Left, Other
  <2>3. CASE d = "down" /\ c = "client"
    BY <1>2, <1>3, <2>3 DEF Left, Other
  <2>4. CASE d = "down" /\ c = "target"
    BY <1>2, <1>3, <2>4 DEF Left, Other
  <2> QED BY <2>1, <2>2, <2>3, <2>4
<1>5. Left' = h + p2 + q2 + x2 + y2 + a2
  <2>1. CASE d = "up" /\ c = "client"
    BY <1>2, <1>3, <2>1 DEF Left, Other
  <2>2. CASE d = "up" /\ c = "target"
    BY <1>2, <1>3, <2>2 DEF Left, Other
  <2>3. CASE d = "down" /\ c = "client"
    BY <1>2, <1>3, <2>3 DEF Left, Other
  <2>4. CASE d = "down" /\ c = "target"
    BY <1>2, <1>3, <2>4 DEF Left, Other
  <2> QED BY <2>1, <2>2, <2>3, <2>4
<1>6. q2 = q
  BY <1>2 DEF Other
<1>7. y2 = y
  BY <1>2
<1>8. p2 + x2 + a2 < p + x + a
  BY <1>2
<1>9. h + p2 + q + x2 + y + a2 < h + p + q + x + y + a
  BY <1>3, <1>8
<1> QED BY <1>4, <1>5, <1>6, <1>7, <1>9

(* Sums that differ in one term.                                           *)
LEMMA Arithmetic ==
  \A p, q, x, a \in Nat :
     q < p => /\ q + x + a < p + x + a
              /\ x + q + a < x + p + a
              /\ x + a + q < x + a + p
OBVIOUS

Terms ==
    /\ \A d \in Directions : CopierLeft[copier[d].pc] \in Nat
    /\ One(answer = "none") \in Nat
    /\ \A c \in Conns : LeftAt(c) \in Nat
    /\ \A c \in Conns : sent[c] \in Nat /\ Len(toGate[c]) \in Nat /\ Len(fromGate[c]) \in Nat

LEMMA TermsNat == Types => Terms
<1> SUFFICES ASSUME Types PROVE Terms
  OBVIOUS
<1>1. \A d \in Directions : CopierLeft[copier[d].pc] \in Nat
  BY LeftoversNat DEF Leftovers
<1>2. One(answer = "none") \in Nat /\ \A c \in Conns : LeftAt(c) \in Nat
  BY LeftoversNat DEF Leftovers
<1>3. \A c \in Conns : sent[c] \in Nat /\ Len(toGate[c]) \in Nat /\ Len(fromGate[c]) \in Nat
  BY AmountsNat, Constants DEF Amounts
<1> QED BY <1>1, <1>2, <1>3 DEF Terms

LEMMA TermsStay ==
  ASSUME Types, Types'
  PROVE  Terms /\ Terms' /\ Amounts /\ Amounts'
<1>1. Types' => Terms'
  BY TermsNat, PTL
<1>2. Types' => Amounts'
  BY AmountsNat, PTL
<1> QED BY <1>1, <1>2, TermsNat, AmountsNat

(* What is left where one segment is sent, received, read or written.      *)
LEMMA LeftAtSteps ==
  ASSUME Types, Types', NEW c \in Conns, fin'[c] = fin[c], gone'[c] = gone[c]
  PROVE  /\ sent'[c] = sent[c] + 1 /\ Len(toGate'[c]) = Len(toGate[c]) + 1 /\ fromGate'[c] = fromGate[c]
              => LeftAt(c)' = LeftAt(c) - 1
         /\ sent'[c] = sent[c] /\ toGate'[c] = toGate[c] /\ Len(fromGate'[c]) = Len(fromGate[c]) - 1
              => LeftAt(c)' = LeftAt(c) - 1
         /\ sent'[c] = sent[c] /\ Len(toGate'[c]) = Len(toGate[c]) - 1 /\ fromGate'[c] = fromGate[c]
              => LeftAt(c)' = LeftAt(c) - 4
         /\ sent'[c] = sent[c] /\ toGate'[c] = toGate[c] /\ Len(fromGate'[c]) = Len(fromGate[c]) + 1
              => LeftAt(c)' = LeftAt(c) + 1
<1>0. Terms /\ Terms' /\ Amounts /\ Amounts'
  BY TermsStay
<1>1. PICK x, x2, s, t, u, s2, t2, u2 :
        /\ x = LeftAt(c) /\ x2 = LeftAt(c)'
        /\ s = sent[c] /\ t = Len(toGate[c]) /\ u = Len(fromGate[c])
        /\ s2 = sent'[c] /\ t2 = Len(toGate'[c]) /\ u2 = Len(fromGate'[c])
  OBVIOUS
<1>2. /\ x \in Nat /\ s \in Nat /\ t \in Nat /\ u \in Nat
      /\ x2 \in Nat /\ s2 \in Nat /\ t2 \in Nat /\ u2 \in Nat
  <2>1. x \in Nat /\ s \in Nat /\ t \in Nat /\ u \in Nat
    BY <1>0, <1>1 DEF Terms
  <2>2. x2 \in Nat /\ s2 \in Nat /\ t2 \in Nat /\ u2 \in Nat
    BY <1>0, <1>1 DEF Terms
  <2> QED BY <2>1, <2>2
<1>3. x2 = x + 5 * (s - s2) + 4 * (t2 - t) + (u2 - u)
  <2>1. LeftAt(c)' = LeftAt(c) + 5 * (sent[c] - sent'[c]) + 4 * (Len(toGate'[c]) - Len(toGate[c]))
                       + (Len(fromGate'[c]) - Len(fromGate[c]))
    BY <1>0, LeftAtMoves
  <2> QED BY <1>1, <2>1, Zenon
<1>4. s2 = s + 1 /\ t2 = t + 1 /\ u2 = u => x2 = x - 1
  BY <1>2, <1>3
<1>5. s2 = s /\ t2 = t /\ u2 = u - 1 => x2 = x - 1
  BY <1>2, <1>3
<1>6. s2 = s /\ t2 = t - 1 /\ u2 = u => x2 = x - 4
  BY <1>2, <1>3
<1>7. s2 = s /\ t2 = t /\ u2 = u + 1 => x2 = x + 1
  BY <1>2, <1>3
<1> QED BY <1>1, <1>4, <1>5, <1>6, <1>7, Zenon

LEMMA ConnNearer ==
  ASSUME IInv, Types', UNCHANGED <<pc, copier, answer>>, NEW c \in Conns,
         \A e \in Conns : e # c => LeftAt(e)' = LeftAt(e),
         LeftAt(c)' < LeftAt(c)
  PROVE  Left' < Left
<1>0. Terms /\ Terms'
  BY TermsStay DEF IInv
<1>1. CopierLeft[copier["up"].pc]' = CopierLeft[copier["up"].pc] /\ One(answer = "none")' = One(answer = "none")
  OBVIOUS
<1>2. CopierLeft[copier["up"].pc] \in Nat /\ One(answer = "none") \in Nat
  BY <1>0 DEF Terms
<1>3. LeftAt(c) \in Nat /\ LeftAt(c)' \in Nat
  BY <1>0 DEF Terms
<1>4. CopierLeft[copier["up"].pc]' + LeftAt(c)' + One(answer = "none")'
        < CopierLeft[copier["up"].pc] + LeftAt(c) + One(answer = "none")
  BY <1>1, <1>2, <1>3, Arithmetic, Zenon
<1> QED BY <1>4, OthersNearer

LEMMA AloneLess ==
  ASSUME Types, Types', NEW c \in Conns, sent'[c] = sent[c], toGate'[c] = toGate[c],
         Len(fromGate'[c]) <= Len(fromGate[c]),
         One(~fin[c])' <= One(~fin[c]), One(~gone[c])' <= One(~gone[c]),
         One(~fin[c])' < One(~fin[c]) \/ One(~gone[c])' < One(~gone[c])
  PROVE  LeftAt(c)' < LeftAt(c)
<1>0. Terms /\ Terms' /\ Amounts /\ Amounts'
  BY TermsStay
<1>1. PICK r, u, x, y, u2, x2, y2 :
        /\ r = 5 * (MaxSent - sent[c]) + 4 * Len(toGate[c])
        /\ u = Len(fromGate[c]) /\ x = One(~fin[c]) /\ y = One(~gone[c])
        /\ u2 = Len(fromGate'[c]) /\ x2 = One(~fin[c])' /\ y2 = One(~gone[c])'
  OBVIOUS
<1>2. /\ u \in Nat /\ x \in Nat /\ y \in Nat /\ u2 \in Nat /\ x2 \in Nat /\ y2 \in Nat
  BY <1>0, <1>1 DEF Terms, One
<1>3. r \in Int
  <2>1. PICK s, t : s = sent[c] /\ t = Len(toGate[c])
    OBVIOUS
  <2>2. s \in Nat /\ t \in Nat /\ MaxSent \in Nat
    BY <1>0, <2>1, Constants DEF Terms
  <2> QED BY <1>1, <2>1, <2>2
<1>4. LeftAt(c) = r + u + x + y
  BY <1>1, Zenon DEF LeftAt
<1>5. LeftAt(c)' = r + u2 + x2 + y2
  BY <1>1, Zenon DEF LeftAt
<1>6. u2 <= u /\ x2 <= x /\ y2 <= y /\ (x2 < x \/ y2 < y)
  BY <1>1
<1> QED BY <1>2, <1>3, <1>4, <1>5, <1>6

LEMMA PeerNearer ==
  ASSUME IInv, Types', Peer
  PROVE  Left' < Left
<1> USE DEF Goto, Become, Quiet, queues, peers, request
<1>0. Types /\ Terms /\ Terms' /\ Amounts /\ Amounts'
  BY TermsStay DEF IInv
<1>3. ASSUME NEW c \in Conns, Send(c) PROVE Left' < Left
  <2>1. /\ sent'[c] = sent[c] + 1 /\ toGate'[c] = Append(toGate[c], sent'[c])
        /\ UNCHANGED <<fromGate, pc, copier, answer, fin, gone>>
        /\ \A e \in Conns : e # c => sent'[e] = sent[e] /\ toGate'[e] = toGate[e]
    BY <1>0, <1>3 DEF Send, Types, Queues
  <2>2. \A e \in Conns : e # c => LeftAt(e)' = LeftAt(e)
    BY <1>0, <2>1, LeftAtKept
  <2>3. sent'[c] \in Segments /\ toGate[c] \in Seq(Segments)
    BY <1>0, <1>3, <2>1, Constants DEF Send, Types, Segments, Queues
  <2>4. Len(toGate'[c]) = Len(toGate[c]) + 1
    BY <2>1, <2>3, AppendProperties
  <2>5. LeftAt(c)' = LeftAt(c) - 1
    BY <1>0, <2>1, <2>4, LeftAtSteps
  <2>6. LeftAt(c)' < LeftAt(c)
    <3>1. LeftAt(c) \in Nat
      BY <1>0, Zenon DEF Terms
    <3>2. \A n \in Nat : n - 1 < n
      OBVIOUS
    <3> QED BY <2>5, <3>1, <3>2, Zenon
  <2> QED BY <2>1, <2>2, <2>6, ConnNearer
<1>4. ASSUME NEW c \in Conns, Finish(c) PROVE Left' < Left
  <2>1. \A e \in Conns : e # c => LeftAt(e)' = LeftAt(e)
    BY <1>0, <1>4, LeftAtKept DEF Finish, Types
  <2>2. One(~fin[c]) = 1 /\ One(~fin[c])' = 0 /\ One(~gone[c])' = One(~gone[c])
    BY <1>0, <1>4 DEF Finish, Types, One
  <2>3. UNCHANGED <<sent, toGate, fromGate>>
    BY <1>4 DEF Finish
  <2>4. LeftAt(c)' < LeftAt(c)
    BY <1>0, <2>2, <2>3, AloneLess DEF Finish
  <2> QED BY <1>4, <2>1, <2>4, ConnNearer DEF Finish
<1>5. ASSUME NEW c \in Conns, Leave(c) PROVE Left' < Left
  <2>1. \A e \in Conns : e # c => LeftAt(e)' = LeftAt(e)
    BY <1>0, <1>5, LeftAtKept DEF Leave, Types, Queues
  <2>2. One(~gone[c]) = 1 /\ One(~gone[c])' = 0
    BY <1>0, <1>5 DEF Leave, Types, One
  <2>3. One(~fin[c])' <= One(~fin[c])
    BY <1>0, <1>5 DEF Leave, Types, One
  <2>4. Len(fromGate'[c]) <= Len(fromGate[c])
    <3>1. Len(<<>>) = 0
      OBVIOUS
    <3> QED BY <1>0, <1>5, <3>1 DEF Leave, Types, Queues, Terms
  <2>5. LeftAt(c)' < LeftAt(c)
    BY <1>0, <1>5, <2>2, <2>3, <2>4, AloneLess DEF Leave
  <2> QED BY <1>5, <2>1, <2>5, ConnNearer DEF Leave
<1>6. ASSUME NEW c \in Conns, Receive(c) PROVE Left' < Left
  <2>1. /\ fromGate[c] # <<>> /\ fromGate'[c] = Tail(fromGate[c]) /\ fromGate[c] \in Seq(Segments)
        /\ UNCHANGED <<sent, toGate, pc, copier, answer, fin, gone>>
        /\ \A e \in Conns : e # c => fromGate'[e] = fromGate[e]
    BY <1>0, <1>6 DEF Receive, Types, Queues
  <2>2. \A e \in Conns : e # c => LeftAt(e)' = LeftAt(e)
    BY <1>0, <2>1, LeftAtKept
  <2>4. Len(fromGate'[c]) = Len(fromGate[c]) - 1
    BY <2>1, HeadTailProperties
  <2>5. LeftAt(c)' = LeftAt(c) - 1
    BY <1>0, <2>1, <2>4, LeftAtSteps
  <2>6. LeftAt(c)' < LeftAt(c)
    <3>1. LeftAt(c) \in Nat
      BY <1>0, Zenon DEF Terms
    <3>2. \A n \in Nat : n - 1 < n
      OBVIOUS
    <3> QED BY <2>5, <3>1, <3>2, Zenon
  <2> QED BY <2>1, <2>2, <2>6, ConnNearer
<1>7. CASE Answer
  <2>1. \A c \in Conns : LeftAt(c)' = LeftAt(c)
    BY <1>0, <1>7, LeftAtKept DEF Answer
  <2>2. One(answer = "none") = 1 /\ One(answer = "none")' = 0
    BY <1>7 DEF Answer, One
  <2>3. UNCHANGED <<pc, copier>>
    BY <1>7 DEF Answer
  <2>4. CopierLeft[copier["up"].pc]' + LeftAt("client")' + One(answer = "none")'
          < CopierLeft[copier["up"].pc] + LeftAt("client") + One(answer = "none")
    <3>1. CopierLeft[copier["up"].pc]' = CopierLeft[copier["up"].pc] /\ LeftAt("client")' = LeftAt("client")
      BY <2>1, <2>3
    <3>2. CopierLeft[copier["up"].pc] \in Nat /\ LeftAt("client") \in Nat
      BY <1>0 DEF Terms
    <3>3. CopierLeft[copier["up"].pc] + LeftAt("client") + 0 < CopierLeft[copier["up"].pc] + LeftAt("client") + 1
      <4>1. 0 < 1 /\ 0 \in Nat /\ 1 \in Nat
        OBVIOUS
      <4> QED BY <3>2, <4>1, Arithmetic, Zenon
    <3> QED BY <2>2, <3>1, <3>3, Zenon
  <2> QED BY <2>1, <2>3, <2>4, OthersNearer
<1> QED BY <1>3, <1>4, <1>5, <1>6, <1>7 DEF Peer

(* A goroutine that moves, and nothing else.                               *)
LEMMA CopierNearer ==
  ASSUME IInv, Types', NEW d \in Directions, CopyStep(d)
  PROVE  Left' < Left
<1> USE DEF Goto, Become, Quiet, queues, peers, request
<1>0. Types /\ Terms /\ Terms' /\ Amounts /\ Amounts'
  BY TermsStay DEF IInv
<1>1. UNCHANGED <<pc, answer, sent, fin, gone>> /\ \A e \in Directions : e # d => copier'[e] = copier[e]
  BY <1>0 DEF CopyStep, CopyRead, CopyWrite, CopyEnds, CopyTimeout, CopyClose, CopyStop, Types
<1>2. ASSUME NEW c \in Conns, \A e \in Conns : e # c => LeftAt(e)' = LeftAt(e),
             CopierLeft[copier[d].pc]' + LeftAt(c)' < CopierLeft[copier[d].pc] + LeftAt(c)
      PROVE  Left' < Left
  <2>1. PICK p, x, p2, x2, a :
          /\ p = CopierLeft[copier[d].pc] /\ x = LeftAt(c) /\ a = One(answer = "none")
          /\ p2 = CopierLeft[copier[d].pc]' /\ x2 = LeftAt(c)'
    OBVIOUS
  <2>2. p \in Nat /\ x \in Nat /\ a \in Nat /\ p2 \in Nat /\ x2 \in Nat
    BY <1>0, <2>1, Zenon DEF Terms
  <2>3. p2 + x2 < p + x
    BY <1>2, <2>1, Zenon
  <2>4. p2 + x2 + a < p + x + a
    BY <2>2, <2>3
  <2>5. One(answer = "none")' = a
    BY <1>1, <2>1
  <2>6. CopierLeft[copier[d].pc]' + LeftAt(c)' + One(answer = "none")'
          < CopierLeft[copier[d].pc] + LeftAt(c) + One(answer = "none")
    BY <2>1, <2>4, <2>5, Zenon
  <2> QED BY <1>1, <1>2, <2>6, OthersNearer
<1>3. CASE CopyRead(d)
  <2> DEFINE c == Source(d)
  <2>1. /\ toGate[c] # <<>> /\ toGate'[c] = Tail(toGate[c]) /\ toGate[c] \in Seq(Segments)
        /\ fromGate' = fromGate /\ \A e \in Conns : e # c => toGate'[e] = toGate[e]
    BY <1>0, <1>3 DEF CopyRead, Types, Queues
  <2>2. c \in Conns /\ copier[d].pc = "read" /\ copier'[d].pc = "write"
    BY <1>0, <1>3 DEF CopyRead, Types, Copiers
  <2> HIDE DEF c
  <2>3. CopierLeft[copier[d].pc] = 2 /\ CopierLeft[copier[d].pc]' = 4
    BY <2>2 DEF CopierLeft
  <2>4. \A e \in Conns : e # c => LeftAt(e)' = LeftAt(e)
    BY <1>0, <1>1, <2>1, LeftAtKept
  <2>5. Len(toGate'[c]) = Len(toGate[c]) - 1
    BY <2>1, HeadTailProperties
  <2>6. LeftAt(c)' = LeftAt(c) - 4
    BY <1>0, <1>1, <2>1, <2>2, <2>5, LeftAtSteps
  <2>7. CopierLeft[copier[d].pc]' + LeftAt(c)' < CopierLeft[copier[d].pc] + LeftAt(c)
    <3>1. LeftAt(c) \in Nat
      BY <1>0, <2>2, Zenon DEF Terms
    <3>2. \A n \in Nat : 4 + (n - 4) < 2 + n
      OBVIOUS
    <3> QED BY <2>3, <2>6, <3>1, <3>2, Zenon
  <2> QED BY <1>2, <2>2, <2>4, <2>7
<1>4. CASE CopyWrite(d)
  <2> DEFINE c == Sink(d)
  <2>1. /\ fromGate'[c] = Append(fromGate[c], copier[d].seg) /\ fromGate[c] \in Seq(Segments)
        /\ toGate' = toGate /\ \A e \in Conns : e # c => fromGate'[e] = fromGate[e]
    BY <1>0, <1>4 DEF CopyWrite, Types, Queues
  <2>2. c \in Conns /\ copier[d].pc = "write" /\ copier'[d].pc = "read" /\ copier[d].seg \in Segments
    BY <1>0, <1>4 DEF CopyWrite, Types, Copiers
  <2> HIDE DEF c
  <2>3. CopierLeft[copier[d].pc] = 4 /\ CopierLeft[copier[d].pc]' = 2
    BY <2>2 DEF CopierLeft
  <2>4. \A e \in Conns : e # c => LeftAt(e)' = LeftAt(e)
    BY <1>0, <1>1, <2>1, LeftAtKept
  <2>5. Len(fromGate'[c]) = Len(fromGate[c]) + 1
    BY <2>1, <2>2, AppendProperties
  <2>6. LeftAt(c)' = LeftAt(c) + 1
    BY <1>0, <1>1, <2>1, <2>2, <2>5, LeftAtSteps
  <2>7. CopierLeft[copier[d].pc]' + LeftAt(c)' < CopierLeft[copier[d].pc] + LeftAt(c)
    <3>1. LeftAt(c) \in Nat
      BY <1>0, <2>2, Zenon DEF Terms
    <3>2. \A n \in Nat : 2 + (n + 1) < 4 + n
      OBVIOUS
    <3> QED BY <2>3, <2>6, <3>1, <3>2, Zenon
  <2> QED BY <1>2, <2>2, <2>4, <2>7
<1>5. CASE CopyEnds(d) \/ CopyTimeout(d) \/ CopyClose(d)
  <2>1. UNCHANGED <<toGate, fromGate>>
    BY <1>5 DEF CopyEnds, CopyTimeout, CopyClose, CopyStop
  <2>2. \A e \in Conns : LeftAt(e)' = LeftAt(e)
    BY <1>0, <1>1, <2>1, LeftAtKept
  <2>3. \/ copier[d].pc \in {"read", "write"} /\ copier'[d].pc = "close"
        \/ copier[d].pc = "close" /\ copier'[d].pc = "done"
    BY <1>0, <1>5 DEF CopyEnds, CopyTimeout, CopyClose, CopyStop, Types, Copiers
  <2>4. /\ CopierLeft[copier[d].pc]' \in Nat /\ CopierLeft[copier[d].pc] \in Nat
        /\ CopierLeft[copier[d].pc]' < CopierLeft[copier[d].pc]
    BY <2>3 DEF CopierLeft
  <2>5. LeftAt("client") \in Nat /\ LeftAt("client")' = LeftAt("client")
    BY <1>0, <2>2, Zenon DEF Terms
  <2>6. CopierLeft[copier[d].pc]' + LeftAt("client")' < CopierLeft[copier[d].pc] + LeftAt("client")
    <3>1. \A p, q, n \in Nat : q < p => q + n < p + n
      OBVIOUS
    <3> QED BY <2>4, <2>5, <3>1, Zenon
  <2> QED BY <1>2, <2>2, <2>6
<1> QED BY <1>3, <1>4, <1>5 DEF CopyStep

(* Where time passes nothing else does, and somebody waits less.           *)
LEMMA TickNearer ==
  ASSUME IInv, Types', Tick
  PROVE  Left' = Left /\ Patience' < Patience
<1> USE DEF Quiet, queues, peers, request
<1>0. Types /\ IdleTO \in Nat
  BY Constants DEF IInv
<1>1. /\ UNCHANGED <<pc, answer, sent, fin, gone, toGate, fromGate>>
      /\ copier'["up"].pc = copier["up"].pc /\ copier'["down"].pc = copier["down"].pc
  BY <1>0 DEF Tick, Types, Copiers
<1>2. Left' = Left
  <2>1. LeftAt("client")' = LeftAt("client") /\ LeftAt("target")' = LeftAt("target")
    BY <1>0, <1>1, LeftAtKept
  <2> QED BY <1>1, <2>1, Zenon DEF Left
<1>3. \A d \in Directions : copier[d].waited \in 0..IdleTO
  BY <1>0 DEF Types, Copiers
<1>4. ASSUME NEW d \in Directions
      PROVE  \/ copier'[d].waited = copier[d].waited
             \/ copier'[d].waited = copier[d].waited + 1 /\ copier[d].waited < IdleTO
  <2>1. CASE Blocked(d) /\ Timed(d)
    <3>1. copier'[d].waited = copier[d].waited + 1
      BY <1>0, <2>1 DEF Tick, Types, Copiers
    <3>2. copier[d].pc \notin {"off", "done"}
      BY <2>1 DEF Blocked
    <3> QED BY <2>1, <3>1, <3>2 DEF Tick
  <2>2. CASE ~(Blocked(d) /\ Timed(d))
    BY <2>2 DEF Tick
  <2> QED BY <2>1, <2>2
<1>5. PICK d \in Directions : copier'[d].waited = copier[d].waited + 1
  BY <1>0 DEF Tick, Types, Copiers
<1>6. PICK u, v, u2, v2 :
        /\ u = copier["up"].waited /\ v = copier["down"].waited
        /\ u2 = copier'["up"].waited /\ v2 = copier'["down"].waited
  OBVIOUS
<1>7. /\ u \in 0..IdleTO /\ v \in 0..IdleTO
      /\ u2 = u \/ u2 = u + 1
      /\ v2 = v \/ v2 = v + 1
      /\ u2 = u + 1 \/ v2 = v + 1
  <2>1. u \in 0..IdleTO /\ v \in 0..IdleTO
    BY <1>3, <1>6
  <2>2. (u2 = u \/ u2 = u + 1) /\ (v2 = v \/ v2 = v + 1)
    BY <1>4, <1>6
  <2>3. u2 = u + 1 \/ v2 = v + 1
    BY <1>5, <1>6
  <2> QED BY <2>1, <2>2, <2>3
<1>8. (IdleTO - u2) + (IdleTO - v2) < (IdleTO - u) + (IdleTO - v)
  <2>1. PICK w : w = IdleTO
    OBVIOUS
  <2>2. w \in Nat /\ u \in Int /\ v \in Int
    BY <1>0, <1>7, <2>1
  <2>3. \A i, j, k \in Int :
          /\ (i - (j + 1)) + (i - k) < (i - j) + (i - k)
          /\ (i - j) + (i - (k + 1)) < (i - j) + (i - k)
          /\ (i - (j + 1)) + (i - (k + 1)) < (i - j) + (i - k)
    OBVIOUS
  <2>4. w \in Int
    BY <2>2
  <2> QED BY <1>7, <2>1, <2>2, <2>3, <2>4, Zenon
<1> QED BY <1>2, <1>6, <1>8, Zenon DEF Patience

LEMMA NearerNext ==
  ASSUME IInv, Types', Next
  PROVE  Nearer
<1>1. CASE Handler
  BY <1>1, HandlerNearer DEF Nearer
<1>2. CASE Peer
  BY <1>2, PeerNearer DEF Nearer
<1>3. CASE Tick
  BY <1>3, TickNearer DEF Nearer
<1>4. ASSUME NEW d \in Directions, CopyStep(d) PROVE Nearer
  BY <1>4, CopierNearer DEF Nearer
<1> QED BY <1>1, <1>2, <1>3, <1>4 DEF Next

(* An exchange does not go round in circles and does not stop halfway: no  *)
(* step leaves as much to do as before, unless time has passed, and where  *)
(* the handler, its goroutines and its deadlines are at rest it has ended  *)
(* or waits for a peer without a deadline.                                 *)
THEOREM GatewayAlwaysNearer == Spec => AlwaysNearer
<1>1. Init => Room
  <2>1. Len(<<>>) = 0
    OBVIOUS
  <2> QED BY <2>1, GatewayAssumption DEF Init, Room
<1>2. IInv /\ IInv' /\ Room /\ [Next]_vars => Room' /\ [Nearer]_vars
  BY RoomNext, NearerNext DEF IInv
<1>3. IInv /\ Room =>
        (IdleTO > 0 =>
           pc = "end" \/ NoDeadline \/ HandlerReady \/ TickReady \/ \E d \in Directions : CopierReady(d))
  BY SomebodyMoves
<1> QED BY <1>1, <1>2, <1>3, GatewayInvariant, PTL DEF Spec, AlwaysNearer
=============================================================================

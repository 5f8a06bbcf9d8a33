---------------------------- MODULE Probe_proofs ----------------------------
(***************************************************************************)
(* Theorems about Probe for every number of attempts and every set of      *)
(* fields.                                                                 *)
(***************************************************************************)
EXTENDS Probe, SequenceTheorems, TLAPS

Asking == {"ask", "backoff"}

Places ==
    /\ pc \in Asking \cup {"entry", "dropped", "stored", "failed", "passed"}
    /\ phase \in {"exit", "profile"}
    /\ source \in Sources
    /\ errors \in [Sources -> Nat]
    /\ cancelled \in BOOLEAN

Beginning ==
    pc \in {"entry", "stored"} =>
        phase = "exit" /\ source = 1 /\ attempt = 1 /\ errors = Fresh /\ stopped = {}

(* Each attempt that is over has failed, the sources to come have not been *)
(* asked, and unless the context has ended, those before have refused or   *)
(* used up their attempts.                                                 *)
Spent(s) == s \in stopped \/ errors[s] = Attempts

Retries ==
    pc \in Asking =>
        /\ attempt \in 1..Attempts
        /\ stopped \subseteq 1..(source - 1)
        /\ pc = "backoff" => attempt < Attempts
        /\ errors[source] = IF pc = "backoff" THEN attempt ELSE attempt - 1
        /\ \A s \in Sources : s > source => errors[s] = 0
        /\ ~cancelled => \A s \in Sources : s < source => Spent(s)

Over == pc = "failed" /\ ~cancelled => \A s \in Sources : Spent(s)

(* The profile is asked for only when the node has answered, and nothing   *)
(* replaces what the node's answer said.                                   *)
Learnt ==
    /\ phase = "profile" => \A n \in node : CanDial(n)
    /\ pc = "passed" => phase = "profile"
    /\ profile \in [Fields -> {"nobody", "exit", "direct"}]
    /\ told \subseteq Fields
    /\ \A f \in told : profile[f] = "exit"

IInv == Places /\ Beginning /\ Retries /\ Over /\ Learnt

LEMMA AttemptsPositive == Attempts \in Nat \ {0}
  BY ProbeAssumption DEF Attempts

LEMMA InitProbe == Init => IInv
<1> SUFFICES ASSUME Init PROVE IInv
  OBVIOUS
<1>1. errors \in [Sources -> Nat]
  BY DEF Init, Fresh
<1>2. Places
  <2>1. cancelled \in BOOLEAN
    BY DEF Init
  <2>2. pc = "entry" /\ phase = "exit" /\ source \in Sources
    BY DEF Init, Sources
  <2> QED BY <1>1, <2>1, <2>2 DEF Places
<1>3. Beginning
  BY DEF Init, Beginning
<1>4. Retries /\ Over
  BY DEF Init, Retries, Over, Asking
<1>5. Learnt
  BY DEF Init, Learnt
<1> QED BY <1>2, <1>3, <1>4, <1>5 DEF IInv

(* When a source is spent the next one is asked, or the phase is over.     *)
LEMMA SourceSpent ==
  ASSUME IInv, pc \in Asking, SourceFails, UNCHANGED <<node, profile, told, cancelled>>,
         errors' \in [Sources -> Nat],
         stopped' \subseteq 1..source,
         \A s \in Sources : s > source => errors'[s] = 0,
         ~cancelled => \A s \in Sources : s <= source => Spent(s)'
  PROVE  IInv'
<1> USE DEF Asking
<1>0. source \in 1..3 /\ phase' = phase
  BY DEF IInv, Places, Sources, SourceFails
<1>1. CASE source < 3
  <2>1. source' = source + 1 /\ attempt' = 1 /\ pc' = "ask" /\ source' \in Sources
    BY <1>0, <1>1 DEF SourceFails, Sources
  <2>2. Retries'
    <3>1. 1 \in 1..Attempts
      BY AttemptsPositive
    <3>2. errors'[source'] = 0 /\ \A s \in Sources : s > source' => errors'[s] = 0
      BY <1>0, <2>1 DEF Sources
    <3>3. stopped' \subseteq 1..(source' - 1)
      BY <1>0, <2>1
    <3>4. ~cancelled' => \A s \in Sources : s < source' => Spent(s)'
      BY <1>0, <2>1 DEF Sources
    <3> QED BY <2>1, <3>1, <3>2, <3>3, <3>4 DEF Retries
  <2> QED BY <1>0, <2>1, <2>2 DEF IInv, Places, Beginning, Over, Learnt
<1>2. CASE ~(source < 3)
  <2>1. /\ pc' = IF phase = "exit" THEN "failed" ELSE "passed"
        /\ source' = source /\ source = 3
    BY <1>0, <1>2 DEF SourceFails
  <2>2. Over'
    BY <2>1 DEF Over, Sources
  <2> QED BY <1>0, <2>1, <2>2 DEF IInv, Places, Beginning, Retries, Learnt
<1> QED BY <1>1, <1>2

LEMMA ProbeStep ==
  ASSUME IInv, [Next]_vars
  PROVE  IInv'
<1> USE DEF Asking, check
<1>0. /\ source \in 1..3 /\ errors \in [Sources -> Nat] /\ Attempts \in Nat \ {0}
      /\ Sources = 1..3
  BY AttemptsPositive DEF IInv, Places, Sources
<1>1. CASE Import
  BY <1>1 DEF Import, IInv, Places, Beginning, Retries, Over, Learnt
<1>2. CASE StartCheck
  <2>1. /\ pc = "stored" /\ pc' = "ask"
        /\ UNCHANGED <<phase, source, attempt, profile, told, errors, stopped, node, cancelled>>
    BY <1>2 DEF StartCheck
  <2>2. source = 1 /\ attempt = 1 /\ errors = Fresh /\ stopped = {}
    BY <2>1 DEF IInv, Beginning
  <2>3. Retries'
    BY <1>0, <2>1, <2>2 DEF Retries, Fresh
  <2> QED BY <2>1, <2>3 DEF IInv, Places, Beginning, Over, Learnt
<1>3. CASE Cancel
  <2>1. /\ pc \in Asking /\ cancelled'
        /\ UNCHANGED <<phase, source, attempt, profile, told, errors, stopped, node, pc>>
        /\ cancelled' = TRUE
    BY <1>3 DEF Cancel
  <2>2. Retries'
    BY <2>1 DEF IInv, Retries
  <2> QED BY <2>1, <2>2 DEF IInv, Places, Beginning, Over, Learnt
<1>4. CASE AttemptFails
  <2>1. /\ pc = "ask" /\ ~cancelled
        /\ errors' = [errors EXCEPT ![source] = @ + 1]
        /\ UNCHANGED <<node, cancelled, profile, told, stopped>>
    BY <1>4 DEF AttemptFails
  <2>2. /\ attempt \in 1..Attempts /\ stopped \subseteq 1..(source - 1)
        /\ errors[source] = attempt - 1
        /\ \A s \in Sources : s > source => errors[s] = 0
        /\ \A s \in Sources : s < source => Spent(s)
    BY <2>1 DEF IInv, Retries
  <2>3. /\ errors' \in [Sources -> Nat] /\ errors'[source] = attempt
        /\ \A s \in Sources : s # source => errors'[s] = errors[s]
    BY <1>0, <2>1, <2>2
  <2>4. \A s \in Sources : s < source => Spent(s)'
    BY <1>0, <2>1, <2>2, <2>3 DEF Spent
  <2>5. CASE attempt < Attempts
    <3>1. pc' = "backoff" /\ UNCHANGED <<phase, source, attempt>>
      BY <1>4, <2>5 DEF AttemptFails
    <3>2. Retries'
      BY <1>0, <2>1, <2>2, <2>3, <2>4, <2>5, <3>1 DEF Retries
    <3> QED BY <2>1, <2>3, <3>1, <3>2 DEF IInv, Places, Beginning, Over, Learnt
  <2>6. CASE ~(attempt < Attempts)
    <3>1. SourceFails
      BY <1>4, <2>6 DEF AttemptFails
    <3>2. errors'[source] = Attempts
      BY <1>0, <2>2, <2>3, <2>6
    <3>3. \A s \in Sources : s <= source => Spent(s)'
      BY <1>0, <2>4, <3>2 DEF Spent
    <3>4. stopped' \subseteq 1..source
      BY <1>0, <2>1, <2>2
    <3>5. \A s \in Sources : s > source => errors'[s] = 0
      BY <1>0, <2>2, <2>3
    <3> QED BY <2>1, <2>3, <3>1, <3>3, <3>4, <3>5, SourceSpent
  <2> QED BY <2>5, <2>6
<1>5. CASE Stop
  <2>1. /\ pc = "ask" /\ ~cancelled /\ SourceFails /\ stopped' = stopped \cup {source}
        /\ UNCHANGED <<node, cancelled, profile, told, errors>>
    BY <1>5 DEF Stop
  <2>2. /\ stopped \subseteq 1..(source - 1)
        /\ \A s \in Sources : s > source => errors[s] = 0
        /\ \A s \in Sources : s < source => Spent(s)
    BY <2>1 DEF IInv, Retries
  <2>3. \A s \in Sources : s <= source => Spent(s)'
    BY <1>0, <2>1, <2>2 DEF Spent
  <2>4. stopped' \subseteq 1..source
    BY <1>0, <2>1, <2>2
  <2> QED BY <1>0, <2>1, <2>2, <2>3, <2>4, SourceSpent
<1>6. CASE ExitAnswers
  <2>1. PICK known \in SUBSET Fields :
          /\ told' = known
          /\ profile' = [f \in Fields |-> IF f \in known THEN "exit" ELSE "nobody"]
    BY <1>6 DEF ExitAnswers
  <2>2. /\ pc = "ask" /\ phase' = "profile" /\ source' = 1 /\ attempt' = 1
        /\ errors' = Fresh /\ stopped' = {} /\ UNCHANGED <<node, pc, cancelled>>
        /\ \A n \in node : CanDial(n)
    BY <1>6 DEF ExitAnswers, Reached
  <2>3. Retries'
    BY <1>0, <2>2 DEF Retries, Fresh
  <2>4. Learnt'
    BY <2>1, <2>2 DEF Learnt
  <2>5. Places'
    BY <1>0, <2>2 DEF IInv, Places, Fresh
  <2> QED BY <2>2, <2>3, <2>4, <2>5 DEF IInv, Beginning, Over
<1>7. CASE ProfileAnswers
  <2>1. PICK known \in SUBSET Fields : profile' = Merge(known)
    BY <1>7 DEF ProfileAnswers
  <2>2. /\ pc' = "passed" /\ phase = "profile"
        /\ UNCHANGED <<node, cancelled, phase, source, attempt, told, errors, stopped>>
    BY <1>7 DEF ProfileAnswers
  <2>3. Learnt'
    BY <2>1, <2>2 DEF IInv, Learnt, Merge
  <2> QED BY <2>2, <2>3 DEF IInv, Places, Beginning, Retries, Over
<1>8. CASE Backoff
  <2>1. /\ pc = "backoff" /\ pc' = "ask" /\ attempt' = attempt + 1
        /\ UNCHANGED <<node, cancelled, phase, source, profile, told, errors, stopped>>
    BY <1>8 DEF Backoff
  <2>2. attempt \in 1..Attempts /\ attempt < Attempts /\ errors[source] = attempt
    BY <2>1 DEF IInv, Retries
  <2>3. attempt' \in 1..Attempts /\ errors'[source'] = attempt' - 1
    BY <1>0, <2>1, <2>2
  <2>4. \A s \in Sources : Spent(s)' <=> Spent(s)
    BY <2>1 DEF Spent
  <2>5. Retries'
    BY <2>1, <2>3, <2>4 DEF IInv, Retries
  <2> QED BY <2>1, <2>5 DEF IInv, Places, Beginning, Over, Learnt
<1>9. CASE GiveUp
  <2>1. /\ pc \in Asking /\ cancelled /\ SourceFails
        /\ UNCHANGED <<node, cancelled, profile, told, errors, stopped>>
    BY <1>9 DEF GiveUp
  <2>2. /\ stopped \subseteq 1..(source - 1)
        /\ \A s \in Sources : s > source => errors[s] = 0
    BY <2>1 DEF IInv, Retries
  <2>3. stopped' \subseteq 1..source
    BY <1>0, <2>1, <2>2
  <2> QED BY <1>0, <2>1, <2>2, <2>3, SourceSpent
<1>10. CASE UNCHANGED vars
  BY <1>10 DEF vars, IInv, Places, Beginning, Retries, Over, Learnt, Spent
<1> QED BY <1>1, <1>2, <1>3, <1>4, <1>5, <1>6, <1>7, <1>8, <1>9, <1>10 DEF Next

(* However often a request is tried and whatever is asked of an address: a *)
(* check passes only through a node that was dialled and keeps what the    *)
(* node's own answer said; it fails only when each source has refused or   *)
(* used up its attempts, or the context has ended; who has refused is not  *)
(* asked again.                                                            *)
THEOREM ProbeVerdictIsEarned == Spec => []VerdictIsEarned
<1>1. IInv => VerdictIsEarned
  BY DEF IInv, Places, Retries, Over, Learnt, Spent, Asking, Sources, VerdictIsEarned
<1> QED BY InitProbe, ProbeStep, <1>1, PTL DEF Spec

-----------------------------------------------------------------------------
(* What a check has left to ask: an attempt more, the next source and the  *)
(* profile each leave it less.                                             *)
AsksAt(p, s, a) ==
    (IF p = "exit" THEN 3 * Attempts ELSE 0) + (3 - s) * Attempts + Attempts - a

LEMMA AsksFall ==
  ASSUME NEW p, NEW s \in 1..3, NEW a \in 1..Attempts
  PROVE  /\ AsksAt(p, s, a) \in 0..(6 * Attempts - 1)
         /\ AsksAt(p, s, a + 1) < AsksAt(p, s, a)
         /\ s < 3 => AsksAt(p, s + 1, 1) < AsksAt(p, s, a)
         /\ p = "exit" => AsksAt("profile", 1, 1) < AsksAt(p, s, a)
<1>1. PICK n \in Nat \ {0} : n = Attempts
  BY AttemptsPositive
<1>2. PICK e \in Nat : e = (IF p = "exit" THEN 3 * n ELSE 0) /\ e <= 3 * n /\ (p = "exit" => e = 3 * n)
  BY <1>1
<1>3. \A t, b : AsksAt(p, t, b) = e + (3 - t) * n + n - b
  BY <1>1, <1>2 DEF AsksAt
<1>4. AsksAt("profile", 1, 1) = 2 * n + n - 1
  BY <1>1 DEF AsksAt
<1>5. (3 - 1) * n = 2 * n /\ (3 - 2) * n = n /\ (3 - 3) * n = 0
  BY <1>1
<1>6. s \in {1, 2, 3} /\ a \in 1..n
  BY <1>1
<1>7. CASE s = 1
  <2>1. /\ AsksAt(p, s, a) = e + 2 * n + n - a /\ AsksAt(p, s, a + 1) = e + 2 * n + n - (a + 1)
        /\ AsksAt(p, s + 1, 1) = e + n + n - 1
    BY <1>3, <1>5, <1>7
  <2> QED BY <1>1, <1>2, <1>4, <1>6, <2>1
<1>8. CASE s = 2
  <2>1. /\ AsksAt(p, s, a) = e + n + n - a /\ AsksAt(p, s, a + 1) = e + n + n - (a + 1)
        /\ AsksAt(p, s + 1, 1) = e + 0 + n - 1
    BY <1>3, <1>5, <1>8
  <2> QED BY <1>1, <1>2, <1>4, <1>6, <2>1
<1>9. CASE s = 3
  <2>1. AsksAt(p, s, a) = e + 0 + n - a /\ AsksAt(p, s, a + 1) = e + 0 + n - (a + 1)
    BY <1>3, <1>5, <1>9
  <2> QED BY <1>1, <1>2, <1>4, <1>6, <1>9, <2>1
<1> QED BY <1>6, <1>7, <1>8, <1>9

LEMMA AsksSource ==
  ASSUME IInv, pc \in Asking, SourceFails
  PROVE  pc' \in {"passed", "failed"} \/ (pc' \in Asking /\ Asks' < Asks)
<1>1. source \in 1..3 /\ attempt \in 1..Attempts
  BY DEF IInv, Places, Retries, Sources
<1>2. CASE source < 3
  <2>1. pc' = "ask" /\ source' = source + 1 /\ attempt' = 1 /\ phase' = phase
    BY <1>2 DEF SourceFails
  <2>2. Asks = AsksAt(phase, source, attempt) /\ Asks' = AsksAt(phase, source + 1, 1)
    BY <2>1 DEF Asks, AsksAt
  <2> QED BY <1>1, <1>2, <2>1, <2>2, AsksFall DEF Asking
<1>3. CASE ~(source < 3)
  BY <1>3 DEF SourceFails
<1> QED BY <1>2, <1>3

LEMMA AsksLess ==
  ASSUME IInv, Next, pc \in Asking
  PROVE  \/ pc' \in {"passed", "failed"} \/ Cancel
         \/ pc' \in Asking /\ Asks' < Asks
         \/ pc = "ask" /\ pc' = "backoff" /\ Asks' = Asks
<1>1. /\ source \in 1..3 /\ attempt \in 1..Attempts
      /\ Asks = AsksAt(phase, source, attempt)
  BY DEF IInv, Places, Retries, Sources, Asks, AsksAt
<1>2. CASE AttemptFails
  <2>1. CASE attempt < Attempts
    <3>1. pc = "ask" /\ pc' = "backoff" /\ UNCHANGED <<phase, source, attempt>>
      BY <1>2, <2>1 DEF AttemptFails
    <3>2. Asks' = Asks
      BY <3>1 DEF Asks
    <3> QED BY <3>1, <3>2
  <2>2. CASE ~(attempt < Attempts)
    BY <1>2, <2>2, AsksSource DEF AttemptFails
  <2> QED BY <2>1, <2>2
<1>3. CASE Stop \/ GiveUp
  BY <1>3, AsksSource DEF Stop, GiveUp
<1>4. CASE ExitAnswers
  <2>1. phase = "exit" /\ phase' = "profile" /\ source' = 1 /\ attempt' = 1 /\ pc' \in Asking
    BY <1>4 DEF ExitAnswers
  <2>2. Asks' = AsksAt("profile", 1, 1)
    BY <2>1 DEF Asks, AsksAt
  <2> QED BY <1>1, <2>1, <2>2, AsksFall
<1>5. CASE Backoff
  <2>1. pc' = "ask" /\ attempt' = attempt + 1 /\ UNCHANGED <<phase, source>>
    BY <1>5 DEF Backoff
  <2>2. Asks' = AsksAt(phase, source, attempt + 1)
    BY <2>1 DEF Asks, AsksAt
  <2> QED BY <1>1, <2>1, <2>2, AsksFall DEF Asking
<1>6. CASE ProfileAnswers
  BY <1>6 DEF ProfileAnswers
<1>7. ~Import /\ ~StartCheck
  BY DEF Import, StartCheck, Asking
<1> QED BY <1>2, <1>3, <1>4, <1>5, <1>6, <1>7 DEF Next

LEMMA AsksBound == IInv /\ pc \in Asking => Asks \in 0..(6 * Attempts - 1)
<1> SUFFICES ASSUME IInv, pc \in Asking PROVE Asks \in 0..(6 * Attempts - 1)
  OBVIOUS
<1>1. source \in 1..3 /\ attempt \in 1..Attempts
  BY DEF IInv, Places, Retries, Sources
<1>2. Asks = AsksAt(phase, source, attempt)
  BY DEF Asks, AsksAt
<1> QED BY <1>1, <1>2, AsksFall

(* For any number of attempts, a check ends by itself: whatever the        *)
(* sources and the node answer, each of its steps leaves it less to ask of *)
(* the six times the attempts that it begins with.                         *)
THEOREM ProbeChecksAdvance == Spec => ChecksAdvance
<1>1. (IInv /\ pc \in Asking => Asks \in 0..(6 * Attempts - 1))'
  BY AsksBound, PTL
<1>2. IInv /\ IInv' /\ Next =>
        /\ pc \in {"ask", "backoff"} =>
             \/ pc' \in {"passed", "failed"} \/ Cancel
             \/ pc' \in {"ask", "backoff"} /\ Asks' < Asks
             \/ pc = "ask" /\ pc' = "backoff" /\ Asks' = Asks
        /\ pc' \in {"ask", "backoff"} => Asks' \in 0..(6 * Attempts - 1)
  BY <1>1, AsksLess DEF Asking, Attempts
<1> QED BY InitProbe, ProbeStep, <1>2, PTL DEF Spec, ChecksAdvance

-----------------------------------------------------------------------------
(* What is stored of an entry.  Each parser keeps of an entry what its     *)
(* protocol needs, so that what is dialled is what the entry asks for:     *)
(* first for a node that agrees with its entry, by protocol, and then that *)
(* the nodes of each parser do.                                            *)
AsWritten(f, e, n) ==
    /\ \/ (IsSocks(n.protocol) \/ IsShadowsocks(n.protocol)) /\ e.tls
       \/ f = "surge" /\ "option" \in {n.user, n.secret}
       \/ /\ Dialled(n) = Stated(e)
          /\ Probed(n) = Stated(e) \/ (n.protocol = "http" /\ n.tls /\ e.name = "sni")
    /\ \/ f \in {"clash", "shadowrocket"} /\ HasUuid(n.protocol)
       \/ f = "singbox" /\ n.protocol = "vless"
       => e.network # "ws"
    /\ f \in {"clash", "shadowrocket"} /\ n.protocol = "vless" => e.flow = "empty"

LEMMA EntryParts ==
  ASSUME NEW e \in Entries
  PROVE  /\ e.proto \in Protocols /\ e.address \in BOOLEAN /\ e.user \in {"empty", "user"}
         /\ e.secret \in {"empty", "secret"} /\ e.tls \in BOOLEAN /\ e.name \in {"empty", "sni"}
         /\ e.network \in {"empty", "tcp", "ws"} /\ e.flow \in {"empty", "vision"}
         /\ e.reality \in BOOLEAN /\ e.variant \in BOOLEAN
  BY DEF Entries

(* What each format can write down. *)
LEMMA Written ==
  ASSUME NEW e, NEW f, WrittenIn(f, e)
  PROVE  /\ e.name # "empty" => e.tls \/ e.proto \in {"https", "trojan"}
         /\ e.proto \in {"https", "trojan"} => ~e.tls
         /\ ~HasUuid(e.proto) => SaysNothingOf(e, {"network"})
         /\ f = "singbox" => e.proto # "https" /\ e.network # "tcp"
         /\ f = "clash" => e.proto # "https"
         /\ f = "surge" => SaysNothingOf(e, {"tls", "network"})
         /\ f = "manual" => e.proto = "http" /\ SaysNothingOf(e, {"tls", "name", "network"})
         /\ f = "form" => SaysNothingOf(e, {"tls", "name", "network"})
         /\ f = "shadowrocket" => (~HasUuid(e.proto) => ~e.tls /\ (e.proto = "https" => e.name = "empty"))
  BY ZenonT(30) DEF WrittenIn

USE DEF IsSocks, IsShadowsocks, HasUuid, Supported, Protocols, Dropped, Node, OwnName

Asked(e) == e.tls \/ e.proto \in {"https", "trojan"}
SameName(n, e) == OwnName(n.name, TRUE) = OwnName(e.name, TRUE)

(* By protocol: what a node must have in common with its entry.            *)
LEMMA HttpAsWritten ==
  ASSUME NEW e \in Entries, NEW n, e.proto \in {"http", "https"}, n.protocol = "http",
         n.user = e.user, n.secret = e.secret, n.tls \in BOOLEAN, n.tls <=> Asked(e),
         n.tls => SameName(n, e)
  PROVE  /\ Dialled(n) = Stated(e)
         /\ Probed(n) = Stated(e) \/ (n.protocol = "http" /\ n.tls /\ e.name = "sni")
<1>1. /\ Dialled(n) = Wire("http", n.user, n.secret, n.tls, n.name)
      /\ Probed(n) = Wire("http", n.user, n.secret, n.tls, "host")
  BY DEF Dialled, Probed
<1>2. CASE n.tls
  <2>1. Stated(e) = Wire("http", e.user, e.secret, TRUE, e.name)
    BY <1>2, EntryParts DEF Stated, Asked
  <2>2. n.tls = TRUE
    BY <1>2
  <2>3. e.name = "empty" => OwnName(e.name, TRUE) = "host" /\ OwnName("host", TRUE) = "host"
    OBVIOUS
  <2>4. Dialled(n) = Stated(e)
    BY <1>1, <1>2, <2>1, <2>2 DEF Wire, SameName
  <2>5. CASE e.name = "sni"
    BY <1>2, <2>4, <2>5
  <2>6. CASE e.name = "empty"
    BY <1>1, <1>2, <2>1, <2>2, <2>3, <2>4, <2>6 DEF Wire
  <2> QED BY <2>5, <2>6, EntryParts
<1>3. CASE ~n.tls
  <2>1. Stated(e) = Wire("http", e.user, e.secret, FALSE, e.name)
    BY <1>3, EntryParts DEF Stated, Asked
  <2>2. n.tls = FALSE
    BY <1>3
  <2> QED BY <1>1, <2>1, <2>2 DEF Wire
<1> QED BY <1>2, <1>3

LEMMA SocksAsWritten ==
  ASSUME NEW e \in Entries, NEW n, IsSocks(e.proto), IsSocks(n.protocol),
         n.user = e.user, n.secret = e.secret, ~e.tls
  PROVE  Dialled(n) = Stated(e) /\ Probed(n) = Stated(e)
<1>1. Stated(e) = Wire("socks", e.user, e.secret, FALSE, e.name)
  BY EntryParts DEF Stated
<1> QED BY <1>1 DEF Dialled, Probed, Wire

LEMMA ShadowsocksAsWritten ==
  ASSUME NEW e \in Entries, NEW n, IsShadowsocks(e.proto), IsShadowsocks(n.protocol),
         n.user = e.user, n.secret = e.secret, ~e.tls
  PROVE  Dialled(n) = Stated(e) /\ Probed(n) = Stated(e)
<1>1. Stated(e) = Wire("ss", e.user, e.secret, FALSE, e.name)
  BY EntryParts DEF Stated
<1> QED BY <1>1 DEF Dialled, Probed, Wire

LEMMA TrojanAsWritten ==
  ASSUME NEW e \in Entries, NEW n, e.proto = "trojan", n.protocol = "trojan",
         n.secret = e.secret, SameName(n, e)
  PROVE  Dialled(n) = Stated(e) /\ Probed(n) = Stated(e)
<1>1. Stated(e) = Wire("trojan", "empty", e.secret, TRUE, e.name)
  BY EntryParts DEF Stated
<1>2. Dialled(n) = Wire("trojan", "empty", n.secret, TRUE, n.name) /\ Probed(n) = Dialled(n)
  BY DEF Dialled, Probed
<1> QED BY <1>1, <1>2 DEF Wire, SameName

LEMMA UuidAsWritten ==
  ASSUME NEW e \in Entries, NEW n, HasUuid(e.proto), n.protocol = e.proto,
         n.user = e.user, n.tls \in BOOLEAN, n.tls <=> e.tls, n.tls => SameName(n, e)
  PROVE  Dialled(n) = Stated(e) /\ Probed(n) = Stated(e)
<1>0. n.tls = e.tls
  BY EntryParts
<1>1. Stated(e) = Wire(e.proto, e.user, "empty", e.tls, e.name)
  <2>1. (e.tls \/ e.proto \in {"https", "trojan"}) = e.tls
    BY EntryParts
  <2> QED BY <2>1 DEF Stated
<1>2. Dialled(n) = Wire(e.proto, n.user, "empty", n.tls, n.name) /\ Probed(n) = Dialled(n)
  BY DEF Dialled, Probed
<1> QED BY <1>0, <1>1, <1>2 DEF Wire, SameName

(* By format. *)
LEMMA SingboxNode ==
  ASSUME NEW e \in Entries, NEW n \in Singbox(e)
  PROVE  /\ e.proto \in Supported /\ ~(e.proto = "vless" /\ e.network = "ws")
         /\ n.protocol = e.proto /\ n.user = e.user /\ n.name = e.name
         /\ ~HasUuid(e.proto) => n.secret = e.secret
         /\ n.tls \in BOOLEAN /\ (n.tls <=> e.tls \/ e.proto = "trojan")
  BY EntryParts DEF Singbox

LEMMA SingboxAsWritten ==
  ASSUME NEW e \in Entries, WrittenIn("singbox", e), NEW n \in Singbox(e)
  PROVE  AsWritten("singbox", e, n)
<1>1. e.proto # "https" /\ SameName(n, e)
  BY Written, SingboxNode DEF SameName
<1>2. ~(n.protocol = "vless" /\ e.network = "ws")
  BY SingboxNode
<1>3. \/ (IsSocks(n.protocol) \/ IsShadowsocks(n.protocol)) /\ e.tls
      \/ /\ Dialled(n) = Stated(e)
         /\ Probed(n) = Stated(e) \/ (n.protocol = "http" /\ n.tls /\ e.name = "sni")
  BY <1>1, SingboxNode, EntryParts, HttpAsWritten, SocksAsWritten, ShadowsocksAsWritten,
     TrojanAsWritten, UuidAsWritten DEF Asked
<1> QED BY <1>2, <1>3 DEF AsWritten

(* Surge: the parts that are not empty, of which two are credentials.      *)
LEMMA JoinedTexts ==
  ASSUME NEW S, NEW a \in S, NEW b \in S, NEW c \in S
  PROVE  <<a>> \o <<b>> = <<a, b>> /\ <<a, b>> \o <<c>> = <<a, b, c>>
<1>1. <<a>> \o <<b>> = <<a, b>>
  <2>1. /\ <<a>> \o <<b>> \in Seq(S) /\ <<a, b>> \in Seq(S)
        /\ Len(<<a>> \o <<b>>) = 2 /\ Len(<<a, b>>) = 2
    OBVIOUS
  <2>2. \A i \in 1..2 : (<<a>> \o <<b>>)[i] = <<a, b>>[i]
    OBVIOUS
  <2> QED BY <2>1, <2>2, SeqEqual
<1>2. <<a, b>> \o <<c>> = <<a, b, c>>
  <2>1. /\ <<a, b>> \o <<c>> \in Seq(S) /\ <<a, b, c>> \in Seq(S)
        /\ Len(<<a, b>> \o <<c>>) = 3 /\ Len(<<a, b, c>>) = 3
    OBVIOUS
  <2>2. \A i \in 1..3 : (<<a, b>> \o <<c>>)[i] = <<a, b, c>>[i]
    OBVIOUS
  <2> QED BY <2>1, <2>2, SeqEqual
<1> QED BY <1>1, <1>2

LEMMA SurgePartsType ==
  ASSUME NEW e \in Entries
  PROVE  Len(SurgeParts(e)) \in Nat
<1> DEFINE a == Credential(e, e.user)
           b == Credential(e, e.secret)
           S == {a, b, "option"}
           u == IF e.proto = "trojan" THEN <<>> ELSE Part(a)
           v == Part(b)
           w == IF e.name = "empty" THEN <<>> ELSE <<"option">>
<1>1. S # {} /\ \A t \in S : <<t>> \in Seq(S)
  OBVIOUS
<1>2. <<>> \in Seq(S)
  OBVIOUS
<1>3. u \in Seq(S) /\ v \in Seq(S) /\ w \in Seq(S)
  <2> HIDE DEF a, b
  <2>1. a \in S /\ b \in S /\ "option" \in S
    OBVIOUS
  <2>2. u \in {<<>>, <<a>>} /\ v \in {<<>>, <<b>>} /\ w \in {<<>>, <<"option">>}
    BY DEF Part
  <2> HIDE DEF S, u, v, w
  <2> QED BY <1>1, <1>2, <2>1, <2>2, Zenon
<1>4. SurgeParts(e) = u \o v \o w
  BY DEF SurgeParts
<1> HIDE DEF S, u, v, w
<1> QED BY <1>3, <1>4

LEMMA SurgePartsAre ==
  ASSUME NEW e \in Entries, Len(SurgeParts(e)) >= 2
  PROVE  /\ e.proto = "trojan" => SurgeParts(e) = <<Credential(e, e.secret), "option">> /\ e.name = "sni"
         /\ e.proto # "trojan" =>
              \/ "option" \in {SurgeParts(e)[1], SurgeParts(e)[2]}
              \/ SurgeParts(e) = <<Credential(e, e.user), Credential(e, e.secret)>> /\ e.name = "empty"
              \/ SurgeParts(e) = <<Credential(e, e.user), Credential(e, e.secret), "option">> /\ e.name = "sni"
<1> DEFINE a == Credential(e, e.user)
           b == Credential(e, e.secret)
           c == "option"
           u == IF e.proto = "trojan" THEN <<>> ELSE Part(a)
           v == Part(b)
           w == IF e.name = "empty" THEN <<>> ELSE <<c>>
<1>1. e.name \in {"empty", "sni"} /\ SurgeParts(e) = u \o v \o w
  BY EntryParts DEF SurgeParts
<1>2. /\ u = <<>> \/ (u = <<a>> /\ e.proto # "trojan")
      /\ v = <<>> \/ v = <<b>>
  BY DEF Part
<1>3. (w = <<>> /\ e.name = "empty") \/ (w = <<c>> /\ e.name = "sni")
  BY <1>1
<1> HIDE DEF u, v, w
<1>4. /\ <<a>> \o <<b>> = <<a, b>> /\ <<a>> \o <<c>> = <<a, c>> /\ <<b>> \o <<c>> = <<b, c>>
      /\ <<a, b>> \o <<c>> = <<a, b, c>>
  <2>1. a \in {a, b, c} /\ b \in {a, b, c} /\ c \in {a, b, c}
    OBVIOUS
  <2> QED BY <2>1, JoinedTexts, Zenon
<1>5. /\ <<>> \o <<a>> = <<a>> /\ <<>> \o <<b>> = <<b>> /\ <<>> \o <<c>> = <<c>>
      /\ <<a>> \o <<>> = <<a>> /\ <<b>> \o <<>> = <<b>> /\ <<a, b>> \o <<>> = <<a, b>>
      /\ <<>> \o <<>> = <<>>
  OBVIOUS
<1>6. u \o v \o w \notin {<<>>, <<a>>, <<b>>, <<c>>}
  <2>1. Len(<<>>) = 0 /\ Len(<<a>>) = 1 /\ Len(<<b>>) = 1 /\ Len(<<c>>) = 1
    OBVIOUS
  <2> HIDE DEF a, b, c
  <2>2. SurgeParts(e) \in {<<>>, <<a>>, <<b>>, <<c>>} => Len(SurgeParts(e)) \in {0, 1}
    BY <2>1, Zenon
  <2>3. Len(SurgeParts(e)) \notin {0, 1}
    <3>1. \A n : n >= 2 => n \notin {0, 1}
      OBVIOUS
    <3> QED BY <3>1, Zenon
  <2> QED BY <1>1, <2>2, <2>3, Zenon
<1>7. <<b, c>>[2] = "option" /\ <<a, c>>[2] = "option"
  OBVIOUS
<1> HIDE DEF a, b
<1>8. CASE u = <<>>
  <2>1. v = <<b>> /\ w = <<c>> /\ SurgeParts(e) = <<b, c>> /\ e.name = "sni"
    <3>1. v = <<b>>
      <4>1. v = <<>> => u \o v \o w = <<>> \/ u \o v \o w = <<c>>
        BY <1>3, <1>5, <1>8, Zenon
      <4> QED BY <1>2, <1>6, <4>1, Zenon
    <3>2. w = <<>> => u \o v \o w = <<b>>
      BY <1>5, <1>8, <3>1, Zenon
    <3> QED BY <1>1, <1>3, <1>4, <1>5, <1>6, <1>8, <3>1, <3>2, Zenon
  <2> QED BY <1>7, <2>1, Zenon DEF b
<1>9. CASE u = <<a>> /\ e.proto # "trojan"
  <2>1. CASE v = <<>>
    <3>1. w = <<c>>
      <4>1. w = <<>> => u \o v \o w = <<a>>
        BY <1>5, <1>9, <2>1, Zenon
      <4> QED BY <1>3, <1>6, <4>1, Zenon
    <3>2. SurgeParts(e) = <<a, c>>
      BY <1>1, <1>4, <1>5, <1>9, <2>1, <3>1, Zenon
    <3> QED BY <1>7, <1>9, <3>2, Zenon
  <2>2. CASE v = <<b>>
    <3>1. \/ SurgeParts(e) = <<a, b>> /\ e.name = "empty"
          \/ SurgeParts(e) = <<a, b, c>> /\ e.name = "sni"
      BY <1>1, <1>3, <1>4, <1>5, <1>9, <2>2, Zenon
    <3> QED BY <1>9, <3>1, Zenon DEF a, b
  <2> QED BY <1>2, <2>1, <2>2
<1> QED BY <1>2, <1>8, <1>9

LEMMA NormalizedAre ==
  ASSUME NEW e \in Entries, NEW p \in Normalized(e.proto)
  PROVE  /\ e.proto \in {"http", "https"} => p.protocol = "http"
         /\ IsSocks(e.proto) => p.protocol = "socks"
         /\ IsShadowsocks(e.proto) => p.protocol = "ss"
         /\ e.proto \in {"trojan", "vless"} => p.protocol = e.proto
         /\ e.proto \in Protocols \ {"vmess", "other"}
         /\ p.tls \in BOOLEAN /\ (p.tls <=> e.proto \in {"https", "trojan"})
<1>1. CASE e.proto \in {"http", "https"}
  <2>1. p = [protocol |-> "http", tls |-> e.proto = "https"]
    BY <1>1 DEF Normalized
  <2> QED BY <1>1, <2>1
<1>2. CASE IsSocks(e.proto) \/ IsShadowsocks(e.proto)
  <2>1. p = [protocol |-> IF IsSocks(e.proto) THEN "socks" ELSE "ss", tls |-> FALSE]
    BY <1>2 DEF Normalized
  <2> QED BY <1>2, <2>1
<1>3. CASE e.proto \in {"trojan", "vless"}
  <2>1. p = [protocol |-> e.proto, tls |-> e.proto = "trojan"]
    BY <1>3 DEF Normalized
  <2> QED BY <1>3, <2>1
<1>4. CASE e.proto \in {"vmess", "other"}
  BY <1>4 DEF Normalized
<1> QED BY <1>1, <1>2, <1>3, <1>4, EntryParts

LEMMA SurgeNode ==
  ASSUME NEW e \in Entries, NEW n \in Surge(e)
  PROVE  /\ Len(SurgeParts(e)) >= 2
         /\ \E p \in Normalized(e.proto) :
              /\ n.protocol = p.protocol
              /\ p.protocol = "ss" => n.user = e.user /\ n.secret = e.secret
              /\ p.protocol = "trojan" => n.secret = SurgeParts(e)[1]
              /\ p.protocol \notin {"ss", "trojan"} =>
                   n.user = SurgeParts(e)[1] /\ n.secret = SurgeParts(e)[2] /\ n.tls = p.tls
         /\ n.name = IF \E i \in 2..Len(SurgeParts(e)) : SurgeParts(e)[i] = "option"
                       THEN OwnName(e.name, TRUE) ELSE "host"
<1> DEFINE parts == SurgeParts(e)
           name == IF Len(parts) > 1 /\ \E i \in 2..Len(parts) : parts[i] = "option"
                     THEN OwnName(e.name, TRUE) ELSE "host"
           build(p) ==
               IF ~e.address \/ Len(parts) < 2 THEN Dropped
               ELSE IF p.protocol = "ss" THEN
                   IF e.user = "empty" \/ e.secret = "empty" THEN Dropped
                   ELSE Node("ss", e.user, e.secret, FALSE, name)
               ELSE IF p.protocol = "trojan" THEN Node("trojan", parts[1], parts[1], TRUE, name)
               ELSE Node(p.protocol, parts[1], parts[2], p.tls, name)
<1>1. PICK p \in Normalized(e.proto) : n \in build(p)
  <2>1. n \in UNION {build(p) : p \in Normalized(e.proto)}
    BY Zenon DEF Surge
  <2> HIDE DEF build
  <2> QED BY <2>1
<1>2. ~(Len(parts) < 2)
  BY <1>1
<1>3. Len(parts) \in Nat
  BY SurgePartsType
<1>4. n.name = name
  <2> HIDE DEF name, parts
  <2> QED BY <1>1
<1>5. /\ n.protocol = p.protocol
      /\ p.protocol = "ss" => n.user = e.user /\ n.secret = e.secret
      /\ p.protocol = "trojan" => n.secret = parts[1]
      /\ p.protocol \notin {"ss", "trojan"} =>
           n.user = parts[1] /\ n.secret = parts[2] /\ n.tls = p.tls
  <2> HIDE DEF name, parts
  <2> QED BY <1>1
<1> QED BY <1>2, <1>3, <1>4, <1>5

LEMMA SurgeAsWritten ==
  ASSUME NEW e \in Entries, WrittenIn("surge", e), NEW n \in Surge(e)
  PROVE  AsWritten("surge", e, n)
<1>1. /\ ~e.tls
      /\ e.name = "empty" \/ e.proto \in {"https", "trojan"}
  BY Written, EntryParts DEF SaysNothingOf
<1>2. PICK p \in Normalized(e.proto) :
        /\ n.protocol = p.protocol
        /\ p.protocol = "ss" => n.user = e.user /\ n.secret = e.secret
        /\ p.protocol = "trojan" => n.secret = SurgeParts(e)[1]
        /\ p.protocol \notin {"ss", "trojan"} =>
             n.user = SurgeParts(e)[1] /\ n.secret = SurgeParts(e)[2] /\ n.tls = p.tls
  BY SurgeNode
<1>3. /\ Len(SurgeParts(e)) >= 2
      /\ n.name = IF \E i \in 2..Len(SurgeParts(e)) : SurgeParts(e)[i] = "option"
                    THEN OwnName(e.name, TRUE) ELSE "host"
  BY SurgeNode
<1>4. CASE e.proto = "trojan"
  <2>1. SurgeParts(e) = <<Credential(e, e.secret), "option">> /\ e.name = "sni"
    BY <1>3, <1>4, SurgePartsAre
  <2>2. n.protocol = "trojan" /\ n.secret = Credential(e, e.secret) /\ n.name = OwnName(e.name, TRUE)
    BY <1>2, <1>3, <1>4, <2>1, NormalizedAre
  <2>3. Credential(e, e.secret) \in {e.secret, "option"}
    BY DEF Credential
  <2>4. CASE n.secret = "option"
    BY <2>2, <2>4 DEF AsWritten
  <2>5. CASE n.secret = e.secret
    BY <1>4, <2>1, <2>2, <2>5, TrojanAsWritten DEF SameName, AsWritten
  <2> QED BY <2>2, <2>3, <2>4, <2>5
<1>5. CASE IsShadowsocks(e.proto)
  <2>1. n.protocol = "ss" /\ n.user = e.user /\ n.secret = e.secret
    BY <1>2, <1>5, NormalizedAre
  <2> QED BY <1>1, <1>5, <2>1, ShadowsocksAsWritten DEF AsWritten
<1>6. CASE e.proto # "trojan" /\ ~IsShadowsocks(e.proto)
  <2>1. /\ p.protocol \notin {"ss", "trojan"} /\ n.tls = p.tls
        /\ n.user = SurgeParts(e)[1] /\ n.secret = SurgeParts(e)[2]
    BY <1>2, <1>6, NormalizedAre
  <2>2. CASE "option" \in {SurgeParts(e)[1], SurgeParts(e)[2]}
    BY <1>6, <2>1, <2>2, <1>2, NormalizedAre DEF AsWritten
  <2>3. \/ "option" \in {SurgeParts(e)[1], SurgeParts(e)[2]}
        \/ SurgeParts(e) = <<e.user, e.secret>> /\ e.name = "empty"
        \/ SurgeParts(e) = <<e.user, e.secret, "option">> /\ e.name = "sni"
    <3>1. /\ Credential(e, e.user) \in {e.user, "option"}
          /\ Credential(e, e.secret) \in {e.secret, "option"}
      BY DEF Credential
    <3> QED BY <1>3, <1>6, <3>1, SurgePartsAre
  <2>4. CASE \/ SurgeParts(e) = <<e.user, e.secret>> /\ e.name = "empty"
             \/ SurgeParts(e) = <<e.user, e.secret, "option">> /\ e.name = "sni"
    <3>1. n.user = e.user /\ n.secret = e.secret /\ n.tls \in BOOLEAN /\ (n.tls <=> Asked(e))
      BY <1>1, <1>6, <2>1, <2>4, NormalizedAre DEF Asked
    <3>2. SameName(n, e)
      <4>1. e.secret # "option"
        BY EntryParts
      <4>2. CASE e.name = "empty"
        <5>1. OwnName(e.name, TRUE) = "host" /\ OwnName("host", TRUE) = "host"
          BY <4>2
        <5> QED BY <1>3, <5>1 DEF SameName
      <4>3. CASE SurgeParts(e) = <<e.user, e.secret, "option">> /\ e.name = "sni"
        <5>1. 3 \in 2..Len(SurgeParts(e)) /\ SurgeParts(e)[3] = "option"
          BY <4>3
        <5> QED BY <1>3, <4>3, <5>1 DEF SameName
      <4> QED BY <2>4, <4>2, <4>3
    <3>3. \/ e.proto \in {"http", "https"} /\ n.protocol = "http"
          \/ IsSocks(e.proto) /\ IsSocks(n.protocol)
          \/ e.proto = "vless" /\ n.protocol = e.proto
      BY <1>2, <1>6, NormalizedAre
    <3> QED BY <1>1, <3>1, <3>2, <3>3, HttpAsWritten, SocksAsWritten, UuidAsWritten DEF AsWritten, Asked
  <2> QED BY <2>2, <2>3, <2>4
<1> QED BY <1>4, <1>5, <1>6

LEMMA ClashNode ==
  ASSUME NEW e \in Entries, NEW n \in Clash(e)
  PROVE  /\ e.proto \in Supported /\ (HasUuid(e.proto) => e.network = "tcp")
         /\ e.proto = "vless" => e.flow = "empty"
         /\ n.protocol = e.proto /\ n.user = e.user
         /\ n.name = OwnName(e.name, n.tls)
         /\ ~HasUuid(e.proto) => n.secret = e.secret
         /\ n.tls \in BOOLEAN /\ (n.tls <=> e.tls \/ e.proto = "trojan")
  BY EntryParts DEF Clash

LEMMA ClashAsWritten ==
  ASSUME NEW e \in Entries, WrittenIn("clash", e), NEW n \in Clash(e)
  PROVE  AsWritten("clash", e, n)
<1>1. e.proto # "https" /\ (n.tls => SameName(n, e))
  BY Written, ClashNode, EntryParts DEF SameName
<1>2. /\ HasUuid(n.protocol) => e.network # "ws"
      /\ n.protocol = "vless" => e.flow = "empty"
  BY ClashNode
<1>3. \/ (IsSocks(n.protocol) \/ IsShadowsocks(n.protocol)) /\ e.tls
      \/ /\ Dialled(n) = Stated(e)
         /\ Probed(n) = Stated(e) \/ (n.protocol = "http" /\ n.tls /\ e.name = "sni")
  BY <1>1, ClashNode, EntryParts, HttpAsWritten, SocksAsWritten, ShadowsocksAsWritten,
     TrojanAsWritten, UuidAsWritten DEF Asked
<1> QED BY <1>2, <1>3 DEF AsWritten

LEMMA QuantumultXNode ==
  ASSUME NEW e \in Entries, NEW n \in QuantumultX(e)
  PROVE  /\ \E p \in Normalized(e.proto) : n.protocol = p.protocol /\ (n.tls <=> p.tls \/ e.tls)
         /\ n.user = e.user /\ n.secret = e.secret /\ n.tls \in BOOLEAN
         /\ n.name = OwnName(e.name, n.tls)
<1>1. PICK p \in Normalized(e.proto) : n \in Node(p.protocol, e.user, e.secret, p.tls \/ e.tls, OwnName(e.name, p.tls \/ e.tls))
  BY SMTT(30) DEF QuantumultX
<1>2. p.tls \in BOOLEAN /\ e.tls \in BOOLEAN
  BY NormalizedAre, EntryParts
<1> QED BY <1>1, <1>2

LEMMA QuantumultXAsWritten ==
  ASSUME NEW e \in Entries, WrittenIn("quantumultx", e), NEW n \in QuantumultX(e)
  PROVE  AsWritten("quantumultx", e, n)
<1>1. PICK p \in Normalized(e.proto) : n.protocol = p.protocol /\ (n.tls <=> p.tls \/ e.tls)
  BY QuantumultXNode
<1>2. n.tls => SameName(n, e)
  BY QuantumultXNode, EntryParts DEF SameName
<1>3. /\ n.user = e.user /\ n.secret = e.secret /\ n.tls \in BOOLEAN /\ (n.tls <=> Asked(e))
      /\ \/ e.proto \in {"http", "https"} /\ n.protocol = "http"
         \/ IsSocks(e.proto) /\ IsSocks(n.protocol)
         \/ IsShadowsocks(e.proto) /\ IsShadowsocks(n.protocol)
         \/ e.proto \in {"trojan", "vless"} /\ n.protocol = e.proto
  BY <1>1, QuantumultXNode, NormalizedAre, EntryParts DEF Asked
<1>4. e.proto = "trojan" => n.tls
  BY <1>3 DEF Asked
<1> QED BY <1>2, <1>3, <1>4, EntryParts, HttpAsWritten, SocksAsWritten, ShadowsocksAsWritten,
     TrojanAsWritten, UuidAsWritten DEF AsWritten, Asked

LEMMA FormsAsWritten ==
  ASSUME NEW e \in Entries, NEW f \in {"manual", "form"}, WrittenIn(f, e),
         NEW n \in IF f = "manual" THEN Manual(e) ELSE Form(e)
  PROVE  AsWritten(f, e, n)
<1>1. ~e.tls /\ e.name = "empty" /\ e.proto # "https"
  <2>1. f = "form" => e.proto \in Supported
    BY DEF Form
  <2> QED BY <2>1, Written DEF SaysNothingOf
<1>2. /\ n.protocol = e.proto /\ n.user = e.user /\ n.secret = e.secret
      /\ n.tls = FALSE /\ n.name = "empty"
  <2>1. CASE f = "manual"
    <3>1. n \in Node("http", e.user, e.secret, FALSE, "empty")
      BY <2>1 DEF Manual
    <3>2. e.proto = "http"
      BY <2>1, Written
    <3> QED BY <3>1, <3>2
  <2>2. CASE f = "form"
    <3>1. n \in Node(e.proto, e.user, e.secret, FALSE, "empty")
      BY <2>2 DEF Form
    <3> QED BY <3>1
  <2> QED BY <2>1, <2>2
<1>3. SameName(n, e)
  BY <1>1, <1>2 DEF SameName
<1>4. CASE e.proto = "http"
  <2>1. n.tls \in BOOLEAN /\ (n.tls <=> Asked(e))
    BY <1>1, <1>2, <1>4 DEF Asked
  <2> QED BY <1>1, <1>2, <1>3, <1>4, <2>1, HttpAsWritten DEF AsWritten
<1>5. CASE e.proto = "trojan"
  BY <1>1, <1>2, <1>3, <1>5, TrojanAsWritten DEF AsWritten
<1>6. CASE HasUuid(e.proto)
  <2>1. n.tls \in BOOLEAN /\ (n.tls <=> e.tls)
    BY <1>1, <1>2
  <2> QED BY <1>1, <1>2, <1>3, <1>6, <2>1, UuidAsWritten DEF AsWritten
<1>7. CASE IsSocks(e.proto)
  BY <1>1, <1>2, <1>7, SocksAsWritten DEF AsWritten
<1>8. CASE IsShadowsocks(e.proto)
  BY <1>1, <1>2, <1>8, ShadowsocksAsWritten DEF AsWritten
<1>9. e.proto # "other"
  BY Written DEF Form
<1> QED BY <1>1, <1>4, <1>5, <1>6, <1>7, <1>8, <1>9, EntryParts

LEMMA LinkNode ==
  ASSUME NEW e \in Entries, WrittenIn("shadowrocket", e), NEW n \in Shadowrocket(e)
  PROVE  \/ e.proto \in {"http", "https"} /\ n \in Node("http", e.user, e.secret, e.proto = "https", "host")
         \/ IsSocks(e.proto) /\ n \in Node("socks", e.user, e.secret, FALSE, "host")
         \/ IsShadowsocks(e.proto) /\ n \in ShadowsocksLink(e)
         \/ e.proto = "trojan" /\ n \in TrojanLink(e)
         \/ e.proto = "vless" /\ n \in VlessLink(e)
         \/ e.proto = "vmess" /\ n \in VmessLink(e)
<1>1. e.proto \in Protocols /\ e.address
  BY EntryParts DEF Shadowrocket
<1>2. CASE e.proto \in {"http", "https"}
  BY <1>1, <1>2 DEF Shadowrocket
<1>3. CASE e.proto \in {"socks", "socks5"}
  BY <1>1, <1>3 DEF Shadowrocket
<1>4. CASE e.proto \in {"ss", "shadowsocks"}
  BY <1>1, <1>4 DEF Shadowrocket
<1>5. CASE e.proto = "trojan"
  BY <1>1, <1>5 DEF Shadowrocket
<1>6. CASE e.proto = "vless"
  BY <1>1, <1>6 DEF Shadowrocket
<1>7. CASE e.proto = "vmess"
  BY <1>1, <1>7 DEF Shadowrocket
<1>8. CASE e.proto = "other"
  BY <1>1, <1>8 DEF Shadowrocket
<1> QED BY <1>1, <1>2, <1>3, <1>4, <1>5, <1>6, <1>7, <1>8

LEMMA ShadowrocketAsWritten ==
  ASSUME NEW e \in Entries, WrittenIn("shadowrocket", e), NEW n \in Shadowrocket(e)
  PROVE  AsWritten("shadowrocket", e, n)
<1>1. /\ ~HasUuid(e.proto) => ~e.tls /\ (e.proto = "https" => e.name = "empty")
      /\ e.name = "empty" \/ e.tls \/ e.proto \in {"https", "trojan"}
  BY Written
<1>2. CASE e.proto \in {"http", "https"} /\ n \in Node("http", e.user, e.secret, e.proto = "https", "host")
  <2>1. /\ n.protocol = "http" /\ n.user = e.user /\ n.secret = e.secret /\ n.name = "host"
        /\ n.tls \in BOOLEAN /\ (n.tls <=> e.proto = "https")
    <3>1. CASE e.proto = "https"
      <4>1. n \in Node("http", e.user, e.secret, TRUE, "host")
        BY <1>2, <3>1
      <4>2. n.protocol = "http" /\ n.user = e.user /\ n.secret = e.secret /\ n.name = "host" /\ n.tls = TRUE
        BY <4>1
      <4>3. n.tls \in BOOLEAN /\ (n.tls <=> e.proto = "https")
        BY <3>1, <4>2
      <4> QED BY <4>2, <4>3
    <3>2. CASE e.proto = "http"
      <4>1. n \in Node("http", e.user, e.secret, FALSE, "host")
        BY <1>2, <3>2
      <4>2. n.protocol = "http" /\ n.user = e.user /\ n.secret = e.secret /\ n.name = "host" /\ n.tls = FALSE
        BY <4>1
      <4>3. n.tls \in BOOLEAN /\ (n.tls <=> e.proto = "https")
        BY <3>2, <4>2
      <4> QED BY <4>2, <4>3
    <3> QED BY <1>2, <3>1, <3>2
  <2>2. e.name = "empty" /\ ~e.tls /\ SameName(n, e)
    BY <1>1, <1>2, <2>1 DEF SameName
  <2> QED BY <1>2, <2>1, <2>2, HttpAsWritten DEF AsWritten, Asked
<1>3. CASE IsSocks(e.proto) /\ n \in Node("socks", e.user, e.secret, FALSE, "host")
  BY <1>1, <1>3, SocksAsWritten DEF AsWritten
<1>4. CASE IsShadowsocks(e.proto) /\ n \in ShadowsocksLink(e)
  <2>1. n.protocol = "ss" /\ n.user = e.user /\ n.secret = e.secret
    BY <1>4 DEF ShadowsocksLink
  <2> QED BY <1>1, <1>4, <2>1, ShadowsocksAsWritten DEF AsWritten
<1>5. CASE e.proto = "trojan" /\ n \in TrojanLink(e)
  <2>1. n.protocol = "trojan" /\ n.secret = e.secret /\ n.name = OwnName(e.name, TRUE)
    BY <1>5 DEF TrojanLink
  <2>2. SameName(n, e)
    BY <2>1, EntryParts DEF SameName
  <2> QED BY <1>5, <2>1, <2>2, TrojanAsWritten DEF AsWritten
<1>6. CASE e.proto = "vless" /\ n \in VlessLink(e)
  <2>1. n \in Node("vless", e.user, "empty", e.tls \/ e.name # "empty", OwnName(e.name, e.tls \/ e.name # "empty"))
        /\ e.network # "ws" /\ e.flow = "empty"
    BY <1>6, EntryParts DEF VlessLink
  <2>2. (e.tls \/ e.name # "empty") = e.tls
    BY <1>1, <1>6, EntryParts
  <2>3. n.protocol = "vless" /\ n.user = e.user /\ n.tls = e.tls /\ n.name = OwnName(e.name, e.tls)
    BY <2>1, <2>2
  <2>4. e.tls \in BOOLEAN /\ (n.tls => SameName(n, e))
    BY <2>3, EntryParts DEF SameName
  <2> QED BY <1>6, <2>1, <2>3, <2>4, UuidAsWritten DEF AsWritten
<1>7. CASE e.proto = "vmess" /\ n \in VmessLink(e)
  <2>1. n \in Node("vmess", e.user, "empty", e.tls, OwnName(e.name, e.tls)) /\ e.network # "ws"
    BY <1>7 DEF VmessLink
  <2>2. n.protocol = "vmess" /\ n.user = e.user /\ n.tls = e.tls /\ n.name = OwnName(e.name, e.tls)
    BY <2>1
  <2>3. e.tls \in BOOLEAN /\ (n.tls => SameName(n, e))
    BY <2>2, EntryParts DEF SameName
  <2> QED BY <1>7, <2>1, <2>2, <2>3, UuidAsWritten DEF AsWritten
<1> QED BY <1>2, <1>3, <1>4, <1>5, <1>6, <1>7, LinkNode

(* What is stored of an entry is what its parser makes of it.              *)
Imported ==
    pc \in {"entry", "stored"} =>
        /\ format \in Formats /\ entry \in Entries /\ WrittenIn(format, entry)
        /\ pc = "stored" => node = Parse(format, entry)

LEMMA ImportedKept == Imported /\ [Next]_vars => Imported'
<1> SUFFICES ASSUME Imported, [Next]_vars PROVE Imported'
  OBVIOUS
<1>1. CASE Import
  BY <1>1 DEF Import, Imported
<1>2. CASE UNCHANGED vars
  BY <1>2 DEF vars, Imported
<1>3. CASE StartCheck
  BY <1>3 DEF StartCheck, Imported
<1>4. ASSUME pc \in {"ask", "backoff"}, pc' \notin {"entry", "stored"} PROVE Imported'
  BY <1>4 DEF Imported
<1>5. CASE Cancel
  BY <1>5, <1>4 DEF Cancel
<1>6. ASSUME SourceFails PROVE pc' \in {"ask", "failed", "passed"}
  BY <1>6 DEF SourceFails
<1>7. CASE AttemptFails
  BY <1>4, <1>6, <1>7 DEF AttemptFails
<1>8. CASE Stop \/ GiveUp
  BY <1>4, <1>6, <1>8 DEF Stop, GiveUp
<1>9. CASE ExitAnswers \/ ProfileAnswers \/ Backoff
  BY <1>4, <1>9 DEF ExitAnswers, ProfileAnswers, Backoff
<1> QED BY <1>1, <1>2, <1>3, <1>5, <1>7, <1>8, <1>9 DEF Next

(* Every node that is stored, in whichever of the seven formats its entry  *)
(* was written, is dialled and checked with the protocol, the credentials, *)
(* the TLS and the name that the entry states, up to the exceptions that   *)
(* the property names; an entry that needs more than TCP is not stored.    *)
THEOREM ProbeDialledAsWritten == Spec => []DialledAsWritten
<1>1. Init => Imported
  BY DEF Init, Imported
<1>2. ASSUME Imported PROVE DialledAsWritten
  <2> SUFFICES ASSUME pc = "stored", NEW n \in node PROVE AsWritten(format, entry, n)
    BY Zenon DEF DialledAsWritten, AsWritten
  <2>1. entry \in Entries /\ WrittenIn(format, entry) /\ n \in Parse(format, entry) /\ format \in Formats
    BY <1>2 DEF Imported
  <2>2. CASE format = "singbox"
    BY <2>1, <2>2, SingboxAsWritten DEF Parse
  <2>3. CASE format = "clash"
    BY <2>1, <2>3, ClashAsWritten DEF Parse
  <2>4. CASE format = "surge"
    BY <2>1, <2>4, SurgeAsWritten DEF Parse
  <2>5. CASE format = "quantumultx"
    BY <2>1, <2>5, QuantumultXAsWritten DEF Parse
  <2>6. CASE format = "shadowrocket"
    BY <2>1, <2>6, ShadowrocketAsWritten DEF Parse
  <2>7. CASE format \in {"manual", "form"}
    <3>1. n \in IF format = "manual" THEN Manual(entry) ELSE Form(entry)
      BY <2>1, <2>7 DEF Parse
    <3> QED BY <2>1, <2>7, <3>1, FormsAsWritten
  <2> QED BY <2>1, <2>2, <2>3, <2>4, <2>5, <2>6, <2>7 DEF Formats
<1> QED BY <1>1, <1>2, ImportedKept, PTL DEF Spec
=============================================================================

------------------------------- MODULE Probe -------------------------------
(***************************************************************************)
(* A node from the entry of a subscription to the verdict of its first     *)
(* check: the entry is parsed (NodeFormats), the node is dialled by        *)
(* healthcheck.Service.CheckOne, which asks three sources for the exit     *)
(* address through the node, each with the retries of retry.Do, and then   *)
(* three sources, directly, for what is known of the address.  When the    *)
(* verdict is saved and cached is in NodeCache.                            *)
(***************************************************************************)
EXTENDS NodeFormats

CONSTANTS
    MaxAttempts,    \* retry.Config
    Fields          \* what a source may say of an address: city, region, org

ASSUME ProbeAssumption == MaxAttempts \in Nat

VARIABLES
    format, entry,  \* the entry, until its node is stored
    node,           \* the node, or none
    pc,
    phase, source, attempt,     \* where the check is
    profile,        \* for each field, who has filled it
    cancelled,      \* the context of the check has ended
    told,           \* history: fields that the node's own answer has filled
    errors, stopped \* history: of each source of the phase, attempts that failed and final answers

check == <<phase, source, attempt, profile, told, errors, stopped>>
vars == <<format, entry, node, pc, check, cancelled>>

-----------------------------------------------------------------------------
Sources == 1..3
NoEntry == <<>>
Attempts == IF MaxAttempts = 0 THEN 1 ELSE MaxAttempts
Fresh == [s \in Sources |-> 0]

Init ==
    /\ format \in Formats
    /\ entry \in {e \in Entries : WrittenIn(format, e)}
    /\ node = {} /\ pc = "entry"
    /\ phase = "exit" /\ source = 1 /\ attempt = 1
    /\ profile = [f \in Fields |-> "nobody"]
    /\ cancelled = FALSE
    /\ told = {} /\ errors = Fresh /\ stopped = {}

Import ==
    /\ pc = "entry"
    /\ node' = Parse(format, entry)
    /\ pc' = IF node' = {} THEN "dropped" ELSE "stored"
    /\ UNCHANGED <<format, entry, check, cancelled>>

StartCheck ==
    /\ pc = "stored"
    /\ pc' = "ask" /\ format' = "none" /\ entry' = NoEntry
    /\ UNCHANGED <<node, check, cancelled>>

(* The administrator leaves the page of checkNode, or the process ends.    *)
Cancel ==
    /\ ~cancelled /\ pc \in {"ask", "backoff"}
    /\ cancelled' = TRUE
    /\ UNCHANGED <<format, entry, node, pc, check>>

-----------------------------------------------------------------------------
(* The next source; after the last one the phase has failed: no address is *)
(* a failed check, no profile is not.                                      *)
SourceFails ==
    IF source < 3 THEN
        /\ source' = source + 1 /\ attempt' = 1 /\ pc' = "ask"
        /\ UNCHANGED phase
    ELSE
        /\ pc' = IF phase = "exit" THEN "failed" ELSE "passed"
        /\ UNCHANGED <<phase, source, attempt>>

(* retry.Do: an error is tried again after a pause, unless it was the last *)
(* attempt.  Through a node that cannot be dialled there is nothing else.  *)
AttemptFails ==
    /\ pc = "ask" /\ ~cancelled
    /\ errors' = [errors EXCEPT ![source] = @ + 1]
    /\ IF attempt < Attempts
         THEN pc' = "backoff" /\ UNCHANGED <<phase, source, attempt>>
         ELSE SourceFails
    /\ UNCHANGED <<format, entry, node, cancelled, profile, told, stopped>>

Reached == phase = "profile" \/ \A n \in node : CanDial(n)

(* StopError: a status other than 200 below 500, a body that says nothing; *)
(* or an answer without an address, without anything known of it.          *)
Stop ==
    /\ pc = "ask" /\ ~cancelled /\ Reached
    /\ SourceFails
    /\ stopped' = stopped \cup {source}
    /\ UNCHANGED <<format, entry, node, cancelled, profile, told, errors>>

(* ipify and ifconfig answer with an address only, ipinfo with all.        *)
ExitAnswers ==
    /\ pc = "ask" /\ ~cancelled /\ Reached /\ phase = "exit"
    /\ \E known \in SUBSET Fields :
          /\ source < 3 => known = {}
          /\ told' = known
          /\ profile' = [f \in Fields |-> IF f \in known THEN "exit" ELSE "nobody"]
    /\ phase' = "profile" /\ source' = 1 /\ attempt' = 1
    /\ errors' = Fresh /\ stopped' = {}
    /\ UNCHANGED <<format, entry, node, pc, cancelled>>

(* Mistake: what the last source says replaces what was known.             *)
FaultyMerge(known) == [f \in Fields |-> IF f \in known THEN "direct" ELSE profile[f]]

(* mergeProbeInfo *)
Merge(known) ==
    [f \in Fields |-> IF profile[f] = "nobody" /\ f \in known THEN "direct" ELSE profile[f]]

ProfileAnswers ==
    /\ pc = "ask" /\ ~cancelled /\ phase = "profile"
    /\ \E known \in SUBSET Fields \ {{}} : profile' = Merge(known)
    /\ pc' = "passed"
    /\ UNCHANGED <<format, entry, node, cancelled, phase, source, attempt, told, errors, stopped>>

(* The pause of retry.Do. *)
Backoff ==
    /\ pc = "backoff" /\ ~cancelled
    /\ attempt' = attempt + 1 /\ pc' = "ask"
    /\ UNCHANGED <<format, entry, node, cancelled, phase, source, profile, told, errors, stopped>>

(* Once the context has ended no request is sent, and no source left.      *)
GiveUp ==
    /\ pc \in {"ask", "backoff"} /\ cancelled
    /\ SourceFails
    /\ UNCHANGED <<format, entry, node, cancelled, profile, told, errors, stopped>>

Next ==
    \/ Import \/ StartCheck \/ Cancel \/ AttemptFails \/ Stop
    \/ ExitAnswers \/ ProfileAnswers \/ Backoff \/ GiveUp

Spec == Init /\ [][Next]_vars

-----------------------------------------------------------------------------
(* What is stored of an entry is dialled by the gateway and by the health  *)
(* check, if at all, as the entry asks: protocol, credentials, TLS, and    *)
(* the name of the certificate.  Exceptions: socks and ss have no TLS      *)
(* here, Surge keeps an option as the credential whose place it takes, and *)
(* a check of an http proxy does not know its sni.  An entry that needs more *)
(* than TCP is not stored, as the diallers have nothing else: not by Clash *)
(* and Shadowrocket, nor vless by sing-box.                                *)
DialledAsWritten ==
    pc = "stored" =>
      \A n \in node :
         /\ \/ (IsSocks(n.protocol) \/ IsShadowsocks(n.protocol)) /\ entry.tls
            \/ format = "surge" /\ "option" \in {n.user, n.secret}
            \/ /\ Dialled(n) = Stated(entry)
               /\ Probed(n) = Stated(entry) \/ (n.protocol = "http" /\ n.tls /\ entry.name = "sni")
         /\ \/ format \in {"clash", "shadowrocket"} /\ HasUuid(n.protocol)
            \/ format = "singbox" /\ n.protocol = "vless"
            => entry.network # "ws"
         /\ format \in {"clash", "shadowrocket"} /\ n.protocol = "vless" => entry.flow = "empty"

(* A check passes only through a node that was dialled, and keeps what the *)
(* node's own answer said; it fails, unless its context ended, only after  *)
(* every source has refused or has failed as often as it may be tried; and *)
(* who has refused is not asked again.                                     *)
VerdictIsEarned ==
    /\ pc = "passed" => \A n \in node : CanDial(n)
    /\ \A f \in told : profile[f] = "exit"
    /\ pc = "failed" /\ ~cancelled =>
         \A s \in Sources : s \in stopped \/ errors[s] = Attempts
    /\ pc = "ask" => source \notin stopped

(* What a check has left to ask: the phases, the sources of a phase and    *)
(* the attempts of a source.                                               *)
Asks == (IF phase = "exit" THEN 3 * Attempts ELSE 0) + (3 - source) * Attempts + Attempts - attempt

(* A check ends by itself, after at most six times the attempts: every     *)
(* answer, the last error of a source and every pause leave it less to     *)
(* ask, and an error that is tried again leads to a pause, which retry.Do  *)
(* bounds.                                                                 *)
ChecksAdvance ==
    [][/\ pc \in {"ask", "backoff"} =>
            \/ pc' \in {"passed", "failed"} \/ Cancel
            \/ pc' \in {"ask", "backoff"} /\ Asks' < Asks
            \/ pc = "ask" /\ pc' = "backoff" /\ Asks' = Asks
       /\ pc' \in {"ask", "backoff"} => Asks' \in 0..(6 * Attempts - 1)]_vars
=============================================================================

-------------------------- MODULE IncidentLifecycle --------------------------
(***************************************************************************)
(* What the incident service promises about an incident, without handlers, *)
(* reads and writes: it is opened (or recorded as already resolved),       *)
(* announced on channels, acknowledged, escalated and resolved, and none   *)
(* of this is ever taken back.  Only a channel it was announced on can     *)
(* acknowledge it (a later one takes the place of an earlier one), a       *)
(* resolution is announced only once it is true, and an escalation only    *)
(* once it is decided.                                                     *)
(***************************************************************************)
EXTENDS Naturals

CONSTANTS
  Id,         \* incident ids
  Channel,    \* channels
  Nobody      \* not a channel: nobody has acknowledged

VARIABLES
  phase,      \* "absent", "open" or "resolved"
  acker,      \* for each incident, the channel that acknowledged it last
  escalated,  \* the incidents escalated
  announced   \* the announcements queued: an incident, a type and a channel

vars == <<phase, acker, escalated, announced>>

Type == {"Alert", "Resolution", "Escalation"}

TypeOK ==
  /\ phase \in [Id -> {"absent", "open", "resolved"}]
  /\ acker \in [Id -> Channel \union {Nobody}]
  /\ escalated \subseteq Id
  /\ announced \subseteq Id \X Type \X Channel

Init ==
  /\ phase = [i \in Id |-> "absent"]
  /\ acker = [i \in Id |-> Nobody]
  /\ escalated = {}
  /\ announced = {}

Open(i) ==
  /\ phase[i] = "absent"
  /\ \E p \in {"open", "resolved"} : phase' = [phase EXCEPT ![i] = p]
  /\ UNCHANGED <<acker, escalated, announced>>

Resolve(i) ==
  /\ phase[i] = "open"
  /\ phase' = [phase EXCEPT ![i] = "resolved"]
  /\ UNCHANGED <<acker, escalated, announced>>

Acknowledge(i, c) ==
  /\ \E type \in Type : <<i, type, c>> \in announced
  /\ acker' = [acker EXCEPT ![i] = c]
  /\ UNCHANGED <<phase, escalated, announced>>

Escalate(i) ==
  /\ phase[i] # "absent" /\ i \notin escalated
  /\ escalated' = escalated \union {i}
  /\ UNCHANGED <<phase, acker, announced>>

Announce(i, type, channels) ==
  /\ phase[i] # "absent"
  /\ type = "Resolution" => phase[i] = "resolved"
  /\ type = "Escalation" => i \in escalated
  /\ announced' = announced \union {<<i, type, c>> : c \in channels}
  /\ UNCHANGED <<phase, acker, escalated>>

Next ==
  \E i \in Id :
    \/ Open(i) \/ Resolve(i) \/ Escalate(i)
    \/ \E c \in Channel : Acknowledge(i, c)
    \/ \E type \in Type, channels \in (SUBSET Channel) \ {{}} : Announce(i, type, channels)

Spec == Init /\ [][Next]_vars

=============================================================================

----------------------- MODULE MatrixService_proofs -----------------------
(***************************************************************************)
(* The answers of the bot are true and complete, and the devices of others *)
(* are kept, for any incidents, rooms, commands, handlers and failures.    *)
(*                                                                         *)
(* What is done to an incident is never undone: what a handler has learned *)
(* stays true until it says so.                                            *)
(***************************************************************************)
EXTENDS MatrixService, FiniteSetTheorems, WellFoundedInduction, TLAPS

Notice == [room : Rooms, type : {"Alert", "Escalation", "Resolution"}]
Incident == [notices : SUBSET Notice, isAcked : BOOLEAN, isResolved : BOOLEAN]

Reply ==
  [kind : Immediate \union {"error", "resolved"}, ids : SUBSET Incidents]
    \union [kind : {"list"}, ids : SUBSET Incidents, total : Nat]
    \union [kind : {"show"}, ids : SUBSET Incidents, texts : SUBSET Notice]
    \union [kind : {"acked"}, ids : SUBSET Incidents, left : Nat]
    \union [kind : {"debug"}, ids : SUBSET Incidents, says : SUBSET {"acked", "resolved", "escalated"}]
    \union [kind : {"allResolved"}, ids : SUBSET Incidents, resolved : Nat, failed : Nat]

Handler ==
  [pc : {"idle", "calling", "remaining", "resolving", "sending"},
   verb : Verb \union {None}, room : Rooms \union {None}, id : Incidents \union {None},
   todo : SUBSET Incidents, done : SUBSET Incidents, failed : SUBSET Incidents,
   out : Seq(Reply), inTry : BOOLEAN, before : SUBSET Incidents]

TypeOK ==
  /\ incident \in [Incidents -> Incident]
  /\ command \in [Handlers -> Handler]

\* What a handler knows.
Knows(c) ==
  /\ c.pc \in {"calling", "remaining"} /\ c.verb \in Addressed => c.id \in Incidents
  /\ c.pc # "idle" =>
       \A i \in c.before : Told(i, c.room) /\ (c.verb = "unacked" => i \in NeedsAck)
  /\ c.pc = "calling" => c.done = {} /\ c.failed = {}
  /\ c.pc = "remaining" => /\ c.verb = "ack"
                           /\ incident[c.id].isAcked /\ Told(c.id, c.room)
  /\ c.pc = "resolving" => 
       /\ c.verb = "resolveAll"
       /\ \A i \in c.todo \union c.done : Told(i, c.room)
       /\ \A i \in c.done : incident[i].isResolved
       /\ Cardinality(c.todo \union c.done \union c.failed) < MaxFound =>
            \A i \in c.before : incident[i].isResolved \/ i \in c.todo \union c.failed
  /\ c.pc = "sending" => c.out # <<>>

\* What it is about to say is true and complete.
Replies(c) ==
  c.pc = "sending" =>
    \A k \in 1 .. Len(c.out) : IsTrue(c.out[k], c.room) /\ IsComplete(c.out[k], c.verb, c.before)

IInv ==
  /\ TypeOK
  /\ \A h \in Handlers : \A c \in Handler : c = command[h] => Knows(c) /\ Replies(c)

-----------------------------------------------------------------------------
(***************************************************************************)
(* Incidents only go on.                                                   *)
(***************************************************************************)
Goes(i) ==
  /\ incident[i].notices \subseteq incident'[i].notices
  /\ incident[i].isAcked => incident'[i].isAcked
  /\ incident[i].isResolved => incident'[i].isResolved

\* A notice is well-formed.
LEMMA NoticesType ==
  ASSUME NEW rooms \in SUBSET Rooms, NEW type \in {"Alert", "Escalation", "Resolution"}
  PROVE  Notices(rooms, type) \subseteq Notice
  BY DEF Notices, Notice

\* The resolution of an incident only adds to it.
LEMMA ResolvedGoes ==
  ASSUME TypeOK, NEW i \in Incidents, incident' = Resolved(i)
  PROVE  /\ incident' \in [Incidents -> Incident]
         /\ \A j \in Incidents : Goes(j)
         /\ incident'[i].isResolved
<1>1. Notices(AlertRooms[i], "Resolution") \subseteq Notice
  BY NoticesType, MatrixAssumption
<1> QED
  BY <1>1 DEF TypeOK, Resolved, Goes, Incident

\* A manual resolution only adds, and what it says it has done is so.
LEMMA ResolveManuallyGoes ==
  ASSUME TypeOK, NEW i \in Incidents, NEW room,
         incident' = ResolveManually(i, room).after
  PROVE  /\ incident' \in [Incidents -> Incident]
         /\ \A j \in Incidents : Goes(j)
         /\ ResolveManually(i, room).ok => incident'[i].isResolved
         /\ Told(i, room) => ResolveManually(i, room).ok
<1>1. CASE Told(i, room) /\ ~incident[i].isResolved
  BY <1>1, ResolvedGoes DEF ResolveManually
<1>2. CASE ~(Told(i, room) /\ ~incident[i].isResolved)
  BY <1>2 DEF ResolveManually, TypeOK, Goes
<1> QED
  BY <1>1, <1>2

\* An acknowledgement only adds, and is done if it says so.
LEMMA AcknowledgeGoes ==
  ASSUME TypeOK, NEW i \in Incidents, NEW room,
         incident' = Acknowledge(i, room).after
  PROVE  /\ incident' \in [Incidents -> Incident]
         /\ \A j \in Incidents : Goes(j)
         /\ Acknowledge(i, room).ok => incident'[i].isAcked /\ Told(i, room)
  BY DEF TypeOK, Acknowledge, Goes, Incident

\* What the chain and the clock do only adds.
LEMMA IncidentStepGoes ==
  ASSUME TypeOK, IncidentStep
  PROVE  /\ incident' \in [Incidents -> Incident]
         /\ \A j \in Incidents : Goes(j)
<1>1. PICK i \in Incidents : Raise(i) \/ Escalate(i) \/ ResolveByChain(i)
  BY DEF IncidentStep
<1>2. /\ Notices(AlertRooms[i], "Alert") \subseteq Notice
      /\ Notices(AlertRooms[i] \union {EscalationRoom}, "Escalation") \subseteq Notice
  BY NoticesType, MatrixAssumption
<1>3. CASE Raise(i)
  <2>1. incident' = [incident EXCEPT ![i].notices = Notices(AlertRooms[i], "Alert")] /\ incident[i].notices = {}
    BY <1>3, MatrixAssumption DEF Raise
  <2> QED
    BY <1>2, <2>1 DEF TypeOK, Goes, Incident
<1>4. CASE Escalate(i)
  BY <1>2, <1>4 DEF Escalate, TypeOK, Goes, Incident
<1>5. CASE ResolveByChain(i)
  BY <1>5, ResolvedGoes DEF ResolveByChain
<1> QED
  BY <1>1, <1>3, <1>4, <1>5

-----------------------------------------------------------------------------
(***************************************************************************)
(* What was true of incidents stays true.                                  *)
(***************************************************************************)
LEMMA ToldStays ==
  ASSUME \A j \in Incidents : Goes(j), NEW i \in Incidents, NEW room, Told(i, room)
  PROVE  Told(i, room)'
  BY DEF Goes, Told

LEMMA HappenedStays ==
  ASSUME \A j \in Incidents : Goes(j), NEW i \in Incidents, NEW what \in {"acked", "resolved", "escalated"},
         HasHappened(i, what)
  PROVE  HasHappened(i, what)'
  BY DEF Goes, HasHappened

\* A set of incidents is finite, and a part of it is no larger.
LEMMA PartIsSmaller ==
  ASSUME NEW S \in SUBSET Incidents, NEW T \in SUBSET S
  PROVE  /\ IsFiniteSet(S) /\ IsFiniteSet(T)
         /\ Cardinality(S) \in Nat /\ Cardinality(T) \in Nat /\ Cardinality(T) <= Cardinality(S)
         /\ Cardinality(S) = Cardinality(T) => S = T
<1>1. IsFiniteSet(S) /\ IsFiniteSet(T)
  BY MatrixAssumption, FS_Subset
<1> QED
  BY <1>1, FS_Subset, FS_CardinalityType

LEMMA TrueStays ==
  ASSUME \A j \in Incidents : Goes(j), NEW m \in Reply, NEW room, IsTrue(m, room)
  PROVE  IsTrue(m, room)'
<1>1. m.ids \in SUBSET Incidents /\ (m.kind = "debug" => m.says \in SUBSET {"acked", "resolved", "escalated"})
      /\ (m.kind = "allResolved" => m.resolved \in Nat)
  BY DEF Reply, Immediate
<1> DEFINE S == {i \in Incidents : Told(i, room) /\ incident[i].isResolved}
           T == {i \in Incidents : Told(i, room)' /\ incident'[i].isResolved}
<1>2. Cardinality(S) \in Nat /\ Cardinality(T) \in Nat /\ Cardinality(S) <= Cardinality(T)
  <2>1. S \in SUBSET T /\ T \in SUBSET Incidents
    BY ToldStays DEF Goes
  <2> HIDE DEF S, T
  <2> QED
    BY <2>1, PartIsSmaller
<1>3. m.kind = "allResolved" => m.resolved <= Cardinality(T)
  BY <1>1, <1>2 DEF IsTrue
<1>4. m.kind = "debug" => \A i \in m.ids : \A what \in m.says : HasHappened(i, what)'
  BY <1>1, HappenedStays DEF IsTrue
<1> QED
  BY <1>1, <1>3, <1>4, ToldStays DEF IsTrue, Goes

\* Less and less is left of what was before.
LEMMA LeftStays ==
  ASSUME \A j \in Incidents : Goes(j), NEW verb, NEW before \in SUBSET Incidents
  PROVE  Left(verb, before)' \subseteq Left(verb, before) /\ Left(verb, before) \subseteq Incidents
  BY DEF Left, Goes

LEMMA CompleteStays ==
  ASSUME \A j \in Incidents : Goes(j), NEW m \in Reply, NEW verb, NEW before \in SUBSET Incidents,
         IsComplete(m, verb, before)
  PROVE  IsComplete(m, verb, before)'
<1>1. /\ m.ids \in SUBSET Incidents
      /\ m.kind = "allResolved" => m.resolved \in Nat /\ m.failed \in Nat
      /\ m.kind = "list" => m.total \in Nat
      /\ m.kind # "alerts"
  BY DEF Reply, Immediate
<1>2. PICK S, T : S = Left(verb, before) /\ T = Left(verb, before)'
  OBVIOUS
<1>3. T \in SUBSET S /\ S \in SUBSET Incidents
  BY <1>2, LeftStays
<1>4. /\ Cardinality(T) \in Nat /\ Cardinality(S) \in Nat /\ Cardinality(T) <= Cardinality(S)
      /\ Cardinality(T \union m.ids) \in Nat /\ Cardinality(S \union m.ids) \in Nat
      /\ Cardinality(T \union m.ids) <= Cardinality(S \union m.ids)
  <2>1. (T \union m.ids) \in SUBSET (S \union m.ids) /\ (S \union m.ids) \in SUBSET Incidents
    BY <1>1, <1>3
  <2> QED
    BY <1>3, <2>1, PartIsSmaller
<1>5. verb = "resolveAll" /\ m.kind = "allResolved" /\ m.resolved + m.failed < MaxFound =>
        Cardinality(T) <= m.failed
  BY <1>1, <1>2, <1>4 DEF IsComplete
<1>6. verb \in {"unresolved", "unacked"} /\ m.kind = "list" /\ m.total < MaxFound =>
        Cardinality(T \union m.ids) <= m.total
  BY <1>1, <1>2, <1>4 DEF IsComplete
<1> QED
  BY <1>1, <1>2, <1>5, <1>6 DEF IsComplete

\* What is left alone is as it was.
LEMMA TrueOfSame ==
  ASSUME UNCHANGED incident, NEW m, NEW room
  PROVE  IsTrue(m, room)' = IsTrue(m, room)
  BY DEF IsTrue, Told, HasHappened

LEMMA CompleteOfSame ==
  ASSUME UNCHANGED incident, NEW m, NEW verb, NEW before
  PROVE  IsComplete(m, verb, before)' = IsComplete(m, verb, before)
  BY DEF IsComplete, Left

LEMMA KnowsStays ==
  ASSUME \A j \in Incidents : Goes(j), NEW c \in Handler, Knows(c)
  PROVE  Knows(c)'
<1>1. \A i \in Incidents : Told(i, c.room) => Told(i, c.room)'
  BY ToldStays
<1> QED
  BY <1>1 DEF Knows, Handler, Goes, Addressed

LEMMA RepliesStay ==
  ASSUME \A j \in Incidents : Goes(j), NEW c \in Handler, Knows(c), Replies(c)
  PROVE  Replies(c)'
<1> SUFFICES ASSUME c.pc = "sending", NEW k \in 1 .. Len(c.out)
             PROVE  (IsTrue(c.out[k], c.room) /\ IsComplete(c.out[k], c.verb, c.before))'
  BY DEF Replies
<1>1. c.out[k] \in Reply /\ c.before \in SUBSET Incidents
  BY DEF Handler
<1>2. IsTrue(c.out[k], c.room) /\ IsComplete(c.out[k], c.verb, c.before)
  BY DEF Replies
<1> QED
  BY <1>1, <1>2, TrueStays, CompleteStays

-----------------------------------------------------------------------------
(***************************************************************************)
(* A step of one handler, or of none.                                      *)
(***************************************************************************)
LEMMA HandlerGoes ==
  ASSUME IInv, incident' \in [Incidents -> Incident], \A j \in Incidents : Goes(j),
         NEW h \in Handlers, NEW c \in Handler, command' = [command EXCEPT ![h] = c],
         Knows(c)', Replies(c)'
  PROVE  IInv'
<1>1. command \in [Handlers -> Handler]
  BY DEF IInv, TypeOK
<1>2. TypeOK'
  BY <1>1 DEF TypeOK
<1>3. ASSUME NEW g \in Handlers, NEW e \in Handler, e = command'[g]
      PROVE  Knows(e)' /\ Replies(e)'
  <2>1. CASE g = h
    BY <1>1, <1>3, <2>1
  <2>2. CASE g # h
    <3>1. Knows(e) /\ Replies(e)
      BY <1>1, <1>3, <2>2 DEF IInv
    <3> QED
      BY <3>1, KnowsStays, RepliesStay
  <2> QED
    BY <2>1, <2>2
<1> QED
  BY <1>2, <1>3 DEF IInv

LEMMA NobodyGoes ==
  ASSUME IInv, incident' \in [Incidents -> Incident], \A j \in Incidents : Goes(j),
         UNCHANGED command
  PROVE  IInv'
<1>1. TypeOK'
  BY DEF IInv, TypeOK
<1>2. ASSUME NEW g \in Handlers, NEW e \in Handler, e = command'[g]
      PROVE  Knows(e)' /\ Replies(e)'
  <2>1. Knows(e) /\ Replies(e)
    BY <1>2 DEF IInv
  <2> QED
    BY <2>1, KnowsStays, RepliesStay
<1> QED
  BY <1>1, <1>2 DEF IInv

\* The process ends, and its handlers with it.
LEMMA DiesGoes ==
  ASSUME IInv, UNCHANGED incident, Dies
  PROVE  IInv'
<1>1. Idle \in Handler
  BY DEF Idle, Handler
<1>2. \A h \in Handlers : command'[h].pc = "idle"
  BY DEF Dies, Idle
<1> QED
  BY <1>1, <1>2 DEF IInv, TypeOK, Dies, Knows, Replies

\* An answer that is true and complete when it is made.
LEMMA AnswerGoes ==
  ASSUME IInv, incident' \in [Incidents -> Incident], \A j \in Incidents : Goes(j),
         NEW h \in Handlers, command[h].pc # "idle",
         NEW out \in Seq(Reply), out # <<>>, Answer(h, out),
         NEW room, room = command[h].room, NEW verb, verb = command[h].verb,
         NEW before, before = command[h].before,
         \A k \in 1 .. Len(out) : IsTrue(out[k], room)' /\ IsComplete(out[k], verb, before)'
  PROVE  IInv'
<1>1. PICK d \in Handler : d = command[h]
  BY DEF IInv, TypeOK
<1>2. Knows(d)'
  BY <1>1, KnowsStays DEF IInv
<1>3. PICK c \in Handler : c = [d EXCEPT !.pc = "sending", !.out = out, !.inTry = out # <<Apology>>]
  BY <1>1 DEF Handler
<1>4. /\ c.pc = "sending" /\ c.out = out /\ c.room = room /\ c.verb = verb /\ c.before = before
      /\ c.room = d.room /\ c.verb = d.verb /\ c.before = d.before
  BY <1>1, <1>3 DEF Handler
<1>5. Knows(c)'
  BY <1>1, <1>2, <1>4 DEF Knows
<1>6. Replies(c)'
  BY <1>4 DEF Replies
<1>7. command' = [command EXCEPT ![h] = c]
  BY <1>1, <1>3 DEF Answer
<1> QED
  BY <1>5, <1>6, <1>7, HandlerGoes

\* An apology, and any other answer that tells nothing, is one.
LEMMA TextGoes ==
  ASSUME NEW kind \in Immediate \union {"error"}
  PROVE  /\ Text(kind) \in Reply
         /\ \A room : IsTrue(Text(kind), room)
         /\ \A verb, before : IsComplete(Text(kind), verb, before)
  BY DEF Text, Reply, Immediate, IsTrue, IsComplete

LEMMA ApologyGoes ==
  ASSUME IInv, incident' \in [Incidents -> Incident], \A j \in Incidents : Goes(j),
         NEW h \in Handlers, command[h].pc # "idle", Answer(h, <<Apology>>)
  PROVE  IInv'
<1>1. Apology \in Reply
  BY TextGoes DEF Apology
<1>2. PICK out : out = <<Apology>>
  OBVIOUS
<1>3. out \in Seq(Reply) /\ out # <<>> /\ Len(out) = 1 /\ out[1] = Apology
  BY <1>1, <1>2
<1>4. \A k \in 1 .. Len(out) : out[k].kind = "error"
  BY <1>3 DEF Apology, Text
<1>5. PICK room, verb, before :
        room = command[h].room /\ verb = command[h].verb /\ before = command[h].before
  OBVIOUS
<1>6. \A k \in 1 .. Len(out) : IsTrue(out[k], room)' /\ IsComplete(out[k], verb, before)'
  BY <1>4 DEF IsTrue, IsComplete
<1>7. Answer(h, out)
  BY <1>2
<1> QED
  BY <1>3, <1>5, <1>6, <1>7, AnswerGoes

-----------------------------------------------------------------------------
(***************************************************************************)
(* The steps of a handler.                                                 *)
(***************************************************************************)
\* Nothing that is left alone goes back.
LEMMA StillGoes ==
  ASSUME IInv, UNCHANGED incident
  PROVE  incident' \in [Incidents -> Incident] /\ \A j \in Incidents : Goes(j)
  BY DEF IInv, TypeOK, Goes

\* What a handler is, and what it finds of the incidents.
LEMMA HandlerIs ==
  ASSUME IInv, NEW h \in Handlers
  PROVE  \E d \in Handler : d = command[h] /\ Knows(d) /\ Replies(d)
  BY DEF IInv, TypeOK

LEMMA ReceiveGoes ==
  ASSUME IInv, NEW h \in Handlers, Receive(h)
  PROVE  IInv'
<1>1. UNCHANGED incident
  BY DEF Receive
<1>2. CASE Dies
  BY <1>1, <1>2, DiesGoes
<1>3. CASE ~Dies
  <2>1. PICK r \in Commands[h] :
          /\ r.verb # None
          /\ command' = [command EXCEPT ![h] =
               [Idle EXCEPT !.pc = IF r.verb \in Immediate THEN "sending" ELSE "calling",
                            !.verb = r.verb, !.room = r.room, !.id = r.id,
                            !.out = IF r.verb \in Immediate THEN <<Text(r.verb)>> ELSE <<>>,
                            !.inTry = r.verb \notin Immediate \/ r.verb \in {"queryUsage", "badFilter"},
                            !.before = ToBeSaid(r.verb, r.room)]]
    BY <1>3 DEF Receive
  <2>2. /\ r.verb \in Verb /\ r.room \in Rooms /\ r.id \in Incidents \union {None}
        /\ r.verb \in Addressed => r.id \in Incidents
    BY <2>1, MatrixAssumption
  <2>3. PICK before \in SUBSET Incidents : before = ToBeSaid(r.verb, r.room)
    BY DEF ToBeSaid
  <2>4. PICK out \in Seq(Reply) :
          out = IF r.verb \in Immediate THEN <<Text(r.verb)>> ELSE <<>>
    <3>1. r.verb \in Immediate => Text(r.verb) \in Reply
      BY TextGoes
    <3>2. (r.verb \in Immediate => <<Text(r.verb)>> \in Seq(Reply)) /\ <<>> \in Seq(Reply)
      BY <3>1
    <3> QED
      BY <3>2
  <2>5. PICK c : c = [Idle EXCEPT !.pc = IF r.verb \in Immediate THEN "sending" ELSE "calling",
                            !.verb = r.verb, !.room = r.room, !.id = r.id, !.out = out,
                            !.inTry = r.verb \notin Immediate \/ r.verb \in {"queryUsage", "badFilter"},
                            !.before = before]
    OBVIOUS
  <2>6. /\ c \in Handler
        /\ c.pc = IF r.verb \in Immediate THEN "sending" ELSE "calling"
        /\ c.verb = r.verb /\ c.room = r.room /\ c.id = r.id /\ c.out = out /\ c.before = before
        /\ c.done = {} /\ c.failed = {}
    BY <2>2, <2>5 DEF Idle, Handler
  <2>7. command' = [command EXCEPT ![h] = c]
    BY <2>1, <2>3, <2>4, <2>5
  <2>8. \A i \in before : Told(i, r.room) /\ (r.verb = "unacked" => i \in NeedsAck)
    BY <2>3 DEF ToBeSaid, IsUnacked
  <2>9. Knows(c)'
    BY <1>1, <2>2, <2>4, <2>6, <2>8 DEF Knows, Told
  <2>10. Replies(c)'
    <3> SUFFICES ASSUME r.verb \in Immediate
                 PROVE  \A k \in 1 .. Len(out) :
                          IsTrue(out[k], c.room)' /\ IsComplete(out[k], c.verb, c.before)'
      BY <2>6 DEF Replies
    <3>1. Len(out) = 1 /\ out[1].kind = r.verb
      BY <2>4 DEF Text
    <3> QED
      BY <3>1 DEF IsTrue, IsComplete, Immediate
  <2> QED
    BY <1>1, <2>6, <2>7, <2>9, <2>10, StillGoes, HandlerGoes
<1> QED
  BY <1>2, <1>3

LEMMA ShowGoes ==
  ASSUME IInv, NEW h \in Handlers, Show(h)
  PROVE  IInv'
<1>1. PICK d \in Handler : d = command[h] /\ Knows(d) /\ Replies(d)
  BY HandlerIs
<1>2. d.pc = "calling" /\ d.verb \in {"show", "debug"} /\ d.id \in Incidents
  BY <1>1 DEF Show, AtCall, Knows, Addressed
<1>3. UNCHANGED incident
  BY DEF Show, KeepsIncidents
<1>4. PICK texts : texts =
        {n \in incident[d.id].notices : n.room = d.room /\ n.type = "Alert"}
          \union IF incident[d.id].isResolved /\ d.verb = "show"
                 THEN {n \in incident[d.id].notices : n.room = d.room /\ n.type = "Resolution"}
                 ELSE {}
  OBVIOUS
<1>5. /\ texts \in SUBSET Notice
      /\ \A n \in texts :
           /\ n \in incident[d.id].notices /\ n.room = d.room
           /\ n.type = "Resolution" => incident[d.id].isResolved
  BY <1>2, <1>4 DEF IInv, TypeOK, Incident
<1>6. PICK m : m = [kind |-> "show", ids |-> {d.id}, texts |-> texts]
  OBVIOUS
<1>7. m \in Reply /\ m.kind = "show" /\ m.ids = {d.id} /\ m.texts = texts
  BY <1>2, <1>5, <1>6 DEF Reply
<1>10. PICK info : info = DebugInfo(d.id)
  OBVIOUS
<1>11. /\ info \in Reply /\ info.kind = "debug" /\ info.ids = {d.id}
       /\ \A what \in info.says : HasHappened(d.id, what)
  BY <1>2, <1>10 DEF DebugInfo, Reply
<1>8. CASE Answer(h, <<Apology>>)
  BY <1>1, <1>2, <1>3, <1>8, ApologyGoes, StillGoes
<1>9. CASE ~Answer(h, <<Apology>>)
  <2>1. PICK out : out = <<m>> \o (IF d.verb = "debug" THEN <<info>> ELSE <<>>)
    OBVIOUS
  <2>2. Answer(h, out)
    BY <1>1, <1>4, <1>6, <1>9, <1>10, <2>1 DEF Show
  <2>3. /\ out \in Seq(Reply) /\ out # <<>>
        /\ \A k \in 1 .. Len(out) : out[k] = m \/ out[k] = info
    BY <1>7, <1>11, <2>1
  <2>4. \A k \in 1 .. Len(out) :
          IsTrue(out[k], d.room)' /\ IsComplete(out[k], d.verb, d.before)'
    <3>1. IsTrue(m, d.room)' /\ IsComplete(m, d.verb, d.before)'
      <4>1. IsTrue(m, d.room)'
        BY <1>3, <1>5, <1>7 DEF IsTrue
      <4>2. IsComplete(m, d.verb, d.before)'
        BY <1>7 DEF IsComplete
      <4> QED
        BY <4>1, <4>2
    <3>2. IsTrue(info, d.room)' /\ IsComplete(info, d.verb, d.before)'
      <4>1. IsTrue(info, d.room)'
        BY <1>3, <1>11 DEF IsTrue, HasHappened
      <4>2. IsComplete(info, d.verb, d.before)'
        BY <1>11 DEF IsComplete
      <4> QED
        BY <4>1, <4>2
    <3> QED
      BY <2>3, <3>1, <3>2
  <2>5. PICK room, verb, before : room = d.room /\ verb = d.verb /\ before = d.before
    OBVIOUS
  <2> QED
    BY <1>1, <1>2, <1>3, <2>2, <2>3, <2>4, <2>5, StillGoes, AnswerGoes
<1> QED
  BY <1>8, <1>9

\* One message that is true and complete.
LEMMA OneAnswerGoes ==
  ASSUME IInv, incident' \in [Incidents -> Incident], \A j \in Incidents : Goes(j),
         NEW h \in Handlers, NEW d \in Handler, d = command[h], d.pc # "idle",
         NEW m \in Reply, Answer(h, <<m>>),
         IsTrue(m, d.room)', IsComplete(m, d.verb, d.before)'
  PROVE  IInv'
<1>1. PICK out \in Seq(Reply) : out = <<m>>
  <2>1. <<m>> \in Seq(Reply)
    OBVIOUS
  <2> QED
    BY <2>1
<1>2. out # <<>> /\ \A k \in 1 .. Len(out) : out[k] = m
  BY <1>1
<1>3. PICK room, verb, before : room = d.room /\ verb = d.verb /\ before = d.before
  OBVIOUS
<1>4. IsTrue(m, room)' /\ IsComplete(m, verb, before)'
  BY <1>3
<1>5. \A k \in 1 .. Len(out) : IsTrue(out[k], room)' /\ IsComplete(out[k], verb, before)'
  BY <1>2, <1>4
<1>6. Answer(h, out) /\ command[h].pc # "idle"
  BY <1>1
<1> QED
  BY <1>2, <1>3, <1>5, <1>6, AnswerGoes

\* A set of numbers has a first.
LEMMA HasFirst ==
  ASSUME NEW S \in SUBSET Nat, S # {}
  PROVE  \E n \in S : \A m \in S : n <= m
<1>1. PICK n \in S : \A m \in S : <<m, n>> \notin OpToRel(<, Nat)
  BY NatLessThanWellFounded, WFMin
<1>2. \A m \in S : ~(m < n)
  BY <1>1 DEF OpToRel
<1> QED
  BY <1>2

\* Fewer than n are the n newest only if they are all there are: if one is left out, so
\* is one of which all newer ones are in, and those are n at least.
LEMMA NewestOfFew ==
  ASSUME NEW found \in SUBSET Incidents, NEW n \in Nat, Cardinality(Newest(found, n)) < n
  PROVE  Newest(found, n) = found
<1> DEFINE in == Newest(found, n)
           out == found \ in
           count == {Cardinality(Newer(found, i)) : i \in out}
<1> SUFFICES ASSUME out # {} PROVE FALSE
  BY DEF Newest
<1>1. found \in SUBSET Nat
  BY MatrixAssumption
<1>2. ASSUME NEW i \in found PROVE Cardinality(Newer(found, i)) \in Nat
  <2>1. Newer(found, i) \in SUBSET Incidents
    BY DEF Newer
  <2> QED
    BY <2>1, PartIsSmaller
<1>3. count \in SUBSET Nat /\ count # {}
  BY <1>2
<1>4. PICK i \in out : \A j \in out : Cardinality(Newer(found, i)) <= Cardinality(Newer(found, j))
  <2> HIDE DEF in, out
  <2>1. PICK n0 \in count : \A m \in count : n0 <= m
    <3> HIDE DEF count
    <3> QED
      BY <1>3, HasFirst
  <2> QED
    BY <2>1
<1>5. ~(Cardinality(Newer(found, i)) < n)
  BY <1>4 DEF Newest
<1>6. ASSUME NEW j \in Newer(found, i) PROVE j \in in
  <2>1. /\ Newer(found, j) \in SUBSET Newer(found, i) /\ Newer(found, i) \in SUBSET Incidents
        /\ j \notin Newer(found, j) /\ j \in found
    <3>1. i \in Nat /\ j \in found /\ j \in Nat /\ j > i
      BY <1>1, <1>4, <1>6 DEF Newer
    <3>2. \A k \in found : k > j => k > i
      BY <1>1, <3>1
    <3>3. ~(j > j)
      BY <3>1
    <3>4. Newer(found, j) \in SUBSET Newer(found, i)
      BY <3>2 DEF Newer
    <3>5. Newer(found, i) \in SUBSET Incidents
      BY DEF Newer
    <3>6. j \notin Newer(found, j)
      BY <3>3 DEF Newer
    <3> QED
      BY <3>1, <3>4, <3>5, <3>6
  <2>2. Newer(found, j) # Newer(found, i)
    BY <1>6, <2>1
  <2>3. ~(Cardinality(Newer(found, i)) <= Cardinality(Newer(found, j)))
    BY <2>1, <2>2, PartIsSmaller
  <2> QED
    BY <1>4, <2>1, <2>3
<1>7. Newer(found, i) \in SUBSET in /\ in \in SUBSET Incidents
  BY <1>6 DEF Newest
<1>8. /\ Cardinality(in) \in Nat /\ Cardinality(Newer(found, i)) \in Nat
      /\ Cardinality(Newer(found, i)) <= Cardinality(in)
  <2> HIDE DEF in
  <2> QED
    BY <1>7, PartIsSmaller
<1> QED
  BY <1>5, <1>8

\* What a query finds, and that it finds all if it is not full.
LEMMA FindIs ==
  ASSUME NEW verb, NEW room, NEW found, found = FindIncidents(verb, room)
  PROVE  /\ found \in SUBSET Incidents
         /\ \A i \in found : Told(i, room)
         /\ Cardinality(found) < MaxFound => \A i \in Incidents : Matches(i, verb, room) => i \in found
<1>1. PICK all : all = {i \in Incidents : Matches(i, verb, room)}
  OBVIOUS
<1>2. found = Newest(all, MaxFound) /\ MaxFound \in Nat /\ all \in SUBSET Incidents
  BY <1>1, MatrixAssumption DEF FindIncidents
<1>3. found \in SUBSET all
  BY <1>2 DEF Newest
<1>4. Cardinality(found) < MaxFound => found = all
  BY <1>2, NewestOfFew
<1> QED
  BY <1>1, <1>3, <1>4 DEF Matches

\* What is found is in the list or counted in its total.
LEMMA ListGoes ==
  ASSUME IInv, NEW h \in Handlers, List(h)
  PROVE  IInv'
<1>1. PICK d \in Handler : d = command[h] /\ Knows(d) /\ Replies(d)
  BY HandlerIs
<1>2. d.pc = "calling" /\ d.verb \in {"unresolved", "unacked", "query"}
  BY <1>1 DEF List, AtCall
<1>3. UNCHANGED incident
  BY DEF List, KeepsIncidents
<1>4. PICK found : found = FindIncidents(d.verb, d.room)
  OBVIOUS
<1>5. /\ found \in SUBSET Incidents /\ \A i \in found : Told(i, d.room)
      /\ Cardinality(found) < MaxFound => \A i \in Incidents : Matches(i, d.verb, d.room) => i \in found
  BY <1>4, FindIs
<1>6. PICK m : m = Listed(found)
  OBVIOUS
<1>7. PICK ids \in SUBSET found : ids = Newest(found, MaxListed)
  BY DEF Newest
<1>8. Answer(h, <<m>>)
  BY <1>1, <1>4, <1>6 DEF List
<1>9. Cardinality(found) \in Nat
  BY <1>5, PartIsSmaller
<1>10. m \in Reply /\ m.kind = "list" /\ m.ids = ids /\ m.total = Cardinality(found)
  BY <1>5, <1>6, <1>7, <1>9 DEF Reply, Listed
<1>11. IsTrue(m, d.room)'
  BY <1>3, <1>5, <1>10 DEF IsTrue, Told
<1>12. IsComplete(m, d.verb, d.before)'
  <2> SUFFICES ASSUME d.verb \in {"unresolved", "unacked"}, m.total < MaxFound
               PROVE  Cardinality(Left(d.verb, d.before) \union m.ids)' <= m.total
    BY <1>10 DEF IsComplete
  <2>1. PICK left : left = Left(d.verb, d.before)'
    OBVIOUS
  <2>2. ASSUME NEW i \in left PROVE i \in found
    <3>1. i \in d.before /\ i \in Incidents /\ Told(i, d.room)
      BY <1>1, <1>2, <2>1, <2>2 DEF Left, Knows, Handler
    <3>2. Matches(i, d.verb, d.room)
      BY <1>1, <1>2, <1>3, <2>1, <2>2, <3>1 DEF Left, Knows, Matches, IsFiring, IsUnacked, Told
    <3> QED
      BY <1>5, <1>10, <3>1, <3>2
  <2>3. (left \union ids) \in SUBSET found
    BY <1>7, <2>2
  <2>4. Cardinality(left \union ids) <= Cardinality(found)
    BY <1>5, <2>3, PartIsSmaller
  <2> QED
    BY <1>10, <2>1, <2>4
<1> QED
  BY <1>1, <1>2, <1>3, <1>8, <1>10, <1>11, <1>12, StillGoes, OneAnswerGoes

LEMMA AckGoes ==
  ASSUME IInv, NEW h \in Handlers, Ack(h)
  PROVE  IInv'
<1>1. PICK d \in Handler : d = command[h] /\ Knows(d) /\ Replies(d)
  BY HandlerIs
<1>2. d.pc = "calling" /\ d.verb = "ack" /\ d.id \in Incidents
  BY <1>1 DEF Ack, AtCall, Knows, Addressed
<1>3. incident' = Acknowledge(d.id, d.room).after
  BY <1>1 DEF Ack
<1>4. /\ incident' \in [Incidents -> Incident] /\ \A j \in Incidents : Goes(j)
      /\ Acknowledge(d.id, d.room).ok => incident'[d.id].isAcked /\ Told(d.id, d.room)
  BY <1>2, <1>3, AcknowledgeGoes DEF IInv
<1>5. CASE Acknowledge(d.id, d.room).ok
  <2>1. PICK c \in Handler : c = [d EXCEPT !.pc = "remaining"]
    BY DEF Handler
  <2>2. command' = [command EXCEPT ![h] = c]
    BY <1>1, <1>5, <2>1 DEF Ack
  <2>3. c.pc = "remaining" /\ c.id = d.id /\ c.room = d.room /\ c.verb = "ack" /\ c.before = d.before
    BY <1>2, <2>1 DEF Handler
  <2>4. Knows(d)' /\ Told(d.id, d.room)'
    BY <1>1, <1>2, <1>4, <1>5, KnowsStays, ToldStays
  <2>5. Knows(c)' /\ Replies(c)'
    BY <1>2, <1>4, <1>5, <2>3, <2>4 DEF Knows, Replies
  <2> QED
    BY <1>4, <2>2, <2>5, HandlerGoes
<1>6. CASE ~Acknowledge(d.id, d.room).ok
  <2>1. Answer(h, <<Apology>>)
    BY <1>1, <1>6 DEF Ack
  <2> QED
    BY <1>1, <1>2, <1>4, <2>1, ApologyGoes
<1> QED
  BY <1>5, <1>6

LEMMA RemainingGoes ==
  ASSUME IInv, NEW h \in Handlers, Remaining(h)
  PROVE  IInv'
<1>1. PICK d \in Handler : d = command[h] /\ Knows(d) /\ Replies(d)
  BY HandlerIs
<1>2. /\ d.pc = "remaining" /\ d.verb = "ack" /\ d.id \in Incidents
      /\ incident[d.id].isAcked /\ Told(d.id, d.room)
  BY <1>1 DEF Remaining, Knows, Addressed
<1>3. UNCHANGED incident
  BY DEF Remaining
<1>4. PICK left \in SUBSET Incidents :
        Answer(h, <<[kind |-> "acked", ids |-> {d.id}, left |-> Cardinality(left)]>>)
  BY <1>1, FindIs DEF Remaining
<1>5. PICK m : m = [kind |-> "acked", ids |-> {d.id}, left |-> Cardinality(left)]
  OBVIOUS
<1>6. Cardinality(left) \in Nat
  BY PartIsSmaller
<1>7. m \in Reply /\ m.kind = "acked" /\ m.ids = {d.id}
  BY <1>2, <1>5, <1>6 DEF Reply
<1>8. IsTrue(m, d.room)' /\ IsComplete(m, d.verb, d.before)'
  BY <1>2, <1>3, <1>7 DEF IsTrue, IsComplete, Told
<1> QED
  BY <1>1, <1>2, <1>3, <1>4, <1>5, <1>7, <1>8, StillGoes, OneAnswerGoes

LEMMA ResolveGoes ==
  ASSUME IInv, NEW h \in Handlers, Resolve(h)
  PROVE  IInv'
<1>1. PICK d \in Handler : d = command[h] /\ Knows(d) /\ Replies(d)
  BY HandlerIs
<1>2. d.pc = "calling" /\ d.verb = "resolve" /\ d.id \in Incidents
  BY <1>1 DEF Resolve, AtCall, Knows, Addressed
<1>3. incident' = ResolveManually(d.id, d.room).after
  BY <1>1 DEF Resolve
<1>4. /\ incident' \in [Incidents -> Incident] /\ \A j \in Incidents : Goes(j)
      /\ ResolveManually(d.id, d.room).ok => incident'[d.id].isResolved
  BY <1>2, <1>3, ResolveManuallyGoes DEF IInv
<1>5. CASE ResolveManually(d.id, d.room).ok
  <2>1. PICK m : m = [kind |-> "resolved", ids |-> {d.id}]
    OBVIOUS
  <2>2. m \in Reply /\ m.kind = "resolved" /\ m.ids = {d.id}
    BY <1>2, <2>1 DEF Reply
  <2>3. Answer(h, <<m>>)
    BY <1>1, <1>5, <2>1 DEF Resolve
  <2>4. IsTrue(m, d.room)' /\ IsComplete(m, d.verb, d.before)'
    BY <1>4, <1>5, <2>2 DEF IsTrue, IsComplete
  <2> QED
    BY <1>1, <1>2, <1>4, <2>2, <2>3, <2>4, OneAnswerGoes
<1>6. CASE ~ResolveManually(d.id, d.room).ok
  <2>1. Answer(h, <<Apology>>)
    BY <1>1, <1>6 DEF Resolve
  <2> QED
    BY <1>1, <1>2, <1>4, <2>1, ApologyGoes
<1> QED
  BY <1>5, <1>6

LEMMA ResolveAllGoes ==
  ASSUME IInv, NEW h \in Handlers, ResolveAll(h)
  PROVE  IInv'
<1>1. PICK d \in Handler : d = command[h] /\ Knows(d) /\ Replies(d)
  BY HandlerIs
<1>2. d.pc = "calling" /\ d.verb = "resolveAll"
  BY <1>1 DEF ResolveAll, AtCall
<1>3. UNCHANGED incident
  BY DEF ResolveAll, KeepsIncidents
<1>4. PICK found \in SUBSET Incidents : found = FindIncidents("resolveAll", d.room)
  BY FindIs
<1>5. Cardinality(found) < MaxFound => \A i \in d.before : i \in found \/ incident[i].isResolved
  <2> SUFFICES ASSUME Cardinality(found) < MaxFound, NEW i \in d.before, ~incident[i].isResolved
               PROVE  i \in found
    OBVIOUS
  <2>1. i \in Incidents /\ Told(i, d.room)
    BY <1>1, <1>2 DEF Knows, Handler
  <2>2. Matches(i, "resolveAll", d.room)
    BY <2>1 DEF Matches, IsFiring, Told
  <2> QED
    BY <1>4, <2>1, <2>2, FindIs
<1>6. CASE found = {}
  <2>1. PICK m : m = [kind |-> "allResolved", ids |-> {}, resolved |-> 0, failed |-> 0]
    OBVIOUS
  <2>2. m \in Reply /\ m.kind = "allResolved" /\ m.resolved = 0 /\ m.failed = 0
    BY <2>1 DEF Reply
  <2>3. Answer(h, <<m>>)
    BY <1>1, <1>4, <1>6, <2>1 DEF ResolveAll
  <2>4. IsTrue(m, d.room)'
    <3>1. PICK S \in SUBSET Incidents : S = {i \in Incidents : Told(i, d.room) /\ incident[i].isResolved}'
      OBVIOUS
    <3>2. 0 <= Cardinality(S)
      BY PartIsSmaller
    <3> QED
      BY <2>2, <3>1, <3>2 DEF IsTrue
  <2>5. IsComplete(m, d.verb, d.before)'
    <3> SUFFICES ASSUME 0 < MaxFound PROVE Cardinality(Left(d.verb, d.before))' <= 0
      BY <2>2 DEF IsComplete
    <3>1. Cardinality({}) = 0
      BY FS_EmptySet
    <3>2. Left(d.verb, d.before)' = {}
      BY <1>2, <1>3, <1>5, <1>6, <3>1 DEF Left
    <3> QED
      BY <3>1, <3>2
  <2> QED
    BY <1>1, <1>2, <1>3, <2>5, <2>2, <2>3, <2>4, StillGoes, OneAnswerGoes
<1>7. CASE found # {}
  <2>1. PICK c : c = [d EXCEPT !.pc = "resolving", !.todo = found]
    OBVIOUS
  <2>2. /\ c \in Handler /\ c.pc = "resolving" /\ c.todo = found
        /\ c.verb = d.verb /\ c.room = d.room /\ c.before = d.before
        /\ c.done = d.done /\ c.failed = d.failed
    BY <2>1 DEF Handler
  <2>3. command' = [command EXCEPT ![h] = c]
    BY <1>1, <1>4, <1>7, <2>1 DEF ResolveAll
  <2>4. \A i \in found : Told(i, d.room)
    BY <1>4, FindIs
  <2>5. d.done = {} /\ d.failed = {}
    BY <1>1, <1>2 DEF Knows
  <2>6. c.todo \union c.done \union c.failed = found
    BY <2>2, <2>5
  <2>7. Knows(c)' /\ Replies(c)'
    BY <1>1, <1>2, <1>3, <1>5, <2>2, <2>4, <2>5, <2>6 DEF Knows, Replies, Told
  <2> QED
    BY <1>3, <2>2, <2>3, <2>7, StillGoes, HandlerGoes
<1> QED
  BY <1>6, <1>7

\* A call of `!resolve ALL` is over, one way or the other.
LEMMA OneLess ==
  ASSUME IInv, incident' \in [Incidents -> Incident], \A j \in Incidents : Goes(j),
         NEW h \in Handlers, command[h].pc = "resolving",
         NEW i \in command[h].todo, NEW ok \in BOOLEAN, ok => incident'[i].isResolved,
         command' = [command EXCEPT ![h].todo = @ \ {i},
                                    ![h].done = IF ok THEN @ \union {i} ELSE @,
                                    ![h].failed = IF ok THEN @ ELSE @ \union {i}]
  PROVE  IInv'
<1>1. PICK d \in Handler : d = command[h] /\ Knows(d) /\ Replies(d)
  BY HandlerIs
<1>2. PICK c : c = [d EXCEPT !.todo = @ \ {i},
                             !.done = IF ok THEN @ \union {i} ELSE @,
                             !.failed = IF ok THEN @ ELSE @ \union {i}]
  OBVIOUS
<1>3. /\ c.pc = "resolving" /\ c.verb = d.verb /\ c.room = d.room /\ c.before = d.before /\ c.id = d.id
      /\ c.todo = d.todo \ {i}
      /\ c.done = IF ok THEN d.done \union {i} ELSE d.done
      /\ c.failed = IF ok THEN d.failed ELSE d.failed \union {i}
  BY <1>1, <1>2 DEF Handler
<1>4. c \in Handler
  BY <1>1, <1>2 DEF Handler
<1>5. command' = [command EXCEPT ![h] = c]
  BY <1>1, <1>2 DEF IInv, TypeOK
<1>6. Knows(d)'
  BY <1>1, KnowsStays
<1>7. c.todo \union c.done \union c.failed = d.todo \union d.done \union d.failed
  BY <1>1, <1>3
<1>8. Knows(c)' /\ Replies(c)'
  BY <1>1, <1>3, <1>6, <1>7 DEF Knows, Replies
<1> QED
  BY <1>4, <1>5, <1>8, HandlerGoes

LEMMA ResolveNextGoes ==
  ASSUME IInv, NEW h \in Handlers, ResolveNext(h)
  PROVE  IInv'
<1>1. PICK d \in Handler : d = command[h] /\ Knows(d) /\ Replies(d)
  BY HandlerIs
<1>2. d.pc = "resolving"
  BY <1>1 DEF ResolveNext
<1>3. PICK i \in d.todo :
        LET result == ResolveManually(i, d.room)
        IN /\ incident' = result.after
           /\ command' = [command EXCEPT ![h].todo = @ \ {i},
                                         ![h].done = IF result.ok THEN @ \union {i} ELSE @,
                                         ![h].failed = IF result.ok THEN @ ELSE @ \union {i}]
  BY <1>1 DEF ResolveNext, Newest
<1>4. i \in Incidents /\ i \in command[h].todo
  BY <1>1 DEF Handler
<1>5. /\ incident' \in [Incidents -> Incident] /\ \A j \in Incidents : Goes(j)
      /\ ResolveManually(i, d.room).ok => incident'[i].isResolved
  BY <1>3, <1>4, ResolveManuallyGoes DEF IInv
<1>6. PICK ok \in BOOLEAN : ok = ResolveManually(i, d.room).ok
  BY <1>4 DEF ResolveManually, IInv, TypeOK, Incident, Told
<1> QED
  BY <1>1, <1>2, <1>3, <1>4, <1>5, <1>6, OneLess

LEMMA ResolvedAllGoes ==
  ASSUME IInv, NEW h \in Handlers, ResolvedAll(h)
  PROVE  IInv'
<1>1. PICK d \in Handler : d = command[h] /\ Knows(d) /\ Replies(d)
  BY HandlerIs
<1>2. d.pc = "resolving" /\ d.todo = {} /\ UNCHANGED incident
  BY <1>1 DEF ResolvedAll, KeepsIncidents
<1>3. PICK m : m = [kind |-> "allResolved", ids |-> {}, resolved |-> Cardinality(d.done),
                    failed |-> Cardinality(d.failed)]
  OBVIOUS
<1>4. /\ d.done \in SUBSET Incidents /\ d.failed \in SUBSET Incidents
      /\ IsFiniteSet(d.done) /\ IsFiniteSet(d.failed)
      /\ Cardinality(d.done) \in Nat /\ Cardinality(d.failed) \in Nat
  <2>1. d.done \in SUBSET Incidents /\ d.failed \in SUBSET Incidents
    BY DEF Handler
  <2> QED
    BY <2>1, PartIsSmaller
<1>5. /\ m \in Reply /\ m.kind = "allResolved" /\ m.resolved = Cardinality(d.done)
      /\ m.failed = Cardinality(d.failed)
  BY <1>3, <1>4 DEF Reply
<1>6. Answer(h, <<m>>)
  BY <1>1, <1>3 DEF ResolvedAll
<1>7. IsTrue(m, d.room)'
  <2>1. PICK S \in SUBSET Incidents : S = {i \in Incidents : Told(i, d.room) /\ incident[i].isResolved}'
    OBVIOUS
  <2>2. d.done \in SUBSET S
    BY <1>1, <1>2, <1>4, <2>1 DEF Knows, Told
  <2>3. Cardinality(d.done) <= Cardinality(S)
    BY <2>2, PartIsSmaller
  <2> QED
    BY <1>5, <2>1, <2>3 DEF IsTrue
<1>8. IsComplete(m, d.verb, d.before)'
  <2> SUFFICES ASSUME m.resolved + m.failed < MaxFound
               PROVE  Cardinality(Left(d.verb, d.before))' <= m.failed
    BY <1>5 DEF IsComplete
  <2>1. d.todo \union d.done \union d.failed = d.done \union d.failed
    BY <1>2
  <2>2. Cardinality(d.done \union d.failed) < MaxFound
    <3>1. /\ Cardinality(d.done \intersect d.failed) \in Nat
          /\ Cardinality(d.done \union d.failed) \in Nat
      <4>1. (d.done \intersect d.failed) \in SUBSET Incidents /\ (d.done \union d.failed) \in SUBSET Incidents
        BY <1>4
      <4> QED
        BY <4>1, PartIsSmaller
    <3>2. Cardinality(d.done \union d.failed) =
            Cardinality(d.done) + Cardinality(d.failed) - Cardinality(d.done \intersect d.failed)
      BY <1>4, FS_Union
    <3>3. MaxFound \in Nat
      BY MatrixAssumption
    <3> QED
      BY <1>4, <1>5, <3>1, <3>2, <3>3
  <2>3. \A i \in d.before : incident[i].isResolved \/ i \in d.failed
    BY <1>1, <1>2, <2>1, <2>2 DEF Knows
  <2>4. PICK left : left = Left(d.verb, d.before)'
    OBVIOUS
  <2>5. left \in SUBSET d.failed
    BY <1>1, <1>2, <2>3, <2>4 DEF Left, Knows
  <2>6. Cardinality(left) <= Cardinality(d.failed)
    BY <1>4, <2>5, PartIsSmaller
  <2> QED
    BY <1>5, <2>4, <2>6
<1> QED
  BY <1>1, <1>2, <1>5, <1>6, <1>7, <1>8, StillGoes, OneAnswerGoes

LEMMA CallFailsGoes ==
  ASSUME IInv, NEW h \in Handlers, CallFails(h)
  PROVE  IInv'
<1>1. PICK d \in Handler : d = command[h] /\ Knows(d) /\ Replies(d)
  BY HandlerIs
<1>2. CASE command[h].pc = "calling"
  <2>1. Answer(h, <<Apology>>)
    BY <1>2 DEF CallFails
  <2>2. \/ incident' = incident
        \/ d.verb = "ack" /\ incident' = Acknowledge(d.id, d.room).after
        \/ d.verb = "resolve" /\ incident' = ResolveManually(d.id, d.room).after
    BY <1>1, <1>2 DEF CallFails
  <2>3. d.verb \in {"ack", "resolve"} => d.id \in Incidents
    BY <1>1, <1>2 DEF Knows, Addressed
  <2>4. incident' \in [Incidents -> Incident] /\ \A j \in Incidents : Goes(j)
    BY <2>2, <2>3, StillGoes, AcknowledgeGoes, ResolveManuallyGoes DEF IInv
  <2> QED
    BY <1>2, <2>1, <2>4, ApologyGoes
<1>3. CASE command[h].pc = "resolving"
  <2>1. PICK i \in command[h].todo :
          /\ incident' = incident \/ incident' = ResolveManually(i, d.room).after
          /\ command' = [command EXCEPT ![h].todo = @ \ {i}, ![h].failed = @ \union {i}]
    BY <1>1, <1>3 DEF CallFails, Newest
  <2>2. i \in Incidents
    BY <1>1 DEF Handler
  <2>3. incident' \in [Incidents -> Incident] /\ \A j \in Incidents : Goes(j)
    BY <2>1, <2>2, StillGoes, ResolveManuallyGoes DEF IInv
  <2>4. PICK ok \in BOOLEAN : ok = FALSE
    OBVIOUS
  <2>5. command' = [command EXCEPT ![h].todo = @ \ {i},
                                   ![h].done = IF ok THEN @ \union {i} ELSE @,
                                   ![h].failed = IF ok THEN @ ELSE @ \union {i}]
    BY <1>1, <2>1, <2>4 DEF IInv, TypeOK, Handler
  <2> QED
    BY <1>3, <2>3, <2>4, <2>5, OneLess
<1> QED
  BY <1>2, <1>3 DEF CallFails

\* What is said was in the answer.
LEMMA SendGoes ==
  ASSUME IInv, NEW h \in Handlers, Send(h)
  PROVE  IInv' /\ RepliesAreTrue' /\ NothingIsLeftOut'
<1>1. PICK d \in Handler : d = command[h] /\ Knows(d) /\ Replies(d)
  BY HandlerIs
<1>2. d.pc = "sending" /\ d.out # <<>> /\ d.out \in Seq(Reply) /\ UNCHANGED incident
  BY <1>1 DEF Send, Knows, Handler
<1>3. Head(d.out) = d.out[1] /\ 1 \in 1 .. Len(d.out)
  BY <1>2
<1>4. PICK m : m = Head(d.out)
  OBVIOUS
<1>5. IsTrue(m, d.room) /\ IsComplete(m, d.verb, d.before)
  BY <1>1, <1>2, <1>3, <1>4 DEF Replies
<1>6. said' = [room |-> d.room, verb |-> d.verb, message |-> m, before |-> d.before]
  BY <1>1, <1>4 DEF Send
<1>7. RepliesAreTrue'
  BY <1>2, <1>5, <1>6 DEF RepliesAreTrue, IsTrue, Told, HasHappened
<1>8. NothingIsLeftOut'
  BY <1>2, <1>5, <1>6 DEF NothingIsLeftOut, IsComplete, Left
<1>9. CASE Len(d.out) = 1
  <2>1. PICK c \in Handler : c = Idle
    <3>1. Idle \in Handler
      BY DEF Idle, Handler
    <3> QED
      BY <3>1
  <2>2. command' = [command EXCEPT ![h] = c]
    BY <1>1, <1>9, <2>1 DEF Send
  <2>3. Knows(c)' /\ Replies(c)'
    BY <2>1 DEF Idle, Knows, Replies
  <2> QED
    BY <1>2, <1>7, <1>8, <2>2, <2>3, StillGoes, HandlerGoes
<1>10. CASE Len(d.out) # 1
  <2>1. PICK out : out = Tail(d.out)
    OBVIOUS
  <2>2. /\ out \in Seq(Reply) /\ out # <<>> /\ Len(out) = Len(d.out) - 1
        /\ \A k \in 1 .. Len(out) : out[k] = d.out[k + 1] /\ k + 1 \in 1 .. Len(d.out)
    <3>1. Len(d.out) \in Nat /\ Len(d.out) # 0
      BY <1>2
    <3>2. out \in Seq(Reply) /\ Len(out) = Len(d.out) - 1
      BY <1>2, <2>1
    <3>3. \A k \in 1 .. Len(out) : out[k] = d.out[k + 1]
      BY <1>2, <2>1, <3>2
    <3>4. out # <<>>
      <4>1. Len(out) # 0
        BY <1>10, <3>1, <3>2
      <4>2. Len(<<>>) = 0
        OBVIOUS
      <4> QED
        BY <4>1, <4>2
    <3> QED
      BY <3>1, <3>2, <3>3, <3>4
  <2>3. PICK c : c = [d EXCEPT !.out = out]
    OBVIOUS
  <2>4. /\ c \in Handler /\ c.pc = d.pc /\ c.room = d.room /\ c.verb = d.verb /\ c.before = d.before
        /\ c.out = out
    BY <2>2, <2>3 DEF Handler
  <2>5. command' = [command EXCEPT ![h] = c]
    <3>1. command' = [command EXCEPT ![h] = [command[h] EXCEPT !.out = Tail(command[h].out)]]
      <4>1. command' = [command EXCEPT ![h] = IF Len(command[h].out) = 1 THEN Idle
                                              ELSE [command[h] EXCEPT !.out = Tail(command[h].out)]]
        BY DEF Send
      <4> QED
        BY <1>1, <1>10, <4>1
    <3> QED
      BY <1>1, <2>1, <2>3, <3>1
  <2>6. Knows(c)'
    BY <1>1, <1>2, <2>2, <2>4 DEF Knows, Told
  <2>7. Replies(c)'
    <3>1. \A k \in 1 .. Len(out) :
            IsTrue(out[k], d.room) /\ IsComplete(out[k], d.verb, d.before)
      BY <1>1, <1>2, <2>2 DEF Replies
    <3>2. \A k \in 1 .. Len(out) :
            IsTrue(out[k], d.room)' /\ IsComplete(out[k], d.verb, d.before)'
      BY <1>2, <3>1, TrueOfSame, CompleteOfSame
    <3> QED
      BY <2>4, <3>2 DEF Replies
  <2> QED
    BY <1>2, <1>7, <1>8, <2>4, <2>5, <2>6, <2>7, StillGoes, HandlerGoes
<1> QED
  BY <1>9, <1>10

LEMMA SendFailsGoes ==
  ASSUME IInv, NEW h \in Handlers, SendFails(h)
  PROVE  IInv'
<1>1. PICK d \in Handler : d = command[h] /\ Knows(d) /\ Replies(d)
  BY HandlerIs
<1>2. d.pc = "sending" /\ UNCHANGED incident
  BY <1>1 DEF SendFails
<1>3. CASE command[h].inTry
  <2>1. PICK m : m = Apology
    OBVIOUS
  <2>2. m \in Reply /\ m.kind = "error"
    BY <2>1, TextGoes DEF Apology, Text
  <2>3. PICK out : out = <<m>>
    OBVIOUS
  <2>4. out \in Seq(Reply) /\ out # <<>> /\ \A k \in 1 .. Len(out) : out[k].kind = "error"
    BY <2>2, <2>3
  <2>5. PICK c : c = [d EXCEPT !.out = out, !.inTry = FALSE]
    OBVIOUS
  <2>6. /\ c \in Handler /\ c.pc = d.pc /\ c.room = d.room /\ c.verb = d.verb /\ c.before = d.before
        /\ c.out = out
    BY <2>4, <2>5 DEF Handler
  <2>7. command' = [command EXCEPT ![h] = c]
    BY <1>1, <1>3, <2>1, <2>3, <2>5 DEF SendFails, IInv, TypeOK
  <2>8. Knows(c)'
    BY <1>1, <1>2, <2>4, <2>6 DEF Knows, Told
  <2>9. Replies(c)'
    BY <2>4, <2>6 DEF Replies, IsTrue, IsComplete
  <2> QED
    BY <1>2, <2>6, <2>7, <2>8, <2>9, StillGoes, HandlerGoes
<1>4. CASE ~command[h].inTry
  BY <1>2, <1>4, DiesGoes DEF SendFails
<1> QED
  BY <1>3, <1>4

-----------------------------------------------------------------------------
(***************************************************************************)
(* The messages of other services.                                         *)
(***************************************************************************)
\* The draft after n turns of the loop, and where the loop ends.
After(d, n) == [d EXCEPT !.shown = @ - n, !.omitted = @ + n]
Ends(d) == d.shown <= 1 \/ Fits(d)

IsEnd(d, n) == /\ n \in Nat /\ n <= d.shown /\ Ends(After(d, n))
               /\ \A k \in Nat : Ends(After(d, k)) => n <= k

LEMMA EndExists ==
  ASSUME NEW d \in Draft
  PROVE  \E n : IsEnd(d, n)
<1> DEFINE S == {k \in Nat : Ends(After(d, k))}
<1>1. d.shown \in S
  <2>1. d.shown \in Nat /\ After(d, d.shown).shown = 0
    BY DEF After, Draft
  <2> QED
    BY <2>1 DEF Ends
<1>2. PICK n \in S : \A m \in S : n <= m
  <2>1. S \in SUBSET Nat /\ S # {}
    BY <1>1
  <2> HIDE DEF S
  <2> QED
    BY <2>1, HasFirst
<1> QED
  BY <1>1, <1>2 DEF IsEnd

LEMMA AfterIs ==
  ASSUME NEW d \in Draft, NEW n \in Nat
  PROVE  After(d, n) = [payload |-> d.payload, shown |-> d.shown - n, omitted |-> d.omitted + n]
<1>1. PICK e : e = After(d, n)
  OBVIOUS
<1>2. PICK shown, omitted : shown = d.shown - n /\ omitted = d.omitted + n
  OBVIOUS
<1>3. e = [[d EXCEPT !.shown = shown] EXCEPT !.omitted = omitted]
  BY <1>1, <1>2 DEF After
<1>4. d = [payload |-> d.payload, shown |-> d.shown, omitted |-> d.omitted]
  BY DEF Draft
<1>5. e = [payload |-> d.payload, shown |-> shown, omitted |-> omitted]
  BY <1>3, <1>4
<1> QED
  BY <1>1, <1>2, <1>5

LEMMA AfterNone ==
  ASSUME NEW d \in Draft
  PROVE  After(d, 0) = d
<1>1. d = [payload |-> d.payload, shown |-> d.shown, omitted |-> d.omitted]
  BY DEF Draft
<1>2. d.shown - 0 = d.shown /\ d.omitted + 0 = d.omitted
  BY DEF Draft
<1>3. After(d, 0) = [payload |-> d.payload, shown |-> d.shown - 0, omitted |-> d.omitted + 0]
  BY AfterIs
<1> QED
  BY <1>1, <1>2, <1>3

LEMMA OneTurn ==
  ASSUME NEW d \in Draft, ~Ends(d)
  PROVE  After(d, 1) \in Draft /\ After(d, 1).shown = d.shown - 1 /\ After(d, 1).omitted = d.omitted + 1
<1>1. /\ d.payload \in Payloads /\ d.shown \in Nat /\ d.omitted \in Nat
      /\ d.shown - 1 \in Nat /\ d.omitted + 1 \in Nat
  BY DEF Draft, Ends
<1>2. After(d, 1) = [payload |-> d.payload, shown |-> d.shown - 1, omitted |-> d.omitted + 1]
  BY AfterIs
<1> QED
  BY <1>1, <1>2 DEF Draft

\* One turn later there is one turn less to come.
LEMMA OneTurnLess ==
  ASSUME NEW d \in Draft, ~Ends(d), NEW n, IsEnd(d, n), NEW m, IsEnd(After(d, 1), m)
  PROVE  n = m + 1 /\ After(After(d, 1), m) = After(d, n)
<1>1. d.shown \in Nat /\ d.omitted \in Nat
  BY DEF Draft
<1>2. PICK e \in Draft : /\ e = After(d, 1) /\ e.payload = d.payload
                         /\ e.shown = d.shown - 1 /\ e.omitted = d.omitted + 1
  BY OneTurn, AfterIs
<1>3. \A k \in Nat : After(e, k) = After(d, k + 1)
  <2> TAKE k \in Nat
  <2>1. After(e, k) = [payload |-> d.payload, shown |-> (d.shown - 1) - k, omitted |-> (d.omitted + 1) + k]
    BY <1>2, AfterIs
  <2>2. /\ (d.shown - 1) - k = d.shown - (k + 1) /\ (d.omitted + 1) + k = d.omitted + (k + 1)
        /\ k + 1 \in Nat
    BY <1>1
  <2> QED
    BY <2>1, <2>2, AfterIs
<1>4. After(d, 0) = d
  BY AfterNone
<1>5. n \in Nat /\ n # 0 /\ Ends(After(d, n)) /\ \A k \in Nat : Ends(After(d, k)) => n <= k
  BY <1>4 DEF IsEnd
<1>6. m \in Nat /\ Ends(After(d, m + 1)) /\ \A k \in Nat : Ends(After(d, k + 1)) => m <= k
  BY <1>2, <1>3 DEF IsEnd
<1>7. n <= m + 1
  BY <1>5, <1>6
<1>8. n - 1 \in Nat /\ (n - 1) + 1 = n
  BY <1>5
<1>9. m <= n - 1
  BY <1>5, <1>6, <1>8
<1>10. n = m + 1
  BY <1>5, <1>6, <1>7, <1>9
<1> QED
  BY <1>2, <1>3, <1>6, <1>10

\* The loop, and what it does, in one.
ShrunkTo == [d \in Draft |-> After(d, CHOOSE n : IsEnd(d, n))]

LEMMA ShrunkToStep ==
  ASSUME NEW d \in Draft
  PROVE  ShrunkTo[d] = IF Ends(d) THEN d ELSE ShrunkTo[After(d, 1)]
<1>1. PICK n : n = CHOOSE k : IsEnd(d, k)
  OBVIOUS
<1>2. IsEnd(d, n) /\ ShrunkTo[d] = After(d, n)
  BY <1>1, EndExists DEF ShrunkTo
<1>3. CASE Ends(d)
  <2>1. After(d, 0) = d
    BY AfterNone
  <2>2. n = 0
    <3>1. n \in Nat /\ n <= 0
      BY <1>2, <1>3, <2>1 DEF IsEnd
    <3> QED
      BY <3>1
  <2> QED
    BY <1>2, <1>3, <2>1, <2>2
<1>4. CASE ~Ends(d)
  <2>1. After(d, 1) \in Draft
    BY <1>4, OneTurn
  <2>2. PICK m : m = CHOOSE k : IsEnd(After(d, 1), k)
    OBVIOUS
  <2>3. IsEnd(After(d, 1), m) /\ ShrunkTo[After(d, 1)] = After(After(d, 1), m)
    BY <2>1, <2>2, EndExists DEF ShrunkTo
  <2> QED
    BY <1>2, <1>4, <2>3, OneTurnLess
<1> QED
  BY <1>3, <1>4

\* The loop does what one turn of it says.
LEMMA ShrinkStep ==
  ASSUME NEW d \in Draft
  PROVE  Shrink[d] = IF Ends(d) THEN d ELSE Shrink[After(d, 1)]
<1>1. ShrunkTo = [draft \in Draft |-> ShrunkTo[draft]]
  BY DEF ShrunkTo
<1>2. \A draft \in Draft :
        ShrunkTo[draft] = IF draft.shown <= 1 \/ Fits(draft) THEN draft
                          ELSE ShrunkTo[[draft EXCEPT !.shown = @ - 1, !.omitted = @ + 1]]
  BY ShrunkToStep DEF After, Ends
<1>3. ShrunkTo = [draft \in Draft |->
                    IF draft.shown <= 1 \/ Fits(draft) THEN draft
                    ELSE ShrunkTo[[draft EXCEPT !.shown = @ - 1, !.omitted = @ + 1]]]
  BY <1>1, <1>2
<1>4. Shrink = [draft \in Draft |->
                  IF draft.shown <= 1 \/ Fits(draft) THEN draft
                  ELSE Shrink[[draft EXCEPT !.shown = @ - 1, !.omitted = @ + 1]]]
  BY <1>3 DEF Shrink
<1> QED
  BY <1>4 DEF After, Ends

\* No turn of the loop loses an alert.
LEMMA ShrinkCounts ==
  ASSUME NEW d \in Draft
  PROVE  Shrink[d].shown + Shrink[d].omitted = d.shown + d.omitted
<1> DEFINE Right(draft) == Shrink[draft].shown + Shrink[draft].omitted = draft.shown + draft.omitted
           Bad == {draft.shown : draft \in {c \in Draft : ~Right(c)}}
<1> SUFFICES ASSUME Bad # {} PROVE FALSE
  OBVIOUS
<1>1. PICK s \in Bad : \A r \in Bad : s <= r
  <2>1. Bad \in SUBSET Nat
    BY DEF Draft
  <2> HIDE DEF Bad
  <2> QED
    BY <2>1, HasFirst
<1>2. PICK c \in Draft : ~Right(c) /\ \A e \in Draft : ~Right(e) => c.shown <= e.shown
  BY <1>1
<1>3. ~Ends(c)
  <2>1. Ends(c) => Shrink[c] = c
    BY <1>2, ShrinkStep
  <2> QED
    BY <1>2, <2>1
<1>4. After(c, 1) \in Draft /\ After(c, 1).shown = c.shown - 1 /\ After(c, 1).omitted = c.omitted + 1
  BY <1>2, <1>3, OneTurn
<1>5. /\ ~(c.shown <= After(c, 1).shown)
      /\ After(c, 1).shown + After(c, 1).omitted = c.shown + c.omitted
  BY <1>4 DEF Draft
<1>6. Right(After(c, 1))
  BY <1>2, <1>4, <1>5
<1>7. Shrink[c] = Shrink[After(c, 1)]
  BY <1>3, ShrinkStep
<1> QED
  BY <1>2, <1>5, <1>6, <1>7

\* The alerts that are shown and those that are not are all there are.
LEMMA AlertsAreCounted ==
  ASSUME NEW p \in Payloads, NEW m \in RenderAlerts(p)
  PROVE  /\ m.kind = "alerts" /\ m.payload = p
         /\ ~m.isCut => m.shown + m.omitted = Len(p.sizes) + p.truncated
<1>1. Len(p.sizes) \in Nat /\ p.truncated \in Nat
  BY MatrixAssumption
<1>2. PICK start : start = [payload |-> p, shown |-> Len(p.sizes), omitted |-> p.truncated]
  OBVIOUS
<1>3. start \in Draft /\ start.shown = Len(p.sizes) /\ start.omitted = p.truncated
  BY <1>1, <1>2 DEF Draft
<1>4. PICK draft : draft = Shrink[start]
  OBVIOUS
<1>5. draft.shown + draft.omitted = Len(p.sizes) + p.truncated
  BY <1>3, <1>4, ShrinkCounts
<1>6. PICK isCut : isCut = ~Fits(draft)
  OBVIOUS
<1>7. PICK noted \in {draft.omitted} \union (IF isCut THEN {0} ELSE {}) :
        m = [kind |-> "alerts", ids |-> {}, payload |-> p, shown |-> draft.shown, isCut |-> isCut,
             omitted |-> noted]
  BY <1>2, <1>4, <1>6 DEF RenderAlerts
<1> QED
  BY <1>5, <1>7

LEMMA DeliverGoes ==
  ASSUME Deliver
  PROVE  RepliesAreTrue' /\ NothingIsLeftOut'
<1>1. PICK room \in Rooms, m \in {Text("notification")} \union UNION {RenderAlerts(p) : p \in Payloads} :
        said' = [room |-> room, verb |-> None, message |-> m, before |-> {}]
  BY DEF Deliver
<1>2. CASE m = Text("notification")
  <2>1. m.kind = "notification"
    BY <1>2 DEF Text
  <2> QED
    BY <1>1, <2>1 DEF RepliesAreTrue, NothingIsLeftOut, IsTrue, IsComplete
<1>3. CASE \E p \in Payloads : m \in RenderAlerts(p)
  <2>1. PICK p \in Payloads : m \in RenderAlerts(p)
    BY <1>3
  <2>2. /\ m.kind = "alerts" /\ m.payload = p
        /\ ~m.isCut => m.shown + m.omitted = Len(m.payload.sizes) + m.payload.truncated
    BY <2>1, AlertsAreCounted
  <2> QED
    BY <1>1, <2>2 DEF RepliesAreTrue, NothingIsLeftOut, IsTrue, IsComplete
<1> QED
  BY <1>1, <1>2, <1>3

-----------------------------------------------------------------------------
(***************************************************************************)
(* The theorems.                                                           *)
(***************************************************************************)
LEMMA SilentGoes ==
  ASSUME Silent
  PROVE  RepliesAreTrue' /\ NothingIsLeftOut'
  BY DEF Silent, RepliesAreTrue, NothingIsLeftOut

LEMMA InitIInv == Init => IInv
<1> SUFFICES ASSUME Init PROVE IInv
  OBVIOUS
<1>1. \A h \in Handlers : command[h] = Idle
  BY DEF Init
<1>2. Idle \in Handler
  BY DEF Idle, Handler
<1>3. TypeOK
  BY <1>2 DEF Init, TypeOK, Incident
<1> QED
  BY <1>1, <1>3 DEF IInv, Knows, Replies, Idle

LEMMA NextIInv ==
  ASSUME IInv, RepliesAreTrue, NothingIsLeftOut, [Next]_vars
  PROVE  IInv' /\ RepliesAreTrue' /\ NothingIsLeftOut'
<1>1. CASE Startup
  BY <1>1, StillGoes, NobodyGoes, DiesGoes, SilentGoes
     DEF Startup, Login, Prune, WaitForSync, StartupProbe
<1>2. CASE InitFails \/ Shutdown \/ Closed
  BY <1>2, StillGoes, NobodyGoes, SilentGoes DEF InitFails, Shutdown, Closed
<1>3. ASSUME NEW h \in Handlers, Receive(h)
      PROVE  IInv' /\ Silent
  BY <1>3, ReceiveGoes DEF Receive
<1>4. ASSUME NEW h \in Handlers, HandlerStep(h)
      PROVE  IInv' /\ RepliesAreTrue' /\ NothingIsLeftOut'
  <2>1. CASE List(h)
    BY <2>1, ListGoes, SilentGoes DEF List, KeepsIncidents
  <2>2. CASE Show(h)
    BY <2>2, ShowGoes, SilentGoes DEF Show, KeepsIncidents
  <2>3. CASE Ack(h)
    BY <2>3, AckGoes, SilentGoes DEF Ack
  <2>4. CASE Remaining(h)
    BY <2>4, RemainingGoes, SilentGoes DEF Remaining
  <2>5. CASE Resolve(h)
    BY <2>5, ResolveGoes, SilentGoes DEF Resolve
  <2>6. CASE ResolveAll(h)
    BY <2>6, ResolveAllGoes, SilentGoes DEF ResolveAll, KeepsIncidents
  <2>7. CASE ResolveNext(h)
    BY <2>7, ResolveNextGoes, SilentGoes DEF ResolveNext
  <2>8. CASE ResolvedAll(h)
    BY <2>8, ResolvedAllGoes, SilentGoes DEF ResolvedAll, KeepsIncidents
  <2>9. CASE Send(h)
    BY <2>9, SendGoes
  <2> QED
    BY <1>4, <2>1, <2>2, <2>3, <2>4, <2>5, <2>6, <2>7, <2>8, <2>9 DEF HandlerStep
<1>5. ASSUME NEW h \in Handlers, CallFails(h)
      PROVE  IInv' /\ Silent
  BY <1>5, CallFailsGoes DEF CallFails
<1>6. ASSUME NEW h \in Handlers, SendFails(h)
      PROVE  IInv' /\ Silent
  BY <1>6, SendFailsGoes DEF SendFails
<1>7. CASE IncidentStep
  BY <1>7, IncidentStepGoes, NobodyGoes, SilentGoes DEF IInv, IncidentStep
<1>8. CASE Deliver
  BY <1>8, StillGoes, NobodyGoes, DeliverGoes DEF Deliver
<1>9. CASE UNCHANGED vars
  <2>1. IInv'
    BY <1>9, StillGoes, NobodyGoes DEF vars
  <2>2. RepliesAreTrue'
    BY <1>9 DEF vars, RepliesAreTrue, IsTrue, Told, HasHappened
  <2>3. NothingIsLeftOut'
    BY <1>9 DEF vars, NothingIsLeftOut, IsComplete, Left
  <2> QED
    BY <2>1, <2>2, <2>3
<1> QED
  BY <1>1, <1>2, <1>3, <1>4, <1>5, <1>6, <1>7, <1>8, <1>9, SilentGoes DEF Next

\* Whatever fails and whatever else changes the incidents meanwhile, what an answer says
\* has happened to an incident has when it is sent, in the debug information too, and
\* what is listed and acknowledged its room was told of (handleAckCommand,
\* handleResolveCommand, getDisplayMessage, buildDebugInfo).
THEOREM AnswersAreTrue == Spec => []RepliesAreTrue
<1>1. Init => IInv /\ RepliesAreTrue /\ NothingIsLeftOut
  BY InitIInv DEF Init, RepliesAreTrue, NothingIsLeftOut
<1>2. /\ IInv /\ RepliesAreTrue /\ NothingIsLeftOut /\ [Next]_vars
      => (IInv /\ RepliesAreTrue /\ NothingIsLeftOut)'
  BY NextIInv
<1> QED
  BY <1>1, <1>2, PTL DEF Spec

\* A list, the answer to `!resolve ALL` and the message of the alerts account for all
\* there was, for any number of incidents as long as the query is not full, and for any
\* alerts as long as the message is not cut (findIncidents, formatIncidentList,
\* handleResolveCommand, renderAlerts).
THEOREM AnswersAreComplete == Spec => []NothingIsLeftOut
<1>1. Init => IInv /\ RepliesAreTrue /\ NothingIsLeftOut
  BY InitIInv DEF Init, RepliesAreTrue, NothingIsLeftOut
<1>2. /\ IInv /\ RepliesAreTrue /\ NothingIsLeftOut /\ [Next]_vars
      => (IInv /\ RepliesAreTrue /\ NothingIsLeftOut)'
  BY NextIInv
<1> QED
  BY <1>1, <1>2, PTL DEF Spec

-----------------------------------------------------------------------------
(***************************************************************************)
(* The devices.  The process has its own from the login on.                *)
(***************************************************************************)
DInv ==
  /\ OtherDevice \in devices
  /\ config \in Configs
  /\ bot = [pc |-> bot.pc, device |-> bot.device]
  /\ bot.pc # "down" => \E d \in devices : d.id = bot.device

LEMMA DevicesNext ==
  ASSUME DInv, [Next]_vars
  PROVE  DInv'
<1>1. CASE Login
  <2>1. PICK d : devices' = devices \union {d} /\ bot' = [pc |-> "pruning", device |-> d.id]
    BY <1>1 DEF Login
  <2>2. d \in devices' /\ d.id = bot'.device
    BY <2>1
  <2> QED
    BY <1>1, <2>1, <2>2 DEF DInv, Login
<1>2. CASE Prune
  <2>1. OtherDevice.label = "other" /\ config.label # "other"
    BY MatrixAssumption DEF DInv, OtherDevice
  <2>2. PICK d \in devices : d.id = bot.device
    BY <1>2 DEF DInv, Prune
  <2>3. OtherDevice \in devices' /\ d \in devices'
    BY <1>2, <2>1, <2>2 DEF DInv, Prune, Predecessors
  <2> QED
    BY <1>2, <2>2, <2>3 DEF DInv, Prune
<1>3. CASE Dies /\ UNCHANGED <<devices, config>>
  BY <1>3 DEF DInv, Dies, Down
<1>4. CASE bot' = Down /\ UNCHANGED <<devices, config>>
  BY <1>4 DEF DInv, Down
<1>5. CASE bot.pc # "down" /\ (\E pc : bot' = [bot EXCEPT !.pc = pc]) /\ UNCHANGED <<devices, config>>
  <2>1. PICK pc : bot' = [pc |-> pc, device |-> bot.device]
    BY <1>5 DEF DInv
  <2> QED
    BY <1>5, <2>1 DEF DInv
<1>6. CASE UNCHANGED <<bot, devices, config>>
  BY <1>6 DEF DInv
<1>7. CASE WaitForSync \/ Shutdown
  BY <1>5, <1>7 DEF DInv, WaitForSync, Shutdown
<1>8. CASE StartupProbe \/ InitFails \/ Closed
  BY <1>4, <1>8 DEF StartupProbe, InitFails, Closed
<1>9. ASSUME NEW h \in Handlers, Receive(h) \/ SendFails(h)
      PROVE  DInv'
  BY <1>3, <1>6, <1>9 DEF Receive, SendFails
<1>10. ASSUME NEW h \in Handlers, HandlerStep(h) \/ CallFails(h)
       PROVE  DInv'
  BY <1>6, <1>10 DEF HandlerStep, CallFails, List, Show, Ack, Remaining, Resolve, ResolveAll,
                     ResolveNext, ResolvedAll, Send, KeepsIncidents
<1>11. CASE IncidentStep \/ Deliver \/ UNCHANGED vars
  BY <1>6, <1>11 DEF IncidentStep, Deliver, vars
<1> QED
  BY <1>1, <1>2, <1>7, <1>8, <1>9, <1>10, <1>11 DEF Next, Startup

\* However often the process dies and logs in again, it deletes no device but its own
\* predecessors' (pruneDevicesLabeled).
THEOREM DevicesStay == Spec => []DevicesAreKept
<1>1. Init => DInv
  BY DEF Init, DInv, Down
<1>2. DInv /\ [Next]_vars => DInv'
  BY DevicesNext
<1>3. DInv => DevicesAreKept
  BY DEF DInv, DevicesAreKept
<1> QED
  BY <1>1, <1>2, <1>3, PTL DEF Spec
=============================================================================

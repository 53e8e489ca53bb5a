------------------------- MODULE DeliveryGatesProofs -------------------------
(***************************************************************************)
(* The delivery of an artifact and its publication, for any number of      *)
(* deliverers and publishers, of new thumbnails, rejections and faults.    *)
(*                                                                         *)
(* The invariant follows the artifact.  An attempt is written before the   *)
(* post and never removed, and one deliverer of a kind is past it, so a    *)
(* post finds no earlier one.  A receipt names a version read before the   *)
(* post, and the bytes only grow: the message showed a version between the *)
(* one its receipt names and the one on disk.  While a reply is confirmed  *)
(* the episode waits or is rejected, so the bytes do not change; and once  *)
(* the upload is authorised nothing changes them again.                    *)
(***************************************************************************)
EXTENDS DeliveryGates, TLAPS

\* The message of k shows a version between lo and the bytes on disk.
Shown(k, lo) == \E v \in Versions : posts[k] = <<v>> /\ lo <= v /\ v <= bytes[k]

Sending == {"send", "receipt", "register"}

\* The delivery's lock: one deliverer of a kind is past the attempt.
OneSender ==
    \A d, e \in Deliverers :
        deliverer[d].pc \in Sending /\ deliverer[e].pc \in Sending
            /\ deliverer[d].kind = deliverer[e].kind => d = e

\* What a delivery r may rely on where it stands.
Knows(r) ==
    /\ r.ver <= bytes[r.kind]
    /\ r.pc = "send" => posts[r.kind] = <<>> /\ delivered[r.kind] = Nothing /\ attempt[r.kind] # Nothing
    /\ r.pc = "receipt" => /\ delivered[r.kind] = Nothing /\ attempt[r.kind] # Nothing
                          /\ Shown(r.kind, r.ver)
    /\ r.pc \in {"register", "mark"} => delivered[r.kind] # Nothing

DeliverersKnow == \A d \in Deliverers : Knows(deliverer[d])

\* The files of a delivery are written in order, and a receipt has its message.
EvidenceInOrder ==
    \A k \in Kinds :
        /\ posts[k] = <<>> \/ Shown(k, 0)
        /\ attempt[k] = Nothing => posts[k] = <<>> /\ delivered[k] = Nothing
        /\ delivered[k] # Nothing => Shown(k, delivered[k])

Confirming == {"claim", "approve", "advance"}

\* A reply is confirmed while its gate is open, or was open when it began; an
\* approval binds the delivered version and the consumed command.
GatesInOrder ==
    /\ \A k \in Kinds : gate[k].pc \in Confirming => store.cur \in {Waiting[k], "ASSEMBLING"}
    /\ \A j, k \in Kinds : gate[j].pc \in Confirming /\ gate[k].pc \in Confirming => j = k
    /\ \A k \in Kinds :
          /\ gate[k].pc = "claim" => journal[k] # Nothing
          /\ gate[k].pc = "approve" => Binds(delivered, k) /\ k \in consumed /\ journal[k] = "approve"
          /\ gate[k].pc \in {"advance", "outcome"} => delivered[k] # Nothing
          /\ approval[k] # Nothing =>
                approval[k] = delivered[k] /\ k \in consumed /\ journal[k] = "approve"

Going == {"UPLOADING", "PUBLISHED"}

\* One publisher is at work, on the approved bytes, and they stay.
ChannelInOrder ==
    /\ \A p \in Publishers : publisher[p].pc # "idle" => store.cur \in Going
    /\ \A p, q \in Publishers : publisher[p].pc # "idle" /\ publisher[q].pc # "idle" => p = q
    /\ \A p \in Publishers : publisher[p].pc = "upload" => uploads = <<>>
    /\ uploads # <<>> => uploads = <<bytes>> /\ store.cur \in Going
    /\ store.cur \in Going => Authorized

\* The versions that are left to be made.
VersionsLeft == bytes["thumbnail"] + left.remakes <= MaxRemakes

GatesInv ==
    /\ GatesTypeOK /\ VersionsLeft
    /\ OneSender /\ DeliverersKnow /\ EvidenceInOrder
    /\ GatesInOrder /\ ChannelInOrder

-----------------------------------------------------------------------------
(* Lemmas about the operators *)

\* The states of the lifecycle that the gates use.
LEMMA StatesInUse ==
    /\ {"ASSEMBLING", "FINAL_QA", "UPLOADING", "PUBLISHED", "REQUEST_RECEIVED"} \subseteq EpisodeStates
    /\ \A k \in Kinds : Waiting[k] \in EpisodeStates /\ NextGate[k] \in EpisodeStates
    /\ "PAUSED" \in EpisodeStates
BY DEF EpisodeStates, Successors, Kinds, Waiting, NextGate

\* transition_to() moves a store to its target and loading leaves it where it is.
LEMMA StoreFacts ==
    ASSUME NEW st \in Store, NEW to \in EpisodeStates
    PROVE  /\ TransitionTo(st, to) \in Store /\ TransitionTo(st, to).cur = to
           /\ Reloaded(st) \in Store /\ Reloaded(st).cur = st.cur
           /\ [Reloaded(st) EXCEPT !.cur = "FINAL_QA", !.prev = "ASSEMBLING"] \in Store
           /\ [Reloaded(st) EXCEPT !.cur = "FINAL_QA", !.prev = "ASSEMBLING"].cur = "FINAL_QA"
<1>1. Reloaded(st) \in Store /\ Reloaded(st).cur = st.cur
  BY DEF Store, Reloaded
<1>2. TransitionTo(st, to) \in Store /\ TransitionTo(st, to).cur = to
  BY StatesInUse DEF Store, TransitionTo
<1>3. /\ [Reloaded(st) EXCEPT !.cur = "FINAL_QA", !.prev = "ASSEMBLING"] \in Store
      /\ [Reloaded(st) EXCEPT !.cur = "FINAL_QA", !.prev = "ASSEMBLING"].cur = "FINAL_QA"
  BY <1>1, StatesInUse DEF Store
<1> QED
  BY <1>1, <1>2, <1>3

\* A new store has the type of one.
LEMMA NewStoreType == NewStore \in Store
BY StatesInUse DEF NewStore, Store

\* A row that is updated keeps its type, and is updated only while PENDING.
LEMMA MarkedFacts ==
    ASSUME GatesInv, NEW s \in {"BLOCKED", "UNKNOWN", "DELIVERED"}
    PROVE  /\ Marked(s) \in OutboxRow \cup {Nothing}
           /\ outbox # Nothing /\ Marked(s) # outbox => outbox.status = "PENDING" /\ Marked(s).status = s
BY DEF GatesInv, GatesTypeOK, OutboxRow, Marked

\* No delivery under way.
LEMMA NoDeliveryFacts ==
    ASSUME GatesInv
    PROVE  /\ NoDelivery \in Delivery /\ NoDelivery.pc = "idle" /\ Knows(NoDelivery)
           /\ NoDelivery.drain = FALSE
<1>1. NoDelivery \in Delivery /\ NoDelivery.pc = "idle" /\ NoDelivery.drain = FALSE
  BY GateConstants DEF NoDelivery, Delivery, Kinds, Versions
<1>2. 0 <= bytes["thumbnail"]
  BY GateConstants DEF GatesInv, GatesTypeOK, Kinds, Versions
<1>3. Knows(NoDelivery)
  BY <1>2 DEF Knows, NoDelivery
<1> QED
  BY <1>1, <1>3

-----------------------------------------------------------------------------
(* The deliverers *)

\* The gates and the channel do not depend on what deliverers write, except
\* that a receipt is there.
LEMMA DeliveriesKeepGates ==
    ASSUME GatesInv, UNCHANGED <<store, rest, inbound, gate, channel>>,
           \A k \in Kinds : delivered[k] # Nothing => delivered'[k] = delivered[k]
    PROVE  GatesInOrder' /\ ChannelInOrder'
<1>1. GatesInOrder'
  BY DEF GatesInv, GatesInOrder, Binds, rest, inbound
<1>2. ChannelInOrder'
  BY DEF GatesInv, ChannelInOrder, Authorized, Binds, rest, inbound, channel
<1> QED
  BY <1>1, <1>2

\* The types of what a delivery changes, with the rest unchanged.
LEMMA DeliveriesKeepTypes ==
    ASSUME GatesInv, UNCHANGED <<store, rest, inbound, gate, channel>>,
           posts' \in [Kinds -> Seq(Versions)], attempt' \in [Kinds -> Versions \cup {Nothing}],
           delivered' \in [Kinds -> Versions \cup {Nothing}], deliveries' \subseteq Kinds,
           outbox' \in OutboxRow \cup {Nothing}, deliverer' \in [Deliverers -> Delivery],
           \/ UNCHANGED left
           \/ Spend("faults")
    PROVE  GatesTypeOK' /\ VersionsLeft'
<1>1. /\ left' \in [remakes : 0..MaxRemakes, rejects : 0..MaxRejects, faults : 0..MaxFaults]
      /\ left'.remakes = left.remakes
  BY GateConstants DEF GatesInv, GatesTypeOK, Spend
<1> QED
  BY <1>1 DEF GatesInv, GatesTypeOK, VersionsLeft, rest, inbound, channel

\* A delivery's row after an exception.
LEMMA RaiseFacts ==
    ASSUME GatesInv, NEW d \in Deliverers, Raise(d)
    PROVE  /\ deliverer' = [deliverer EXCEPT ![d] = NoDelivery]
           /\ outbox' \in OutboxRow \cup {Nothing}
BY MarkedFacts DEF Raise, Stopped, GatesInv, GatesTypeOK

\* A move that writes no evidence keeps the whole invariant.
LEMMA MoveKeeps ==
    ASSUME GatesInv, NEW d \in Deliverers, NEW r \in Delivery, Knows(r),
           \/ r.pc \notin Sending
           \/ deliverer[d].pc \in Sending /\ deliverer[d].kind = r.kind
           \/ GateFree(r.kind),
           deliverer' = [deliverer EXCEPT ![d] = r],
           UNCHANGED <<store, rest, posts, attempt, delivered, inbound, gate, channel>>,
           deliveries' \subseteq Kinds, outbox' \in OutboxRow \cup {Nothing},
           UNCHANGED left \/ Spend("faults")
    PROVE  GatesInv'
<1>1. /\ deliverer' \in [Deliverers -> Delivery] /\ bytes' = bytes
      /\ OneSender' /\ DeliverersKnow' /\ EvidenceInOrder'
  <2>1. deliverer' \in [Deliverers -> Delivery]
    BY DEF GatesInv, GatesTypeOK
  <2>2. OneSender'
    BY DEF GatesInv, GatesTypeOK, OneSender, GateFree, Sending
  <2>3. DeliverersKnow'
    BY DEF GatesInv, GatesTypeOK, DeliverersKnow, Knows, Shown, rest
  <2>4. EvidenceInOrder'
    BY DEF GatesInv, EvidenceInOrder, Shown, rest
  <2> QED
    BY <2>1, <2>2, <2>3, <2>4 DEF rest
<1>2. GatesInOrder' /\ ChannelInOrder'
  BY DeliveriesKeepGates
<1>3. GatesTypeOK' /\ VersionsLeft'
  BY <1>1, DeliveriesKeepTypes DEF GatesInv, GatesTypeOK
<1> QED
  BY <1>1, <1>2, <1>3 DEF GatesInv

\* A delivery that raises, having written nothing in this step.
LEMMA RaiseKeeps ==
    ASSUME GatesInv, NEW d \in Deliverers, Raise(d), deliveries' \subseteq Kinds,
           UNCHANGED <<store, rest, posts, attempt, delivered, inbound, gate, channel>>,
           UNCHANGED left \/ Spend("faults")
    PROVE  GatesInv'
BY RaiseFacts, NoDeliveryFacts, MoveKeeps DEF Sending

\* A delivery enters with the version that is on disk.
LEMMA EnteredKeeps ==
    ASSUME GatesInv, NEW d \in Deliverers, NEW drain \in BOOLEAN,
           deliverer' = Entered(d, drain),
           UNCHANGED <<store, rest, posts, evidence, inbound, outbox, gate, channel, left>>
    PROVE  GatesInv'
<1> DEFINE r == [pc |-> "gate", kind |-> DeliverKind, ver |-> bytes[DeliverKind],
                 fresh |-> delivered[DeliverKind] = Nothing, drain |-> drain, stopping |-> FALSE]
<1>1. DeliverKind \in Kinds /\ bytes[DeliverKind] \in Versions
  BY DEF DeliverKind, Kinds, GatesInv, GatesTypeOK
<1>2. r \in Delivery /\ r.pc \notin Sending
  BY <1>1 DEF Delivery, Sending
<1>3. Knows(r)
  BY <1>1, GateConstants DEF Knows, Versions
<1>4. deliverer' = [deliverer EXCEPT ![d] = r]
  BY DEF Entered
<1> HIDE DEF r
<1> QED
  BY <1>2, <1>3, <1>4, MoveKeeps DEF GatesInv, GatesTypeOK, evidence

\* The deliveries that begin, end or are interrupted without writing evidence.
LEMMA QuietDeliveriesKeep ==
    ASSUME GatesInv, NEW d \in Deliverers,
           \/ Deliver(d) \/ Drain(d) \/ DrainDelivers(d) \/ RegisterDelivery(d)
           \/ Acknowledge(d) \/ StopDeadline(d)
    PROVE  GatesInv'
<1> DEFINE r == deliverer[d]
<1>0. /\ r \in Delivery /\ Knows(r) /\ r.kind \in Kinds /\ deliveries \subseteq Kinds
      /\ outbox \in OutboxRow \cup {Nothing}
  BY DEF GatesInv, GatesTypeOK, DeliverersKnow, Delivery
<1>1. CASE Deliver(d)
  BY <1>1, EnteredKeeps DEF Deliver
<1>2. CASE Drain(d)
  <2>1. CASE outbox' = Marked("BLOCKED") /\ UNCHANGED deliverer
    <3>1. deliverer' = [deliverer EXCEPT ![d] = r]
      BY <2>1 DEF GatesInv, GatesTypeOK
    <3>2. outbox' \in OutboxRow \cup {Nothing}
      BY <2>1, MarkedFacts
    <3> QED
      BY <1>0, <1>2, <3>1, <3>2, MoveKeeps DEF Drain, evidence
  <2>2. CASE deliverer' = [deliverer EXCEPT ![d].pc = "active", ![d].drain = TRUE] /\ UNCHANGED outbox
    <3> DEFINE s == [r EXCEPT !.pc = "active", !.drain = TRUE]
    <3>1. s \in Delivery /\ s.pc \notin Sending /\ deliverer' = [deliverer EXCEPT ![d] = s]
      BY <1>0, <2>2 DEF Delivery, Sending, GatesInv, GatesTypeOK
    <3>2. Knows(s)
      BY <1>0 DEF Knows, Delivery
    <3> HIDE DEF s
    <3> QED
      BY <1>0, <1>2, <2>2, <3>1, <3>2, MoveKeeps DEF Drain, evidence
  <2> QED
    BY <1>2, <2>1, <2>2 DEF Drain
<1>3. CASE DrainDelivers(d)
  <2>1. CASE Raise(d)
    BY <1>0, <1>3, <2>1, RaiseKeeps DEF DrainDelivers, evidence
  <2>2. CASE deliverer' = Entered(d, TRUE) /\ UNCHANGED outbox
    BY <1>3, <2>2, EnteredKeeps DEF DrainDelivers
  <2> QED
    BY <1>3, <2>1, <2>2 DEF DrainDelivers
<1>4. CASE RegisterDelivery(d)
  <2>1. /\ UNCHANGED <<store, rest, posts, attempt, delivered, inbound, gate, channel, left>>
        /\ deliveries' \subseteq Kinds /\ r.pc = "register"
    BY <1>0, <1>4 DEF RegisterDelivery, At
  <2>2. CASE Raise(d)
    BY <2>1, <2>2, RaiseKeeps
  <2>3. CASE Step(d, "mark") /\ UNCHANGED outbox
    <3> DEFINE s == [r EXCEPT !.pc = "mark"]
    <3>1. s \in Delivery /\ s.pc \notin Sending /\ deliverer' = [deliverer EXCEPT ![d] = s]
      BY <1>0, <2>3 DEF Delivery, Sending, GatesInv, GatesTypeOK, Step
    <3>2. Knows(s)
      BY <1>0, <2>1 DEF Knows, Delivery
    <3> HIDE DEF s
    <3> QED
      BY <1>0, <2>1, <2>3, <3>1, <3>2, MoveKeeps
  <2>4. CASE Stopped(d) /\ UNCHANGED outbox
    BY <1>0, <2>1, <2>4, NoDeliveryFacts, MoveKeeps DEF Stopped, Sending
  <2> QED
    BY <1>4, <2>2, <2>3, <2>4 DEF RegisterDelivery
<1>5. CASE Acknowledge(d)
  <2>1. outbox' \in OutboxRow \cup {Nothing}
    BY <1>5, MarkedFacts DEF Acknowledge
  <2> QED
    BY <1>0, <1>5, <2>1, NoDeliveryFacts, MoveKeeps DEF Acknowledge, Stopped, Sending, evidence
<1>6. CASE StopDeadline(d)
  <2> DEFINE s == [r EXCEPT !.stopping = TRUE]
  <2>1. /\ s \in Delivery /\ deliverer' = [deliverer EXCEPT ![d] = s] /\ s.pc = deliverer[d].pc
        /\ s.kind = deliverer[d].kind
    BY <1>0, <1>6 DEF Delivery, GatesInv, GatesTypeOK, StopDeadline
  <2>2. Knows(s)
    BY <1>0 DEF Knows, Delivery
  <2>3. outbox' \in OutboxRow \cup {Nothing}
    BY <1>0, <1>6, MarkedFacts DEF StopDeadline
  <2> HIDE DEF s
  <2> QED
    BY <1>0, <1>6, <2>1, <2>2, <2>3, MoveKeeps DEF StopDeadline, evidence
<1> QED
  BY <1>1, <1>2, <1>3, <1>4, <1>5, <1>6

\* The attempt is durable before the post; the lock was free and no message exists.
LEMMA EnterGateKeeps ==
    ASSUME GatesInv, NEW d \in Deliverers, EnterGate(d)
    PROVE  GatesInv'
<1> DEFINE r == deliverer[d]
<1>0. /\ r \in Delivery /\ Knows(r) /\ r.kind \in Kinds /\ deliveries \subseteq Kinds
      /\ outbox \in OutboxRow \cup {Nothing} /\ r.ver \in Versions /\ r.ver # Nothing
  BY NothingIsNoValue DEF GatesInv, GatesTypeOK, DeliverersKnow, Delivery
<1>1. /\ GateFree(r.kind) /\ r.pc = "gate"
      /\ UNCHANGED <<store, rest, posts, delivered, deliveries, inbound, gate, channel, left>>
  BY DEF EnterGate, At
<1>2. CASE Raise(d) /\ UNCHANGED attempt
  BY <1>0, <1>1, <1>2, RaiseKeeps
<1>3. CASE UNCHANGED <<attempt, outbox>> /\ Binds(delivered, r.kind) /\ Step(d, "register")
  <2> DEFINE s == [r EXCEPT !.pc = "register"]
  <2>1. s \in Delivery /\ deliverer' = [deliverer EXCEPT ![d] = s] /\ s.kind = r.kind
    BY <1>0, <1>3 DEF Delivery, GatesInv, GatesTypeOK, Step
  <2>2. Knows(s)
    BY <1>0, <1>3 DEF Knows, Delivery, Binds
  <2> HIDE DEF s
  <2> QED
    BY <1>0, <1>1, <1>3, <2>1, <2>2, MoveKeeps
<1>4. CASE /\ Sendable(r.kind) /\ Step(d, "send") /\ UNCHANGED outbox
           /\ attempt' = [attempt EXCEPT ![r.kind] = r.ver]
  <2>1. /\ delivered[r.kind] = Nothing /\ posts[r.kind] = <<>>
        /\ attempt' \in [Kinds -> Versions \cup {Nothing}] /\ attempt'[r.kind] # Nothing
        /\ \A k \in Kinds : attempt[k] # Nothing => attempt'[k] # Nothing
        /\ \A k \in Kinds : attempt'[k] = Nothing => attempt[k] = Nothing
    BY <1>0, <1>4 DEF Sendable, GatesInv, GatesTypeOK, EvidenceInOrder
  <2>2. /\ deliverer' \in [Deliverers -> Delivery]
        /\ deliverer'[d].pc = "send" /\ deliverer'[d].kind = r.kind /\ deliverer'[d].ver = r.ver
        /\ \A e \in Deliverers \ {d} : deliverer'[e] = deliverer[e]
    BY <1>0, <1>4 DEF Step, GatesInv, GatesTypeOK, Delivery
  <2>3. OneSender'
    BY <1>1, <2>2 DEF GatesInv, OneSender, GateFree, Sending
  <2>4. DeliverersKnow'
    <3> SUFFICES ASSUME NEW e \in Deliverers PROVE Knows(deliverer[e])'
      BY DEF DeliverersKnow
    <3>1. CASE e = d
      BY <1>0, <1>1, <2>1, <2>2, <3>1 DEF Knows, rest
    <3>2. CASE e # d
      <4>1. Knows(deliverer[e]) /\ deliverer[e].kind \in Kinds
        BY DEF GatesInv, GatesTypeOK, DeliverersKnow, Delivery
      <4> QED
        BY <1>1, <2>1, <2>2, <3>2, <4>1 DEF Knows, Shown, rest
    <3> QED
      BY <3>1, <3>2
  <2>5. EvidenceInOrder'
    BY <1>1, <2>1 DEF GatesInv, EvidenceInOrder, Shown, rest
  <2>6. GatesInOrder' /\ ChannelInOrder'
    BY <1>1, DeliveriesKeepGates
  <2>7. GatesTypeOK' /\ VersionsLeft'
    BY <1>0, <1>1, <1>4, <2>1, <2>2, DeliveriesKeepTypes DEF GatesInv, GatesTypeOK
  <2> QED
    BY <2>3, <2>4, <2>5, <2>6, <2>7 DEF GatesInv
<1> QED
  BY <1>2, <1>3, <1>4, Zenon DEF EnterGate

\* A step moves one deliverer.
LEMMA StepFacts ==
    ASSUME GatesInv, NEW d \in Deliverers, NEW l \in {"receipt", "register"},
           deliverer' = [deliverer EXCEPT ![d].pc = l]
    PROVE  /\ deliverer' \in [Deliverers -> Delivery]
           /\ deliverer'[d].pc = l /\ deliverer'[d].kind = deliverer[d].kind
           /\ deliverer'[d].ver = deliverer[d].ver
           /\ \A e \in Deliverers \ {d} : deliverer'[e] = deliverer[e]
<1>1. deliverer'[d] = [deliverer[d] EXCEPT !.pc = l] /\ deliverer[d] \in Delivery
  BY DEF GatesInv, GatesTypeOK
<1>2. /\ [deliverer[d] EXCEPT !.pc = l] \in Delivery
      /\ deliverer'[d].pc = l /\ deliverer'[d].kind = deliverer[d].kind
      /\ deliverer'[d].ver = deliverer[d].ver
  BY <1>1 DEF Delivery
<1> QED
  BY <1>1, <1>2 DEF GatesInv, GatesTypeOK

\* One deliverer of a kind stays past the attempt when none enters.
LEMMA SenderStays ==
    ASSUME GatesInv, NEW d \in Deliverers,
           \A e \in Deliverers \ {d} : deliverer'[e] = deliverer[e],
           deliverer'[d].pc \in Sending =>
               deliverer[d].pc \in Sending /\ deliverer'[d].kind = deliverer[d].kind
    PROVE  OneSender'
BY DEF GatesInv, OneSender

\* A post under way finds no message of its kind and shows what is on disk.
LEMMA PostShows ==
    ASSUME GatesInv, NEW d \in Deliverers, deliverer[d].pc = "send"
    PROVE  LET k == deliverer[d].kind
           IN  /\ k \in Kinds /\ bytes[k] \in Versions /\ deliverer[d].ver <= bytes[k]
               /\ posts[k] = <<>> /\ Append(posts[k], bytes[k]) = <<bytes[k]>>
               /\ delivered[k] = Nothing /\ attempt[k] # Nothing
<1>1. Knows(deliverer[d]) /\ deliverer[d].kind \in Kinds
  BY DEF GatesInv, GatesTypeOK, DeliverersKnow, Delivery
<1>2. bytes[deliverer[d].kind] \in Versions
  BY <1>1 DEF GatesInv, GatesTypeOK
<1>3. \A b : Append(<<>>, b) = <<b>>
  OBVIOUS
<1> QED
  BY <1>1, <1>2, <1>3, Zenon DEF Knows

\* The messenger has posted; the deliverer has its answer, or is gone.
LEMMA PostKeeps ==
    ASSUME GatesInv, NEW d \in Deliverers, deliverer[d].pc = "send",
           posts' = [posts EXCEPT ![deliverer[d].kind] = Append(@, bytes[deliverer[d].kind])],
           \/ deliverer' = [deliverer EXCEPT ![d].pc = "receipt"]
           \/ deliverer' = [deliverer EXCEPT ![d] = NoDelivery],
           outbox' \in OutboxRow \cup {Nothing}, UNCHANGED left \/ Spend("faults"),
           UNCHANGED <<store, rest, evidence, inbound, gate, channel>>
    PROVE  GatesInv'
<1>0. PICK k \in Kinds, v \in Versions : k = deliverer[d].kind /\ v = deliverer[d].ver
  BY DEF GatesInv, GatesTypeOK, Delivery
<1>1. /\ bytes[k] \in Versions /\ v <= bytes[k]
      /\ posts[k] = <<>> /\ delivered[k] = Nothing /\ attempt[k] # Nothing
  BY <1>0, PostShows
<1>2. /\ posts' \in [Kinds -> Seq(Versions)] /\ posts'[k] = <<bytes[k]>>
      /\ \A j \in Kinds \ {k} : posts'[j] = posts[j]
  BY <1>0, <1>1, PostShows DEF GatesInv, GatesTypeOK
<1>3. /\ UNCHANGED <<bytes, attempt, delivered, deliveries>>
  BY DEF rest, evidence
<1>4. /\ deliverer' \in [Deliverers -> Delivery]
      /\ \/ deliverer'[d].pc = "receipt" /\ deliverer'[d].kind = k /\ deliverer'[d].ver = v
         \/ deliverer'[d] = NoDelivery
      /\ \A e \in Deliverers \ {d} : deliverer'[e] = deliverer[e]
  <2>1. CASE deliverer' = [deliverer EXCEPT ![d].pc = "receipt"]
    BY <1>0, <2>1, StepFacts
  <2>2. CASE deliverer' = [deliverer EXCEPT ![d] = NoDelivery]
    BY <2>2, NoDeliveryFacts DEF GatesInv, GatesTypeOK
  <2> QED
    BY <2>1, <2>2
<1>5. OneSender'
  BY <1>0, <1>4, NoDeliveryFacts, SenderStays DEF Sending
<1>6. Shown(k, v)' /\ Shown(k, 0)'
  BY <1>1, <1>2, <1>3, GateConstants DEF Shown, Versions
<1>7. DeliverersKnow'
  <2> SUFFICES ASSUME NEW e \in Deliverers PROVE Knows(deliverer[e])'
    BY DEF DeliverersKnow
  <2>0. Knows(deliverer[e]) /\ deliverer[e].kind \in Kinds
    BY DEF GatesInv, GatesTypeOK, DeliverersKnow, Delivery
  <2>1. CASE e = d /\ deliverer'[d].pc = "receipt" /\ deliverer'[d].kind = k /\ deliverer'[d].ver = v
    BY <1>1, <1>3, <1>6, <2>1 DEF Knows, Shown
  <2>2. CASE e = d /\ deliverer'[d] = NoDelivery
    BY <2>2, <1>3, NoDeliveryFacts DEF Knows
  <2>3. CASE e # d
    <3>1. deliverer[e].kind = k => deliverer[e].pc \notin Sending
      BY <1>0, <2>3 DEF GatesInv, OneSender, Sending
    <3>2. deliverer[e].kind # k => posts'[deliverer[e].kind] = posts[deliverer[e].kind]
      BY <1>2, <2>0
    <3> QED
      BY <1>3, <1>4, <2>0, <2>3, <3>1, <3>2 DEF Knows, Shown, Sending
  <2> QED
    BY <1>4, <2>1, <2>2, <2>3
<1>8. EvidenceInOrder'
  BY <1>1, <1>2, <1>3, <1>6 DEF GatesInv, EvidenceInOrder, Shown
<1>9. GatesInOrder' /\ ChannelInOrder'
  BY <1>3, DeliveriesKeepGates
<1>10. GatesTypeOK' /\ VersionsLeft'
  BY <1>2, <1>3, <1>4, DeliveriesKeepTypes DEF GatesInv, GatesTypeOK
<1> QED
  BY <1>5, <1>7, <1>8, <1>9, <1>10 DEF GatesInv

\* _send() after the attempt, and the cancellation of a delivery.
LEMMA SendKeeps ==
    ASSUME GatesInv, NEW d \in Deliverers, Send(d) \/ CancelDelivery(d)
    PROVE  GatesInv'
<1> DEFINE k == deliverer[d].kind
           posted == [posts EXCEPT ![k] = Append(@, bytes[k])]
<1>0. deliveries \subseteq Kinds /\ outbox \in OutboxRow \cup {Nothing}
  BY DEF GatesInv, GatesTypeOK
<1>1. /\ UNCHANGED <<store, rest, attempt, delivered, inbound, gate, channel>> /\ (UNCHANGED left \/ Spend("faults"))
      /\ k \in Kinds /\ deliveries' \subseteq Kinds /\ (deliverer[d].pc = "send" => deliveries' = deliveries)
  BY <1>0 DEF Send, CancelDelivery, GatesInv, GatesTypeOK, Delivery, evidence
<1>2. CASE posts' = posted /\ deliverer[d].pc = "send" /\ Step(d, "receipt") /\ UNCHANGED outbox
  BY <1>0, <1>1, <1>2, PostKeeps DEF Step, evidence
<1>3. CASE posts' = posted /\ deliverer[d].pc = "send" /\ Raise(d)
  BY <1>1, <1>3, RaiseFacts, PostKeeps DEF evidence
<1>4. CASE UNCHANGED posts /\ Raise(d)
  BY <1>1, <1>4, RaiseKeeps
<1> QED
  BY <1>2, <1>3, <1>4 DEF Send, CancelDelivery, At

\* The receipt names the version that was read before the post.
LEMMA PersistReceiptKeeps ==
    ASSUME GatesInv, NEW d \in Deliverers, PersistReceipt(d)
    PROVE  GatesInv'
<1> DEFINE k == deliverer[d].kind
           v == deliverer[d].ver
<1>1. /\ k \in Kinds /\ v \in Versions /\ v # Nothing /\ v <= bytes[k]
      /\ delivered[k] = Nothing /\ attempt[k] # Nothing /\ Shown(k, v)
      /\ deliverer[d].pc = "receipt"
  BY NothingIsNoValue DEF GatesInv, GatesTypeOK, DeliverersKnow, Delivery, Knows, PersistReceipt, At
<1>2. /\ UNCHANGED <<store, rest, posts, attempt, deliveries, inbound, gate, channel, left>>
      /\ UNCHANGED bytes
  BY DEF PersistReceipt, rest
<1>3. /\ delivered' \in [Kinds -> Versions \cup {Nothing}] /\ delivered'[k] = v
      /\ \A j \in Kinds \ {k} : delivered'[j] = delivered[j]
      /\ \A j \in Kinds : delivered[j] # Nothing => delivered'[j] = delivered[j]
  BY <1>1 DEF PersistReceipt, GatesInv, GatesTypeOK
<1>4. /\ deliverer' \in [Deliverers -> Delivery] /\ outbox' \in OutboxRow \cup {Nothing}
      /\ \A e \in Deliverers \ {d} : deliverer'[e] = deliverer[e]
      /\ \/ deliverer'[d] = NoDelivery
         \/ deliverer'[d].pc = "register" /\ deliverer'[d].kind = k /\ deliverer'[d].ver = v
  <2>1. CASE Raise(d)
    <3>1. deliverer' = [deliverer EXCEPT ![d] = NoDelivery] /\ outbox' \in OutboxRow \cup {Nothing}
      BY <2>1, RaiseFacts
    <3>2. deliverer \in [Deliverers -> Delivery] /\ NoDelivery \in Delivery
      BY NoDeliveryFacts DEF GatesInv, GatesTypeOK
    <3> QED
      BY <3>1, <3>2
  <2>2. CASE Step(d, "register") /\ UNCHANGED outbox
    BY <2>2, StepFacts DEF Step, GatesInv, GatesTypeOK
  <2> QED
    BY <2>1, <2>2, Zenon DEF PersistReceipt
<1>5. OneSender'
  BY <1>1, <1>4, NoDeliveryFacts, SenderStays DEF Sending
<1>6. DeliverersKnow'
  <2> SUFFICES ASSUME NEW e \in Deliverers PROVE Knows(deliverer[e])'
    BY DEF DeliverersKnow
  <2>0. Knows(deliverer[e]) /\ deliverer[e].kind \in Kinds
    BY DEF GatesInv, GatesTypeOK, DeliverersKnow, Delivery
  <2>1. CASE e = d /\ deliverer'[d] = NoDelivery
    BY <1>2, <2>1, NoDeliveryFacts DEF Knows
  <2>2. CASE e = d /\ deliverer'[d].pc = "register" /\ deliverer'[d].kind = k /\ deliverer'[d].ver = v
    BY <1>1, <1>2, <1>3, <2>2 DEF Knows
  <2>3. CASE e # d
    <3>1. deliverer[e].kind = k => deliverer[e].pc \notin Sending
      BY <1>1, <2>3 DEF GatesInv, OneSender, Sending
    <3>2. deliverer[e].kind # k => delivered'[deliverer[e].kind] = delivered[deliverer[e].kind]
      BY <1>3, <2>0
    <3> QED
      BY <1>1, <1>2, <1>3, <1>4, <2>0, <2>3, <3>1, <3>2 DEF Knows, Shown, Sending
  <2> QED
    BY <1>4, <2>1, <2>2, <2>3
<1>7. EvidenceInOrder'
  BY <1>1, <1>2, <1>3 DEF GatesInv, EvidenceInOrder, Shown
<1>8. GatesInOrder' /\ ChannelInOrder'
  BY <1>2, <1>3, DeliveriesKeepGates
<1>9. GatesTypeOK' /\ VersionsLeft'
  BY <1>2, <1>3, <1>4, DeliveriesKeepTypes DEF GatesInv, GatesTypeOK
<1> QED
  BY <1>5, <1>6, <1>7, <1>8, <1>9 DEF GatesInv

-----------------------------------------------------------------------------
(* The replies *)

\* The deliveries depend on their own files and the bytes.
LEMMA DeliveriesUntouched ==
    ASSUME GatesInv, UNCHANGED <<bytes, posts, attempt, delivered, deliverer>>
    PROVE  /\ OneSender' /\ DeliverersKnow' /\ EvidenceInOrder'
           /\ deliverer' \in [Deliverers -> Delivery]
<1>1. OneSender' /\ deliverer' \in [Deliverers -> Delivery]
  BY DEF GatesInv, OneSender, GatesTypeOK
<1>2. DeliverersKnow'
  BY DEF GatesInv, DeliverersKnow, Knows, Shown
<1>3. EvidenceInOrder'
  BY DEF GatesInv, EvidenceInOrder, Shown
<1> QED
  BY <1>1, <1>2, <1>3

GateCalls == [pc : {"idle", "claim", "approve", "advance", "outcome"}, mem : Store]

\* The calls of the gates keep their types.
LEMMA GateFacts ==
    ASSUME GatesInv, NEW k \in Kinds
    PROVE  /\ gate \in [Kinds -> GateCalls] /\ NoWebhook \in GateCalls /\ NoWebhook.pc = "idle"
           /\ Loaded \in Store
           /\ \A l \in {"approve", "advance", "outcome"} :
                 /\ [gate EXCEPT ![k].pc = l] \in [Kinds -> GateCalls]
                 /\ [gate EXCEPT ![k].pc = l][k].pc = l
<1>1. gate \in [Kinds -> GateCalls] /\ store \in Store
  BY DEF GatesInv, GatesTypeOK, GateCalls
<1>2. NoWebhook \in GateCalls /\ NoWebhook.pc = "idle"
  BY NewStoreType DEF NoWebhook, GateCalls
<1>3. Loaded \in Store
  BY <1>1, StoreFacts, StatesInUse DEF Loaded
<1>4. ASSUME NEW l \in {"approve", "advance", "outcome"}
      PROVE  /\ [gate EXCEPT ![k].pc = l] \in [Kinds -> GateCalls]
             /\ [gate EXCEPT ![k].pc = l][k].pc = l
  BY <1>1 DEF GateCalls
<1> QED
  BY <1>1, <1>2, <1>3, <1>4

\* The channel depends on the store, the bytes and the approvals.
LEMMA ChannelUntouched ==
    ASSUME GatesInv, UNCHANGED <<store, bytes, channel>>,
           \A k \in Kinds : approval[k] # Nothing => approval'[k] = approval[k]
    PROVE  ChannelInOrder'
BY DEF GatesInv, ChannelInOrder, Authorized, Binds, channel

\* A reply that is journaled is never replaced.
LEMMA IngestedFacts ==
    ASSUME GatesInv, NEW k \in Kinds, NEW text \in Texts
    PROVE  /\ Ingested(k, text) \in [Kinds -> Texts \cup {Nothing}]
           /\ \A j \in Kinds : journal[j] # Nothing => Ingested(k, text)[j] = journal[j]
           /\ Ingests(k, text) => Ingested(k, text)[k] # Nothing
BY NothingIsNoValue DEF GatesInv, GatesTypeOK, Ingested, Ingests

\* handle_webhook_async() up to the confirmation.
LEMMA WebhookKeeps ==
    ASSUME GatesInv, NEW k \in Kinds, NEW text \in Texts, Webhook(k, text)
    PROVE  GatesInv'
<1>1. /\ UNCHANGED <<store, rest, posts, attempt, delivered, consumed, approval, outcome,
                     outbox, deliverer, channel, left>>
      /\ journal' = Ingested(k, text) /\ gate[k].pc = "idle"
  BY DEF Webhook
<1>2. /\ journal' \in [Kinds -> Texts \cup {Nothing}]
      /\ \A j \in Kinds : journal[j] # Nothing => journal'[j] = journal[j]
  BY <1>1, IngestedFacts
<1>3. /\ gate' \in [Kinds -> GateCalls] /\ deliveries' \subseteq Kinds
      /\ \A j \in Kinds \ {k} : gate'[j] = gate[j]
      /\ \/ gate'[k].pc = "idle"
         \/ gate'[k].pc = "outcome" /\ Completed(k)
         \/ gate'[k].pc = "claim" /\ store.cur = Waiting[k] /\ journal'[k] # Nothing
  <2>0. deliveries \subseteq Kinds /\ gate \in [Kinds -> GateCalls]
    BY GateFacts DEF GatesInv, GatesTypeOK
  <2>1. CASE UNCHANGED <<deliveries, gate>>
    BY <1>1, <2>0, <2>1
  <2>2. CASE /\ deliveries' = deliveries \cup {k} /\ Completed(k)
             /\ gate' = [gate EXCEPT ![k].pc = "outcome"]
    BY <2>0, <2>2, GateFacts
  <2>3. CASE /\ deliveries' = deliveries \cup {k} /\ Ingests(k, text) /\ store.cur = Waiting[k]
             /\ gate' = [gate EXCEPT ![k] = [pc |-> "claim", mem |-> Loaded]]
    <3>1. [pc |-> "claim", mem |-> Loaded] \in GateCalls
      BY GateFacts DEF GateCalls
    <3> QED
      BY <1>1, <2>0, <2>3, <3>1, IngestedFacts
  <2>4. CASE deliveries' = deliveries \cup {k} /\ UNCHANGED gate
    BY <1>1, <2>0, <2>4
  <2> QED
    BY <2>1, <2>2, <2>3, <2>4, Zenon DEF Webhook
<1>4. GatesInOrder'
  <2>0. UNCHANGED <<store, bytes, delivered, consumed, approval>>
    BY <1>1 DEF rest
  <2>1. \A j \in Kinds : gate'[j].pc \in Confirming => store.cur \in {Waiting[j], "ASSEMBLING"}
    BY <1>3 DEF GatesInv, GatesInOrder, Confirming
  <2>2. \A i, j \in Kinds : gate'[i].pc \in Confirming /\ gate'[j].pc \in Confirming => i = j
    <3> SUFFICES ASSUME NEW j \in Kinds \ {k}, gate[j].pc \in Confirming, gate'[k].pc \in Confirming
                 PROVE  FALSE
      BY <1>3 DEF GatesInv, GatesInOrder
    <3>1. store.cur \in {Waiting[j], "ASSEMBLING"}
      BY DEF GatesInv, GatesInOrder
    <3>2. store.cur = Waiting[k]
      BY <1>3 DEF Confirming
    <3> QED
      BY <3>1, <3>2 DEF Kinds, Waiting
  <2>3. ASSUME NEW j \in Kinds
        PROVE  /\ gate'[j].pc = "claim" => journal'[j] # Nothing
               /\ gate'[j].pc = "approve" =>
                     Binds(delivered, j) /\ j \in consumed /\ journal'[j] = "approve"
               /\ gate'[j].pc \in {"advance", "outcome"} => delivered[j] # Nothing
               /\ approval[j] # Nothing =>
                     approval[j] = delivered[j] /\ j \in consumed /\ journal'[j] = "approve"
    <3>1. journal[j] = "approve" => journal'[j] = "approve"
      BY <1>2, NothingIsNoValue DEF Texts
    <3>2. Completed(k) => delivered[k] # Nothing
      BY DEF Completed, Revalidates, Binds
    <3> QED
      BY <1>2, <1>3, <3>1, <3>2 DEF GatesInv, GatesInOrder
  <2> QED
    BY <2>0, <2>1, <2>2, <2>3 DEF GatesInOrder, Binds
<1>5. ChannelInOrder'
  BY <1>1, ChannelUntouched DEF rest
<1>6. OneSender' /\ DeliverersKnow' /\ EvidenceInOrder'
  BY <1>1, DeliveriesUntouched DEF rest
<1>7. consumed' \subseteq {j \in Kinds : journal'[j] # Nothing}
  BY <1>1, <1>2 DEF GatesInv, GatesTypeOK
<1>8. GatesTypeOK' /\ VersionsLeft'
  BY <1>1, <1>2, <1>3, <1>7 DEF GatesInv, GatesTypeOK, VersionsLeft, GateCalls, rest, channel
<1> QED
  BY <1>4, <1>5, <1>6, <1>8 DEF GatesInv

\* A reply under confirmation moves on, or ends; what it wrote binds.
LEMMA ReplyKeeps ==
    ASSUME GatesInv, NEW k \in Kinds, gate[k].pc \in {"claim", "approve", "outcome"},
           gate' \in [Kinds -> GateCalls], \A j \in Kinds \ {k} : gate'[j] = gate[j],
           gate'[k].pc \in {"idle", "approve", "advance"},
           gate'[k].pc # "idle" => gate[k].pc \in Confirming,
           gate'[k].pc = "approve" => Binds(delivered, k) /\ k \in consumed' /\ journal[k] = "approve",
           gate'[k].pc = "advance" => delivered[k] # Nothing,
           consumed \subseteq consumed', consumed' \subseteq {j \in Kinds : journal[j] # Nothing},
           approval' \in [Kinds -> Versions \cup {Nothing}],
           \A j \in Kinds : \/ approval'[j] = approval[j]
                            \/ /\ approval'[j] = delivered[j] /\ j \in consumed'
                               /\ journal[j] = "approve",
           outcome' \in [Kinds -> EpisodeStates \cup {Nothing}], outbox' \in OutboxRow \cup {Nothing},
           UNCHANGED <<store, rest, posts, evidence, journal, deliverer, channel, left>>
    PROVE  GatesInv'
<1>1. UNCHANGED <<bytes, attempt, delivered, deliveries, superseded, up, publisher, uploads, published>>
  BY DEF rest, evidence, channel
<1>2. GatesInOrder'
  <2>1. /\ \A j \in Kinds : gate'[j].pc \in Confirming => gate[j].pc \in Confirming
        /\ \A j \in Kinds : approval'[j] # Nothing =>
                approval'[j] = delivered[j] /\ j \in consumed' /\ journal[j] = "approve"
    BY DEF GatesInv, GatesInOrder, Confirming
  <2>2. /\ \A j \in Kinds : gate'[j].pc \in Confirming => store.cur \in {Waiting[j], "ASSEMBLING"}
        /\ \A i, j \in Kinds : gate'[i].pc \in Confirming /\ gate'[j].pc \in Confirming => i = j
    BY <2>1 DEF GatesInv, GatesInOrder
  <2>3. ASSUME NEW j \in Kinds
        PROVE  /\ gate'[j].pc = "claim" => journal[j] # Nothing
               /\ gate'[j].pc = "approve" =>
                     Binds(delivered, j) /\ j \in consumed' /\ journal[j] = "approve"
               /\ gate'[j].pc \in {"advance", "outcome"} => delivered[j] # Nothing
    BY DEF GatesInv, GatesInOrder
  <2> QED
    BY <1>1, <2>1, <2>2, <2>3 DEF GatesInOrder, Binds
<1>3. ChannelInOrder'
  <2>1. \A j \in Kinds : approval[j] # Nothing => approval'[j] = approval[j]
    BY DEF GatesInv, GatesInOrder
  <2> QED
    BY <1>1, <2>1, ChannelUntouched DEF channel
<1>4. OneSender' /\ DeliverersKnow' /\ EvidenceInOrder'
  BY <1>1, DeliveriesUntouched
<1>5. GatesTypeOK' /\ VersionsLeft'
  BY <1>1 DEF GatesInv, GatesTypeOK, VersionsLeft, GateCalls
<1> QED
  BY <1>2, <1>3, <1>4, <1>5 DEF GatesInv

\* confirm_delivery(), save_approval_receipt() and _persist_outcome().
LEMMA ConfirmKeeps ==
    ASSUME GatesInv, NEW k \in Kinds, ClaimReply(k) \/ SaveApproval(k) \/ PersistOutcome(k)
    PROVE  GatesInv'
<1>0. /\ gate \in [Kinds -> GateCalls] /\ approval \in [Kinds -> Versions \cup {Nothing}]
      /\ outcome \in [Kinds -> EpisodeStates \cup {Nothing}] /\ outbox \in OutboxRow \cup {Nothing}
      /\ consumed \subseteq {j \in Kinds : journal[j] # Nothing} /\ bytes[k] \in Versions
      /\ store.cur \in EpisodeStates
  BY GateFacts DEF GatesInv, GatesTypeOK, Store
<1>1. ASSUME GateEnds(k)
      PROVE  gate' \in [Kinds -> GateCalls] /\ gate'[k].pc = "idle" /\ \A j \in Kinds \ {k} : gate'[j] = gate[j]
  BY <1>0, <1>1, GateFacts DEF GateEnds
<1>2. ASSUME NEW l \in {"approve", "advance"}, GateTo(k, l)
      PROVE  gate' \in [Kinds -> GateCalls] /\ gate'[k].pc = l /\ \A j \in Kinds \ {k} : gate'[j] = gate[j]
  BY <1>0, <1>2, GateFacts DEF GateTo
<1>3. CASE ClaimReply(k)
  <2>0. /\ UNCHANGED <<store, rest, posts, evidence, journal, approval, outcome, outbox, deliverer,
                       channel, left>>
        /\ gate[k].pc = "claim" /\ journal[k] # Nothing
    BY <1>3 DEF ClaimReply, GatesInv, GatesInOrder
  <2>1. CASE GateEnds(k) /\ (UNCHANGED consumed \/ consumed' = consumed \cup {k})
    BY <1>0, <1>1, <2>0, <2>1, ReplyKeeps
  <2>2. CASE GateTo(k, "advance") /\ Revalidates(k) /\ UNCHANGED consumed
    BY <1>0, <1>2, <2>0, <2>2, ReplyKeeps DEF Revalidates, Binds, Confirming
  <2>3. CASE GateTo(k, "approve") /\ Commands(k) /\ Binds(delivered, k) /\ consumed' = consumed \cup {k}
    BY <1>0, <1>2, <2>0, <2>3, ReplyKeeps DEF Commands, Confirming
  <2> QED
    BY <1>3, <2>1, <2>2, <2>3, Zenon DEF ClaimReply
<1>4. CASE SaveApproval(k)
  <2>1. /\ gate[k].pc = "approve" /\ Binds(delivered, k) /\ k \in consumed /\ journal[k] = "approve"
        /\ delivered[k] = bytes[k] /\ delivered[k] # Nothing
    BY <1>4 DEF SaveApproval, GatesInv, GatesInOrder, Binds
  <2>2. /\ approval' \in [Kinds -> Versions \cup {Nothing}]
        /\ \A j \in Kinds : approval'[j] = approval[j]
                               \/ (approval'[j] = delivered[j] /\ j \in consumed' /\ journal[j] = "approve")
        /\ consumed' = consumed
    BY <1>0, <1>4, <2>1 DEF SaveApproval
  <2>3. /\ gate' \in [Kinds -> GateCalls] /\ gate'[k].pc = "advance"
        /\ \A j \in Kinds \ {k} : gate'[j] = gate[j]
    BY <1>2, <1>4 DEF SaveApproval
  <2>4. /\ outcome' \in [Kinds -> EpisodeStates \cup {Nothing}] /\ outbox' \in OutboxRow \cup {Nothing}
        /\ UNCHANGED <<store, rest, posts, evidence, journal, deliverer, channel, left>>
    BY <1>0, <1>4 DEF SaveApproval
  <2> QED
    BY <1>0, <2>1, <2>2, <2>3, <2>4, ReplyKeeps DEF Confirming
<1>5. CASE PersistOutcome(k)
  <2>1. outbox' \in OutboxRow \cup {Nothing}
    <3>1. gate[k].pc = "outcome" /\ delivered[k] # Nothing /\ delivered[k] \in Versions
      BY <1>5 DEF PersistOutcome, GatesInv, GatesInOrder, GatesTypeOK
    <3>2. Enqueued(k) \in OutboxRow \cup {Nothing}
      BY <1>0, <3>1 DEF Enqueued, OutboxRow
    <3> QED
      BY <1>0, <1>5, <3>2 DEF PersistOutcome
  <2>2. outcome' \in [Kinds -> EpisodeStates \cup {Nothing}]
    BY <1>0, <1>5 DEF PersistOutcome
  <2>3. /\ gate' \in [Kinds -> GateCalls] /\ gate'[k].pc = "idle"
        /\ \A j \in Kinds \ {k} : gate'[j] = gate[j]
    BY <1>1, <1>5 DEF PersistOutcome
  <2> QED
    BY <1>0, <1>5, <2>1, <2>2, <2>3, ReplyKeeps DEF PersistOutcome
<1> QED
  BY <1>3, <1>4, <1>5

\* confirm_delivered_artifact(): the store it saves is the one it loaded.  No
\* upload has begun, for the gate was open or the artifact rejected.
LEMMA AdvanceGateKeeps ==
    ASSUME GatesInv, NEW k \in Kinds, AdvanceGate(k)
    PROVE  GatesInv'
<1>1. /\ gate[k].pc = "advance" /\ delivered[k] # Nothing /\ gate[k].mem \in Store
      /\ store.cur \in {Waiting[k], "ASSEMBLING"} /\ store.cur \notin Going
      /\ NextGate[k] \notin Going
  BY GateFacts DEF AdvanceGate, GatesInv, GatesInOrder, Confirming, GateCalls, Kinds, Waiting, NextGate, Going
<1>2. /\ UNCHANGED <<rest, posts, evidence, inbound, outbox, deliverer, channel, left>>
      /\ UNCHANGED <<bytes, attempt, delivered, journal, consumed, approval, publisher, uploads>>
  BY DEF AdvanceGate, rest, evidence, inbound, channel
<1>3. store' \in Store /\ store'.cur = NextGate[k]
  BY <1>1, StoreFacts, StatesInUse DEF AdvanceGate
<1>4. /\ gate' \in [Kinds -> GateCalls] /\ gate'[k].pc = "outcome"
      /\ \A j \in Kinds \ {k} : gate'[j] = gate[j]
  BY GateFacts DEF AdvanceGate, GateTo
<1>5. GatesInOrder'
  <2>1. \A j \in Kinds : gate'[j].pc \notin Confirming
    BY <1>1, <1>4 DEF GatesInv, GatesInOrder, Confirming
  <2> QED
    BY <1>1, <1>2, <1>4, <2>1 DEF GatesInv, GatesInOrder, Confirming
<1>6. ChannelInOrder'
  BY <1>1, <1>2, <1>3 DEF GatesInv, ChannelInOrder
<1>7. OneSender' /\ DeliverersKnow' /\ EvidenceInOrder'
  BY <1>2, DeliveriesUntouched
<1>8. GatesTypeOK' /\ VersionsLeft'
  BY <1>2, <1>3, <1>4 DEF GatesInv, GatesTypeOK, VersionsLeft, GateCalls, rest, evidence, inbound, channel
<1> QED
  BY <1>5, <1>6, <1>7, <1>8 DEF GatesInv

-----------------------------------------------------------------------------
(* Rejection, the way back, and the publication *)

\* A step that moves the store, leaves the replies and the publishers to the
\* rules of their states, and writes no delivery file.
LEMMA StoreMoveKeeps ==
    ASSUME GatesInv, store' \in Store,
           \A k \in Kinds : gate[k].pc \in Confirming => store'.cur = "ASSEMBLING",
           UNCHANGED <<bytes, posts, evidence, inbound, outbox, deliverer, gate, up>>,
           superseded' \subseteq Kinds \X Versions, ChannelInOrder',
           publisher' \in [Publishers -> [pc : {"idle", "upload", "receipt", "publish"}, mem : Store]],
           published' \in [Kinds -> Versions] \cup {Nothing},
           UNCHANGED left \/ Spend("rejects") \/ Spend("faults")
    PROVE  GatesInv'
<1>1. UNCHANGED <<attempt, delivered, deliveries, journal, consumed, approval, outcome>>
  BY DEF evidence, inbound
<1>2. GatesInOrder'
  BY <1>1 DEF GatesInv, GatesInOrder, Binds
<1>3. OneSender' /\ DeliverersKnow' /\ EvidenceInOrder'
  BY <1>1, DeliveriesUntouched
<1>4. /\ left' \in [remakes : 0..MaxRemakes, rejects : 0..MaxRejects, faults : 0..MaxFaults]
      /\ left'.remakes = left.remakes
  <2>0. left \in [remakes : 0..MaxRemakes, rejects : 0..MaxRejects, faults : 0..MaxFaults]
    BY DEF GatesInv, GatesTypeOK
  <2>1. CASE Spend("rejects")
    BY <2>0, <2>1, GateConstants DEF Spend
  <2>2. CASE Spend("faults")
    BY <2>0, <2>2, GateConstants DEF Spend
  <2> QED
    BY <2>0, <2>1, <2>2
<1>5. GatesTypeOK' /\ VersionsLeft'
  BY <1>1, <1>4 DEF GatesInv, GatesTypeOK, VersionsLeft
<1> QED
  BY <1>2, <1>3, <1>5 DEF GatesInv

\* reject_delivered_artifact() and the director's way back to the gates.
LEMMA RejectKeeps ==
    ASSUME GatesInv, (\E k \in Kinds : Reject(k)) \/ RecoverRender \/ PassFinalQA
    PROVE  GatesInv'
<1>0. /\ store \in Store /\ Loaded \in Store /\ superseded \subseteq Kinds \X Versions
      /\ publisher \in [Publishers -> [pc : {"idle", "upload", "receipt", "publish"}, mem : Store]]
      /\ published \in [Kinds -> Versions] \cup {Nothing}
  BY StoreFacts, StatesInUse DEF Loaded, GatesInv, GatesTypeOK
<1>1. /\ UNCHANGED <<bytes, posts, evidence, inbound, outbox, deliverer, gate, up, publisher, uploads,
                     published>>
      /\ UNCHANGED left \/ Spend("rejects")
      /\ store.cur \notin Going
  BY DEF Reject, RecoverRender, PassFinalQA, rest, channel, InState, Waiting, NextGate, Going
<1>2. superseded' \subseteq Kinds \X Versions
  <2>1. \A k \in Kinds : Supersedes(k) \subseteq Kinds \X Versions
    BY DEF Supersedes, GatesInv, GatesTypeOK
  <2> QED
    BY <1>0, <2>1 DEF Reject, RecoverRender, PassFinalQA, rest
<1>3. ASSUME NEW k \in Kinds, Reject(k)
      PROVE  store' \in Store /\ store'.cur = "ASSEMBLING"
  <2>1. store' = TransitionTo(Loaded, "ASSEMBLING")
    BY <1>3 DEF Reject
  <2> QED
    BY <1>0, <2>1, StoreFacts, StatesInUse
<1>4. store' \in Store /\ store'.cur \notin Going
  <2>1. CASE \E k \in Kinds : Reject(k)
    BY <1>3, <2>1 DEF Going
  <2>2. CASE RecoverRender
    BY <1>0, <2>2, StoreFacts, StatesInUse DEF RecoverRender, Loaded, Going
  <2>3. CASE PassFinalQA
    BY <1>0, <2>3, StoreFacts, StatesInUse DEF PassFinalQA, Going, Waiting, Kinds
  <2> QED
    BY <2>1, <2>2, <2>3
<1>5. \A k \in Kinds : gate[k].pc \in Confirming => store'.cur = "ASSEMBLING"
  <2>1. CASE \E k \in Kinds : Reject(k)
    BY <1>3, <2>1
  <2>2. CASE RecoverRender
    BY <2>2 DEF RecoverRender, Confirming
  <2>3. CASE PassFinalQA
    <3>1. store.cur = "FINAL_QA"
      BY <2>3 DEF PassFinalQA, InState
    <3> QED
      BY <3>1 DEF GatesInv, GatesInOrder, Kinds, Waiting
  <2> QED
    BY <2>1, <2>2, <2>3
<1>6. ChannelInOrder'
  BY <1>1, <1>4 DEF GatesInv, ChannelInOrder
<1> QED
  BY <1>0, <1>1, <1>2, <1>4, <1>5, <1>6, StoreMoveKeeps

\* A new thumbnail: no reply is under confirmation and nothing was uploaded.
LEMMA RemakeKeeps ==
    ASSUME GatesInv, RemakeThumbnail
    PROVE  GatesInv'
<1>1. /\ store.cur = "FINAL_QA" /\ store.cur \notin Going
      /\ UNCHANGED <<store, posts, evidence, inbound, outbox, superseded, deliverer, gate, channel, up>>
      /\ UNCHANGED <<attempt, delivered, deliveries, journal, consumed, approval, outcome>>
      /\ UNCHANGED <<publisher, uploads, published>>
  BY DEF RemakeThumbnail, InState, Going, evidence, inbound, channel
<1>2. /\ left' \in [remakes : 0..MaxRemakes, rejects : 0..MaxRejects, faults : 0..MaxFaults]
      /\ left'.remakes = left.remakes - 1 /\ left.remakes \in Nat
  BY GateConstants DEF RemakeThumbnail, Spend, GatesInv, GatesTypeOK
<1>3. /\ bytes' = [bytes EXCEPT !["thumbnail"] = bytes["thumbnail"] + 1]
      /\ bytes \in [Kinds -> Versions] /\ bytes["thumbnail"] + left.remakes <= MaxRemakes
      /\ left.remakes > 0
  BY DEF RemakeThumbnail, Spend, GatesInv, GatesTypeOK, VersionsLeft
<1>4. /\ bytes' \in [Kinds -> Versions] /\ bytes'["thumbnail"] + left'.remakes <= MaxRemakes
      /\ \A k \in Kinds : bytes[k] <= bytes'[k]
  BY <1>2, <1>3, GateConstants DEF Kinds, Versions
<1>5. \A k \in Kinds : \A lo \in Versions : Shown(k, lo) => Shown(k, lo)'
  BY <1>1, <1>4, <1>3, GateConstants DEF Shown, Versions
<1>6. OneSender'
  BY <1>1 DEF GatesInv, OneSender
<1>7. DeliverersKnow'
  <2> SUFFICES ASSUME NEW d \in Deliverers PROVE Knows(deliverer[d])'
    BY DEF DeliverersKnow
  <2>1. /\ Knows(deliverer[d]) /\ deliverer[d].kind \in Kinds /\ deliverer[d].ver \in Versions
        /\ deliverer'[d] = deliverer[d]
    BY <1>1 DEF GatesInv, GatesTypeOK, DeliverersKnow, Delivery
  <2>2. deliverer[d].ver <= bytes'[deliverer[d].kind]
    BY <1>3, <1>4, <2>1, GateConstants DEF Knows, Versions
  <2>3. ASSUME deliverer[d].pc = "receipt" PROVE Shown(deliverer[d].kind, deliverer[d].ver)'
    BY <1>1, <1>5, <2>1, <2>3 DEF Knows
  <2> QED
    BY <1>1, <2>1, <2>2, <2>3 DEF Knows
<1>8. EvidenceInOrder'
  <2> SUFFICES ASSUME NEW k \in Kinds
               PROVE  /\ posts'[k] = <<>> \/ Shown(k, 0)'
                      /\ attempt'[k] = Nothing => posts'[k] = <<>> /\ delivered'[k] = Nothing
                      /\ delivered'[k] # Nothing => Shown(k, delivered[k])'
    BY DEF EvidenceInOrder
  <2>1. 0 \in Versions /\ delivered[k] \in Versions \cup {Nothing} /\ delivered'[k] = delivered[k]
    BY <1>1, GateConstants DEF Versions, GatesInv, GatesTypeOK
  <2> QED
    BY <1>1, <1>5, <2>1 DEF GatesInv, EvidenceInOrder
<1>9. GatesInOrder'
  <2>1. \A k \in Kinds : gate[k].pc \notin Confirming
    BY <1>1 DEF GatesInv, GatesInOrder, Kinds, Waiting
  <2> QED
    BY <1>1, <2>1 DEF GatesInv, GatesInOrder, Confirming
<1>10. ChannelInOrder'
  BY <1>1 DEF GatesInv, ChannelInOrder
<1>11. GatesTypeOK' /\ VersionsLeft'
  BY <1>1, <1>2, <1>4 DEF GatesInv, GatesTypeOK, VersionsLeft
<1> QED
  BY <1>6, <1>7, <1>8, <1>9, <1>10, <1>11 DEF GatesInv

\* PublicationController.publish(): a publisher begins only when none is at work
\* and nothing was uploaded, and what it uploads is what both approvals bind.
LEMMA PublisherKeeps ==
    ASSUME GatesInv, NEW p \in Publishers,
           \/ Authorize(p) \/ Upload(p) \/ PersistPublication(p) \/ MarkPublished(p) \/ RecoverPublication(p)
    PROVE  GatesInv'
<1> DEFINE Calls == [pc : {"idle", "upload", "receipt", "publish"}, mem : Store]
<1>0. /\ store \in Store /\ Loaded \in Store /\ superseded \subseteq Kinds \X Versions
      /\ publisher \in [Publishers -> Calls] /\ publisher[p] \in Calls
      /\ published \in [Kinds -> Versions] \cup {Nothing} /\ bytes \in [Kinds -> Versions]
      /\ NoPublication \in Calls /\ NoPublication.pc = "idle"
  BY StoreFacts, StatesInUse, NewStoreType DEF Loaded, GatesInv, GatesTypeOK, NoPublication
<1>1. /\ UNCHANGED <<bytes, posts, evidence, inbound, outbox, deliverer, gate, up, superseded, approval>>
      /\ UNCHANGED left \/ Spend("faults")
  BY DEF Authorize, Upload, PersistPublication, MarkPublished, RecoverPublication, rest, inbound
<1>2. Authorized /\ Authorized'
  <2>1. Authorized
    BY DEF Authorize, Upload, PersistPublication, MarkPublished, RecoverPublication, GatesInv, ChannelInOrder
  <2> QED
    BY <1>1, <2>1 DEF Authorized, Binds
<1>3. CASE Authorize(p)
  <2>1. /\ store.cur = NextGate.video /\ store.cur \notin Going
        /\ store' = TransitionTo(Loaded, "UPLOADING") /\ UNCHANGED <<uploads, published>>
        /\ publisher' = [publisher EXCEPT ![p] = [pc |-> "upload", mem |-> store']]
    BY <1>3 DEF Authorize, InState, NextGate, Going
  <2>2. store' \in Store /\ store'.cur = "UPLOADING"
    BY <1>0, <2>1, StoreFacts, StatesInUse
  <2>3. /\ publisher' \in [Publishers -> Calls] /\ publisher'[p].pc = "upload"
        /\ \A q \in Publishers \ {p} : publisher'[q] = publisher[q]
    BY <1>0, <2>1, <2>2
  <2>4. uploads = <<>> /\ \A q \in Publishers : publisher[q].pc = "idle"
    BY <2>1 DEF GatesInv, ChannelInOrder
  <2>5. ChannelInOrder'
    BY <1>2, <2>1, <2>2, <2>3, <2>4 DEF ChannelInOrder, Going
  <2>6. \A k \in Kinds : gate[k].pc \notin Confirming
    BY <2>1 DEF GatesInv, GatesInOrder, Kinds, Waiting, NextGate
  <2> QED
    BY <1>0, <1>1, <2>1, <2>2, <2>3, <2>5, <2>6, StoreMoveKeeps
<1>4. ASSUME store.cur \in Going, store' \in Store, store'.cur \in Going,
             publisher' \in [Publishers -> Calls], published' \in [Kinds -> Versions] \cup {Nothing},
             \A q \in Publishers \ {p} : publisher'[q] = publisher[q],
             publisher'[p].pc # "idle" => publisher[p].pc # "idle",
             publisher'[p].pc # "upload", uploads' \in {uploads, <<bytes>>},
             \/ UNCHANGED uploads
             \/ publisher[p].pc = "upload"
      PROVE  GatesInv'
  <2>1. ChannelInOrder'
    <3>1. /\ \A q \in Publishers : publisher'[q].pc # "idle" => store'.cur \in Going
          /\ \A q, s \in Publishers : publisher'[q].pc # "idle" /\ publisher'[s].pc # "idle" => q = s
      BY <1>4 DEF GatesInv, ChannelInOrder
    <3>2. \A q \in Publishers : publisher'[q].pc = "upload" => uploads' = <<>>
      BY <1>4 DEF GatesInv, ChannelInOrder
    <3>3. uploads' # <<>> => uploads' = <<bytes>>'
      BY <1>1, <1>4 DEF GatesInv, ChannelInOrder
    <3> QED
      BY <1>2, <1>4, <3>1, <3>2, <3>3 DEF ChannelInOrder
  <2>2. \A k \in Kinds : gate[k].pc \notin Confirming
    BY <1>4 DEF GatesInv, GatesInOrder, Kinds, Waiting, Going
  <2> QED
    BY <1>0, <1>1, <1>4, <2>1, <2>2, StoreMoveKeeps
<1>5. publisher[p].pc # "idle" => store.cur \in Going
  BY DEF GatesInv, ChannelInOrder
<1>6. CASE Upload(p)
  <2>1. uploads = <<>> /\ Append(uploads, bytes) = <<bytes>>
    <3>1. uploads = <<>>
      BY <1>6 DEF Upload, GatesInv, ChannelInOrder
    <3>2. \A b : Append(<<>>, b) = <<b>>
      OBVIOUS
    <3> QED
      BY <3>1, <3>2, Zenon
  <2>2. /\ publisher[p].pc = "upload" /\ uploads' \in {uploads, <<bytes>>} /\ UNCHANGED <<store, published>>
        /\ \/ publisher' = [publisher EXCEPT ![p].pc = "receipt"]
           \/ publisher' = [publisher EXCEPT ![p] = NoPublication]
    BY <1>6, <2>1 DEF Upload
  <2>3. /\ publisher' \in [Publishers -> Calls] /\ publisher'[p].pc \in {"receipt", "idle"}
        /\ \A q \in Publishers \ {p} : publisher'[q] = publisher[q]
    BY <1>0, <2>2
  <2> QED
    BY <1>0, <1>4, <1>5, <2>2, <2>3
<1>7. CASE PersistPublication(p)
  <2>1. /\ publisher[p].pc = "receipt" /\ UNCHANGED <<store, uploads>> /\ published' \in {published, bytes}
        /\ \/ publisher' = [publisher EXCEPT ![p].pc = "publish"]
           \/ publisher' = [publisher EXCEPT ![p] = NoPublication]
    BY <1>7 DEF PersistPublication
  <2>2. /\ publisher' \in [Publishers -> Calls] /\ publisher'[p].pc \in {"publish", "idle"}
        /\ \A q \in Publishers \ {p} : publisher'[q] = publisher[q]
    BY <1>0, <2>1
  <2> QED
    BY <1>0, <1>4, <1>5, <2>1, <2>2
<1>8. CASE MarkPublished(p)
  <2>1. /\ publisher[p].pc = "publish" /\ UNCHANGED <<uploads, published>>
        /\ store' = TransitionTo(publisher[p].mem, "PUBLISHED")
        /\ publisher' = [publisher EXCEPT ![p] = NoPublication]
    BY <1>8 DEF MarkPublished
  <2>2. store' \in Store /\ store'.cur \in Going
    <3>1. publisher[p].mem \in Store
      BY <1>0
    <3> QED
      BY <2>1, <3>1, StoreFacts, StatesInUse DEF Going
  <2>3. /\ publisher' \in [Publishers -> Calls] /\ publisher'[p].pc = "idle"
        /\ \A q \in Publishers \ {p} : publisher'[q] = publisher[q]
    BY <1>0, <2>1
  <2> QED
    BY <1>0, <1>4, <1>5, <2>1, <2>2, <2>3
<1>9. CASE RecoverPublication(p)
  <2>1. /\ publisher[p].pc = "idle" /\ store.cur \in Going /\ UNCHANGED <<publisher, uploads, published>>
        /\ store' = TransitionTo(Loaded, "PUBLISHED")
    BY <1>9 DEF RecoverPublication, InState, Going, channel
  <2>2. store' \in Store /\ store'.cur \in Going
    BY <1>0, <2>1, StoreFacts, StatesInUse DEF Going
  <2> QED
    BY <1>0, <1>4, <2>1, <2>2
<1> QED
  BY <1>3, <1>6, <1>7, <1>8, <1>9

-----------------------------------------------------------------------------
(* The machine *)

\* A crash ends every call; what was under way may have reached the messenger
\* and the channel.
LEMMA GatesCrashKeeps ==
    ASSUME GatesInv, GatesCrash
    PROVE  GatesInv'
<1>1. /\ UNCHANGED <<store, bytes, evidence, inbound, outbox, superseded, published>>
      /\ UNCHANGED <<attempt, delivered, deliveries, journal, consumed, approval, outcome>>
      /\ up' \in BOOLEAN
  BY DEF GatesCrash, evidence, inbound
<1>2. /\ deliverer' = [d \in Deliverers |-> NoDelivery] /\ gate' = [k \in Kinds |-> NoWebhook]
      /\ publisher' = [p \in Publishers |-> NoPublication]
  BY DEF GatesCrash
<1>3. /\ left' \in [remakes : 0..MaxRemakes, rejects : 0..MaxRejects, faults : 0..MaxFaults]
      /\ left'.remakes = left.remakes
  <2>1. left \in [remakes : 0..MaxRemakes, rejects : 0..MaxRejects, faults : 0..MaxFaults] /\ Spend("faults")
    BY DEF GatesCrash, GatesInv, GatesTypeOK
  <2> QED
    BY <2>1, GateConstants DEF Spend
<1>4. PICK done \in SUBSET {deliverer[d].kind : d \in {e \in Deliverers : deliverer[e].pc = "send"}} :
         posts' = [k \in Kinds |-> IF k \in done THEN Append(posts[k], bytes[k]) ELSE posts[k]]
  BY DEF GatesCrash
<1>5. ASSUME NEW k \in Kinds
      PROVE  \/ posts'[k] = posts[k]
             \/ /\ posts[k] = <<>> /\ posts'[k] = <<bytes[k]>> /\ bytes[k] \in Versions
                /\ attempt[k] # Nothing /\ delivered[k] = Nothing
  <2>1. CASE k \notin done
    BY <1>4, <2>1
  <2>2. CASE k \in done
    <3>1. PICK d \in Deliverers : deliverer[d].pc = "send" /\ deliverer[d].kind = k
      BY <2>2
    <3>2. posts'[k] = Append(posts[k], bytes[k])
      BY <1>4, <2>2
    <3> QED
      BY <3>1, <3>2, PostShows
  <2> QED
    BY <2>1, <2>2
<1>6. posts' \in [Kinds -> Seq(Versions)]
  <2>1. ASSUME NEW k \in Kinds PROVE posts'[k] \in Seq(Versions)
    <3>1. posts[k] \in Seq(Versions) /\ \A v \in Versions : <<v>> \in Seq(Versions)
      BY DEF GatesInv, GatesTypeOK
    <3> QED
      BY <1>5, <3>1
  <2> QED
    BY <1>4, <2>1
<1>7. EvidenceInOrder'
  <2> SUFFICES ASSUME NEW k \in Kinds
               PROVE  /\ posts'[k] = <<>> \/ Shown(k, 0)'
                      /\ attempt'[k] = Nothing => posts'[k] = <<>> /\ delivered'[k] = Nothing
                      /\ delivered'[k] # Nothing => Shown(k, delivered[k])'
    BY DEF EvidenceInOrder
  <2>1. CASE posts'[k] = posts[k]
    BY <1>1, <2>1 DEF GatesInv, EvidenceInOrder, Shown
  <2>2. CASE /\ posts'[k] = <<bytes[k]>> /\ bytes[k] \in Versions
             /\ attempt[k] # Nothing /\ delivered[k] = Nothing
    <3>1. 0 <= bytes[k] /\ bytes[k] <= bytes[k]
      BY <2>2, GateConstants DEF Versions
    <3> QED
      BY <1>1, <2>2, <3>1 DEF Shown
  <2> QED
    BY <1>5, <2>1, <2>2
<1>8. OneSender' /\ DeliverersKnow' /\ deliverer' \in [Deliverers -> Delivery]
  <2>1. OneSender' /\ deliverer' \in [Deliverers -> Delivery]
    BY <1>2, NoDeliveryFacts DEF OneSender, Sending
  <2>2. DeliverersKnow'
    <3>1. 0 <= bytes["thumbnail"] /\ bytes' = bytes
      BY <1>1, GateConstants DEF GatesInv, GatesTypeOK, Kinds, Versions
    <3> QED
      BY <1>2, <3>1 DEF DeliverersKnow, Knows, NoDelivery
  <2> QED
    BY <2>1, <2>2
<1>9. GatesInOrder' /\ gate' \in [Kinds -> GateCalls]
  <2>1. \A k \in Kinds : gate'[k].pc = "idle" /\ gate'[k] \in GateCalls
    BY <1>2, GateFacts
  <2> QED
    BY <1>1, <1>2, <2>1 DEF GatesInv, GatesInOrder, Confirming
<1>10. ChannelInOrder'
  <2>1. \A p \in Publishers : publisher'[p].pc = "idle"
    BY <1>2 DEF NoPublication
  <2>2. uploads' = uploads \/ (uploads' = <<bytes>> /\ store.cur \in Going)
    <3>1. CASE \E p \in Publishers : publisher[p].pc = "upload"
      <4>1. uploads = <<>> /\ store.cur \in Going
        BY <3>1 DEF GatesInv, ChannelInOrder
      <4>2. \A b : Append(<<>>, b) = <<b>>
        OBVIOUS
      <4>3. uploads' \in {uploads, Append(uploads, bytes)}
        BY DEF GatesCrash
      <4> QED
        BY <4>1, <4>2, <4>3
    <3>2. CASE ~ \E p \in Publishers : publisher[p].pc = "upload"
      BY <3>2 DEF GatesCrash
    <3> QED
      BY <3>1, <3>2
  <2> QED
    BY <1>1, <2>1, <2>2 DEF GatesInv, ChannelInOrder, Authorized, Binds
<1>11. publisher' \in [Publishers -> [pc : {"idle", "upload", "receipt", "publish"}, mem : Store]]
  BY <1>2, NewStoreType DEF NoPublication
<1>12. GatesTypeOK' /\ VersionsLeft'
  BY <1>1, <1>3, <1>6, <1>8, <1>9, <1>11 DEF GatesInv, GatesTypeOK, VersionsLeft, GateCalls
<1> QED
  BY <1>7, <1>8, <1>9, <1>10, <1>12 DEF GatesInv

\* The service starts again and repairs its rows.
LEMMA RestartKeeps ==
    ASSUME GatesInv, Restart
    PROVE  GatesInv'
<1>1. /\ UNCHANGED <<store, bytes, posts, attempt, delivered, inbound, superseded, deliverer, gate,
                     channel, left>>
      /\ UNCHANGED <<journal, consumed, approval, outcome, publisher, uploads, published>>
      /\ up' \in BOOLEAN /\ deliveries' \subseteq Kinds
  BY DEF Restart, inbound, channel, GatesInv, GatesTypeOK
<1>2. outbox' \in OutboxRow \cup {Nothing}
  <2>1. Completed("thumbnail") => delivered["thumbnail"] \in Versions
    BY DEF Completed, Revalidates, Binds, GatesInv, GatesTypeOK, Kinds
  <2>2. outbox \in OutboxRow \cup {Nothing}
    BY DEF GatesInv, GatesTypeOK
  <2> QED
    BY <2>1, <2>2 DEF Restart, Repaired, Enqueued, OutboxRow
<1>3. GatesInOrder'
  BY <1>1 DEF GatesInv, GatesInOrder, Binds
<1>4. ChannelInOrder'
  BY <1>1, ChannelUntouched
<1>5. OneSender' /\ DeliverersKnow' /\ EvidenceInOrder'
  BY <1>1, DeliveriesUntouched
<1>6. GatesTypeOK' /\ VersionsLeft'
  BY <1>1, <1>2 DEF GatesInv, GatesTypeOK, VersionsLeft
<1> QED
  BY <1>3, <1>4, <1>5, <1>6 DEF GatesInv

-----------------------------------------------------------------------------
(* The inductive invariant *)

\* A step that changes nothing.
LEMMA GatesStutterKeeps ==
    ASSUME GatesInv, UNCHANGED vars
    PROVE  GatesInv'
<1>1. /\ UNCHANGED <<store, bytes, posts, attempt, delivered, deliveries, journal, consumed, approval, outcome>>
      /\ UNCHANGED <<outbox, superseded, deliverer, gate, publisher, uploads, published, up, left, channel>>
  BY DEF vars, evidence, inbound, channel
<1>2. OneSender' /\ DeliverersKnow' /\ EvidenceInOrder'
  BY <1>1, DeliveriesUntouched
<1>3. GatesInOrder'
  BY <1>1 DEF GatesInv, GatesInOrder, Binds
<1>4. ChannelInOrder'
  BY <1>1, ChannelUntouched
<1>5. GatesTypeOK' /\ VersionsLeft'
  BY <1>1 DEF GatesInv, GatesTypeOK, VersionsLeft
<1> QED
  BY <1>2, <1>3, <1>4, <1>5 DEF GatesInv

\* Every step keeps the invariant.
LEMMA GatesInvStep ==
    ASSUME GatesInv, [GatesNext]_vars
    PROVE  GatesInv'
<1>1. ASSUME NEW d \in Deliverers,
             \/ Deliver(d) \/ EnterGate(d) \/ Send(d) \/ PersistReceipt(d)
             \/ RegisterDelivery(d) \/ Drain(d) \/ DrainDelivers(d) \/ Acknowledge(d)
             \/ StopDeadline(d) \/ CancelDelivery(d)
      PROVE  GatesInv'
  BY <1>1, QuietDeliveriesKeep, EnterGateKeeps, SendKeeps, PersistReceiptKeeps, Zenon
<1>2. ASSUME NEW k \in Kinds, NEW text \in Texts, Webhook(k, text)
      PROVE  GatesInv'
  BY <1>2, WebhookKeeps
<1>3. ASSUME NEW k \in Kinds,
             ClaimReply(k) \/ SaveApproval(k) \/ AdvanceGate(k) \/ PersistOutcome(k) \/ Reject(k)
      PROVE  GatesInv'
  BY <1>3, ConfirmKeeps, AdvanceGateKeeps, RejectKeeps, Zenon
<1>4. CASE RecoverRender \/ RemakeThumbnail \/ PassFinalQA
  BY <1>4, RejectKeeps, RemakeKeeps, Zenon
<1>5. ASSUME NEW p \in Publishers,
             \/ Authorize(p) \/ Upload(p) \/ PersistPublication(p) \/ MarkPublished(p)
             \/ RecoverPublication(p)
      PROVE  GatesInv'
  BY <1>5, PublisherKeeps, Zenon
<1>6. CASE GatesCrash \/ Restart \/ UNCHANGED vars
  BY <1>6, GatesCrashKeeps, RestartKeeps, GatesStutterKeeps, Zenon
<1> QED
  BY <1>1, <1>2, <1>3, <1>4, <1>5, <1>6, Zenon DEF GatesNext

\* Nothing was posted, approved or uploaded when final QA has passed the master.
LEMMA GatesInvInit == GatesInit => GatesInv
<1> SUFFICES ASSUME GatesInit PROVE GatesInv
  OBVIOUS
<1>0. 0 \in Versions
  BY GateConstants DEF Versions
<1>1. /\ NoDelivery \in Delivery /\ NoDelivery.pc = "idle" /\ NoDelivery.kind = "thumbnail"
         /\ NoDelivery.ver = 0
      /\ NoWebhook \in GateCalls /\ NoWebhook.pc = "idle"
      /\ NoPublication \in [pc : {"idle", "upload", "receipt", "publish"}, mem : Store]
      /\ NoPublication.pc = "idle"
  BY <1>0, NewStoreType DEF NoDelivery, Delivery, NoWebhook, GateCalls, NoPublication, Kinds
<1>2. store \in Store /\ store.cur = "FINAL_QA"
  BY StatesInUse DEF GatesInit, Store
<1>3. /\ bytes \in [Kinds -> Versions] /\ posts \in [Kinds -> Seq(Versions)]
         /\ superseded \subseteq Kinds \X Versions
      /\ left \in [remakes : 0..MaxRemakes, rejects : 0..MaxRejects, faults : 0..MaxFaults]
      /\ VersionsLeft
  BY <1>0, GateConstants DEF GatesInit, VersionsLeft, Kinds
<1>4. GatesTypeOK
  BY <1>1, <1>2, <1>3 DEF GatesInit, GatesTypeOK, NoReplies, GateCalls
<1>5. OneSender /\ EvidenceInOrder
  BY <1>1 DEF GatesInit, OneSender, EvidenceInOrder, Sending
<1>6. DeliverersKnow
  BY <1>1, GateConstants DEF GatesInit, DeliverersKnow, Knows, Kinds
<1>7. GatesInOrder /\ ChannelInOrder
  BY <1>1, <1>2 DEF GatesInit, GatesInOrder, ChannelInOrder, Confirming, Going
<1> QED
  BY <1>3, <1>4, <1>5, <1>6, <1>7 DEF GatesInv

\* GatesInv holds of every reachable state.
LEMMA GatesInvariance == GatesSpec => []GatesInv
<1>1. GatesInv /\ [GatesNext]_vars => GatesInv'
  BY GatesInvStep
<1> QED
  BY GatesInvInit, <1>1, PTL DEF GatesSpec

-----------------------------------------------------------------------------
(* Theorems *)

\* A human is shown each artifact at most once, whatever is lost, retried or
\* restarted (DeliveryController._send).
THEOREM ShownOnce == GatesSpec => []SentAtMostOnce
<1>1. GatesInv => SentAtMostOnce
  <2> SUFFICES ASSUME GatesInv, NEW k \in Kinds PROVE Len(posts[k]) <= 1
    BY DEF SentAtMostOnce
  <2>1. posts[k] = <<>> \/ \E v \in Versions : posts[k] = <<v>>
    BY DEF GatesInv, EvidenceInOrder, Shown
  <2>2. Len(<<>>) = 0 /\ \A v \in Versions : Len(<<v>>) = 1
    OBVIOUS
  <2>3. Len(posts[k]) \in {0, 1}
    BY <2>1, <2>2, Zenon
  <2>4. \A n \in {0, 1} : n <= 1
    OBVIOUS
  <2> QED
    BY <2>3, <2>4, Zenon
<1> QED
  BY <1>1, GatesInvariance, PTL

\* At most one upload is made, of the bytes that both messages showed and both
\* commands approved (confirm_delivery, require_publication_authorization).
THEOREM UploadsWhatWasShown == GatesSpec => []UploadedAsShown
<1>1. GatesInv => UploadedAsShown
  <2> SUFFICES ASSUME GatesInv PROVE UploadedAsShown
    OBVIOUS
  <2>1. CASE uploads = <<>>
    BY <2>1 DEF UploadedAsShown
  <2>2. CASE uploads # <<>>
    <3>1. uploads = <<bytes>> /\ Authorized
      BY <2>2 DEF GatesInv, ChannelInOrder
    <3>2. Len(uploads) = 1 /\ \A i \in DOMAIN uploads : uploads[i] = bytes
      BY <3>1
    <3>3. ASSUME NEW k \in Kinds
          PROVE  /\ posts[k] = <<bytes[k]>> /\ approval[k] = bytes[k]
                 /\ k \in consumed /\ journal[k] = "approve"
      <4>1. approval[k] = bytes[k] /\ approval[k] # Nothing
        BY <3>1 DEF Authorized, Binds
      <4>2. delivered[k] = bytes[k] /\ delivered[k] # Nothing /\ k \in consumed /\ journal[k] = "approve"
        BY <4>1 DEF GatesInv, GatesInOrder
      <4>3. PICK v \in Versions : posts[k] = <<v>> /\ delivered[k] <= v /\ v <= bytes[k]
        BY <4>2 DEF GatesInv, EvidenceInOrder, Shown
      <4>4. v = bytes[k]
        BY <4>2, <4>3, GateConstants DEF Versions, GatesInv, GatesTypeOK
      <4> QED
        BY <4>1, <4>2, <4>3, <4>4
    <3> QED
      BY <3>2, <3>3 DEF UploadedAsShown
  <2> QED
    BY <2>1, <2>2
<1> QED
  BY <1>1, GatesInvariance, PTL

\* One drain is under way at a time, and the row it dispatches is PENDING until
\* the drain ends or is cancelled.
OneDrain ==
    /\ \A d, e \in Deliverers : deliverer[d].drain /\ deliverer[e].drain => d = e
    /\ \A d \in Deliverers : deliverer[d].drain /\ ~deliverer[d].stopping => Dispatchable
    /\ \A d \in Deliverers : deliverer[d].pc \in {"active", "mark"} => deliverer[d].drain

\* A deliverer moves on, with the row left alone.
LEMMA MoveKeepsDrain ==
    ASSUME GatesInv, OneDrain, NEW d \in Deliverers, NEW r \in Delivery, deliverer' = [deliverer EXCEPT ![d] = r],
           r.drain => deliverer[d].drain /\ r.stopping = deliverer[d].stopping,
           r.pc \in {"active", "mark"} => r.drain, UNCHANGED outbox
    PROVE  OneDrain'
<1>1. deliverer'[d] = r /\ \A e \in Deliverers \ {d} : deliverer'[e] = deliverer[e]
  BY DEF GatesInv, GatesTypeOK
<1> QED
  BY <1>1 DEF OneDrain, Dispatchable

\* The drain ends, whatever becomes of the row.
LEMMA EndKeepsDrain ==
    ASSUME GatesInv, OneDrain, NEW d \in Deliverers, deliverer' = [deliverer EXCEPT ![d] = NoDelivery],
           outbox' # outbox => deliverer[d].drain
    PROVE  OneDrain'
<1>1. /\ deliverer'[d] = NoDelivery /\ NoDelivery.drain = FALSE /\ NoDelivery.pc = "idle"
      /\ \A e \in Deliverers \ {d} : deliverer'[e] = deliverer[e]
  BY NoDeliveryFacts DEF GatesInv, GatesTypeOK
<1> QED
  BY <1>1 DEF OneDrain, Dispatchable

\* Every step keeps to one drain of a PENDING row.
LEMMA DrainStep ==
    ASSUME GatesInv, OneDrain, [GatesNext]_vars
    PROVE  OneDrain'
<1>0. \A d \in Deliverers : deliverer[d] \in Delivery
  BY DEF GatesInv, GatesTypeOK
<1>1. ASSUME NEW d \in Deliverers, Raise(d) PROVE OneDrain'
  BY <1>1, EndKeepsDrain DEF Raise, Stopped
<1>2. ASSUME NEW d \in Deliverers, NEW l \in {"send", "register", "receipt", "mark"}, Step(d, l), UNCHANGED outbox,
             l = "mark" => deliverer[d].drain
      PROVE  OneDrain'
  <2> DEFINE r == [deliverer[d] EXCEPT !.pc = l]
  <2>1. r \in Delivery /\ r.drain = deliverer[d].drain /\ r.stopping = deliverer[d].stopping /\ r.pc = l
    BY <1>0, <1>2 DEF Delivery
  <2>2. deliverer' = [deliverer EXCEPT ![d] = r]
    BY <1>2, Zenon DEF Step
  <2> HIDE DEF r
  <2> QED
    BY <2>1, <2>2, <1>2, MoveKeepsDrain
<1>3. ASSUME NEW d \in Deliverers, EnterGate(d) \/ Send(d) \/ PersistReceipt(d) \/ CancelDelivery(d)
      PROVE  OneDrain'
  <2>1. CASE EnterGate(d)
    BY <1>1, <1>2, <2>1, Zenon DEF EnterGate
  <2>2. CASE Send(d)
    BY <1>1, <1>2, <2>2, Zenon DEF Send
  <2>3. CASE PersistReceipt(d)
    BY <1>1, <1>2, <2>3, Zenon DEF PersistReceipt
  <2>4. CASE CancelDelivery(d)
    BY <1>1, <2>4 DEF CancelDelivery
  <2> QED
    BY <1>3, <2>1, <2>2, <2>3, <2>4
<1>4. ASSUME NEW d \in Deliverers, RegisterDelivery(d) PROVE OneDrain'
  <2>1. CASE Stopped(d) /\ UNCHANGED outbox
    BY <2>1, EndKeepsDrain DEF Stopped
  <2> QED
    BY <1>1, <1>2, <1>4, <2>1, Zenon DEF RegisterDelivery
<1>5. ASSUME NEW d \in Deliverers, NEW drain \in BOOLEAN, drain => deliverer[d].drain /\ ~deliverer[d].stopping,
             deliverer' = Entered(d, drain), UNCHANGED outbox
      PROVE  OneDrain'
  <2> DEFINE r == [pc |-> "gate", kind |-> DeliverKind, ver |-> bytes[DeliverKind],
                   fresh |-> delivered[DeliverKind] = Nothing, drain |-> drain, stopping |-> FALSE]
  <2>1. r \in Delivery /\ r.drain = drain /\ r.stopping = FALSE /\ r.pc = "gate"
    BY DEF Delivery, DeliverKind, Kinds, GatesInv, GatesTypeOK
  <2>2. deliverer' = [deliverer EXCEPT ![d] = r]
    BY <1>5, Zenon DEF Entered
  <2> HIDE DEF r
  <2>3. r.drain => deliverer[d].drain /\ r.stopping = deliverer[d].stopping
    BY <1>0, <1>5, <2>1 DEF Delivery
  <2> QED
    BY <1>5, <2>1, <2>2, <2>3, MoveKeepsDrain
<1>6. ASSUME NEW d \in Deliverers, Deliver(d) \/ DrainDelivers(d) \/ Acknowledge(d) PROVE OneDrain'
  <2>1. CASE Deliver(d)
    BY <1>5, <2>1 DEF Deliver
  <2>2. ASSUME At(d, "active") \/ At(d, "mark") PROVE deliverer[d].drain /\ ~deliverer[d].stopping
    BY <2>2 DEF At, OneDrain
  <2>3. CASE DrainDelivers(d)
    BY <1>1, <1>5, <2>2, <2>3 DEF DrainDelivers
  <2>4. CASE Acknowledge(d)
    BY <2>2, <2>4, EndKeepsDrain DEF Acknowledge, Stopped
  <2> QED
    BY <1>6, <2>1, <2>3, <2>4
<1>7. ASSUME NEW d \in Deliverers, Drain(d) PROVE OneDrain'
  <2>1. /\ \A e \in Deliverers : ~deliverer[e].drain
        /\ outbox # Nothing /\ outbox.status = "PENDING"
    BY <1>7 DEF Drain
  <2>2. CASE UNCHANGED deliverer
    BY <2>1, <2>2 DEF OneDrain
  <2>3. CASE deliverer' = [deliverer EXCEPT ![d].pc = "active", ![d].drain = TRUE] /\ UNCHANGED outbox
    <3>1. \A e \in Deliverers \ {d} : deliverer'[e] = deliverer[e]
      BY <2>3 DEF GatesInv, GatesTypeOK
    <3>2. deliverer'[d].drain
      BY <1>0, <2>3 DEF GatesInv, GatesTypeOK, Delivery
    <3> QED
      BY <2>1, <2>3, <3>1, <3>2 DEF OneDrain, Dispatchable
  <2> QED
    BY <1>7, <2>2, <2>3 DEF Drain
<1>8. ASSUME NEW d \in Deliverers, StopDeadline(d) PROVE OneDrain'
  <2>1. deliverer' = [deliverer EXCEPT ![d].stopping = TRUE] /\ deliverer[d].drain
    BY <1>8 DEF StopDeadline
  <2>2. /\ deliverer'[d].drain = deliverer[d].drain /\ deliverer'[d].stopping = TRUE /\ deliverer'[d].pc = deliverer[d].pc
        /\ \A e \in Deliverers \ {d} : deliverer'[e] = deliverer[e]
    BY <1>0, <2>1 DEF GatesInv, GatesTypeOK, Delivery
  <2> QED
    BY <2>1, <2>2 DEF OneDrain
<1>9. ASSUME UNCHANGED deliverer, outbox' # outbox => outbox = Nothing PROVE OneDrain'
  BY <1>9 DEF OneDrain, Dispatchable
<1>10. ASSUME NEW k \in Kinds, NEW text \in Texts,
              \/ Webhook(k, text) \/ ClaimReply(k) \/ SaveApproval(k) \/ AdvanceGate(k) \/ Reject(k)
              \/ PersistOutcome(k)
       PROVE  OneDrain'
  BY <1>9, <1>10 DEF Webhook, ClaimReply, SaveApproval, AdvanceGate, Reject, PersistOutcome, Enqueued
<1>11. ASSUME NEW p \in Publishers,
              \/ Authorize(p) \/ Upload(p) \/ PersistPublication(p) \/ MarkPublished(p)
              \/ RecoverPublication(p)
       PROVE  OneDrain'
  BY <1>9, <1>11 DEF Authorize, Upload, PersistPublication, MarkPublished, RecoverPublication
<1>12. CASE RecoverRender \/ RemakeThumbnail \/ PassFinalQA \/ Restart \/ UNCHANGED vars
  BY <1>9, <1>12 DEF RecoverRender, RemakeThumbnail, PassFinalQA, Restart, Repaired, Enqueued, vars
<1>13. CASE GatesCrash
  BY <1>13, NoDeliveryFacts DEF GatesCrash, OneDrain
<1>14. "approve" \in Texts
  BY DEF Texts
<1> QED
  BY <1>3, <1>4, <1>6, <1>7, <1>8, <1>10, <1>11, <1>12, <1>13, <1>14, Zenon DEF GatesNext

\* OneDrain holds of every reachable state.
LEMMA DrainInvariance == GatesSpec => []OneDrain
<1>1. GatesInit => OneDrain
  BY DEF GatesInit, OneDrain, NoDelivery
<1>2. GatesInv /\ OneDrain /\ [GatesNext]_vars => OneDrain'
  BY DrainStep
<1> QED
  BY <1>1, <1>2, GatesInvariance, PTL DEF GatesSpec

\* The attempt of a drain is made behind its lock, by a drain that is not cancelled.
LEMMA DrainSends ==
    ASSUME GatesInv, OneDrain, [GatesNext]_vars, NEW d \in Deliverers,
           deliverer[d].drain, deliverer[d].pc # "send", deliverer'[d].pc = "send"
    PROVE  Dispatchable
<1>0. deliverer \in [Deliverers -> Delivery] /\ NoDelivery.pc = "idle"
  BY NoDeliveryFacts DEF GatesInv, GatesTypeOK
<1>1. CASE EnterGate(d)
  BY <1>1 DEF EnterGate, At, OneDrain
<1>2. ASSUME NEW e \in Deliverers, e # d, NEW r, deliverer' = [deliverer EXCEPT ![e] = r] PROVE FALSE
  BY <1>0, <1>2
<1>3. ASSUME NEW e \in Deliverers, NEW r, deliverer' = [deliverer EXCEPT ![e] = r],
             r.pc # "send" \/ deliverer[e].pc = "send" PROVE FALSE
  BY <1>0, <1>3
<1>4. ASSUME NEW e \in Deliverers, Raise(e) PROVE FALSE
  BY <1>0, <1>3, <1>4 DEF Raise, Stopped
<1>5. ASSUME NEW e \in Deliverers, NEW l \in {"receipt", "register", "mark"}, Step(e, l) PROVE FALSE
  BY <1>0, <1>5 DEF Step, Delivery
<1>6. ASSUME NEW e \in Deliverers, e # d, EnterGate(e) PROVE FALSE
  BY <1>0, <1>4, <1>6 DEF EnterGate, Step
<1>7. ASSUME NEW e \in Deliverers,
             \/ Send(e) \/ PersistReceipt(e) \/ RegisterDelivery(e) \/ CancelDelivery(e) \/ Acknowledge(e)
      PROVE  FALSE
  <2>1. \/ Raise(e) \/ Stopped(e) \/ \E l \in {"receipt", "register", "mark"} : Step(e, l)
    BY <1>7 DEF Send, PersistReceipt, RegisterDelivery, CancelDelivery, Acknowledge
  <2> QED
    BY <1>0, <1>3, <1>4, <1>5, <2>1 DEF Stopped
<1>8. ASSUME NEW e \in Deliverers, NEW drain \in BOOLEAN, deliverer' = Entered(e, drain) PROVE FALSE
  BY <1>0, <1>8 DEF Entered
<1>9. ASSUME NEW e \in Deliverers, Deliver(e) \/ Drain(e) \/ DrainDelivers(e) \/ StopDeadline(e) PROVE FALSE
  <2>1. CASE Deliver(e)
    BY <1>8, <2>1 DEF Deliver
  <2>2. CASE Drain(e)
    BY <1>0, <2>2 DEF Drain, Delivery
  <2>3. CASE DrainDelivers(e)
    BY <1>4, <1>8, <2>3 DEF DrainDelivers
  <2>4. CASE StopDeadline(e)
    BY <1>0, <2>4 DEF StopDeadline, Delivery
  <2> QED
    BY <1>9, <2>1, <2>2, <2>3, <2>4
<1>10. ASSUME UNCHANGED deliverer PROVE FALSE
  BY <1>10
<1>11. ASSUME NEW k \in Kinds, NEW text \in Texts,
              \/ Webhook(k, text) \/ ClaimReply(k) \/ SaveApproval(k) \/ AdvanceGate(k) \/ Reject(k)
              \/ PersistOutcome(k)
       PROVE  FALSE
  BY <1>10, <1>11 DEF Webhook, ClaimReply, SaveApproval, AdvanceGate, Reject, PersistOutcome
<1>12. ASSUME NEW p \in Publishers,
              \/ Authorize(p) \/ Upload(p) \/ PersistPublication(p) \/ MarkPublished(p)
              \/ RecoverPublication(p)
       PROVE  FALSE
  BY <1>10, <1>12 DEF Authorize, Upload, PersistPublication, MarkPublished, RecoverPublication
<1>13. CASE RecoverRender \/ RemakeThumbnail \/ PassFinalQA \/ Restart \/ UNCHANGED vars
  BY <1>10, <1>13 DEF RecoverRender, RemakeThumbnail, PassFinalQA, Restart, vars
<1>14. CASE GatesCrash
  BY <1>0, <1>14 DEF GatesCrash
<1>15. "approve" \in Texts
  BY DEF Texts
<1> QED
  BY <1>1, <1>6, <1>7, <1>9, <1>11, <1>12, <1>13, <1>14, <1>15, Zenon DEF GatesNext

\* An outbox row leaves PENDING once, and says DELIVERED only of a video whose
\* receipt exists; and no drain makes an attempt under a row that is not PENDING,
\* for any number of deliverers (DeliverySessionRunner, DeliveryOutboxWorker.stop).
THEOREM RowsSettle == GatesSpec => OutboxSettles
<1> DEFINE Settles == outbox # Nothing /\ outbox' # outbox =>
                         /\ outbox.status = "PENDING"
                         /\ outbox'.status = "DELIVERED" => delivered["video"] # Nothing
<1>1. ASSUME GatesInv, [GatesNext]_vars PROVE [Settles]_vars
  <2> SUFFICES ASSUME outbox # Nothing, outbox' # outbox PROVE Settles
    OBVIOUS
  <2>1. ASSUME NEW d \in Deliverers, Raise(d) PROVE Settles
    BY <1>1, <2>1, MarkedFacts DEF Raise
  <2>2. ASSUME NEW d \in Deliverers,
               \/ EnterGate(d) \/ Send(d) \/ PersistReceipt(d) \/ RegisterDelivery(d)
               \/ DrainDelivers(d) \/ CancelDelivery(d)
        PROVE  Settles
    <3>1. Raise(d)
      BY <2>2 DEF EnterGate, Send, PersistReceipt, RegisterDelivery, DrainDelivers, CancelDelivery
    <3> QED
      BY <2>1, <3>1
  <2>3. ASSUME NEW d \in Deliverers, Deliver(d) \/ Drain(d) \/ StopDeadline(d)
        PROVE  Settles
    BY <1>1, <2>3, MarkedFacts DEF Deliver, Drain, StopDeadline
  <2>4. ASSUME NEW d \in Deliverers, Acknowledge(d) PROVE Settles
    <3>1. deliverer[d].kind = "video" => delivered["video"] # Nothing
      BY <1>1, <2>4 DEF Acknowledge, At, GatesInv, DeliverersKnow, Knows
    <3> QED
      BY <1>1, <2>4, <3>1, MarkedFacts DEF Acknowledge
  <2>5. ASSUME NEW k \in Kinds, PersistOutcome(k) PROVE FALSE
    BY <2>5 DEF PersistOutcome, Enqueued
  <2>6. CASE Restart
    BY <2>6 DEF Restart, Repaired, Enqueued
  <2>7. ASSUME NEW k \in Kinds, NEW text \in Texts,
               Webhook(k, text) \/ ClaimReply(k) \/ SaveApproval(k) \/ AdvanceGate(k) \/ Reject(k)
        PROVE  FALSE
    BY <2>7 DEF Webhook, ClaimReply, SaveApproval, AdvanceGate, Reject
  <2>8. ASSUME NEW p \in Publishers,
               \/ Authorize(p) \/ Upload(p) \/ PersistPublication(p) \/ MarkPublished(p)
               \/ RecoverPublication(p)
        PROVE  FALSE
    BY <2>8 DEF Authorize, Upload, PersistPublication, MarkPublished, RecoverPublication
  <2>9. CASE RecoverRender \/ RemakeThumbnail \/ PassFinalQA \/ GatesCrash \/ UNCHANGED vars
    BY <2>9 DEF RecoverRender, RemakeThumbnail, PassFinalQA, GatesCrash, vars
  <2>10. "approve" \in Texts
    BY DEF Texts
  <2> HIDE DEF Settles
  <2> QED
    BY <1>1, <2>2, <2>3, <2>4, <2>5, <2>6, <2>7, <2>8, <2>9, <2>10, Zenon DEF GatesNext
<1>2. GatesInv /\ OneDrain /\ [GatesNext]_vars =>
         [ /\ Settles
           /\ \A d \in Deliverers :
                 deliverer[d].drain /\ deliverer[d].pc # "send" /\ deliverer'[d].pc = "send" => Dispatchable ]_vars
  BY <1>1, DrainSends
<1> QED
  BY <1>2, GatesInvariance, DrainInvariance, PTL DEF GatesSpec, OutboxSettles
=============================================================================

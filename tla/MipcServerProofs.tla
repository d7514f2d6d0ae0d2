-------------------------- MODULE MipcServerProofs --------------------------
(***************************************************************************)
(* Proofs about ComponentServer (mipc.py): for every number of calls and of *)
(* workers no permit is lost, no call is answered twice, and a call left    *)
(* without an answer had no effect, the one with an unsendable error aside.  *)
(***************************************************************************)
EXTENDS MipcServer, FiniteSetTheorems, TLAPS

Elems(s) == {s[i] : i \in 1..Len(s)}

Injective(s) == \A i, j \in 1..Len(s) : s[i] = s[j] => i = j

(* What socket and executor queue do when a call joins at the end. *)
LEMMA JoinQueue ==
    ASSUME NEW s \in Seq(Calls), NEW c \in Calls
    PROVE  /\ Append(s, c) \in Seq(Calls)
           /\ Len(Append(s, c)) = Len(s) + 1
           /\ Elems(Append(s, c)) = Elems(s) \cup {c}
           /\ (Injective(s) /\ c \notin Elems(s)) => Injective(Append(s, c))
<1> DEFINE t == Append(s, c)
<1>1. /\ t \in Seq(Calls)
      /\ Len(t) = Len(s) + 1
      /\ \A i \in 1..Len(s) : t[i] = s[i]
      /\ t[Len(s) + 1] = c
  OBVIOUS
<1> HIDE DEF t
<1>2. Len(s) \in Nat
  OBVIOUS
<1>3. Elems(t) = Elems(s) \cup {c}
  BY <1>1, <1>2 DEF Elems
<1>4. ASSUME Injective(s), c \notin Elems(s)
      PROVE  Injective(t)
  BY <1>1, <1>2, <1>4 DEF Injective, Elems
<1> QED BY <1>1, <1>3, <1>4 DEF t

(* ... and when the first one is taken. *)
LEMMA LeaveQueue ==
    ASSUME NEW s \in Seq(Calls), s # << >>, Injective(s)
    PROVE  /\ Tail(s) \in Seq(Calls)
           /\ Len(Tail(s)) = Len(s) - 1
           /\ Head(s) \in Calls
           /\ Elems(s) = Elems(Tail(s)) \cup {Head(s)}
           /\ Head(s) \notin Elems(Tail(s))
           /\ Injective(Tail(s))
<1> DEFINE t == Tail(s)
           h == Head(s)
<1>1. /\ t \in Seq(Calls)
      /\ Len(s) \in Nat \ {0}
      /\ Len(t) = Len(s) - 1
      /\ \A i \in 1..Len(t) : t[i] = s[i + 1]
      /\ h = s[1]
      /\ h \in Calls
  OBVIOUS
<1> HIDE DEF t, h
<1>2. \A i \in 1..Len(t) : i + 1 \in 1..Len(s) /\ i + 1 # 1
  BY <1>1
<1>3. \A j \in 1..Len(s) : j = 1 \/ (j - 1 \in 1..Len(t) /\ t[j - 1] = s[j])
  BY <1>1
<1>4. 1 \in 1..Len(s)
  BY <1>1
<1>5. Elems(s) = Elems(t) \cup {h}
  <2>1. ASSUME NEW x \in Elems(s)
        PROVE  x \in Elems(t) \cup {h}
    <3>1. PICK j \in 1..Len(s) : x = s[j]
      BY <2>1 DEF Elems
    <3>2. CASE j = 1
      BY <3>1, <3>2, <1>1
    <3>3. CASE j - 1 \in 1..Len(t) /\ t[j - 1] = s[j]
      BY <3>1, <3>3 DEF Elems
    <3> QED BY <3>2, <3>3, <1>3
  <2>2. Elems(t) \cup {h} \subseteq Elems(s)
    BY <1>1, <1>2, <1>4 DEF Elems
  <2> QED BY <2>1, <2>2
<1>6. h \notin Elems(t)
  BY <1>1, <1>2, <1>4 DEF Elems, Injective
<1>7. Injective(t)
  <2> SUFFICES ASSUME NEW i \in 1..Len(t), NEW j \in 1..Len(t), t[i] = t[j]
               PROVE  i = j
    BY DEF Injective
  <2>1. s[i + 1] = s[j + 1] /\ i + 1 \in 1..Len(s) /\ j + 1 \in 1..Len(s)
    BY <1>1, <1>2
  <2>2. i + 1 = j + 1
    BY <2>1 DEF Injective
  <2> QED BY <2>2, <1>1
<1> QED BY <1>1, <1>5, <1>6, <1>7 DEF t, h

-----------------------------------------------------------------------------
(* The calls a worker holds. *)
Held == running \cup leaving

(* The calls that are somewhere between the socket and their reply. *)
Open == Elems(wire) \cup Elems(queue) \cup Held

(* A call is in one place at a time, and in none before it is sent. *)
OnePlace ==
    /\ Injective(wire) /\ Injective(queue)
    /\ Elems(wire) \cap Elems(queue) = {}
    /\ (Elems(wire) \cup Elems(queue)) \cap Held = {}
    /\ running \cap leaving = {}
    /\ Open \subseteq sent

(* Nothing open, and nothing not yet sent, has a reply. *)
Unanswered == \A c \in Calls : (c \in Open \/ c \notin sent) => replies[c] = 0

(* Permits are never invented; after the loop has ended they may be fewer,   *)
(* those of cancelled calls being gone.                                      *)
SlotsBounded == slots + Len(queue) + Cardinality(Held) <= Capacity

MipcInv ==
    /\ MipcTypeOK /\ SlotsBalanced /\ SlotsBounded
    /\ OnePlace /\ Unanswered /\ AtMostOneReply
    /\ SilentMeansUntouched

-----------------------------------------------------------------------------
(* The server starts with nothing in flight and every permit free. *)
LEMMA MipcInvInit == MipcInit => MipcInv
<1> SUFFICES ASSUME MipcInit PROVE MipcInv
  OBVIOUS
<1> USE MipcAssumption
<1>1. /\ wire = << >> /\ queue = << >> /\ running = {} /\ leaving = {}
      /\ slots = Capacity /\ touched = {} /\ unsendable = {} /\ Held = {}
      /\ replies = [c \in Calls |-> 0]
  BY DEF MipcInit, Held
<1>2. Elems(<< >>) = {} /\ Injective(<< >>) /\ Len(<< >>) = 0
  BY DEF Elems, Injective
<1>3. Cardinality(Held) = 0 /\ Capacity \in Nat /\ Workers \in Nat
  BY <1>1, FS_EmptySet DEF Capacity
<1>4. MipcTypeOK
  <2>1. {reading, broken} \subseteq BOOLEAN
    BY DEF MipcInit
  <2>2. << >> \in Seq(Calls)
    OBVIOUS
  <2> QED BY <1>1, <1>3, <2>1, <2>2 DEF MipcTypeOK, Held, MipcInit
<1>5. SlotsBalanced /\ SlotsBounded
  BY <1>1, <1>2, <1>3 DEF SlotsBalanced, SlotsBounded, Held
<1>6. OnePlace
  BY <1>1, <1>2 DEF OnePlace, Open
<1>7. Unanswered /\ AtMostOneReply /\ SilentMeansUntouched
  BY <1>1 DEF Unanswered, AtMostOneReply, SilentMeansUntouched
<1> QED BY <1>4, <1>5, <1>6, <1>7 DEF MipcInv

(* The numbers the permits are counted with. *)
LEMMA Counting ==
    ASSUME MipcTypeOK
    PROVE  /\ IsFiniteSet(Held) /\ Cardinality(Held) \in Nat
           /\ Cardinality(Held) <= Workers
           /\ Len(wire) \in Nat /\ Len(queue) \in Nat
           /\ Capacity \in Nat /\ Workers \in Nat /\ slots \in Nat
<1> USE MipcAssumption
<1>1. Held \subseteq Calls
  BY DEF MipcTypeOK, Held
<1>2. IsFiniteSet(Held)
  BY <1>1, FS_Subset
<1>3. Cardinality(Held) \in Nat
  BY <1>2, FS_CardinalityType
<1>4. Capacity \in Nat /\ Workers \in Nat
  BY DEF Capacity
<1> QED BY <1>2, <1>3, <1>4 DEF MipcTypeOK, Held

(* What one reply does to the history, to a peer that is there or not. *)
LEMMA AnswerOnce ==
    ASSUME MipcTypeOK, AtMostOneReply, NEW c \in Calls, replies[c] = 0, Answer(c)
    PROVE  /\ replies' \in [Calls -> Nat]
           /\ \A d \in Calls : d # c => replies'[d] = replies[d]
           /\ \A d \in Calls : replies'[d] <= 1
           /\ \A d \in Calls : replies[d] > 0 => replies'[d] > 0
           /\ ~broken => replies'[c] > 0
<1>1. replies \in [Calls -> Nat]
  BY DEF MipcTypeOK
<1>2. CASE broken
  BY <1>1, <1>2 DEF Answer, AtMostOneReply
<1>3. CASE ~broken
  BY <1>1, <1>3 DEF Answer, AtMostOneReply
<1> QED BY <1>2, <1>3

(* Every step of reader, workers, peer and clock preserves the invariant. *)
LEMMA MipcInvNext == MipcInv /\ [MipcNext]_mipcVars => MipcInv'
<1> SUFFICES ASSUME MipcInv, [MipcNext]_mipcVars PROVE MipcInv'
  OBVIOUS
<1> USE DEF MipcInv
<1>0. /\ IsFiniteSet(Held) /\ Cardinality(Held) \in Nat
      /\ Cardinality(Held) <= Workers
      /\ Len(wire) \in Nat /\ Len(queue) \in Nat
      /\ Capacity \in Nat /\ Workers \in Nat /\ slots \in Nat
  BY Counting
<1>1. CASE UNCHANGED mipcVars
  BY <1>1 DEF mipcVars, MipcTypeOK, SlotsBalanced, SlotsBounded, OnePlace, Unanswered,
     AtMostOneReply, SilentMeansUntouched, Held, Open, Capacity
<1>2. ASSUME NEW c \in Calls, Send(c)
      PROVE  MipcInv'
  <2>1. /\ Elems(wire') = Elems(wire) \cup {c} /\ wire' \in Seq(Calls)
        /\ Injective(wire')
    <3>1. c \notin Elems(wire)
      BY <1>2 DEF Send, OnePlace, Open
    <3> QED BY <1>2, <3>1, JoinQueue DEF Send, OnePlace, MipcTypeOK
  <2>2. MipcTypeOK'
    BY <1>2, <2>1 DEF Send, MipcTypeOK, Capacity
  <2>3. SlotsBalanced' /\ SlotsBounded'
    BY <1>2 DEF Send, SlotsBalanced, SlotsBounded, Held, Capacity
  <2>4. OnePlace'
    BY <1>2, <2>1 DEF Send, OnePlace, Open, Held
  <2>5. Unanswered' /\ AtMostOneReply'
    BY <1>2, <2>1 DEF Send, Unanswered, AtMostOneReply, Open, Held
  <2>6. SilentMeansUntouched'
    BY <1>2 DEF Send, SilentMeansUntouched
  <2> QED BY <2>2, <2>3, <2>4, <2>5, <2>6
<1>3. ASSUME NEW c \in Calls, Expire(c)
      PROVE  MipcInv'
  BY <1>3 DEF Expire, MipcTypeOK, SlotsBalanced, SlotsBounded, OnePlace, Unanswered,
     AtMostOneReply, SilentMeansUntouched, Held, Open, Capacity
<1>4. CASE PeerGoes
  BY <1>4 DEF PeerGoes, MipcTypeOK, SlotsBalanced, SlotsBounded, OnePlace,
     Unanswered, AtMostOneReply, SilentMeansUntouched, Held, Open, Capacity
<1>5. CASE Accept
  <2> DEFINE h == Head(wire)
  <2>1. /\ wire' \in Seq(Calls) /\ Injective(wire') /\ h \in Calls
        /\ Elems(wire) = Elems(wire') \cup {h} /\ h \notin Elems(wire')
    BY <1>5, LeaveQueue DEF Accept, OnePlace, MipcTypeOK
  <2> HIDE DEF h
  <2>2. h \in sent /\ replies[h] = 0 /\ h \notin Elems(queue) /\ h \notin Held
    BY <2>1 DEF OnePlace, Open, Unanswered
  <2>3. UNCHANGED <<running, leaving, reading, broken, expired, sent, touched,
                  unsendable>>
    BY <1>5 DEF Accept
  <2>4. Held' = Held
    BY <2>3 DEF Held
  <2>5. CASE Refuse(h)
    <3>1. Answer(h) /\ UNCHANGED <<queue, slots>>
      BY <2>5 DEF Refuse
    <3>2. /\ replies' \in [Calls -> Nat]
          /\ \A d \in Calls : d # h => replies'[d] = replies[d]
          /\ \A d \in Calls : replies'[d] <= 1
          /\ \A d \in Calls : replies[d] > 0 => replies'[d] > 0
      BY <2>1, <2>2, <3>1, AnswerOnce
    <3>3. MipcTypeOK'
      BY <2>1, <2>3, <3>1, <3>2 DEF MipcTypeOK, Capacity
    <3>4. SlotsBalanced' /\ SlotsBounded'
      BY <2>3, <2>4, <3>1 DEF SlotsBalanced, SlotsBounded, Held, Capacity
    <3>5. OnePlace'
      BY <2>1, <2>3, <2>4, <3>1 DEF OnePlace, Open
    <3>6. Unanswered' /\ AtMostOneReply'
      BY <2>1, <2>2, <2>3, <2>4, <3>1, <3>2 DEF Unanswered, AtMostOneReply, Open
    <3>7. SilentMeansUntouched'
      BY <2>3, <3>2 DEF SilentMeansUntouched, MipcTypeOK
    <3> QED BY <3>3, <3>4, <3>5, <3>6, <3>7
  <2>6. CASE Admit(h)
    <3>1. slots > 0 /\ slots' = slots - 1 /\ UNCHANGED replies
      BY <2>6 DEF Admit
    <3>2. /\ queue' \in Seq(Calls) /\ Injective(queue')
          /\ Len(queue') = Len(queue) + 1
          /\ Elems(queue') = Elems(queue) \cup {h}
      BY <2>1, <2>2, <2>6, JoinQueue DEF Admit, OnePlace, MipcTypeOK
    <3>3. MipcTypeOK'
      BY <1>0, <2>1, <2>3, <3>1, <3>2 DEF MipcTypeOK, Capacity
    <3>4. SlotsBalanced' /\ SlotsBounded'
      BY <1>0, <2>3, <2>4, <3>1, <3>2
         DEF SlotsBalanced, SlotsBounded, Held, Capacity
    <3>5. OnePlace'
      BY <2>1, <2>2, <2>3, <2>4, <3>2 DEF OnePlace, Open
    <3>6. Unanswered' /\ AtMostOneReply'
      BY <2>1, <2>3, <2>4, <3>1, <3>2 DEF Unanswered, AtMostOneReply, Open
    <3>7. SilentMeansUntouched'
      BY <2>3, <3>1 DEF SilentMeansUntouched
    <3> QED BY <3>3, <3>4, <3>5, <3>6, <3>7
  <2> QED BY <1>5, <2>5, <2>6 DEF Accept, h
<1>6. CASE ServerStops
  <2>1. Elems(queue') = {} /\ Injective(queue') /\ Len(queue') = 0
        /\ queue' \in Seq(Calls)
    BY <1>6 DEF ServerStops, Elems, Injective
  <2>2. MipcTypeOK'
    BY <1>6, <2>1 DEF ServerStops, MipcTypeOK, Capacity
  <2>3. SlotsBalanced' /\ SlotsBounded'
    BY <1>0, <1>6, <2>1 DEF ServerStops, SlotsBalanced, SlotsBounded, Held, Capacity
  <2>4. OnePlace'
    BY <1>6, <2>1 DEF ServerStops, OnePlace, Open, Held
  <2>5. Unanswered' /\ AtMostOneReply'
    BY <1>6, <2>1 DEF ServerStops, Unanswered, AtMostOneReply, Open, Held
  <2>6. SilentMeansUntouched'
    BY <1>6 DEF ServerStops, SilentMeansUntouched
  <2> QED BY <2>2, <2>3, <2>4, <2>5, <2>6
<1>7. CASE Dispatch
  <2> DEFINE h == Head(queue)
  <2>1. /\ queue' \in Seq(Calls) /\ Injective(queue') /\ h \in Calls
        /\ Len(queue') = Len(queue) - 1
        /\ Elems(queue) = Elems(queue') \cup {h} /\ h \notin Elems(queue')
    BY <1>7, LeaveQueue DEF Dispatch, OnePlace, MipcTypeOK
  <2> HIDE DEF h
  <2>2. h \in sent /\ replies[h] = 0 /\ h \notin Elems(wire) /\ h \notin Held
    BY <2>1 DEF OnePlace, Open, Unanswered
  <2>3. /\ UNCHANGED <<wire, leaving, reading, broken, expired, sent, touched,
                     unsendable>>
        /\ Cardinality(Held) < Workers
        /\ Len(queue') \in Nat
    BY <1>7, <2>1 DEF Dispatch, Held
  <2>4. CASE Reject(h)
    <3>1. Answer(h) /\ slots' = slots + 1 /\ UNCHANGED running
      BY <2>4 DEF Reject
    <3>2. /\ replies' \in [Calls -> Nat]
          /\ \A d \in Calls : d # h => replies'[d] = replies[d]
          /\ \A d \in Calls : replies'[d] <= 1
          /\ \A d \in Calls : replies[d] > 0 => replies'[d] > 0
      BY <2>1, <2>2, <3>1, AnswerOnce
    <3>3. Held' = Held
      BY <2>3, <3>1 DEF Held
    <3>4. SlotsBalanced' /\ SlotsBounded'
      BY <1>0, <2>1, <2>3, <3>1, <3>3
         DEF SlotsBalanced, SlotsBounded, Held, Capacity
    <3>5. slots' \in 0..Capacity
      BY <1>0, <2>3, <3>1, <3>3, <3>4 DEF SlotsBounded, Capacity
    <3>6. MipcTypeOK'
      BY <2>1, <2>3, <3>1, <3>2, <3>5 DEF MipcTypeOK, Capacity
    <3>7. OnePlace'
      BY <2>1, <2>3, <3>1, <3>3 DEF OnePlace, Open
    <3>8. Unanswered' /\ AtMostOneReply'
      BY <2>1, <2>2, <2>3, <3>2, <3>3 DEF Unanswered, AtMostOneReply, Open
    <3>9. SilentMeansUntouched'
      BY <2>3, <3>1, <3>2 DEF SilentMeansUntouched, MipcTypeOK
    <3> QED BY <3>4, <3>6, <3>7, <3>8, <3>9
  <2>5. CASE Handle(h)
    <3>1. running' = running \cup {h} /\ UNCHANGED <<slots, replies>>
      BY <2>5 DEF Handle
    <3>2. Held' = Held \cup {h}
      BY <2>3, <3>1 DEF Held
    <3>3. Cardinality(Held') = Cardinality(Held) + 1
      BY <1>0, <2>2, <3>2, FS_AddElement
    <3>4. SlotsBalanced' /\ SlotsBounded'
      BY <1>0, <2>1, <2>3, <3>1, <3>3
         DEF SlotsBalanced, SlotsBounded, Held, Capacity
    <3>5. Cardinality((running \cup leaving)') <= Workers
      BY <1>0, <2>3, <3>3 DEF Held
    <3>6. MipcTypeOK'
      BY <2>1, <2>3, <3>1, <3>5 DEF MipcTypeOK, Capacity
    <3>7. OnePlace'
      BY <2>1, <2>2, <2>3, <3>1, <3>2 DEF OnePlace, Open, Held
    <3>8. Unanswered' /\ AtMostOneReply'
      BY <2>1, <2>3, <3>1, <3>2 DEF Unanswered, AtMostOneReply, Open
    <3>9. SilentMeansUntouched'
      BY <2>3, <3>1 DEF SilentMeansUntouched
    <3> QED BY <3>4, <3>6, <3>7, <3>8, <3>9
  <2> QED BY <1>7, <2>4, <2>5 DEF Dispatch, h
<1>8. ASSUME NEW c \in Calls, HandlerEnds(c)
      PROVE  MipcInv'
  <2>1. Held' = Held /\ Open' = Open
    BY <1>8 DEF HandlerEnds, Held, Open
  <2>2. MipcTypeOK'
    BY <1>8, <2>1 DEF HandlerEnds, MipcTypeOK, Capacity, Held
  <2>3. SlotsBalanced' /\ SlotsBounded'
    BY <1>8, <2>1 DEF HandlerEnds, SlotsBalanced, SlotsBounded, Held, Capacity
  <2>4. OnePlace'
    BY <1>8, <2>1 DEF HandlerEnds, OnePlace
  <2>5. Unanswered' /\ AtMostOneReply'
    BY <1>8, <2>1 DEF HandlerEnds, Unanswered, AtMostOneReply
  <2>6. SilentMeansUntouched'
    BY <1>8, <2>1 DEF HandlerEnds, SilentMeansUntouched, Held
  <2> QED BY <2>2, <2>3, <2>4, <2>5, <2>6
<1>9. ASSUME NEW c \in Calls, Respond(c)
      PROVE  MipcInv'
  <2>1. /\ c \in leaving /\ leaving' = leaving \ {c}
        /\ slots' = slots + 1
        /\ UNCHANGED <<wire, queue, running, reading, broken, expired, sent,
                       touched>>
    BY <1>9 DEF Respond
  <2>2. replies[c] = 0 /\ c \in Held /\ c \in sent /\ c \notin running
    BY <2>1 DEF Unanswered, Open, Held, OnePlace
  <2>3. /\ replies' \in [Calls -> Nat]
        /\ \A d \in Calls : d # c => replies'[d] = replies[d]
        /\ \A d \in Calls : replies'[d] <= 1
        /\ \A d \in Calls : replies[d] > 0 => replies'[d] > 0
        /\ unsendable' \subseteq Calls /\ unsendable \subseteq unsendable'
        /\ ~broken => replies'[c] > 0 \/ c \in unsendable'
    <3>1. CASE Answer(c) /\ UNCHANGED unsendable
      BY <3>1, <2>2, AnswerOnce DEF MipcTypeOK
    <3>2. CASE unsendable' = unsendable \cup {c} /\ UNCHANGED replies
      BY <3>2, <2>2 DEF MipcTypeOK, AtMostOneReply
    <3> QED BY <1>9, <3>1, <3>2 DEF Respond
  <2>4. Held' = Held \ {c}
    BY <2>1, <2>2 DEF Held
  <2>5. Cardinality(Held') = Cardinality(Held) - 1 /\ Cardinality(Held') \in Nat
    <3>1. Cardinality(Held') = Cardinality(Held) - 1
      BY <1>0, <2>2, <2>4, FS_RemoveElement
    <3>2. IsFiniteSet(Held')
      BY <1>0, <2>4, FS_RemoveElement
    <3> QED BY <3>1, <3>2, FS_CardinalityType
  <2>6. SlotsBalanced' /\ SlotsBounded'
    BY <1>0, <2>1, <2>5 DEF SlotsBalanced, SlotsBounded, Held, Capacity
  <2>7. slots' \in 0..Capacity /\ Cardinality((running \cup leaving)') <= Workers
    BY <1>0, <2>1, <2>5, <2>6 DEF SlotsBounded, Held, Capacity
  <2>8. MipcTypeOK'
    BY <2>1, <2>3, <2>7 DEF MipcTypeOK, Capacity
  <2>9. OnePlace'
    BY <2>1, <2>4 DEF OnePlace, Open
  <2>10. Unanswered' /\ AtMostOneReply'
    BY <2>1, <2>2, <2>3, <2>4 DEF Unanswered, AtMostOneReply, Open, OnePlace
  <2>11. SilentMeansUntouched'
    BY <2>1, <2>3 DEF SilentMeansUntouched, MipcTypeOK
  <2> QED BY <2>6, <2>8, <2>9, <2>10, <2>11
<1> QED
  BY <1>1, <1>2, <1>3, <1>4, <1>5, <1>6, <1>7, <1>8, <1>9 DEF MipcNext, Work

LEMMA MipcInvariant == MipcSpec => []MipcInv
BY MipcInvInit, MipcInvNext, PTL DEF MipcSpec

-----------------------------------------------------------------------------
(* The state of the server keeps its types; no more handlers run at a time   *)
(* than the pool has workers, and _slots never leaves 0 .. 2 * workers, which *)
(* is what keeps release() of the bounded semaphore from raising.            *)
THEOREM MipcTyped == MipcSpec => []MipcTypeOK
<1>1. MipcInv => MipcTypeOK
  BY DEF MipcInv
<1> QED BY <1>1, MipcInvariant, PTL

(* While the reader runs, free permits, queued calls and calls in a worker   *)
(* add up to the capacity: no path through _accept and _dispatch loses a     *)
(* permit or returns one twice.                                              *)
THEOREM PermitsNeverLeak == MipcSpec => []SlotsBalanced
<1>1. MipcInv => SlotsBalanced
  BY DEF MipcInv
<1> QED BY <1>1, MipcInvariant, PTL

(* HAL_BUSY, an early error and the handler's answer exclude each other: no  *)
(* call is answered twice, whatever shutdown cancels.                        *)
THEOREM OneReply == MipcSpec => []AtMostOneReply
<1>1. MipcInv => AtMostOneReply
  BY DEF MipcInv
<1> QED BY <1>1, MipcInvariant, PTL

(* With the peer still there, a call that had an effect has its reply, is    *)
(* still in a worker's hands or got an error whose details no packet can     *)
(* carry (mipc.py:223), also after the loop has ended.                       *)
THEOREM SilentCallsUntouched == MipcSpec => []SilentMeansUntouched
<1>1. MipcInv => SilentMeansUntouched
  BY DEF MipcInv
<1> QED BY <1>1, MipcInvariant, PTL
=============================================================================

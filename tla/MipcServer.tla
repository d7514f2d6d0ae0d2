----------------------------- MODULE MipcServer -----------------------------
(***************************************************************************)
(* ComponentServer of mipc.py: one reader thread takes packets off the      *)
(* component's socket and admits calls against a bounded semaphore, a       *)
(* thread pool works them off, and every call gets its reply from whoever   *)
(* finishes with it.  What a handler does is left open.                     *)
(***************************************************************************)
EXTENDS Integers, Sequences, FiniteSets

CONSTANTS Calls,    \* call packets, each with its own id
          Workers   \* size of the thread pool

ASSUME MipcAssumption == IsFiniteSet(Calls) /\ Workers \in Nat \ {0}

VARIABLES wire,     \* packets on the socket, oldest first
          queue,    \* submitted calls no worker has taken
          running,  \* calls whose handler runs
          leaving,  \* calls whose handler has ended
          slots,    \* free permits of _slots
          reading,  \* run() is in its loop
          broken,   \* the peer has gone: sends raise
          expired,  \* calls whose deadline_ms has passed
          sent,     \* history: the calls made
          touched,  \* history: the calls whose handler had an effect
          replies,  \* history: replies sent per call
          unsendable  \* history: calls whose error reply could not be encoded

mipcVars == <<wire, queue, running, leaving, slots, reading, broken, expired,
              sent, touched, replies, unsendable>>

Capacity == Workers * 2

MipcTypeOK ==
    /\ wire \in Seq(Calls) /\ queue \in Seq(Calls)
    /\ running \subseteq Calls /\ leaving \subseteq Calls
    /\ Cardinality(running \cup leaving) <= Workers
    /\ slots \in 0 .. Capacity
    /\ {reading, broken} \subseteq BOOLEAN
    /\ expired \subseteq Calls /\ sent \subseteq Calls
    /\ touched \subseteq Calls /\ unsendable \subseteq Calls
    /\ replies \in [Calls -> Nat]

MipcInit ==
    /\ wire = << >> /\ queue = << >>
    /\ running = {} /\ leaving = {}
    /\ slots = Capacity
    /\ reading = TRUE /\ broken = FALSE
    /\ expired = {} /\ sent = {} /\ touched = {} /\ unsendable = {}
    /\ replies = [c \in Calls |-> 0]

(* transport.send; to a peer that has gone it raises *)
Answer(c) ==
    replies' = IF broken THEN replies ELSE [replies EXCEPT ![c] = @ + 1]

-----------------------------------------------------------------------------
(* The peer and the clock. *)

Send(c) ==
    /\ c \notin sent /\ ~broken
    /\ sent' = sent \cup {c}
    /\ wire' = Append(wire, c)
    /\ UNCHANGED <<queue, running, leaving, slots, reading, broken, expired,
                   touched, replies, unsendable>>

Expire(c) ==
    /\ c \in sent \ expired
    /\ expired' = expired \cup {c}
    /\ UNCHANGED <<wire, queue, running, leaving, slots, reading, broken, sent,
                   touched, replies, unsendable>>

PeerGoes ==
    /\ ~broken
    /\ broken' = TRUE
    /\ UNCHANGED <<wire, queue, running, leaving, slots, reading, expired,
                   sent, touched, replies, unsendable>>

-----------------------------------------------------------------------------
(* The reader. *)

(* Slip: the refusal is sent and the call submitted all the same. *)
RefuseAndSubmit(c) ==
    /\ slots = 0 /\ ~broken
    /\ Answer(c)
    /\ queue' = Append(queue, c)
    /\ UNCHANGED slots

(* HAL_BUSY *)
Refuse(c) ==
    /\ slots = 0 /\ ~broken
    /\ Answer(c)
    /\ UNCHANGED <<queue, slots>>

(* Slip: a call is submitted without looking at the semaphore. *)
AdmitAlways(c) ==
    /\ slots' = slots - 1
    /\ queue' = Append(queue, c)
    /\ UNCHANGED replies

Admit(c) ==
    /\ slots > 0
    /\ slots' = slots - 1
    /\ queue' = Append(queue, c)
    /\ UNCHANGED replies

Accept ==
    /\ reading /\ wire # << >>
    /\ wire' = Tail(wire)
    /\ Refuse(Head(wire)) \/ Admit(Head(wire))
    /\ UNCHANGED <<running, leaving, reading, broken, expired, sent, touched,
                   unsendable>>

(* eof, a shutdown packet, one that cannot be decoded, or a refusal that     *)
(* cannot be sent ends the loop; shutdown(cancel_futures=True) drops what no *)
(* worker has taken, its permits included.                                   *)
ServerStops ==
    /\ reading
    /\ reading' = FALSE
    /\ queue' = << >>
    /\ UNCHANGED <<wire, running, leaving, slots, broken, expired, sent,
                   touched, replies, unsendable>>

-----------------------------------------------------------------------------
(* The workers: _dispatch. *)

(* Slip: the early error path does not give its permit back. *)
RejectHolding(c) ==
    /\ Answer(c)
    /\ UNCHANGED <<running, slots>>

(* The deadline has passed, or the envelope is not valid: an error, at once. *)
Reject(c) ==
    /\ Answer(c)
    /\ slots' = slots + 1
    /\ UNCHANGED running

Handle(c) ==
    /\ c \notin expired
    /\ running' = running \cup {c}
    /\ UNCHANGED <<slots, replies>>

Dispatch ==
    /\ queue # << >>
    /\ Cardinality(running \cup leaving) < Workers
    /\ queue' = Tail(queue)
    /\ Reject(Head(queue)) \/ Handle(Head(queue))
    /\ UNCHANGED <<wire, leaving, reading, broken, expired, sent, touched,
                   unsendable>>

(* The handler returns or raises, with or without an effect behind it. *)
HandlerEnds(c) ==
    /\ c \in running
    /\ running' = running \ {c}
    /\ leaving' = leaving \cup {c}
    /\ touched' \in {touched, touched \cup {c}}
    /\ UNCHANGED <<wire, queue, slots, reading, broken, expired, sent, replies,
                   unsendable>>

(* Slip: an exception that is no HalError is logged and not answered. *)
RespondOrLog(c) ==
    /\ c \in leaving
    /\ leaving' = leaving \ {c}
    /\ Answer(c) \/ UNCHANGED replies
    /\ slots' = slots + 1
    /\ UNCHANGED <<wire, queue, running, reading, broken, expired, sent,
                   touched, unsendable>>

(* A result, a typed error or HAL_INTERNAL_ERROR.  The details of a typed    *)
(* error are not bounded: when they are too deep, too many or too large,      *)
(* encode_packet raises inside the except block and nothing is sent.  The     *)
(* permit is given back in any case.                                          *)
Respond(c) ==
    /\ c \in leaving
    /\ leaving' = leaving \ {c}
    /\ \/ Answer(c) /\ UNCHANGED unsendable
       \/ unsendable' = unsendable \cup {c} /\ UNCHANGED replies
    /\ slots' = slots + 1
    /\ UNCHANGED <<wire, queue, running, reading, broken, expired, sent,
                   touched>>

Work == Dispatch \/ \E c \in Calls : HandlerEnds(c) \/ Respond(c)

MipcNext ==
    \/ Accept \/ ServerStops \/ Work \/ PeerGoes
    \/ \E c \in Calls : Send(c) \/ Expire(c)

MipcSpec == MipcInit /\ [][MipcNext]_mipcVars

(* The reader reads, the pool takes work, every handler ends. *)
MipcFairness ==
    /\ WF_mipcVars(Accept) /\ WF_mipcVars(Dispatch)
    /\ \A c \in Calls :
         WF_mipcVars(HandlerEnds(c)) /\ WF_mipcVars(Respond(c))

-----------------------------------------------------------------------------
(* No permit of _slots is lost or invented while the reader runs, whatever   *)
(* path a call takes through _accept and _dispatch: a leak would end in      *)
(* HAL_BUSY for everybody.                                                   *)
SlotsBalanced ==
    reading => slots + Len(queue) + Cardinality(running \cup leaving) = Capacity

(* A caller never gets two replies to one call. *)
AtMostOneReply == \A c \in Calls : replies[c] <= 1

(* A call that went unanswered and that no worker holds had no effect, so    *)
(* repeating it is safe, shutdown included, as long as the peer is there to  *)
(* be answered.  The one way out is an error reply whose details do not fit  *)
(* into a packet (mipc.py:223): that call may have touched the hardware and  *)
(* its caller hears nothing.                                                 *)
SilentMeansUntouched ==
    ~broken => \A c \in touched :
        replies[c] > 0 \/ c \in running \cup leaving \cup unsendable

(* Every call sent is answered (a result, an error or HAL_BUSY) unless the   *)
(* server stops, the peer goes or the error reply cannot be encoded.         *)
EveryCallAnswered ==
    \A c \in Calls : (c \in sent) ~>
        (replies[c] > 0 \/ ~reading \/ broken \/ c \in unsendable)
=============================================================================

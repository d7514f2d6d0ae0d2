---------------------------- MODULE EventJournal ----------------------------
(***************************************************************************)
(* The change journal of the HAL manager: the revision counter, the bounded *)
(* deque of events behind it and the long-polling watch clients that follow *)
(* it.  Every step below is one critical section of manager.py's _condition; *)
(* what happens between two of them is free to interleave.                  *)
(***************************************************************************)
EXTENDS Naturals, Sequences, FiniteSets

CONSTANTS Domains,      \* hardware domains
          Watchers,     \* watch clients, each with one outstanding call
          Filter,       \* the "domains" argument each client sends; {} = all
          JournalCap,   \* deque(maxlen=256)
          PageCap,      \* entries one watch reply carries (128)
          Resume,       \* where a client resumes: "revision" or "lastEvent"
          MaxRevision,  \* bound: events recorded by one manager process
          MaxRestarts   \* bound: manager restarts

ASSUME JournalAssumption ==
    /\ Filter \in [Watchers -> SUBSET Domains]
    /\ JournalCap \in Nat \ {0}
    /\ PageCap \in Nat \ {0}
    /\ Resume \in {"revision", "lastEvent"}
    /\ MaxRevision \in Nat
    /\ MaxRestarts \in Nat
    /\ "all" \notin Domains

VARIABLES revision,   \* _revision
          journal,    \* _journal, oldest entry first
          stopped,    \* _stop
          pc,         \* where each client's watch call is
          after,      \* the after_revision each client will send next
          log,        \* history: the domain of every event since the start
          covered,    \* history: the events each client was given or told of
          boot,       \* history: the process each client last synchronised with
          restarts

vars == <<revision, journal, stopped, pc, after, log, covered, boot, restarts>>

EventDomains == Domains \cup {"all"}

Event == [revision : Nat \ {0}, domain : EventDomains]

TypeOK ==
    /\ revision \in Nat
    /\ journal \in Seq(Event)
    /\ stopped \in BOOLEAN
    /\ pc \in [Watchers -> {"idle", "asleep", "awake"}]
    /\ after \in [Watchers -> Nat]
    /\ log \in Seq(EventDomains)
    /\ covered \in [Watchers -> SUBSET (Nat \ {0})]
    /\ boot \in [Watchers -> Nat]
    /\ restarts \in Nat

Init ==
    /\ revision = 0
    /\ journal = << >>
    /\ stopped = FALSE
    /\ pc = [w \in Watchers |-> "idle"]
    /\ after = [w \in Watchers |-> 0]
    /\ log = << >>
    /\ covered = [w \in Watchers |-> {}]
    /\ boot = [w \in Watchers |-> 0]
    /\ restarts = 0

-----------------------------------------------------------------------------
(* The journal and what watch computes from it. *)

(* Slip: the deque has no maxlen. *)
PushUnbounded(q, e) == Append(q, e)

(* deque.append: at maxlen the oldest entry falls off. *)
Push(q, e) == IF Len(q) < JournalCap THEN Append(q, e) ELSE Append(Tail(q), e)

(* Slip: waiters are not notified and sleep until their deadline. *)
NotifyNone == pc

(* notify_all: every waiter will run its loop again. *)
NotifyAll == [w \in Watchers |-> IF pc[w] = "asleep" THEN "awake" ELSE pc[w]]

Oldest == IF journal # << >> THEN journal[1].revision ELSE revision + 1

(* Slip: the caller is one event further behind before it is told. *)
NeedsResyncLate(w) == after[w] + 2 < Oldest

NeedsResync(w) == after[w] + 1 < Oldest

Wanted(w, d) == Filter[w] = {} \/ d = "all" \/ d \in Filter[w]

(* Revisions of the journal entries a call of w selects. *)
Matching(w) ==
    {journal[i].revision : i \in {k \in 1..Len(journal) :
        journal[k].revision > after[w] /\ Wanted(w, journal[k].domain)}}

(* The leading PageCap entries of the selection. *)
Page(w) ==
    {r \in Matching(w) :
        Cardinality({s \in Matching(w) : s <= r}) <= PageCap}

(* Slip: the client is told to resume one revision too early. *)
NextAfterEarly(w) == revision - 1

(* Where the client resumes after the reply: at the reply's revision, or at *)
(* the last entry the reply carries.  A resync makes both reload everything. *)
NextAfter(w) ==
    IF Resume = "revision" \/ NeedsResync(w) \/ Page(w) = {}
    THEN revision
    ELSE CHOOSE r \in Page(w) : \A s \in Page(w) : s <= r

Reply(w) ==
    /\ pc' = [pc EXCEPT ![w] = "idle"]
    /\ after' = [after EXCEPT ![w] = NextAfter(w)]
    /\ covered' = [covered EXCEPT ![w] =
                     IF NeedsResync(w) THEN 1..revision ELSE @ \cup Page(w)]
    /\ boot' = [boot EXCEPT ![w] = IF NeedsResync(w) THEN restarts ELSE @]

MustReply(w) == stopped \/ NeedsResync(w) \/ Matching(w) # {}

-----------------------------------------------------------------------------
(* A client reads a revision from any other reply and follows from there. *)
Subscribe(w) ==
    /\ pc[w] = "idle"
    /\ after' = [after EXCEPT ![w] = revision]
    /\ covered' = [covered EXCEPT ![w] = 1..revision]
    /\ boot' = [boot EXCEPT ![w] = restarts]
    /\ UNCHANGED <<revision, journal, stopped, pc, log, restarts>>

(* watch: timed is timeout_ms > 0.  An untimed call never waits. *)
Watch(w, timed) ==
    /\ pc[w] = "idle"
    /\ \/ /\ ~timed \/ MustReply(w)
          /\ Reply(w)
       \/ /\ timed
          /\ ~MustReply(w)
          /\ pc' = [pc EXCEPT ![w] = "asleep"]
          /\ UNCHANGED <<after, covered, boot>>
    /\ UNCHANGED <<revision, journal, stopped, log, restarts>>

(* A notified waiter reacquires the lock and runs the loop once more. *)
Wake(w) ==
    /\ pc[w] = "awake"
    /\ \/ MustReply(w) /\ Reply(w)
       \/ /\ ~MustReply(w)
          /\ pc' = [pc EXCEPT ![w] = "asleep"]
          /\ UNCHANGED <<after, covered, boot>>
    /\ UNCHANGED <<revision, journal, stopped, log, restarts>>

(* The deadline passes while the call waits. *)
Timeout(w) ==
    /\ pc[w] # "idle"
    /\ Reply(w)
    /\ UNCHANGED <<revision, journal, stopped, log, restarts>>

(* _append_event_locked, whoever records the event. *)
AppendEvent(d) ==
    /\ revision < MaxRevision
    /\ revision' = revision + 1
    /\ journal' = Push(journal, [revision |-> revision + 1, domain |-> d])
    /\ log' = Append(log, d)
    /\ pc' = NotifyAll
    /\ UNCHANGED <<stopped, after, covered, boot, restarts>>

Stop ==
    /\ ~stopped
    /\ stopped' = TRUE
    /\ pc' = NotifyAll
    /\ UNCHANGED <<revision, journal, after, log, covered, boot, restarts>>

(* The process ends, at any point, and a new one starts with an empty        *)
(* journal.  Outstanding calls fail; the clients keep their cursors.         *)
Restart ==
    /\ restarts < MaxRestarts
    /\ restarts' = restarts + 1
    /\ revision' = 0
    /\ journal' = << >>
    /\ stopped' = FALSE
    /\ pc' = [w \in Watchers |-> "idle"]
    /\ log' = << >>
    /\ covered' = [w \in Watchers |-> {}]
    /\ UNCHANGED <<after, boot>>

Next ==
    \/ \E w \in Watchers : \/ Subscribe(w)
                           \/ \E timed \in BOOLEAN : Watch(w, timed)
                           \/ Wake(w)
                           \/ Timeout(w)
    \/ \E d \in EventDomains : AppendEvent(d)
    \/ Stop
    \/ Restart

Spec == Init /\ [][Next]_vars

(* Only the wake-up of a notified thread is guaranteed: nothing here relies *)
(* on a deadline ever passing.                                              *)
JournalFairness == \A w \in Watchers : WF_vars(Wake(w))

-----------------------------------------------------------------------------
(* The deque always holds exactly the most recent events, contiguous and    *)
(* ending at the current revision (manager.py _append_event_locked), which  *)
(* is what lets watch decide from the oldest entry alone whether a caller   *)
(* fell behind.                                                             *)
JournalIsSuffix ==
    /\ revision = Len(log)
    /\ Len(journal) = IF revision < JournalCap THEN revision ELSE JournalCap
    /\ \A i \in 1..Len(journal) :
         LET r == revision - Len(journal) + i
         IN  journal[i].revision = r /\ journal[i].domain = log[r]

(* No event of w's domains lies behind its cursor unaccounted for. *)
GapFree(w) ==
    \A i \in 1..Len(log) :
        (i <= after[w] /\ Wanted(w, log[i])) => i \in covered[w]

(* A client's cursor never passes an event of its domains that it was       *)
(* neither given nor told, by resync, to reload (manager.py watch), as long *)
(* as the cursor was issued by the running manager process.                 *)
NoSilentGap == \A w \in Watchers : boot[w] = restarts => GapFree(w)

(* A waiting watch call that has something to say, or whose manager stops,   *)
(* returns because it is notified and not because its deadline passes       *)
(* (notify_all in _append_event_locked and in stop).                        *)
WatchersAreWoken ==
    \A w \in Watchers :
        (pc[w] # "idle" /\ MustReply(w)) ~> pc[w] = "idle"

=============================================================================

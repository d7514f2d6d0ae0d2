------------------------ MODULE EventJournalProofs ------------------------
(***************************************************************************)
(* The deque of the manager is the end of the event history, and a watch    *)
(* client that resumes at the last event it was given has no silent gap,    *)
(* for any number of clients and domains and any capacities.                *)
(***************************************************************************)
EXTENDS EventJournal, FiniteSetTheorems, WellFoundedInduction, TLAPS

(* Append keeps the entries there are and adds one at the end. *)
LEMMA AppendEntries ==
    ASSUME NEW S, NEW q \in Seq(S), NEW x \in S
    PROVE  /\ Append(q, x) \in Seq(S)
           /\ Len(Append(q, x)) = Len(q) + 1
           /\ \A i \in 1..Len(q) : Append(q, x)[i] = q[i]
           /\ Append(q, x)[Len(q) + 1] = x
OBVIOUS

(* deque.append yields a sequence of events again. *)
LEMMA PushType ==
    ASSUME NEW q \in Seq(Event), NEW e \in Event
    PROVE  Push(q, e) \in Seq(Event)
BY JournalAssumption DEF Push

(* An append keeps the deque the end of the history: it drops an entry only  *)
(* when the history has outgrown the deque.                                  *)
LEMMA AppendKeepsSuffix ==
    ASSUME TypeOK, JournalIsSuffix, NEW d \in EventDomains, AppendEvent(d)
    PROVE  JournalIsSuffix'
<1> DEFINE e == [revision |-> revision + 1, domain |-> d]
<1>1. /\ revision \in Nat /\ journal \in Seq(Event) /\ log \in Seq(EventDomains)
      /\ revision' = revision + 1
      /\ journal' = Push(journal, e)
      /\ log' = Append(log, d)
      /\ e \in Event
      /\ JournalCap \in Nat \ {0}
  BY JournalAssumption DEF TypeOK, AppendEvent, Event
<1>2. /\ revision = Len(log)
      /\ Len(journal) = IF revision < JournalCap THEN revision ELSE JournalCap
      /\ \A i \in 1..Len(journal) :
            /\ journal[i].revision = revision - Len(journal) + i
            /\ journal[i].domain = log[revision - Len(journal) + i]
  BY DEF JournalIsSuffix
<1>0. revision \in Nat /\ revision' = revision + 1 /\ JournalCap \in Nat \ {0}
  BY <1>1
<1>b. journal \in Seq(Event) /\ e \in Event
  BY <1>1
<1>c. e.revision = revision + 1 /\ e.domain = d
  OBVIOUS
<1> HIDE DEF e
<1>a. /\ Len(log') = Len(log) + 1
      /\ \A i \in 1..Len(log) : log'[i] = log[i]
      /\ log'[Len(log) + 1] = d
  BY <1>1, AppendEntries
<1>3. Len(log') = revision'
  BY <1>a, <1>0, <1>2
<1>4. CASE revision < JournalCap
  <2>1. Len(journal) = revision /\ journal' = Append(journal, e)
    BY <1>1, <1>2, <1>4 DEF Push
  <2>a. /\ Len(journal') = Len(journal) + 1
        /\ \A i \in 1..Len(journal) : journal'[i] = journal[i]
        /\ journal'[Len(journal) + 1] = e
    BY <1>b, <2>1, AppendEntries
  <2>2. Len(journal') = revision + 1
    BY <2>1, <2>a
  <2>3. ASSUME NEW i \in 1..(revision + 1)
        PROVE  journal'[i].revision = i /\ journal'[i].domain = log'[i]
    <3>1. CASE i \in 1..revision
      <4>1. journal'[i] = journal[i]
        BY <2>1, <2>a, <3>1
      <4>2. log'[i] = log[i]
        BY <1>a, <1>2, <3>1
      <4>3. revision - Len(journal) + i = i
        BY <1>0, <2>1, <3>1
      <4>4. journal[i].revision = i /\ journal[i].domain = log[i]
        BY <1>2, <2>1, <3>1, <4>3
      <4> QED BY <4>1, <4>2, <4>4
    <3>2. CASE i = revision + 1
      <4>1. journal'[i] = e
        BY <2>1, <2>a, <3>2
      <4>2. log'[i] = d
        BY <1>a, <1>2, <3>2
      <4> QED BY <1>c, <4>1, <4>2, <3>2
    <3> QED BY <1>0, <2>3, <3>1, <3>2
  <2>4. ASSUME NEW i \in 1..(revision + 1)
        PROVE  revision' - Len(journal') + i = i
    BY <1>0, <2>4, <2>2
  <2>5. \A i \in 1..Len(journal') :
           LET r == revision' - Len(journal') + i
           IN  journal'[i].revision = r /\ journal'[i].domain = log'[r]
    BY <2>2, <2>3, <2>4
  <2>6. Len(journal')
          = IF revision' < JournalCap THEN revision' ELSE JournalCap
    BY <1>1, <1>4, <2>2
  <2> QED BY <1>3, <2>5, <2>6 DEF JournalIsSuffix
<1>5. CASE ~(revision < JournalCap)
  <2>1. Len(journal) = JournalCap /\ journal' = Append(Tail(journal), e)
    BY <1>1, <1>2, <1>5 DEF Push
  <2>2. /\ Tail(journal) \in Seq(Event)
        /\ Len(Tail(journal)) = JournalCap - 1
        /\ \A i \in 1..(JournalCap - 1) : Tail(journal)[i] = journal[i + 1]
    BY <1>1, <2>1
  <2>a. /\ Len(journal') = Len(Tail(journal)) + 1
        /\ \A i \in 1..Len(Tail(journal)) : journal'[i] = Tail(journal)[i]
        /\ journal'[Len(Tail(journal)) + 1] = e
    BY <1>b, <2>1, <2>2, AppendEntries
  <2>3. Len(journal') = JournalCap
    BY <1>0, <2>2, <2>a
  <2>4. ASSUME NEW i \in 1..JournalCap
        PROVE  LET r == revision + 1 - JournalCap + i IN
               journal'[i].revision = r /\ journal'[i].domain = log'[r]
    <3>1. CASE i \in 1..(JournalCap - 1)
      <4>1. journal'[i] = journal[i + 1]
        BY <2>2, <2>a, <3>1
      <4>2. i + 1 \in 1..Len(journal)
        BY <1>1, <2>1, <3>1
      <4>3. /\ journal[i + 1].revision = revision - JournalCap + (i + 1)
            /\ journal[i + 1].domain = log[revision - JournalCap + (i + 1)]
        BY <1>2, <2>1, <4>2
      <4>4. revision + 1 - JournalCap + i = revision - JournalCap + (i + 1)
        BY <1>1, <3>1
      <4>5. revision - JournalCap + (i + 1) \in 1..Len(log)
        BY <1>1, <1>2, <1>5, <3>1
      <4>6. log'[revision - JournalCap + (i + 1)]
              = log[revision - JournalCap + (i + 1)]
        BY <1>a, <4>5
      <4> QED BY <4>1, <4>3, <4>4, <4>6
    <3>2. CASE i = JournalCap
      <4>1. journal'[i] = e
        BY <1>0, <2>2, <2>a, <3>2
      <4>2. revision + 1 - JournalCap + i = revision + 1
        BY <1>1, <3>2
      <4>3. log'[revision + 1] = d
        BY <1>a, <1>2
      <4> QED BY <1>c, <4>1, <4>2, <4>3
    <3> QED BY <1>0, <2>4, <3>1, <3>2
  <2>5. ASSUME NEW i \in 1..JournalCap
        PROVE  revision' - Len(journal') + i = revision + 1 - JournalCap + i
    BY <1>0, <2>5, <2>3
  <2>6. \A i \in 1..Len(journal') :
           LET r == revision' - Len(journal') + i
           IN  journal'[i].revision = r /\ journal'[i].domain = log'[r]
    BY <2>3, <2>4, <2>5
  <2>7. Len(journal')
          = IF revision' < JournalCap THEN revision' ELSE JournalCap
    BY <1>1, <1>5, <2>3
  <2> QED BY <1>3, <2>6, <2>7 DEF JournalIsSuffix
<1> QED BY <1>1, <1>4, <1>5

(* A non-empty set of naturals has a least element ... *)
LEMMA LeastNatural ==
    ASSUME NEW T \in SUBSET Nat, T # {}
    PROVE  \E x \in T : \A y \in T : x <= y
<1> DEFINE R == OpToRel(<, Nat)
<1>1. PICK x \in T : \A y \in T : ~(<<y, x>> \in R)
  <2>1. IsWellFoundedOn(R, Nat)
    BY NatLessThanWellFounded
  <2> HIDE DEF R
  <2> QED BY <2>1, WFMin
<1>2. \A y \in T : ~(y < x)
  BY <1>1 DEF OpToRel
<1> QED BY <1>2

(* ... and a bounded one a greatest. *)
LEMMA GreatestNatural ==
    ASSUME NEW T \in SUBSET Nat, T # {}, NEW n \in Nat, \A y \in T : y <= n
    PROVE  \E x \in T : \A y \in T : y <= x
<1> DEFINE U == {k \in Nat : \E y \in T : k = n - y}
<1>1. U \in SUBSET Nat /\ U # {}
  <2>1. PICK y \in T : TRUE
    OBVIOUS
  <2>2. n - y \in U
    BY <2>1
  <2> QED BY <2>2
<1>2. PICK k \in U : \A j \in U : k <= j
  <2> HIDE DEF U
  <2> QED BY <1>1, LeastNatural
<1>3. PICK x \in T : k = n - x
  BY <1>2
<1>4. ASSUME NEW y \in T PROVE y <= x
  <2>1. n - y \in U
    OBVIOUS
  <2>2. k <= n - y
    BY <1>2, <2>1
  <2>3. n \in Nat /\ x \in Nat /\ y \in Nat
    OBVIOUS
  <2> QED BY <1>3, <2>2, <2>3
<1> QED BY <1>4

-----------------------------------------------------------------------------
(* What watch selects lies in the history. *)
LEMMA MatchingBounds ==
    ASSUME TypeOK, JournalIsSuffix, NEW w \in Watchers
    PROVE  Matching(w) \subseteq 1..revision
<1>1. /\ revision \in Nat /\ Len(journal) \in Nat
      /\ Len(journal) <= revision
  <2>1. revision \in Nat /\ journal \in Seq(Event) /\ JournalCap \in Nat
    BY JournalAssumption DEF TypeOK
  <2>2. Len(journal) = IF revision < JournalCap THEN revision ELSE JournalCap
    BY DEF JournalIsSuffix
  <2> QED BY <2>1, <2>2
<1>2. ASSUME NEW i \in 1..Len(journal)
      PROVE  journal[i].revision \in 1..revision
  <2>1. journal[i].revision = revision - Len(journal) + i
    BY DEF JournalIsSuffix
  <2> QED BY <1>1, <2>1
<1> QED BY <1>2 DEF Matching

(* Unless it asks for a resync, watch selects every wanted event after the    *)
(* cursor: none has fallen off the deque.                                     *)
LEMMA MatchingComplete ==
    ASSUME TypeOK, JournalIsSuffix, NEW w \in Watchers, ~NeedsResync(w),
           NEW i \in 1..Len(log), i > after[w], Wanted(w, log[i])
    PROVE  i \in Matching(w)
<1>1. /\ revision \in Nat /\ after[w] \in Nat /\ Len(journal) \in Nat
      /\ revision = Len(log) /\ Len(journal) <= revision
  <2>1. /\ revision \in Nat /\ journal \in Seq(Event) /\ after[w] \in Nat
        /\ JournalCap \in Nat
    BY JournalAssumption DEF TypeOK
  <2>2. /\ Len(journal) = IF revision < JournalCap THEN revision ELSE JournalCap
        /\ revision = Len(log)
    BY DEF JournalIsSuffix
  <2> QED BY <2>1, <2>2
<1>2. Oldest <= after[w] + 1
  <2>1. Oldest \in Nat
    <3>1. CASE journal = << >>
      BY <1>1, <3>1 DEF Oldest
    <3>2. CASE journal # << >>
      <4>1. 1 \in 1..Len(journal) /\ journal \in Seq(Event)
        BY <3>2 DEF TypeOK
      <4>2. journal[1] \in Event
        BY <4>1
      <4> QED BY <3>2, <4>2 DEF Oldest, Event
    <3> QED BY <3>1, <3>2
  <2> QED BY <1>1, <2>1 DEF NeedsResync
<1>3. Oldest = revision - Len(journal) + 1
  <2>1. CASE journal = << >>
    <3>1. Len(journal) = 0
      BY <2>1
    <3> QED BY <1>1, <2>1, <3>1 DEF Oldest
  <2>2. CASE journal # << >>
    <3>1. 1 \in 1..Len(journal)
      BY <2>2 DEF TypeOK
    <3>2. journal[1].revision = revision - Len(journal) + 1
      BY <3>1 DEF JournalIsSuffix
    <3> QED BY <2>2, <3>2 DEF Oldest
  <2> QED BY <2>1, <2>2
<1> DEFINE k == i - (revision - Len(journal))
<1>4. k \in 1..Len(journal) /\ revision - Len(journal) + k = i
  BY <1>1, <1>2, <1>3
<1>5. journal[k].revision = i /\ journal[k].domain = log[i]
  <2> HIDE DEF k
  <2> QED BY <1>4 DEF JournalIsSuffix
<1> HIDE DEF k
<1> QED BY <1>4, <1>5 DEF Matching

(* A reply carries the leading entries of the selection. *)
LEMMA PageIsPrefix ==
    ASSUME TypeOK, JournalIsSuffix, NEW w \in Watchers,
           NEW m \in Page(w), NEW i \in Matching(w), i <= m
    PROVE  i \in Page(w)
<1> DEFINE UpTo(r) == {s \in Matching(w) : s <= r}
<1>1. /\ Matching(w) \subseteq 1..revision /\ revision \in Nat
      /\ m \in Matching(w) /\ Cardinality(UpTo(m)) <= PageCap
      /\ PageCap \in Nat
  BY MatchingBounds, JournalAssumption DEF Page, TypeOK
<1>2. IsFiniteSet(UpTo(m))
  <2>1. IsFiniteSet(1..revision)
    BY <1>1, FS_Interval
  <2>2. UpTo(m) \in SUBSET (1..revision)
    BY <1>1
  <2> HIDE DEF UpTo
  <2> QED BY <2>1, <2>2, FS_Subset
<1>3. UpTo(i) \in SUBSET UpTo(m)
  BY <1>1
<1>4. Cardinality(UpTo(i)) <= Cardinality(UpTo(m)) /\ IsFiniteSet(UpTo(i))
  <2> HIDE DEF UpTo
  <2> QED BY <1>2, <1>3, FS_Subset
<1>5. Cardinality(UpTo(i)) \in Nat /\ Cardinality(UpTo(m)) \in Nat
  <2> HIDE DEF UpTo
  <2> QED BY <1>2, <1>4, FS_CardinalityType
<1>6. Cardinality(UpTo(i)) <= PageCap
  BY <1>1, <1>4, <1>5
<1> QED BY <1>6 DEF Page

(* A reply is empty only when nothing was selected. *)
LEMMA PageNotEmpty ==
    ASSUME TypeOK, JournalIsSuffix, NEW w \in Watchers, Matching(w) # {}
    PROVE  Page(w) # {}
<1>1. Matching(w) \subseteq 1..revision /\ revision \in Nat /\ PageCap >= 1
  BY MatchingBounds, JournalAssumption DEF TypeOK
<1>2. PICK x \in Matching(w) : \A y \in Matching(w) : x <= y
  <2>1. Matching(w) \in SUBSET Nat
    BY <1>1
  <2> QED BY <2>1, LeastNatural
<1>3. {s \in Matching(w) : s <= x} = {x}
  BY <1>1, <1>2
<1>4. Cardinality({s \in Matching(w) : s <= x}) = 1
  BY <1>3, FS_Singleton
<1> QED BY <1>1, <1>2, <1>4, JournalAssumption DEF Page

(* The cursor a reply leads to is a revision of the history. *)
LEMMA NextAfterBound ==
    ASSUME TypeOK, JournalIsSuffix, NEW w \in Watchers
    PROVE  /\ NextAfter(w) \in Nat /\ NextAfter(w) <= revision
           /\ (Resume = "lastEvent" /\ ~NeedsResync(w) /\ Page(w) # {})
                => NextAfter(w) \in Page(w)
<1>1. revision \in Nat /\ Page(w) \subseteq 1..revision
  BY MatchingBounds DEF TypeOK, Page
<1>2. CASE Resume = "revision" \/ NeedsResync(w) \/ Page(w) = {}
  BY <1>1, <1>2 DEF NextAfter
<1>3. CASE ~(Resume = "revision" \/ NeedsResync(w) \/ Page(w) = {})
  <2>1. \E x \in Page(w) : \A y \in Page(w) : y <= x
    <3>1. Page(w) \in SUBSET Nat /\ \A y \in Page(w) : y <= revision
      BY <1>1
    <3> QED BY <1>1, <1>3, <3>1, GreatestNatural
  <2>2. NextAfter(w) = CHOOSE r \in Page(w) : \A s \in Page(w) : s <= r
    BY <1>3 DEF NextAfter
  <2>3. NextAfter(w) \in Page(w)
    BY <2>1, <2>2
  <2> QED BY <1>1, <2>3
<1> QED BY <1>2, <1>3

(* A client that resumes at the last entry it was given passes no wanted      *)
(* event that the reply does not carry.                                       *)
LEMMA ReplyIsComplete ==
    ASSUME TypeOK, JournalIsSuffix, Resume = "lastEvent",
           NEW w \in Watchers, ~NeedsResync(w),
           NEW i \in 1..Len(log), i > after[w], i <= NextAfter(w),
           Wanted(w, log[i])
    PROVE  i \in Page(w)
<1>1. i \in Matching(w)
  BY MatchingComplete
<1>2. Page(w) # {}
  BY <1>1, PageNotEmpty
<1>3. NextAfter(w) \in Page(w)
  BY <1>2, NextAfterBound
<1> QED BY <1>1, <1>3, PageIsPrefix

-----------------------------------------------------------------------------
(* A cursor the running process issued is not ahead of its journal. *)
CursorsBehind ==
    \A w \in Watchers :
        boot[w] <= restarts /\ (boot[w] = restarts => after[w] <= revision)

(* A reply, whatever ends the call, keeps the cursors typed and behind. *)
LEMMA ReplyKeepsCursors ==
    ASSUME TypeOK, JournalIsSuffix, CursorsBehind, NEW w \in Watchers, Reply(w),
           UNCHANGED <<revision, journal, stopped, log, restarts>>
    PROVE  TypeOK' /\ JournalIsSuffix' /\ CursorsBehind'
<1>1. NextAfter(w) \in Nat /\ NextAfter(w) <= revision
  BY NextAfterBound
<1>2. Page(w) \subseteq Nat \ {0} /\ 1..revision \subseteq Nat \ {0}
  BY MatchingBounds DEF Page, TypeOK
<1>3. JournalIsSuffix'
  BY DEF JournalIsSuffix
<1>4. pc' \in [Watchers -> {"idle", "asleep", "awake"}]
  BY DEF Reply, TypeOK
<1>5. after' \in [Watchers -> Nat]
  BY <1>1 DEF Reply, TypeOK
<1>6. covered' \in [Watchers -> SUBSET (Nat \ {0})]
  BY <1>2 DEF Reply, TypeOK
<1>7. boot' \in [Watchers -> Nat]
  BY DEF Reply, TypeOK
<1>8. TypeOK'
  BY <1>4, <1>5, <1>6, <1>7 DEF TypeOK
<1>9. ASSUME NEW v \in Watchers
      PROVE  (boot[v] <= restarts /\ (boot[v] = restarts => after[v] <= revision))'
  <2>1. CASE v = w
    <3>1. after'[v] = NextAfter(w) /\ boot'[v] \in {boot[v], restarts}
      BY <2>1 DEF Reply, TypeOK
    <3>2. boot[v] <= restarts /\ restarts \in Nat
      BY DEF CursorsBehind, TypeOK
    <3> QED BY <1>1, <3>1, <3>2
  <2>2. CASE v # w
    <3>1. after'[v] = after[v] /\ boot'[v] = boot[v]
      BY <2>2 DEF Reply, TypeOK
    <3> QED BY <3>1 DEF CursorsBehind
  <2> QED BY <2>1, <2>2
<1> QED BY <1>3, <1>8, <1>9 DEF CursorsBehind

(* The inductive invariant behind the typing and the suffix property: the     *)
(* type of a cursor depends on what watch selects, and that on the deque.     *)
JournalInv == TypeOK /\ JournalIsSuffix /\ CursorsBehind

(* A new HalManager starts with an empty deque at revision 0. *)
LEMMA JournalInvInit == Init => JournalInv
<1> SUFFICES ASSUME Init PROVE JournalInv
  OBVIOUS
<1>1. TypeOK
  <2>1. journal \in Seq(Event) /\ log \in Seq(EventDomains)
    BY DEF Init
  <2> QED BY <2>1 DEF Init, TypeOK
<1>2. JournalIsSuffix
  <2>1. Len(log) = 0 /\ Len(journal) = 0 /\ revision = 0
    BY DEF Init
  <2> QED BY <2>1, JournalAssumption DEF JournalIsSuffix
<1>3. CursorsBehind
  BY DEF Init, CursorsBehind
<1> QED BY <1>1, <1>2, <1>3 DEF JournalInv

(* Every critical section of _condition keeps the invariant. *)
LEMMA JournalInvNext == JournalInv /\ [Next]_vars => JournalInv'
<1> SUFFICES ASSUME JournalInv, [Next]_vars PROVE JournalInv'
  OBVIOUS
<1>0. TypeOK /\ JournalIsSuffix /\ CursorsBehind
  BY DEF JournalInv
<1>1. ASSUME NEW w \in Watchers, Subscribe(w) PROVE JournalInv'
  <2>1. JournalIsSuffix'
    BY <1>0, <1>1 DEF Subscribe, JournalIsSuffix
  <2>2. TypeOK'
    <3>1. revision \in Nat /\ 1..revision \subseteq Nat \ {0} /\ restarts \in Nat
      BY <1>0 DEF TypeOK
    <3> QED BY <1>0, <1>1, <3>1 DEF Subscribe, TypeOK
  <2>3. CursorsBehind'
    BY <1>0, <1>1 DEF Subscribe, CursorsBehind, TypeOK
  <2> QED BY <2>1, <2>2, <2>3 DEF JournalInv
<1>2. ASSUME NEW w \in Watchers, Reply(w),
             UNCHANGED <<revision, journal, stopped, log, restarts>>
      PROVE  JournalInv'
  BY <1>0, <1>2, ReplyKeepsCursors DEF JournalInv
<1>3. ASSUME NEW w \in Watchers, pc' = [pc EXCEPT ![w] = "asleep"],
             UNCHANGED <<revision, journal, stopped, after, log, covered, boot,
                         restarts>>
      PROVE  JournalInv'
  BY <1>0, <1>3 DEF JournalInv, TypeOK, JournalIsSuffix, CursorsBehind
<1>4. ASSUME NEW w \in Watchers, NEW timed \in BOOLEAN, Watch(w, timed)
      PROVE  JournalInv'
  <2>1. CASE Reply(w)
    BY <1>2, <1>4, <2>1 DEF Watch
  <2>2. CASE ~Reply(w)
    BY <1>3, <1>4, <2>2 DEF Watch
  <2> QED BY <2>1, <2>2
<1>5. ASSUME NEW w \in Watchers, Wake(w) PROVE JournalInv'
  <2>1. CASE Reply(w)
    BY <1>2, <1>5, <2>1 DEF Wake
  <2>2. CASE ~Reply(w)
    BY <1>3, <1>5, <2>2 DEF Wake
  <2> QED BY <2>1, <2>2
<1>6. ASSUME NEW w \in Watchers, Timeout(w) PROVE JournalInv'
  BY <1>2, <1>6 DEF Timeout
<1>7. ASSUME NEW d \in EventDomains, AppendEvent(d) PROVE JournalInv'
  <2>1. JournalIsSuffix'
    BY <1>0, <1>7, AppendKeepsSuffix
  <2>2. [revision |-> revision + 1, domain |-> d] \in Event
    BY <1>0 DEF TypeOK, Event
  <2>3. journal' \in Seq(Event)
    BY <1>0, <1>7, <2>2, PushType DEF AppendEvent, TypeOK
  <2>4. pc' \in [Watchers -> {"idle", "asleep", "awake"}]
    BY <1>0, <1>7 DEF AppendEvent, NotifyAll, TypeOK
  <2>5. TypeOK'
    BY <1>0, <1>7, <2>3, <2>4 DEF AppendEvent, TypeOK
  <2>6. CursorsBehind'
    BY <1>0, <1>7 DEF AppendEvent, CursorsBehind, TypeOK
  <2> QED BY <2>1, <2>5, <2>6 DEF JournalInv
<1>8. ASSUME Stop PROVE JournalInv'
  BY <1>0, <1>8
     DEF Stop, NotifyAll, JournalInv, TypeOK, JournalIsSuffix, CursorsBehind
<1>9. ASSUME Restart PROVE JournalInv'
  <2>1. TypeOK'
    <3>1. journal' \in Seq(Event) /\ log' \in Seq(EventDomains)
      BY <1>9 DEF Restart
    <3>2. pc' \in [Watchers -> {"idle", "asleep", "awake"}]
      BY <1>9 DEF Restart
    <3>3. covered' \in [Watchers -> SUBSET (Nat \ {0})]
      BY <1>9 DEF Restart
    <3>4. /\ revision' \in Nat /\ restarts' \in Nat
          /\ after' \in [Watchers -> Nat] /\ boot' \in [Watchers -> Nat]
      BY <1>0, <1>9 DEF Restart, TypeOK
    <3>5. stopped' \in BOOLEAN
      BY <1>9 DEF Restart
    <3> QED BY <3>1, <3>2, <3>3, <3>4, <3>5 DEF TypeOK
  <2>2. JournalIsSuffix'
    <3>1. Len(log') = 0 /\ Len(journal') = 0 /\ revision' = 0
      BY <1>9 DEF Restart
    <3> QED BY <3>1, JournalAssumption DEF JournalIsSuffix
  <2>3. CursorsBehind'
    <3>1. ASSUME NEW w \in Watchers PROVE boot'[w] < restarts'
      BY <1>0, <1>9 DEF Restart, CursorsBehind, TypeOK
    <3>2. restarts' \in Nat /\ boot' \in [Watchers -> Nat]
      BY <2>1 DEF TypeOK
    <3> QED BY <3>1, <3>2 DEF CursorsBehind
  <2> QED BY <2>1, <2>2, <2>3 DEF JournalInv
<1>10. ASSUME UNCHANGED vars PROVE JournalInv'
  BY <1>0, <1>10 DEF vars, JournalInv, TypeOK, JournalIsSuffix, CursorsBehind
<1> QED BY <1>1, <1>4, <1>5, <1>6, <1>7, <1>8, <1>9, <1>10 DEF Next

(* The variables of the journal always have their types (manager.py           *)
(* HalManager.__init__, watch): in particular the cursor a reply hands out    *)
(* always exists.                                                             *)
THEOREM JournalTyped == Spec => []TypeOK
BY JournalInvInit, JournalInvNext, PTL DEF Spec, JournalInv

(* The deque is the end of the history of events (manager.py                  *)
(* _append_event_locked), for every capacity.                                 *)
THEOREM JournalSuffix == Spec => []JournalIsSuffix
BY JournalInvInit, JournalInvNext, PTL DEF Spec, JournalInv

-----------------------------------------------------------------------------
(* A reply leaves no gap behind the new cursor. *)
LEMMA ReplyKeepsNoGap ==
    ASSUME JournalInv, NoSilentGap, Resume = "lastEvent",
           NEW w \in Watchers, Reply(w),
           UNCHANGED <<revision, journal, stopped, log, restarts>>
    PROVE  NoSilentGap'
<1> SUFFICES ASSUME NEW v \in Watchers, boot'[v] = restarts'
             PROVE  GapFree(v)'
  BY DEF NoSilentGap
<1>0. TypeOK /\ JournalIsSuffix
  BY DEF JournalInv
<1> SUFFICES ASSUME NEW i \in 1..Len(log), i <= after'[v], Wanted(v, log[i])
             PROVE  i \in covered'[v]
  BY DEF GapFree, Wanted
<1>1. CASE v # w
  <2>1. after'[v] = after[v] /\ covered'[v] = covered[v] /\ boot[v] = restarts
    BY <1>0, <1>1 DEF Reply, TypeOK
  <2> QED BY <2>1 DEF NoSilentGap, GapFree
<1>2. CASE v = w /\ NeedsResync(w)
  <2>1. covered'[v] = 1..revision
    BY <1>0, <1>2 DEF Reply, TypeOK
  <2>2. revision = Len(log)
    BY <1>0 DEF JournalIsSuffix
  <2> QED BY <2>1, <2>2
<1>3. CASE v = w /\ ~NeedsResync(w)
  <2>1. /\ after'[v] = NextAfter(w) /\ covered'[v] = covered[w] \cup Page(w)
        /\ boot[w] = restarts
    BY <1>0, <1>3 DEF Reply, TypeOK
  <2>2. CASE i <= after[w]
    BY <1>3, <2>1, <2>2 DEF NoSilentGap, GapFree
  <2>3. CASE i > after[w]
    <3>1. i \in Page(w)
      BY <1>0, <1>3, <2>1, <2>3, ReplyIsComplete
    <3> QED BY <2>1, <3>1
  <2>4. after[w] \in Nat /\ i \in Nat
    BY <1>0 DEF TypeOK
  <2> QED BY <2>2, <2>3, <2>4
<1> QED BY <1>1, <1>2, <1>3

(* No step takes the cursor of a client that resumes at the last entry it    *)
(* was given past an event it does not know of.                              *)
LEMMA NoGapNext ==
    ASSUME Resume = "lastEvent"
    PROVE  JournalInv /\ NoSilentGap /\ [Next]_vars => NoSilentGap'
<1> SUFFICES ASSUME JournalInv, NoSilentGap, [Next]_vars PROVE NoSilentGap'
  OBVIOUS
<1>0. TypeOK /\ JournalIsSuffix /\ CursorsBehind
  BY DEF JournalInv
<1>1. ASSUME NEW w \in Watchers, Subscribe(w) PROVE NoSilentGap'
  <2> SUFFICES ASSUME NEW v \in Watchers, boot'[v] = restarts',
                      NEW i \in 1..Len(log), i <= after'[v], Wanted(v, log[i])
               PROVE  i \in covered'[v]
    BY <1>1 DEF NoSilentGap, GapFree, Wanted, Subscribe
  <2>1. CASE v = w
    <3>1. covered'[v] = 1..revision
      BY <1>0, <1>1, <2>1 DEF Subscribe, TypeOK
    <3>2. revision = Len(log)
      BY <1>0 DEF JournalIsSuffix
    <3> QED BY <3>1, <3>2
  <2>2. CASE v # w
    <3>1. after'[v] = after[v] /\ covered'[v] = covered[v] /\ boot[v] = restarts
      BY <1>0, <1>1, <2>2 DEF Subscribe, TypeOK
    <3> QED BY <3>1 DEF NoSilentGap, GapFree
  <2> QED BY <2>1, <2>2
<1>2. ASSUME NEW w \in Watchers, Reply(w),
             UNCHANGED <<revision, journal, stopped, log, restarts>>
      PROVE  NoSilentGap'
  BY <1>2, ReplyKeepsNoGap
<1>3. ASSUME UNCHANGED <<after, log, covered, boot, restarts>>
      PROVE  NoSilentGap'
  BY <1>3 DEF NoSilentGap, GapFree, Wanted
<1>4. ASSUME NEW w \in Watchers, NEW timed \in BOOLEAN, Watch(w, timed)
      PROVE  NoSilentGap'
  <2>1. CASE Reply(w)
    BY <1>2, <1>4, <2>1 DEF Watch
  <2>2. CASE ~Reply(w)
    BY <1>3, <1>4, <2>2 DEF Watch
  <2> QED BY <2>1, <2>2
<1>5. ASSUME NEW w \in Watchers, Wake(w) PROVE NoSilentGap'
  <2>1. CASE Reply(w)
    BY <1>2, <1>5, <2>1 DEF Wake
  <2>2. CASE ~Reply(w)
    BY <1>3, <1>5, <2>2 DEF Wake
  <2> QED BY <2>1, <2>2
<1>6. ASSUME NEW w \in Watchers, Timeout(w) PROVE NoSilentGap'
  BY <1>2, <1>6 DEF Timeout
<1>7. ASSUME NEW d \in EventDomains, AppendEvent(d) PROVE NoSilentGap'
  <2> SUFFICES ASSUME NEW v \in Watchers, boot[v] = restarts,
                      NEW i \in 1..Len(log'), i <= after[v],
                      Wanted(v, log'[i])
               PROVE  i \in covered[v]
    BY <1>7 DEF NoSilentGap, GapFree, Wanted, AppendEvent
  <2>1. /\ revision \in Nat /\ log \in Seq(EventDomains) /\ revision = Len(log)
        /\ after[v] \in Nat /\ after[v] <= revision /\ log' = Append(log, d)
    BY <1>0, <1>7 DEF TypeOK, JournalIsSuffix, CursorsBehind, AppendEvent
  <2>2. i \in 1..Len(log)
    BY <2>1
  <2>3. log'[i] = log[i]
    BY <2>1, <2>2
  <2> QED BY <2>2, <2>3 DEF NoSilentGap, GapFree
<1>8. ASSUME Stop PROVE NoSilentGap'
  BY <1>3, <1>8 DEF Stop
<1>9. ASSUME Restart PROVE NoSilentGap'
  <2>1. ASSUME NEW w \in Watchers PROVE boot'[w] # restarts'
    BY <1>0, <1>9 DEF Restart, CursorsBehind, TypeOK
  <2> QED BY <2>1 DEF NoSilentGap
<1>10. ASSUME UNCHANGED vars PROVE NoSilentGap'
  BY <1>3, <1>10 DEF vars
<1> QED BY <1>1, <1>4, <1>5, <1>6, <1>7, <1>8, <1>9, <1>10 DEF Next

(* A watch client that resumes at the last event it was given is never        *)
(* silently past an event of its domains while the manager process that       *)
(* issued its cursor runs (manager.py watch), for every number of clients and *)
(* every capacity of the deque and of a reply.                                *)
THEOREM NoGap ==
    ASSUME Resume = "lastEvent"
    PROVE  Spec => []NoSilentGap
<1>1. Init => NoSilentGap
  <2>1. Init => Len(log) = 0
    BY DEF Init
  <2> QED BY <2>1 DEF Init, NoSilentGap, GapFree
<1>2. JournalInv /\ NoSilentGap /\ [Next]_vars => NoSilentGap'
  BY NoGapNext
<1> QED BY <1>1, <1>2, JournalInvInit, JournalInvNext, PTL DEF Spec
=============================================================================

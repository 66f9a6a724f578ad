-------------------------- MODULE WarehouseProofs ---------------------------
(* Proofs about the sessions, inventory, users and orders pipelines, for   *)
(* any data, any bounds and any number of runs and failures.               *)
EXTENDS SessionsLoad, InventoryLoad, UsersDimension, OrdersSync,
        FiniteSetTheorems, WellFoundedInduction, TLAPS

(* A set of moments up to a bound has a first and a last one.              *)
LEMMA HasFirst ==
    ASSUME NEW N \in Nat, NEW T, T \subseteq 0..N, T # {}
    PROVE  \E t \in T : \A s \in T : t <= s
<1> DEFINE Less == {p \in Nat \X Nat : p[1] < p[2]}
<1>1. IsWellFoundedOn(Less, Nat) BY NatLessThanWellFounded DEF OpToRel
<1>2. T \subseteq Nat OBVIOUS
<1> HIDE DEF Less
<1>3. PICK t \in T : \A s \in T : <<s, t>> \notin Less BY <1>1, <1>2, WFMin
<1>4. \A s \in T : s \in Nat /\ t \in Nat /\ ~(s < t) BY <1>2, <1>3 DEF Less
<1>5. QED BY <1>4

LEMMA HasLast ==
    ASSUME NEW N \in Nat, NEW T, T \subseteq 0..N, T # {}
    PROVE  \E t \in T : \A s \in T : s <= t
<1> DEFINE Mirror == {s \in 0..N : N - s \in T}
<1>1. Mirror \subseteq 0..N OBVIOUS
<1>2. \A s \in T : N - s \in Mirror
  <2>1. \A s \in T : N - s \in 0..N /\ N - (N - s) = s OBVIOUS
  <2>2. QED BY <2>1
<1>3. Mirror # {} BY <1>2
<1> HIDE DEF Mirror
<1>4. PICK r \in Mirror : \A s \in Mirror : r <= s BY <1>1, <1>3, HasFirst
<1>5. N - r \in T BY <1>4 DEF Mirror
<1>6. \A s \in T : r <= N - s BY <1>2, <1>4
<1>7. QED BY <1>1, <1>4, <1>5, <1>6

LEMMA Concatenation ==
    ASSUME NEW S, NEW s \in Seq(S), NEW t \in Seq(S)
    PROVE  /\ s \o t \in Seq(S) /\ Len(s \o t) = Len(s) + Len(t)
           /\ \A i \in 1..Len(s) : (s \o t)[i] = s[i]
           /\ \A k \in 1..Len(t) : (s \o t)[Len(s) + k] = t[k]
OBVIOUS

-----------------------------------------------------------------------------
(* The sessions pipeline.                                                  *)

(* A run works on the events of its window that were there at its extract. *)
WindowInv ==
    stage \in {"transform", "load"} =>
        events_df = {e \in known : watermark <= e[2] /\ e[2] < extractedAt}

(* None of them is lost when they are cut into sessions.                   *)
Covers(row, e) == row.user = e[1] /\ row.from <= e[2] /\ e[2] <= row.to
CutInv == stage = "load" => \A e \in events_df : \E row \in sessions : Covers(row, e)

SessionsInv == SessionsTypeOK /\ WindowInv /\ CutInv /\ EventsCovered

SessionRows == [user : Visitors, from : 0..MaxClock, to : 0..MaxClock]

LEMMA SessionsInitially == SessionsInit => SessionsInv
<1> SUFFICES ASSUME SessionsInit PROVE SessionsInv OBVIOUS
<1> USE SessionBoundsAssumption
<1>1. SessionsTypeOK BY DEF SessionsInit, SessionsTypeOK
<1>2. WindowInv /\ CutInv /\ EventsCovered
  BY DEF SessionsInit, WindowInv, CutInv, EventsCovered
<1>3. QED BY <1>1, <1>2 DEF SessionsInv

(* The row of an event covers it.                                          *)
LEMMA RowCovers ==
    ASSUME SessionsTypeOK, NEW e \in events_df
    PROVE  LET row == SessionRow(e[1], {d[2] : d \in Group(e)})
           IN  row \in SessionRows /\ Covers(row, e)
<1> DEFINE T == {d[2] : d \in Group(e)}
<1>1. e \in Group(e) BY DEF Group
<1>2. Group(e) \subseteq Visitors \X (0..MaxClock) BY DEF Group, SessionsTypeOK
<1>3. T \subseteq 0..MaxClock /\ e[2] \in T BY <1>1, <1>2
<1>4. MaxClock \in Nat BY SessionBoundsAssumption
<1> HIDE DEF T
<1>5. \E t \in T : \A s \in T : t <= s BY <1>3, <1>4, HasFirst
<1>6. \E t \in T : \A s \in T : s <= t BY <1>3, <1>4, HasLast
<1>7. e[1] \in Visitors BY DEF SessionsTypeOK
<1> DEFINE first == CHOOSE t \in T : \A s \in T : t <= s
           last == CHOOSE t \in T : \A s \in T : s <= t
<1>8. first \in T /\ \A s \in T : first <= s BY <1>5
<1>9. last \in T /\ \A s \in T : s <= last BY <1>6
<1>10. SessionRow(e[1], T) = [user |-> e[1], from |-> first, to |-> last] BY DEF SessionRow
<1> HIDE DEF first, last
<1>11. SessionRow(e[1], T) \in SessionRows /\ Covers(SessionRow(e[1], T), e)
  <2>1. first \in 0..MaxClock /\ last \in 0..MaxClock /\ first <= e[2] /\ e[2] <= last
    BY <1>3, <1>8, <1>9
  <2>2. [user |-> e[1], from |-> first, to |-> last] \in SessionRows
    BY <1>7, <2>1 DEF SessionRows
  <2>3. Covers([user |-> e[1], from |-> first, to |-> last], e) BY <2>1 DEF Covers
  <2>4. QED BY <1>10, <2>2, <2>3
<1>12. QED BY <1>11 DEF T

LEMMA ClickStep ==
    ASSUME SessionsInv, NEW u \in Visitors, NEW t \in 0..MaxClock, Click(u, t)
    PROVE  SessionsInv'
<1>1. SessionsTypeOK' BY DEF SessionsInv, SessionsTypeOK, Click, runFrame
<1>2. WindowInv' /\ CutInv' BY DEF SessionsInv, WindowInv, CutInv, Covers, Click, runFrame
<1>3. EventsCovered'
  <2> SUFFICES ASSUME NEW e \in events' \ late', e[2] < reach
               PROVE  \E row \in aggregated : Covers(row, e)
    BY DEF EventsCovered, Covers, Click
  <2>1. e \in events \/ e = <<u, t>> BY DEF Click
  <2>2. e \notin late BY DEF Click
  <2>3. e \in events BY <2>1, <2>2 DEF Click
  <2>4. QED BY <2>2, <2>3 DEF SessionsInv, EventsCovered, Covers
<1>4. QED BY <1>1, <1>2, <1>3 DEF SessionsInv

LEMMA TransformEventsStep ==
    ASSUME SessionsInv, TransformEvents
    PROVE  SessionsInv'
<1>1. \A e \in events_df :
          LET row == SessionRow(e[1], {d[2] : d \in Group(e)})
          IN  row \in SessionRows /\ Covers(row, e)
  BY RowCovers DEF SessionsInv
<1>2. SessionsTypeOK'
  <2>1. sessions' \subseteq SessionRows BY <1>1 DEF TransformEvents
  <2>2. QED BY <2>1 DEF SessionsInv, SessionsTypeOK, SessionRows, TransformEvents, runFrame
<1>3. CutInv'
  <2>1. \A e \in events_df : SessionRow(e[1], {d[2] : d \in Group(e)}) \in sessions'
    BY DEF TransformEvents
  <2>2. QED BY <1>1, <2>1 DEF CutInv, Covers, TransformEvents, runFrame
<1>4. WindowInv' BY DEF SessionsInv, WindowInv, TransformEvents, runFrame
<1>5. EventsCovered' BY DEF SessionsInv, EventsCovered, TransformEvents
<1>6. QED BY <1>2, <1>3, <1>4, <1>5 DEF SessionsInv

(* A window that meets the covered times extends them: an event before its *)
(* end was covered, is in the frame, or came behind the extract.           *)
LEMMA LoadSessionsStep ==
    ASSUME SessionsInv, LoadSessions
    PROVE  SessionsInv'
<1>1. SessionsTypeOK'
  BY SessionBoundsAssumption DEF SessionsInv, SessionsTypeOK, LoadSessions, Forgets
<1>2. WindowInv' /\ CutInv' BY DEF WindowInv, CutInv, LoadSessions
<1>3. EventsCovered'
  <2> SUFFICES ASSUME NEW e \in events \ late', e[2] < reach'
               PROVE  \E row \in aggregated' : Covers(row, e)
    BY DEF EventsCovered, Covers, LoadSessions
  <2>1. CASE e \in events_df
    BY <2>1 DEF SessionsInv, CutInv, LoadSessions
  <2>2. CASE e \notin events_df
    <3>1. e \notin late /\ ~(e \notin known /\ e[2] < extractedAt)
      BY <2>2 DEF LoadSessions
    <3>2. CASE e[2] < reach
      BY <3>1, <3>2 DEF SessionsInv, EventsCovered, Covers, LoadSessions
    <3>3. CASE ~(e[2] < reach)
      <4>1. watermark <= reach /\ reach' = extractedAt BY <3>3 DEF LoadSessions
      <4>2. e[2] \in Int /\ watermark \in Int /\ reach \in Int /\ extractedAt \in Int
        BY SessionBoundsAssumption DEF SessionsInv, SessionsTypeOK
      <4>3. watermark <= e[2] /\ e[2] < extractedAt /\ e \in known BY <3>1, <3>3, <4>1, <4>2
      <4>4. QED BY <2>2, <4>3 DEF SessionsInv, WindowInv, LoadSessions
    <3>4. QED BY <3>2, <3>3
  <2>3. QED BY <2>1, <2>2
<1>4. QED BY <1>1, <1>2, <1>3 DEF SessionsInv

LEMMA SessionsStep == SessionsInv /\ [SessionsNext]_sessionVars => SessionsInv'
<1> SUFFICES ASSUME SessionsInv, [SessionsNext]_sessionVars PROVE SessionsInv' OBVIOUS
<1> USE SessionBoundsAssumption
<1>1. CASE \E u \in Visitors, t \in 0..MaxClock : Click(u, t) BY <1>1, ClickStep
<1>2. CASE ClockTicks
  BY <1>2 DEF SessionsInv, SessionsTypeOK, WindowInv, CutInv, Covers, EventsCovered, ClockTicks,
     runFrame
<1>3. CASE StartSessions
  BY <1>3 DEF SessionsInv, SessionsTypeOK, WindowInv, CutInv, EventsCovered, StartSessions
<1>4. CASE ExtractEvents
  <2>1. SessionsTypeOK' BY <1>4 DEF SessionsInv, SessionsTypeOK, ExtractEvents
  <2>2. WindowInv' BY <1>4 DEF WindowInv, InWindow, ExtractEvents
  <2>3. CutInv' /\ EventsCovered'
    BY <1>4 DEF SessionsInv, CutInv, EventsCovered, ExtractEvents
  <2>4. QED BY <2>1, <2>2, <2>3 DEF SessionsInv
<1>5. CASE TransformEvents BY <1>5, TransformEventsStep
<1>6. CASE LoadSessions BY <1>6, LoadSessionsStep
<1>7. CASE SessionsFail
  <2>1. SessionsTypeOK' BY <1>7 DEF SessionsInv, SessionsTypeOK, SessionsFail, Forgets
  <2>2. WindowInv' /\ CutInv' /\ EventsCovered'
    BY <1>7 DEF SessionsInv, WindowInv, CutInv, EventsCovered, SessionsFail
  <2>3. QED BY <2>1, <2>2 DEF SessionsInv
<1>8. CASE UNCHANGED sessionVars
  BY <1>8 DEF SessionsInv, SessionsTypeOK, WindowInv, CutInv, Covers, EventsCovered,
     sessionVars, runFrame
<1>9. QED BY <1>1, <1>2, <1>3, <1>4, <1>5, <1>6, <1>7, <1>8 DEF SessionsNext

(* The type invariant of the sessions pipeline.                            *)
THEOREM SessionsTypeCorrect == SessionsSpec => []SessionsTypeOK
<1>1. SessionsInv => SessionsTypeOK BY DEF SessionsInv
<1>2. QED BY <1>1, SessionsInitially, SessionsStep, PTL DEF SessionsSpec

(* No event before the end of the last of windows that meet is without a   *)
(* session, unless it came behind an extract.                              *)
THEOREM EventsStayCovered == SessionsSpec => []EventsCovered
<1>1. SessionsInv => EventsCovered BY DEF SessionsInv
<1>2. QED BY <1>1, SessionsInitially, SessionsStep, PTL DEF SessionsSpec

-----------------------------------------------------------------------------
(* The sessions of a set T of moments, whoever's they are: IsRun says what *)
(* a session is, Parted by what the pipeline's numbers tell two apart.     *)
Starts(T, t) == \A s \in T : ~(s < t /\ t <= s + Timeout)
Parted(T, s, t) ==
    \E r \in T : /\ (s < r /\ r <= t) \/ (t < r /\ r <= s)
                 /\ Starts(T, r)
IsRun(T, from, to) ==
    /\ from \in T /\ to \in T /\ from <= to
    /\ Starts(T, from)
    /\ \A t \in T : from <= t /\ t < to => \E s \in T : t < s /\ s <= t + Timeout
    /\ \A s \in T : ~(to < s /\ s <= to + Timeout)

LEMMA HasNext ==
    ASSUME NEW N \in Nat, NEW T, T \subseteq 0..N, NEW t \in T, NEW s \in T, t < s
    PROVE  \E n \in T : t < n /\ n <= s /\ \A r \in T : t < r => n <= r
<1>1. {r \in T : t < r} \subseteq 0..N /\ s \in {r \in T : t < r} OBVIOUS
<1>2. PICK n \in {r \in T : t < r} : \A r \in {q \in T : t < q} : n <= r
  BY <1>1, HasFirst
<1>3. QED BY <1>2

LEMMA HasPrevious ==
    ASSUME NEW N \in Nat, NEW T, T \subseteq 0..N, NEW t \in T, NEW s \in T, s < t
    PROVE  \E p \in T : p < t /\ s <= p /\ \A r \in T : r < t => r <= p
<1>1. {r \in T : r < t} \subseteq 0..N /\ s \in {r \in T : r < t} OBVIOUS
<1>2. PICK p \in {r \in T : r < t} : \A r \in {q \in T : q < t} : r <= p
  BY <1>1, HasLast
<1>3. QED BY <1>2

(* The first and the last of the moments that are not parted from t bound  *)
(* a session.                                                              *)
Bounds(T, t, a, b) ==
    /\ a \in T /\ ~Parted(T, a, t)
    /\ b \in T /\ ~Parted(T, b, t)
    /\ \A s \in T : ~Parted(T, s, t) => a <= s /\ s <= b

LEMMA GroupIsRun ==
    ASSUME NEW N \in Nat, NEW T, T \subseteq 0..N, NEW t \in T, NEW a, NEW b,
           Bounds(T, t, a, b)
    PROVE  IsRun(T, a, b) /\ a <= t /\ t <= b
<1> USE SessionBoundsAssumption
<1>. /\ a \in T /\ ~Parted(T, a, t) /\ b \in T /\ ~Parted(T, b, t)
     /\ \A s \in T : ~Parted(T, s, t) => a <= s /\ s <= b
  BY DEF Bounds
<1>0. t \in Int /\ a \in Int /\ b \in Int /\ Timeout \in Nat /\ \A s \in T : s \in Int
  OBVIOUS
<1>1. ~Parted(T, t, t)
  <2>1. \A r \in T : ~(t < r /\ r <= t) BY <1>0
  <2>2. QED BY <2>1 DEF Parted
<1>2. a <= t /\ t <= b BY <1>1
<1>3. Starts(T, a)
  <2> SUFFICES ASSUME NEW s \in T, s < a, a <= s + Timeout PROVE FALSE BY DEF Starts
  <2>1. PICK p \in T : p < a /\ \A r \in T : r < a => r <= p BY HasPrevious
  <2>2. ~Starts(T, a) BY DEF Starts
  <2>3. ASSUME NEW r \in T, (p < r /\ r <= t) \/ (t < r /\ r <= p), Starts(T, r) PROVE FALSE
    <3>0. p \in Int /\ r \in Int BY <1>0
    <3>1. p < r /\ r <= t BY <1>0, <1>2, <2>1, <2>3, <3>0
    <3>2. a <= r BY <1>0, <2>1, <3>1
    <3>3. a # r BY <2>2, <2>3
    <3>4. a < r BY <1>0, <3>2, <3>3
    <3>5. QED BY <2>3, <3>1, <3>4 DEF Parted
  <2>4. ~Parted(T, p, t) BY <2>3 DEF Parted
  <2>5. QED BY <1>0, <2>1, <2>4
<1>4. ASSUME NEW s \in T, a <= s, s < b PROVE \E r \in T : s < r /\ r <= s + Timeout
  <2>1. PICK n \in T : s < n /\ n <= b /\ \A r \in T : s < r => n <= r BY <1>4, HasNext
  <2>2. ~Starts(T, n)
    <3>1. CASE n <= t
      <4>1. a < n BY <1>0, <1>4, <2>1
      <4>2. ~Parted(T, a, t) OBVIOUS
      <4>3. n \in T /\ n <= t BY <2>1, <3>1
      <4>4. QED BY <4>1, <4>2, <4>3, Zenon DEF Parted
    <3>2. CASE t < n BY <2>1, <3>2, Zenon DEF Parted
    <3>3. QED BY <1>0, <3>1, <3>2
  <2>3. PICK q \in T : q < n /\ n <= q + Timeout BY <2>2 DEF Starts
  <2>4. q <= s BY <1>0, <2>1, <2>3
  <2>5. n <= s + Timeout BY <1>0, <2>3, <2>4
  <2>6. QED BY <2>1, <2>5
<1>5. ASSUME NEW s \in T, b < s, s <= b + Timeout PROVE FALSE
  <2>1. PICK n \in T : b < n /\ n <= s /\ \A r \in T : b < r => n <= r BY <1>5, HasNext
  <2>2. n <= b + Timeout BY <1>0, <1>5, <2>1
  <2>3. ~Starts(T, n) BY <2>1, <2>2 DEF Starts
  <2>4. ASSUME NEW r \in T, (n < r /\ r <= t) \/ (t < r /\ r <= n), Starts(T, r) PROVE FALSE
    <3>1. t < r /\ r <= n BY <1>0, <1>2, <2>1, <2>4
    <3>2. r # n BY <2>3, <2>4
    <3>3. r <= b BY <1>0, <2>1, <3>1, <3>2
    <3>4. QED BY <2>4, <3>1, <3>3 DEF Parted
  <2>5. ~Parted(T, n, t) BY <2>4 DEF Parted
  <2>6. QED BY <1>0, <2>1, <2>5
<1>6. a <= b BY <1>0, <1>2
<1>7. QED BY <1>2, <1>3, <1>4, <1>5, <1>6 DEF IsRun

LEMMA RunsDisjoint ==
    ASSUME NEW N \in Nat, NEW T, T \subseteq 0..N, NEW a, NEW b, NEW c, NEW d,
           IsRun(T, a, b), IsRun(T, c, d), c <= a, a <= d
    PROVE  a = c /\ b = d
<1> USE SessionBoundsAssumption
<1>0. a \in Int /\ b \in Int /\ c \in Int /\ d \in Int /\ \A s \in T : s \in Int BY DEF IsRun
<1>1. a = c
  <2> SUFFICES ASSUME c < a PROVE FALSE BY <1>0
  <2>1. PICK p \in T : p < a /\ c <= p /\ \A r \in T : r < a => r <= p
    BY HasPrevious DEF IsRun
  <2>2. PICK s \in T : p < s /\ s <= p + Timeout BY <1>0, <2>1 DEF IsRun
  <2>3. a <= s BY <1>0, <2>1, <2>2
  <2>4. a <= p + Timeout BY <1>0, <2>2, <2>3
  <2>5. QED BY <2>1, <2>4 DEF IsRun, Starts
<1>2. ~(b < d) BY <1>0, <1>1 DEF IsRun
<1>3. ~(d < b) BY <1>0, <1>1 DEF IsRun
<1>4. QED BY <1>0, <1>1, <1>2, <1>3

-----------------------------------------------------------------------------
(* The same of the frame of a run.                                         *)
Moments(u) == {e[2] : e \in {d \in events_df : d[1] = u}}

LEMMA MomentsOfFrame ==
    ASSUME SessionsTypeOK
    PROVE  /\ MaxClock \in Nat /\ \A u : Moments(u) \subseteq 0..MaxClock
           /\ \A e \in events_df : e = <<e[1], e[2]>> /\ e[1] \in Visitors
                                   /\ e[2] \in 0..MaxClock /\ e[2] \in Moments(e[1])
           /\ \A u, t : t \in Moments(u) => <<u, t>> \in events_df
<1>1. MaxClock \in Nat BY SessionBoundsAssumption
<1>2. \A e \in events_df : e = <<e[1], e[2]>> /\ e[1] \in Visitors /\ e[2] \in 0..MaxClock
  BY DEF SessionsTypeOK
<1>3. \A u, t : t \in Moments(u) => <<u, t>> \in events_df BY <1>2 DEF Moments
<1>4. QED BY <1>1, <1>2, <1>3 DEF Moments

LEMMA NewSessionStarts ==
    ASSUME SessionsTypeOK, NEW e \in events_df
    PROVE  IsNewSession(e) <=> Starts(Moments(e[1]), e[2])
<1> USE SessionBoundsAssumption
<1>1. PICK u, t : e = <<u, t>> /\ e[1] = u /\ e[2] = t BY MomentsOfFrame
<1> DEFINE T == Moments(u)
<1>2. MaxClock \in Nat /\ T \subseteq 0..MaxClock /\ t \in T BY <1>1, MomentsOfFrame
<1>3. \A d \in Earlier(e) : d = <<u, d[2]>> /\ d[2] \in T /\ d[2] < t
  BY <1>1, MomentsOfFrame DEF Earlier
<1>4. \A s \in T : s < t => <<u, s>> \in Earlier(e) BY <1>1, MomentsOfFrame DEF Earlier
<1> HIDE DEF T
<1>5. CASE Earlier(e) = {} BY <1>1, <1>2, <1>4, <1>5 DEF IsNewSession, Starts, T
<1>6. CASE Earlier(e) # {}
  <2>1. PICK d \in Earlier(e) : TRUE BY <1>6
  <2>2. PICK p \in T : p < t /\ \A r \in T : r < t => r <= p
    <3>1. d[2] \in T /\ d[2] < t BY <1>3, <2>1
    <3>2. QED BY <1>2, <3>1, HasPrevious
  <2>3. <<u, p>> \in Earlier(e) /\ \A c \in Earlier(e) : c[2] <= <<u, p>>[2]
    BY <1>3, <1>4, <2>2
  <2>4. PreviousOf(e) \in Earlier(e) /\ \A c \in Earlier(e) : c[2] <= PreviousOf(e)[2]
    BY <2>3 DEF PreviousOf
  <2>5. PreviousOf(e)[2] = p
    <3>1. PreviousOf(e)[2] \in T /\ PreviousOf(e)[2] < t BY <1>3, <2>4
    <3>2. PreviousOf(e)[2] <= p BY <2>2, <3>1
    <3>3. p <= PreviousOf(e)[2] BY <2>3, <2>4
    <3>4. PICK q \in T : q = PreviousOf(e)[2] BY <3>1
    <3>5. p \in Int /\ q \in Int BY <1>2
    <3>6. QED BY <3>2, <3>3, <3>4, <3>5
  <2>6. IsNewSession(e) <=> t - p > Timeout BY <1>1, <1>6, <2>5 DEF IsNewSession
  <2>7. t - p > Timeout <=> Starts(T, t) BY <1>2, <2>2 DEF Starts
  <2>8. QED BY <1>1, <2>6, <2>7 DEF T
<1>7. QED BY <1>5, <1>6

(* Two events of a visitor have one number if no session starts after the  *)
(* earlier one and not after the later one.                                *)
Numbered(e) == {d \in Earlier(e) \union {e} : IsNewSession(d)}

LEMMA NumberedFinite ==
    ASSUME SessionsTypeOK, NEW e \in events_df
    PROVE  IsFiniteSet(Numbered(e))
<1>1. IsFiniteSet({e[1]} \X (0..MaxClock))
  <2>1. IsFiniteSet({e[1]}) BY FS_Singleton
  <2>2. IsFiniteSet(0..MaxClock)
    <3>1. MaxClock \in Int /\ 0 \in Int BY SessionBoundsAssumption
    <3>2. QED BY <3>1, FS_Interval
  <2>3. QED BY <2>1, <2>2, FS_Product
<1>2. \A d \in Numbered(e) : d = <<e[1], d[2]>> /\ d[2] \in 0..MaxClock
  BY MomentsOfFrame DEF Numbered, Earlier
<1>3. Numbered(e) \in SUBSET ({e[1]} \X (0..MaxClock)) BY <1>2
<1>4. QED BY <1>1, <1>3, FS_Subset

LEMMA NumbersPart ==
    ASSUME SessionsTypeOK, NEW d \in events_df, NEW e \in events_df, d[1] = e[1], d[2] <= e[2]
    PROVE  SessionSeq(d) = SessionSeq(e) <=> ~Parted(Moments(e[1]), d[2], e[2])
<1>0. \A c \in events_df : c[2] \in Int /\ c = <<c[1], c[2]>> BY MomentsOfFrame
<1>1. \A c : c \in Numbered(d) => c \in Numbered(e)
  BY <1>0 DEF Numbered, Earlier
<1>2. SessionSeq(d) = Cardinality(Numbered(d)) /\ SessionSeq(e) = Cardinality(Numbered(e))
  BY DEF SessionSeq, Numbered
<1>3. SessionSeq(d) = SessionSeq(e) <=> Numbered(d) = Numbered(e)
  <2>1. Numbered(d) \in SUBSET Numbered(e) BY <1>1
  <2>2. IsFiniteSet(Numbered(e)) BY NumberedFinite
  <2>3. Cardinality(Numbered(e)) = Cardinality(Numbered(d)) => Numbered(e) = Numbered(d)
    BY <2>1, <2>2, FS_Subset
  <2>4. QED BY <1>2, <2>3
<1>4. Numbered(d) = Numbered(e) <=> ~\E c \in Numbered(e) : c \notin Numbered(d) BY <1>1
<1>5. ASSUME NEW c \in events_df, c[1] = e[1]
      PROVE  c \in Numbered(e) /\ c \notin Numbered(d)
             <=> d[2] < c[2] /\ c[2] <= e[2] /\ Starts(Moments(e[1]), c[2])
  <2>1. IsNewSession(c) <=> Starts(Moments(e[1]), c[2]) BY <1>5, NewSessionStarts
  <2>2. c \in Earlier(e) \union {e} <=> c[2] <= e[2] BY <1>0, <1>5 DEF Earlier
  <2>3. c \in Earlier(d) \union {d} <=> c[2] <= d[2] BY <1>0, <1>5 DEF Earlier
  <2>4. c[2] <= d[2] <=> ~(d[2] < c[2]) BY <1>0
  <2>5. QED BY <2>1, <2>2, <2>3, <2>4 DEF Numbered
<1>6. \A c \in Numbered(e) : c \in events_df /\ c[1] = e[1] BY DEF Numbered, Earlier
<1>7. (\E c \in Numbered(e) : c \notin Numbered(d)) <=> Parted(Moments(e[1]), d[2], e[2])
  <2>1. ASSUME NEW c \in Numbered(e), c \notin Numbered(d)
        PROVE  Parted(Moments(e[1]), d[2], e[2])
    <3>1. c[2] \in Moments(e[1]) BY <1>6, <2>1, MomentsOfFrame
    <3>2. d[2] < c[2] /\ c[2] <= e[2] /\ Starts(Moments(e[1]), c[2])
      BY <1>5, <1>6, <2>1
    <3>3. QED BY <3>1, <3>2, Zenon DEF Parted
  <2>2. ASSUME NEW r \in Moments(e[1]), (d[2] < r /\ r <= e[2]) \/ (e[2] < r /\ r <= d[2]),
               Starts(Moments(e[1]), r)
        PROVE  \E c \in Numbered(e) : c \notin Numbered(d)
    <3>1. r \in Int BY MomentsOfFrame
    <3>2. d[2] < r /\ r <= e[2] BY <1>0, <2>2, <3>1
    <3>3. <<e[1], r>> \in events_df BY MomentsOfFrame
    <3>4. PICK c \in events_df : c = <<e[1], r>> /\ c[1] = e[1] /\ c[2] = r BY <3>3
    <3>5. QED BY <1>5, <2>2, <3>2, <3>4
  <2>3. QED BY <2>1, <2>2 DEF Parted
<1>8. QED BY <1>3, <1>4, <1>7

(* The row of an event is the session that it lies in.                     *)
LEMMA RowIsRun ==
    ASSUME SessionsTypeOK, NEW e \in events_df
    PROVE  LET row == SessionRow(e[1], {d[2] : d \in Group(e)})
           IN  /\ row.user = e[1] /\ IsRun(Moments(e[1]), row.from, row.to)
               /\ row.from <= e[2] /\ e[2] <= row.to
<1>1. PICK u, t : e = <<u, t>> /\ e[1] = u /\ e[2] = t BY MomentsOfFrame
<1> DEFINE T == Moments(u)
           G == {d[2] : d \in Group(e)}
<1>2. MaxClock \in Nat /\ T \subseteq 0..MaxClock /\ t \in T BY <1>1, MomentsOfFrame
<1>3. \A s \in T : s \in G <=> ~Parted(T, s, t)
  <2> TAKE s \in T
  <2>1. PICK d \in events_df : d = <<u, s>> /\ d[1] = u /\ d[2] = s
    <3>1. <<u, s>> \in events_df BY MomentsOfFrame
    <3>2. QED BY <3>1
  <2>2. s \in Int /\ t \in Int BY <1>2
  <2>3. Parted(T, s, t) <=> Parted(T, t, s) BY Zenon DEF Parted
  <2>4. SessionSeq(d) = SessionSeq(e) <=> ~Parted(T, s, t)
    <3>1. CASE s <= t BY <1>1, <2>1, <3>1, NumbersPart
    <3>2. CASE t <= s
      <4>1. SessionSeq(e) = SessionSeq(d) <=> ~Parted(T, t, s)
        BY <1>1, <2>1, <3>2, NumbersPart
      <4>2. QED BY <2>3, <4>1
    <3>3. QED BY <2>2, <3>1, <3>2
  <2>5. s \in G <=> SessionSeq(d) = SessionSeq(e)
    <3>1. \A c \in Group(e) : c = <<u, c[2]>> BY <1>1, MomentsOfFrame DEF Group
    <3>2. s \in G <=> d \in Group(e) BY <2>1, <3>1
    <3>3. d \in Group(e) <=> SessionSeq(d) = SessionSeq(e) BY <1>1, <2>1 DEF Group
    <3>4. QED BY <3>2, <3>3
  <2>6. QED BY <2>4, <2>5
<1>4. G \subseteq T BY <1>1, MomentsOfFrame DEF Group
<1>5. t \in G BY <1>1 DEF Group
<1> HIDE DEF T, G
<1>6. PICK a \in G : \A s \in G : a <= s
  <2>1. G \subseteq 0..MaxClock /\ G # {} BY <1>2, <1>4, <1>5
  <2>2. QED BY <1>2, <2>1, HasFirst
<1>7. PICK b \in G : \A s \in G : s <= b
  <2>1. G \subseteq 0..MaxClock /\ G # {} BY <1>2, <1>4, <1>5
  <2>2. QED BY <1>2, <2>1, HasLast
<1>8. (CHOOSE r \in G : \A s \in G : r <= s) = a
  <2>1. \A r \in G : (\A s \in G : r <= s) => r = a BY <1>2, <1>4, <1>6
  <2>2. QED BY <1>6, <2>1
<1>9. (CHOOSE r \in G : \A s \in G : s <= r) = b
  <2>1. \A r \in G : (\A s \in G : s <= r) => r = b BY <1>2, <1>4, <1>7
  <2>2. QED BY <1>7, <2>1
<1>10. SessionRow(e[1], G) = [user |-> u, from |-> a, to |-> b]
  BY <1>1, <1>8, <1>9 DEF SessionRow
<1>11. IsRun(T, a, b) /\ a <= t /\ t <= b
  <2>1. a \in T /\ b \in T /\ ~Parted(T, a, t) /\ ~Parted(T, b, t) BY <1>3, <1>4, <1>6, <1>7
  <2>2. \A s \in T : ~Parted(T, s, t) => a <= s /\ s <= b BY <1>3, <1>6, <1>7
  <2>3. a \in T /\ b \in T /\ t \in T /\ MaxClock \in Nat /\ T \subseteq 0..MaxClock
    BY <1>2, <2>1
  <2>4. Bounds(T, t, a, b) BY <2>1, <2>2 DEF Bounds
  <2>5. QED BY <2>3, <2>4, GroupIsRun
<1>12. QED BY <1>1, <1>10, <1>11 DEF T, G

(* Between transform and load the rows are the sessions of the frame.      *)
RowsInv ==
    stage = "load" =>
        sessions = {SessionRow(e[1], {d[2] : d \in Group(e)}) : e \in events_df}

LEMMA RowsAreRuns ==
    ASSUME SessionsTypeOK, RowsInv, stage = "load", NEW row \in SessionRows
    PROVE  row \in sessions <=> IsRun(Moments(row.user), row.from, row.to)
<1> DEFINE R(e) == SessionRow(e[1], {d[2] : d \in Group(e)})
<1>1. sessions = {R(e) : e \in events_df} BY DEF RowsInv
<1>2. \A e \in events_df : /\ R(e).user = e[1] /\ R(e).from <= e[2] /\ e[2] <= R(e).to
                           /\ IsRun(Moments(e[1]), R(e).from, R(e).to)
                           /\ R(e) \in SessionRows
  BY RowIsRun, RowCovers
<1> HIDE DEF R
<1>3. ASSUME row \in sessions PROVE IsRun(Moments(row.user), row.from, row.to)
  BY <1>1, <1>2, <1>3
<1>4. ASSUME IsRun(Moments(row.user), row.from, row.to) PROVE row \in sessions
  <2>1. row.from \in Moments(row.user) BY <1>4 DEF IsRun
  <2>2. PICK e \in events_df : e[1] = row.user /\ e[2] = row.from
    <3>1. <<row.user, row.from>> \in events_df BY <2>1, MomentsOfFrame
    <3>2. QED BY <3>1
  <2>3. row.from = R(e).from /\ row.to = R(e).to
    BY <1>2, <1>4, <2>2, MomentsOfFrame, RunsDisjoint
  <2>4. row.user = R(e).user BY <1>2, <2>2
  <2>5. row = R(e) BY <1>2, <2>3, <2>4 DEF SessionRows
  <2>6. QED BY <1>1, <2>5
<1>5. QED BY <1>3, <1>4

(* Away from its edges a window shows the sessions that there are.         *)
LEMMA WindowShowsSessions ==
    ASSUME SessionsTypeOK, WindowInv, stage = "load",
           NEW row \in SessionRows, ~IsCut(row)
    PROVE  IsRun(Moments(row.user), row.from, row.to)
           <=> row.from <= row.to /\ IsSession(row)
<1> USE SessionBoundsAssumption
<1>1. PICK u, a, b : u = row.user /\ a = row.from /\ b = row.to OBVIOUS
<1> DEFINE E == Moments(u)
           T == Times(u)
<1>2. /\ watermark \in Int /\ extractedAt \in Int /\ a \in Int /\ b \in Int
      /\ watermark + Timeout <= a /\ b + Timeout < extractedAt /\ Timeout \in Nat
  BY <1>1 DEF SessionsTypeOK, SessionRows, IsCut
<1>3. T \subseteq Int BY DEF Times, SessionsTypeOK
<1>4. \A t : t \in E <=> t \in T /\ watermark <= t /\ t < extractedAt
  BY DEF Moments, Times, WindowInv
<1>5. IsSession(row) <=>
          /\ a \in T /\ b \in T
          /\ \A t \in T : a <= t /\ t < b => \E s \in T : t < s /\ s <= t + Timeout
          /\ \A t \in T : ~(t < a /\ a <= t + Timeout)
          /\ \A s \in T : ~(b < s /\ s <= b + Timeout)
  BY <1>1 DEF IsSession, FollowedAt
<1> HIDE DEF E, T
<1>6. ASSUME a <= b
      PROVE  /\ (a \in E <=> a \in T) /\ (b \in E <=> b \in T)
             /\ (\A t \in E : ~(t < a /\ a <= t + Timeout))
                   <=> (\A t \in T : ~(t < a /\ a <= t + Timeout))
             /\ (\A s \in E : ~(b < s /\ s <= b + Timeout))
                   <=> (\A s \in T : ~(b < s /\ s <= b + Timeout))
  <2>1. (a \in E <=> a \in T) /\ (b \in E <=> b \in T) BY <1>2, <1>4, <1>6
  <2>2. \A t \in T : t < a /\ a <= t + Timeout => t \in E BY <1>2, <1>3, <1>4, <1>6
  <2>3. \A t \in T : b < t /\ t <= b + Timeout => t \in E BY <1>2, <1>3, <1>4, <1>6
  <2>4. \A t \in E : t \in T BY <1>4
  <2>5. QED BY <2>1, <2>2, <2>3, <2>4
<1>7. ASSUME a <= b, NEW t \in T, a <= t, t < b
      PROVE  /\ t \in E
             /\ (\E s \in E : t < s /\ s <= t + Timeout)
                   <=> (\E s \in T : t < s /\ s <= t + Timeout)
  <2>1. t \in E BY <1>2, <1>3, <1>4, <1>7
  <2>2. \A s \in T : t < s /\ s <= t + Timeout => s \in E BY <1>2, <1>3, <1>4, <1>7
  <2>3. QED BY <1>4, <2>1, <2>2
<1>8. IsRun(E, a, b) <=> a <= b /\ IsSession(row)
  BY <1>4, <1>5, <1>6, <1>7 DEF IsRun, Starts
<1>9. QED BY <1>1, <1>8 DEF E

LEMMA RowsStep == RowsInv /\ [SessionsNext]_sessionVars => RowsInv'
<1> SUFFICES ASSUME RowsInv, [SessionsNext]_sessionVars, stage' = "load"
             PROVE  sessions' = {SessionRow(e[1], {d[2] : d \in Group(e)}) : e \in events_df}'
  BY DEF RowsInv
<1>1. CASE UNCHANGED <<stage, events_df, sessions>>
  <2>1. \A e : Group(e)' = Group(e)
    BY <1>1 DEF Group, SessionSeq, IsNewSession, PreviousOf, Earlier
  <2>2. \A e : SessionRow(e[1], {d[2] : d \in Group(e)})'
              = SessionRow(e[1], {d[2] : d \in Group(e)})
    BY <2>1 DEF SessionRow
  <2>3. QED BY <1>1, <2>2 DEF RowsInv
<1>2. CASE TransformEvents
  <2>1. events_df' = events_df BY <1>2 DEF TransformEvents, runFrame
  <2>2. \A e : Group(e)' = Group(e)
    BY <2>1 DEF Group, SessionSeq, IsNewSession, PreviousOf, Earlier
  <2>3. \A e : SessionRow(e[1], {d[2] : d \in Group(e)})'
              = SessionRow(e[1], {d[2] : d \in Group(e)})
    BY <2>2 DEF SessionRow
  <2>4. QED BY <1>2, <2>1, <2>3 DEF TransformEvents
<1>3. stage' = "load" => UNCHANGED <<stage, events_df, sessions>> \/ TransformEvents
  BY DEF SessionsNext, Click, ClockTicks, StartSessions, ExtractEvents, LoadSessions,
     SessionsFail, sessionVars, runFrame
<1>4. QED BY <1>1, <1>2, <1>3

(* Whatever the timeout and the window, and whichever events have come by  *)
(* the extract: a run's rows are the true sessions, but near the edges.    *)
THEOREM SessionsAreTrue == SessionsSpec => []SessionsAgree
<1>1. SessionsInit => RowsInv BY DEF SessionsInit, RowsInv
<1>2. SessionsInv /\ RowsInv => SessionsAgree
  <2> SUFFICES ASSUME SessionsInv, RowsInv, stage = "load", NEW row \in SessionRows, ~IsCut(row)
               PROVE  row \in sessions <=> row.from <= row.to /\ IsSession(row)
    BY DEF SessionsAgree, SessionRows
  <2>1. row \in sessions <=> IsRun(Moments(row.user), row.from, row.to)
    BY RowsAreRuns DEF SessionsInv
  <2>2. QED BY <2>1, WindowShowsSessions DEF SessionsInv
<1>3. QED BY <1>1, <1>2, SessionsInitially, SessionsStep, RowsStep, PTL DEF SessionsSpec

-----------------------------------------------------------------------------
(* The users pipeline.                                                     *)

(* A user that did not change since the extract is as the run knows it.    *)
SourceInv == \A u \in Users \ changed : source_df[u] # 0 => source_df[u] = source[u]

(* Between its steps a run's frame is about the dimension as it is: no     *)
(* other run touches it.                                                   *)
FrameInv ==
    pc = "close" =>
        \A u \in Users :
            current_df[u] = {dim[i].version : i \in {j \in Rows(u) : IsCurrent(j)}}

(* Whoever needs a row has no current one when the rows are inserted, and  *)
(* whoever needs none has one that shows the extract.                      *)
ClosedInv ==
    pc = "insert" =>
        \A u \in Users :
            /\ NeedsRow(u) => \A i \in Rows(u) : ~IsCurrent(i)
            /\ source_df[u] # 0 /\ ~NeedsRow(u) =>
                   \E i \in Rows(u) : IsCurrent(i) /\ dim[i].version = source_df[u]

UsersInv == TypeOK /\ SourceInv /\ FrameInv /\ ClosedInv /\ OneCurrentRow /\ DimensionCaughtUp

LEMMA UserBounds == MaxVersion \in Nat \ {0} /\ MaxDay \in Nat /\ MaxRows \in Nat
BY BoundsAssumption

LEMMA UsersInitially == Init => UsersInv
<1> SUFFICES ASSUME Init PROVE UsersInv OBVIOUS
<1>1. TypeOK BY UserBounds DEF Init, TypeOK, Row, Versions
<1>2. SourceInv /\ FrameInv /\ ClosedInv BY DEF Init, SourceInv, FrameInv, ClosedInv
<1>3. OneCurrentRow /\ DimensionCaughtUp BY DEF Init, OneCurrentRow, DimensionCaughtUp
<1>4. QED BY <1>1, <1>2, <1>3 DEF UsersInv

LEMMA ChangeUserStep ==
    ASSUME UsersInv, NEW u \in Users, NEW v \in 0..MaxVersion, ChangeUser(u, v)
    PROVE  UsersInv'
<1>1. TypeOK' BY DEF UsersInv, TypeOK, ChangeUser, frame
<1>2. \A w \in Users \ changed' : w \in Users \ changed /\ source'[w] = source[w]
  BY DEF UsersInv, TypeOK, ChangeUser
<1>3. SourceInv' BY <1>2 DEF UsersInv, SourceInv, ChangeUser, frame
<1>4. FrameInv' BY DEF UsersInv, FrameInv, Rows, IsCurrent, ChangeUser, frame
<1>5. ClosedInv'
  BY DEF UsersInv, ClosedInv, NeedsRow, IsNew, IsChanged, Rows, IsCurrent, ChangeUser, frame
<1>6. OneCurrentRow' BY DEF UsersInv, OneCurrentRow, IsCurrent, ChangeUser
<1>7. DimensionCaughtUp'
  BY <1>2 DEF UsersInv, DimensionCaughtUp, Rows, IsCurrent, ChangeUser, frame
<1>8. QED BY <1>1, <1>3, <1>4, <1>5, <1>6, <1>7 DEF UsersInv

(* Steps that leave the dimension and the frame alone.                     *)
LEMMA QuietStep ==
    ASSUME UsersInv, TypeOK', UNCHANGED <<dim, source, source_df, current_df>>,
           changed' = changed \/ changed' = Users,
           pc' = pc \/ pc' = "extract" \/ (pc' = "idle" /\ changed' = Users)
    PROVE  UsersInv'
<1>1. SourceInv' BY DEF UsersInv, SourceInv
<1>2. FrameInv' BY DEF UsersInv, FrameInv, Rows, IsCurrent
<1>3. ClosedInv' BY DEF UsersInv, ClosedInv, NeedsRow, IsNew, IsChanged, Rows, IsCurrent
<1>4. OneCurrentRow' BY DEF UsersInv, OneCurrentRow, IsCurrent
<1>5. DimensionCaughtUp'
  <2>1. CASE changed' = Users BY <2>1 DEF DimensionCaughtUp
  <2>2. CASE changed' = changed /\ pc' # "idle" BY <2>2 DEF DimensionCaughtUp
  <2>3. CASE changed' = changed /\ pc' = pc
    BY <2>3 DEF UsersInv, DimensionCaughtUp, Rows, IsCurrent
  <2>4. QED BY <2>1, <2>2, <2>3
<1>6. QED BY <1>1, <1>2, <1>3, <1>4, <1>5 DEF UsersInv

LEMMA ExtractSourceStep ==
    ASSUME UsersInv, ExtractSource
    PROVE  UsersInv'
<1>1. TypeOK' BY DEF UsersInv, TypeOK, ExtractSource
<1>2. SourceInv' BY DEF SourceInv, ExtractSource
<1>3. FrameInv' /\ ClosedInv' /\ DimensionCaughtUp'
  BY DEF FrameInv, ClosedInv, DimensionCaughtUp, ExtractSource
<1>4. OneCurrentRow' BY DEF UsersInv, OneCurrentRow, IsCurrent, ExtractSource
<1>5. QED BY <1>1, <1>2, <1>3, <1>4 DEF UsersInv

LEMMA ExtractCurrentDimStep ==
    ASSUME UsersInv, ExtractCurrentDim
    PROVE  UsersInv'
<1>1. TypeOK'
  <2>0. dim \in Seq(Row) BY DEF UsersInv, TypeOK
  <2>a. \A i \in DOMAIN dim : dim[i] \in Row BY <2>0
  <2>1. \A i \in DOMAIN dim : dim[i].version \in Versions BY <2>a DEF Row
  <2>2. \A u \in Users : {dim[i].version : i \in {j \in Rows(u) : IsCurrent(j)}} \in SUBSET Versions
    BY <2>1 DEF Rows
  <2>3. current_df' \in [Users -> SUBSET Versions] BY <2>2 DEF ExtractCurrentDim
  <2>4. QED BY <2>3 DEF UsersInv, TypeOK, ExtractCurrentDim
<1>2. SourceInv' BY DEF UsersInv, SourceInv, ExtractCurrentDim
<1>3. FrameInv' BY DEF FrameInv, Rows, IsCurrent, ExtractCurrentDim
<1>4. ClosedInv' /\ DimensionCaughtUp' BY DEF ClosedInv, DimensionCaughtUp, ExtractCurrentDim
<1>5. OneCurrentRow' BY DEF UsersInv, OneCurrentRow, IsCurrent, ExtractCurrentDim
<1>6. QED BY <1>1, <1>2, <1>3, <1>4, <1>5 DEF UsersInv

(* Only rows of changed users are closed; nothing else of a row changes.   *)
LEMMA Closes ==
    ASSUME TypeOK, CloseExpired
    PROVE  /\ dim' \in Seq(Row) /\ Len(dim') = Len(dim) /\ DOMAIN dim' = DOMAIN dim
           /\ \A i \in DOMAIN dim :
                 /\ dim'[i].user = dim[i].user /\ dim'[i].version = dim[i].version
                 /\ dim'[i].is_current <=> (dim[i].is_current /\ ~Expires(i))
                 /\ ~IsCurrent(i) => dim'[i] = dim[i]
<1>1. dim \in Seq(Row) /\ today \in 0..MaxDay BY DEF TypeOK
<1>2. today \in 0..Forever BY <1>1, UserBounds DEF Forever
<1>3. \A i \in DOMAIN dim : dim[i] \in Row BY <1>1
<1>4. \A i \in DOMAIN dim :
          [dim[i] EXCEPT !.is_current = FALSE, !.valid_to = today] \in Row
  BY <1>2, <1>3 DEF Row
<1>5. DOMAIN dim' = DOMAIN dim /\ \A i \in DOMAIN dim : dim'[i] \in Row
  BY <1>3, <1>4 DEF CloseExpired
<1>6. dim' \in Seq(Row) /\ Len(dim') = Len(dim)
  <2>1. DOMAIN dim = 1..Len(dim) /\ Len(dim) \in Nat BY <1>1
  <2>2. dim' = [i \in 1..Len(dim) |-> dim'[i]] BY <2>1, <1>5 DEF CloseExpired
  <2>3. QED BY <1>5, <2>1, <2>2
<1>7. ASSUME NEW i \in DOMAIN dim
      PROVE  /\ dim'[i].user = dim[i].user /\ dim'[i].version = dim[i].version
             /\ dim'[i].is_current <=> (dim[i].is_current /\ ~Expires(i))
             /\ ~IsCurrent(i) => dim'[i] = dim[i]
  <2>1. CASE Expires(i)
    BY <2>1, <1>3 DEF CloseExpired, Row, Expires
  <2>2. CASE ~Expires(i) BY <2>2, <1>3 DEF CloseExpired, Row
  <2>3. QED BY <2>1, <2>2
<1>8. QED BY <1>5, <1>6, <1>7

LEMMA CloseExpiredStep ==
    ASSUME UsersInv, CloseExpired
    PROVE  UsersInv'
<1>0. TypeOK BY DEF UsersInv
<1>1. TypeOK' BY <1>0, Closes DEF TypeOK, CloseExpired, frame
<1>2. SourceInv' /\ FrameInv' /\ DimensionCaughtUp'
  BY DEF UsersInv, SourceInv, FrameInv, DimensionCaughtUp, CloseExpired, frame
<1>3. OneCurrentRow' BY <1>0, Closes DEF UsersInv, OneCurrentRow, IsCurrent
<1>4. ClosedInv'
  <2> SUFFICES ASSUME NEW u \in Users
               PROVE  /\ NeedsRow(u) => \A i \in Rows(u)' : ~dim'[i].is_current
                      /\ source_df[u] # 0 /\ ~NeedsRow(u) =>
                            \E i \in Rows(u)' :
                               dim'[i].is_current /\ dim'[i].version = source_df[u]
    BY DEF ClosedInv, NeedsRow, IsNew, IsChanged, IsCurrent, CloseExpired, frame
  <2>1. Rows(u)' = Rows(u) BY <1>0, Closes DEF Rows
  <2>2. current_df[u] = {dim[i].version : i \in {j \in Rows(u) : IsCurrent(j)}}
    BY DEF UsersInv, FrameInv, CloseExpired
  <2>3. CASE IsNew(u)
    <3>1. \A i \in Rows(u) : ~IsCurrent(i) BY <2>2, <2>3 DEF IsNew
    <3>2. QED BY <1>0, <2>1, <2>3, <3>1, Closes DEF NeedsRow, Rows, IsCurrent
  <2>4. CASE IsChanged(u)
    <3>1. \A i \in Rows(u) : IsCurrent(i) => Expires(i) BY <2>4 DEF Rows, Expires
    <3>2. QED BY <1>0, <2>1, <2>4, <3>1, Closes DEF NeedsRow, Rows, IsCurrent
  <2>5. CASE ~NeedsRow(u) /\ source_df[u] # 0
    <3>1. PICK i \in Rows(u) : IsCurrent(i)
      BY <2>2, <2>5 DEF NeedsRow, IsNew
    <3>2. dim[i].version = source_df[u] BY <2>2, <2>5, <3>1 DEF NeedsRow, IsChanged
    <3>3. ~Expires(i) BY <2>5 , <3>1 DEF NeedsRow, Expires, Rows
    <3>4. QED BY <1>0, <2>1, <2>5, <3>1, <3>2, <3>3, Closes DEF Rows, IsCurrent
  <2>6. QED BY <2>3, <2>4, <2>5 DEF NeedsRow
<1>5. QED BY <1>1, <1>2, <1>3, <1>4 DEF UsersInv

(* The batch has a row for each user that needs one, and the rows before   *)
(* stay where they are.                                                    *)
LEMMA Inserts ==
    ASSUME TypeOK, InsertNew
    PROVE  /\ dim' \in Seq(Row) /\ DOMAIN dim \subseteq DOMAIN dim'
           /\ \A i \in DOMAIN dim : dim'[i] = dim[i]
           /\ \A i \in DOMAIN dim' \ DOMAIN dim :
                 \E u \in Users : NeedsRow(u) /\ dim'[i] = NewRow(u)
           /\ \A i, j \in DOMAIN dim' \ DOMAIN dim : dim'[i].user = dim'[j].user => i = j
           /\ \A u \in Users : NeedsRow(u) =>
                 \E i \in DOMAIN dim' \ DOMAIN dim : dim'[i] = NewRow(u)
<1> DEFINE S == {u \in Users : NeedsRow(u)}
           n == Cardinality(S)
<1>1. IsFiniteSet(S) /\ n \in Nat
  BY UsersAssumption, FS_Subset, FS_CardinalityType
<1>2. PICK batch \in [1..n -> S] :
          /\ \A i, j \in DOMAIN batch : batch[i] = batch[j] => i = j
          /\ dim' = dim \o [i \in DOMAIN batch |-> NewRow(batch[i])]
  BY DEF InsertNew
<1>3. \A u \in S : \E i \in 1..n : batch[i] = u
  <2>1. batch \in Injection(1..n, S) BY <1>2 DEF Injection, IsInjective
  <2>2. Cardinality(1..n) = n BY <1>1, FS_Interval
  <2>3. batch \in Surjection(1..n, S) BY <1>1, <2>1, <2>2, FS_Injection
  <2>4. QED BY <2>3 DEF Surjection
<1>4. ASSUME NEW u \in S
      PROVE  NewRow(u) \in Row /\ NewRow(u).user = u
  <2>1. source_df[u] \in Versions
    BY <1>4 DEF NeedsRow, IsNew, IsChanged, TypeOK, Versions
  <2>2. today \in 0..MaxDay /\ Forever \in 0..Forever BY UserBounds DEF TypeOK, Forever
  <2>3. QED BY <1>4, <2>1, <2>2 DEF NewRow, Row
<1> HIDE DEF S, n
<1> DEFINE new == [i \in 1..n |-> NewRow(batch[i])]
<1>5. new \in Seq(Row) /\ Len(new) = n /\ dim \in Seq(Row) /\ dim' = dim \o new
  BY <1>1, <1>2, <1>4 DEF TypeOK
<1>6. \A i \in 1..n : new[i] = NewRow(batch[i]) /\ batch[i] \in S BY <1>2
<1> HIDE DEF new
<1>7. /\ dim' \in Seq(Row) /\ Len(dim') = Len(dim) + n
      /\ \A i \in 1..Len(dim) : dim'[i] = dim[i]
      /\ \A i \in Len(dim) + 1..Len(dim) + n : dim'[i] = new[i - Len(dim)]
  BY <1>1, <1>5
<1>8. DOMAIN dim = 1..Len(dim) /\ DOMAIN dim' = 1..Len(dim) + n /\ Len(dim) \in Nat
  BY <1>5, <1>7
<1>9. \A i \in DOMAIN dim' \ DOMAIN dim :
          i - Len(dim) \in 1..n /\ dim'[i] = NewRow(batch[i - Len(dim)])
  BY <1>1, <1>6, <1>7, <1>8
<1>10. \A i, j \in DOMAIN dim' \ DOMAIN dim : dim'[i].user = dim'[j].user => i = j
  <2> SUFFICES ASSUME NEW i \in DOMAIN dim' \ DOMAIN dim, NEW j \in DOMAIN dim' \ DOMAIN dim,
                      dim'[i].user = dim'[j].user
               PROVE  i = j
    OBVIOUS
  <2>1. batch[i - Len(dim)] = batch[j - Len(dim)] BY <1>4, <1>6, <1>9
  <2>2. i - Len(dim) = j - Len(dim) BY <1>2, <1>9, <2>1
  <2>3. QED BY <1>8, <2>2
<1>11. \A u \in Users : NeedsRow(u) => \E i \in DOMAIN dim' \ DOMAIN dim : dim'[i] = NewRow(u)
  <2> SUFFICES ASSUME NEW u \in Users, NeedsRow(u)
               PROVE  \E i \in DOMAIN dim' \ DOMAIN dim : dim'[i] = NewRow(u)
    OBVIOUS
  <2>1. PICK k \in 1..n : batch[k] = u BY <1>3 DEF S
  <2>2. /\ Len(dim) + k \in DOMAIN dim' \ DOMAIN dim
        /\ (Len(dim) + k) - Len(dim) = k
    BY <1>1, <1>8
  <2>3. QED BY <1>9, <2>1, <2>2
<1>12. \A i \in DOMAIN dim' \ DOMAIN dim : \E u \in Users : NeedsRow(u) /\ dim'[i] = NewRow(u)
  BY <1>6, <1>9 DEF S
<1>13. DOMAIN dim \subseteq DOMAIN dim' BY <1>1, <1>8
<1>14. QED BY <1>7, <1>8, <1>10, <1>11, <1>12, <1>13

LEMMA InsertNewStep ==
    ASSUME UsersInv, InsertNew
    PROVE  UsersInv'
<1>0. TypeOK /\ pc = "insert" BY DEF UsersInv, InsertNew
<1>1. TypeOK' BY <1>0, Inserts DEF TypeOK, InsertNew, frame
<1>2. SourceInv' /\ FrameInv' /\ ClosedInv'
  BY DEF UsersInv, SourceInv, FrameInv, ClosedInv, InsertNew, frame
<1>3. \A u \in Users : NewRow(u).user = u /\ NewRow(u).version = source_df[u]
                       /\ NewRow(u).is_current
  BY DEF NewRow
<1>4. OneCurrentRow'
  <2> SUFFICES ASSUME NEW i \in DOMAIN dim', NEW j \in DOMAIN dim',
                      dim'[i].is_current, dim'[j].is_current, dim'[i].user = dim'[j].user
               PROVE  i = j
    BY DEF OneCurrentRow, IsCurrent
  <2>1. ASSUME NEW k \in DOMAIN dim, NEW l \in DOMAIN dim' \ DOMAIN dim,
               dim'[k].is_current, dim'[k].user = dim'[l].user
        PROVE  FALSE
    <3>1. PICK u \in Users : NeedsRow(u) /\ dim'[l] = NewRow(u) BY <1>0, Inserts
    <3>2. k \in Rows(u) /\ IsCurrent(k)
      BY <1>0, <1>3, <2>1, <3>1, Inserts DEF Rows, IsCurrent
    <3>3. QED BY <1>0, <3>1, <3>2 DEF UsersInv, ClosedInv
  <2>2. CASE i \in DOMAIN dim /\ j \in DOMAIN dim
    BY <1>0, <2>2, Inserts DEF UsersInv, OneCurrentRow, IsCurrent
  <2>3. CASE i \notin DOMAIN dim /\ j \notin DOMAIN dim BY <1>0, <2>3, Inserts
  <2>4. QED BY <2>1, <2>2, <2>3
<1>5. DimensionCaughtUp'
  <2> SUFFICES ASSUME NEW u \in Users \ changed, source_df[u] # 0
               PROVE  \E i \in DOMAIN dim' : /\ dim'[i].user = u /\ dim'[i].is_current
                                             /\ dim'[i].version = source[u]
    BY DEF DimensionCaughtUp, Rows, IsCurrent, InsertNew, frame
  <2>1. source_df[u] = source[u] BY DEF UsersInv, SourceInv
  <2>2. CASE NeedsRow(u) BY <1>0, <1>3, <2>1, <2>2, Inserts
  <2>3. CASE ~NeedsRow(u)
    <3>1. PICK i \in Rows(u) : IsCurrent(i) /\ dim[i].version = source_df[u]
      BY <1>0, <2>3 DEF UsersInv, ClosedInv
    <3>2. QED BY <1>0, <2>1, <3>1, Inserts DEF Rows, IsCurrent
  <2>4. QED BY <2>2, <2>3
<1>6. QED BY <1>1, <1>2, <1>4, <1>5 DEF UsersInv

LEMMA UsersStep == UsersInv /\ [Next]_vars => UsersInv'
<1> SUFFICES ASSUME UsersInv, [Next]_vars PROVE UsersInv' OBVIOUS
<1>0. TypeOK BY DEF UsersInv
<1>1. CASE \E u \in Users, v \in 0..MaxVersion : ChangeUser(u, v) BY <1>1, ChangeUserStep
<1>2. CASE NextDay
  <2>1. TypeOK' BY <1>0, <1>2, UserBounds DEF TypeOK, NextDay, frame
  <2>2. QED BY <1>2, <2>1, QuietStep DEF NextDay, frame
<1>3. CASE StartRun
  <2>1. TypeOK' BY <1>0, <1>3 DEF TypeOK, StartRun, frame
  <2>2. QED BY <1>3, <2>1, QuietStep DEF StartRun, frame
<1>4. CASE RunStep
  BY <1>4, ExtractSourceStep, ExtractCurrentDimStep, CloseExpiredStep, InsertNewStep
     DEF RunStep
<1>5. CASE Fail
  <2>1. TypeOK' BY <1>0, <1>5 DEF TypeOK, Fail, frame
  <2>2. QED BY <1>5, <2>1, QuietStep DEF Fail, frame
<1>6. CASE UNCHANGED vars
  <2>1. TypeOK' BY <1>0, <1>6 DEF TypeOK, vars, frame
  <2>2. QED BY <1>6, <2>1, QuietStep DEF vars, frame
<1>7. QED BY <1>1, <1>2, <1>3, <1>4, <1>5, <1>6 DEF Next

(* The invariant of the users dimension: what a run knows, the dimension   *)
(* between its two transactions, and what the theorems below say.          *)
THEOREM UsersInvariant == Spec => []UsersInv
BY UsersInitially, UsersStep, PTL DEF Spec

(* The type invariant of the users dimension.                              *)
THEOREM UsersTypeCorrect == Spec => []TypeOK
<1>1. UsersInv => TypeOK BY DEF UsersInv
<1>2. QED BY <1>1, UsersInvariant, PTL

(* However often a run fails between its transactions and is repeated, no  *)
(* user has two current rows.                                              *)
THEOREM CurrentRowUnique == Spec => []OneCurrentRow
<1>1. UsersInv => OneCurrentRow BY DEF UsersInv
<1>2. QED BY <1>1, UsersInvariant, PTL

(* A run that ends well leaves every user that has not changed since with  *)
(* a current row of the present attributes, whatever the runs before it    *)
(* left behind.                                                            *)
THEOREM RunsCatchUp == Spec => []DimensionCaughtUp
<1>1. UsersInv => DimensionCaughtUp BY DEF UsersInv
<1>2. QED BY <1>1, UsersInvariant, PTL

(* No step of a run removes a row or rewrites a closed one.                *)
THEOREM HistoryStays == Spec => HistoryKept
<1>1. UsersInv /\ [Next]_vars => [KeepsHistory]_vars
  <2> SUFFICES ASSUME UsersInv, Next, NEW i \in DOMAIN dim
               PROVE  i \in DOMAIN dim' /\ (~IsCurrent(i) => dim'[i] = dim[i])
    BY DEF KeepsHistory
  <2>0. TypeOK BY DEF UsersInv
  <2>1. CASE UNCHANGED dim BY <2>1
  <2>2. CASE CloseExpired BY <2>0, <2>2, Closes
  <2>3. CASE InsertNew BY <2>0, <2>3, Inserts
  <2>4. QED
    BY <2>1, <2>2, <2>3
    DEF Next, RunStep, ChangeUser, NextDay, StartRun, ExtractSource, ExtractCurrentDim, Fail
<1>2. QED BY <1>1, UsersInvariant, PTL DEF Spec, HistoryKept

-----------------------------------------------------------------------------
(* The inventory pipeline.                                                 *)

(* Of the low rows only those of the present run, and those of runs that   *)
(* failed, are without an alert; and the alerts of the present run are     *)
(* about its rows, which are loaded before them.                           *)
AlertedInv ==
    /\ at # "alerts" => written = {} /\ made = {}
    /\ written \subseteq DOMAIN snapshots
    /\ \A a \in alerts \union made : \E i \in DOMAIN snapshots : Names(a, i)
    /\ \A i \in (DOMAIN snapshots) \ (unalerted \union written) :
           snapshots[i].quantity <= Low => \E a \in alerts : Names(a, i)
    /\ \A i \in written : snapshots[i].quantity <= Low => \E a \in made : Names(a, i)

InventoryInv == InventoryTypeOK /\ AlertedInv

LEMMA StockBounds ==
    MaxStock \in Nat /\ Low \in Nat /\ MaxSnapshots \in Nat /\ LastDay \in Nat \ {0}
BY StockBoundsAssumption

LEMMA InventoryInitially == InventoryInit => InventoryInv
<1> SUFFICES ASSUME InventoryInit PROVE InventoryInv OBVIOUS
<1>1. InventoryTypeOK BY StockBounds DEF InventoryInit, InventoryTypeOK
<1>2. AlertedInv BY DEF InventoryInit, AlertedInv, Names
<1>3. QED BY <1>1, <1>2 DEF InventoryInv

(* A finite set has a sequence of its elements.                            *)
LEMMA SequenceOfSet ==
    ASSUME NEW S, IsFiniteSet(S)
    PROVE  /\ Cardinality(S) \in Nat
           /\ SetToSeq(S) \in [1..Cardinality(S) -> S]
           /\ \A i, j \in 1..Cardinality(S) : SetToSeq(S)[i] = SetToSeq(S)[j] => i = j
           /\ \A x \in S : \E i \in 1..Cardinality(S) : SetToSeq(S)[i] = x
<1>1. Cardinality(S) \in Nat /\ ExistsBijection(1..Cardinality(S), S)
  BY FS_CardinalityType
<1>2. PICK f \in [1..Cardinality(S) -> S] : IsInjective(f)
  BY <1>1 DEF ExistsBijection, Bijection, Injection
<1>3. SetToSeq(S) \in [1..Cardinality(S) -> S] /\ IsInjective(SetToSeq(S))
  BY <1>2 DEF SetToSeq
<1> DEFINE s == SetToSeq(S)
<1>4. s \in Injection(1..Cardinality(S), S) BY <1>3 DEF Injection
<1>5. IsFiniteSet(1..Cardinality(S)) /\ Cardinality(1..Cardinality(S)) = Cardinality(S)
  BY <1>1, FS_Interval
<1>6. s \in Surjection(1..Cardinality(S), S) BY <1>4, <1>5, FS_Injection
<1>7. \A x \in S : \E i \in 1..Cardinality(S) : s[i] = x BY <1>6 DEF Surjection
<1>8. QED BY <1>1, <1>3, <1>7 DEF IsInjective

(* The rows of a load come behind those that are there.                    *)
LEMMA Appends ==
    ASSUME InventoryTypeOK, LoadSnapshot
    PROVE  /\ snapshots' \in Seq(StockRow) /\ DOMAIN snapshots \subseteq DOMAIN snapshots'
           /\ written' = (DOMAIN snapshots') \ (DOMAIN snapshots)
           /\ \A i \in DOMAIN snapshots : snapshots'[i] = snapshots[i]
           /\ \E of \in [written' -> Merged] :
                 /\ \A i \in written' : snapshots'[i] = SnapshotRow(of[i])
                 /\ \A i, j \in written' : of[i] = of[j] => i = j
                 /\ \A m \in Merged : \E i \in written' : of[i] = m
<1> DEFINE rows == SetToSeq(Merged)
           n == Cardinality(Merged)
           new == [k \in DOMAIN rows |-> SnapshotRow(rows[k])]
<1>1. IsFiniteSet(Merged)
  <2> DEFINE live == {s \in Skus : current[s] >= 0}
             base == last_df \union {0}
  <2>1. IsFiniteSet(live) BY SkusAssumption, FS_Subset
  <2>2. IsFiniteSet(DOMAIN snapshots)
    <3>1. Len(snapshots) \in Nat /\ DOMAIN snapshots = 1..Len(snapshots)
      BY DEF InventoryTypeOK
    <3>2. QED BY <3>1, FS_Interval
  <2>3. IsFiniteSet(last_df)
    <3>1. last_df \in SUBSET DOMAIN snapshots BY DEF InventoryTypeOK
    <3>2. QED BY <2>2, <3>1, FS_Subset
  <2>4. IsFiniteSet(base) BY <2>3, FS_AddElement
  <2> HIDE DEF live, base
  <2>5. IsFiniteSet(live \X base) BY <2>1, <2>4, FS_Product
  <2>6. Merged \in SUBSET (live \X base) BY DEF Merged, live, base
  <2>7. QED BY <2>5, <2>6, FS_Subset
<1>2. /\ n \in Nat /\ rows \in [1..n -> Merged]
      /\ \A i, j \in 1..n : rows[i] = rows[j] => i = j
      /\ \A m \in Merged : \E k \in 1..n : rows[k] = m
  BY <1>1, SequenceOfSet
<1>3. ASSUME NEW m \in Merged PROVE SnapshotRow(m) \in StockRow
  <2>1. m[1] \in Skus /\ current[m[1]] >= 0 /\ m[2] \in last_df \union {0} BY DEF Merged
  <2>2. current[m[1]] \in 0..MaxStock BY <2>1, StockBounds DEF InventoryTypeOK
  <2>3. Delta(m[1], m[2]) \in Int
    <3>1. m[2] # 0 => snapshots[m[2]] \in StockRow BY <2>1 DEF InventoryTypeOK
    <3>2. m[2] # 0 => snapshots[m[2]].quantity \in Int BY <3>1 DEF StockRow
    <3>3. QED BY <2>2, <3>2 DEF Delta
  <2>4. stampDay \in 1..LastDay /\ (stampDay # readDay + 1) \in BOOLEAN
    BY StockBounds DEF InventoryTypeOK, LoadSnapshot
  <2>5. QED BY <2>1, <2>2, <2>3, <2>4, Zenon DEF SnapshotRow, StockRow
<1> HIDE DEF rows, n
<1>4. new \in Seq(StockRow) /\ Len(new) = n BY <1>2, <1>3
<1>5. snapshots' = snapshots \o new /\ written' = Len(snapshots) + 1..Len(snapshots')
  BY DEF LoadSnapshot, rows
<1>6. snapshots \in Seq(StockRow) BY DEF InventoryTypeOK
<1>10. \A k \in 1..n : new[k] = SnapshotRow(rows[k]) BY <1>2
<1> HIDE DEF new
<1>7. /\ snapshots' \in Seq(StockRow) /\ Len(snapshots') = Len(snapshots) + n
      /\ \A i \in 1..Len(snapshots) : snapshots'[i] = snapshots[i]
      /\ \A k \in 1..n : snapshots'[Len(snapshots) + k] = new[k]
  <2>1. n \in Nat BY <1>2
  <2>2. snapshots' = snapshots \o new BY <1>5
  <2>3. /\ snapshots \o new \in Seq(StockRow)
        /\ Len(snapshots \o new) = Len(snapshots) + Len(new)
    BY <1>4, <1>6, Concatenation
  <2>4. \A i \in 1..Len(snapshots) : (snapshots \o new)[i] = snapshots[i]
    BY <1>4, <1>6, Concatenation
  <2>5. \A k \in 1..Len(new) : (snapshots \o new)[Len(snapshots) + k] = new[k]
    BY <1>4, <1>6, Concatenation
  <2>6. QED BY <1>4, <2>2, <2>3, <2>4, <2>5, Zenon
<1>8. /\ DOMAIN snapshots = 1..Len(snapshots) /\ Len(snapshots) \in Nat
      /\ DOMAIN snapshots' = 1..Len(snapshots) + n
  BY <1>6, <1>7
<1>9. \E of \in [written' -> Merged] :
          /\ \A i \in written' : snapshots'[i] = SnapshotRow(of[i])
          /\ \A i, j \in written' : of[i] = of[j] => i = j
          /\ \A m \in Merged : \E i \in written' : of[i] = m
  <2> DEFINE L == Len(snapshots)
             of == [i \in written' |-> rows[i - L]]
  <2>1. \A i \in written' : i \in Int /\ i - L \in 1..n /\ L + (i - L) = i
    BY <1>2, <1>5, <1>7, <1>8
  <2>2. of \in [written' -> Merged] BY <1>2, <2>1
  <2>3. \A i \in written' : of[i] = rows[i - L] OBVIOUS
  <2> HIDE DEF of
  <2>4. ASSUME NEW i \in written' PROVE snapshots'[i] = SnapshotRow(of[i])
    BY <1>7, <1>10, <2>1, <2>3
  <2>5. ASSUME NEW i \in written', NEW j \in written', of[i] = of[j] PROVE i = j
    <3>1. i - L = j - L BY <1>2, <2>1, <2>3, <2>5
    <3>2. QED BY <2>1, <3>1
  <2>6. ASSUME NEW m \in Merged PROVE \E i \in written' : of[i] = m
    <3>1. PICK k \in 1..n : rows[k] = m BY <1>2
    <3>2. L + k \in written' /\ (L + k) - L = k BY <1>2, <1>5, <1>7, <1>8
    <3>3. QED BY <2>3, <3>1, <3>2
  <2>7. QED BY <2>2, <2>4, <2>5, <2>6
<1>11. /\ snapshots' \in Seq(StockRow) /\ DOMAIN snapshots \subseteq DOMAIN snapshots'
       /\ written' = (DOMAIN snapshots') \ (DOMAIN snapshots)
       /\ \A i \in DOMAIN snapshots : snapshots'[i] = snapshots[i]
  BY <1>2, <1>5, <1>7, <1>8
<1>12. QED BY <1>9, <1>11

(* The alerts of a load name its low rows, and all of them have one.       *)
LEMMA MakesAlerts ==
    ASSUME InventoryTypeOK, AlertedInv, LoadSnapshot
    PROVE  /\ made' \subseteq StockAlert
           /\ \A a \in made' : \E i \in written' : Names(a, i)'
           /\ \A i \in written' : snapshots'[i].quantity <= Low =>
                  \E a \in made' : Names(a, i)'
<1> USE StockBounds
<1>1. PICK days \in [LowRows -> AlertDates] : made' = {Alert(m, days[m]) : m \in LowRows}
  BY DEF LoadSnapshot
<1>2. /\ stampDay \in 1..LastDay /\ localDay \in 1..LastDay
      /\ \A d \in AlertDates : d \in 1..LastDay /\ stampDay <= d /\ d <= localDay
  BY DEF InventoryTypeOK, LoadSnapshot, AlertDates
<1>3. PICK of \in [written' -> Merged] :
          /\ \A i \in written' : snapshots'[i] = SnapshotRow(of[i])
          /\ \A m \in Merged : \E i \in written' : of[i] = m
  BY Appends
<1>4. ASSUME NEW m \in LowRows
      PROVE  /\ m \in Merged /\ m[1] \in Skus /\ current[m[1]] \in 0..MaxStock
             /\ days[m] \in AlertDates
  <2>1. m \in Merged BY DEF LowRows
  <2>2. m[1] \in Skus /\ current[m[1]] >= 0 BY <2>1 DEF Merged
  <2>3. current[m[1]] \in 0..MaxStock BY <2>2 DEF InventoryTypeOK
  <2>4. QED BY <2>1, <2>2, <2>3
<1>5. ASSUME NEW m \in LowRows, NEW i \in written', of[i] = m,
             NEW a, a = Alert(m, days[m])
      PROVE  Names(a, i)'
  <2>1. a = [sku |-> m[1], quantity |-> current[m[1]], day |-> days[m],
             turned |-> localDay # stampDay]
    BY <1>5 DEF Alert
  <2>2. /\ snapshots'[i].sku = m[1] /\ snapshots'[i].quantity = current[m[1]]
        /\ snapshots'[i].day = stampDay
    <3>1. \A x : /\ SnapshotRow(x).sku = x[1] /\ SnapshotRow(x).quantity = current[x[1]]
                 /\ SnapshotRow(x).day = stampDay
      BY DEF SnapshotRow
    <3>2. snapshots'[i] = SnapshotRow(m) BY <1>3, <1>5
    <3>3. QED BY <3>1, <3>2, Zenon
  <2>3. /\ a.sku = m[1] /\ a.quantity = current[m[1]] /\ a.day = days[m]
        /\ a.turned = (localDay # stampDay)
    BY <2>1
  <2>4. stampDay = a.day \/ (a.turned /\ stampDay < a.day)
    <3>1. PICK d \in AlertDates : d = a.day BY <1>4, <2>3
    <3>2. d \in Int /\ stampDay \in Int /\ localDay \in Int /\ stampDay <= d /\ d <= localDay
      BY <1>2
    <3>3. stampDay = d \/ (localDay # stampDay /\ stampDay < d) BY <3>2
    <3>4. QED BY <2>3, <3>1, <3>3
  <2>5. Names(a, i)' <=>
            /\ snapshots'[i].sku = a.sku /\ snapshots'[i].quantity = a.quantity
            /\ snapshots'[i].day = a.day \/ (a.turned /\ snapshots'[i].day < a.day)
    BY DEF Names
  <2>6. QED BY <2>2, <2>3, <2>4, <2>5
<1>6. made' \subseteq StockAlert
  <2>1. ASSUME NEW m \in LowRows PROVE Alert(m, days[m]) \in StockAlert
    <3>1. (localDay # stampDay) \in BOOLEAN OBVIOUS
    <3>2. m[1] \in Skus /\ current[m[1]] \in 0..MaxStock /\ days[m] \in 1..LastDay
      BY <1>2, <1>4
    <3>3. QED BY <3>1, <3>2, Zenon DEF Alert, StockAlert
  <2>2. QED BY <1>1, <2>1
<1>7. ASSUME NEW a \in made' PROVE \E i \in written' : Names(a, i)'
  <2>1. PICK m \in LowRows : a = Alert(m, days[m]) BY <1>1
  <2>2. PICK i \in written' : of[i] = m BY <1>3, <1>4
  <2>3. QED BY <1>5, <2>1, <2>2
<1>8. ASSUME NEW i \in written', snapshots'[i].quantity <= Low
      PROVE  \E a \in made' : Names(a, i)'
  <2>1. of[i] \in Merged /\ snapshots'[i].quantity = current[of[i][1]]
    <3>1. \A x : SnapshotRow(x).quantity = current[x[1]] BY DEF SnapshotRow
    <3>2. QED BY <1>3, <3>1, Zenon
  <2>2. of[i] \in LowRows BY <1>8, <2>1 DEF LowRows, IsLow
  <2>3. QED BY <1>1, <1>5, <2>2
<1>9. QED BY <1>6, <1>7, <1>8

LEMMA LoadSnapshotStep ==
    ASSUME InventoryInv, LoadSnapshot
    PROVE  InventoryInv'
<1>0. InventoryTypeOK /\ AlertedInv BY DEF InventoryInv
<1>1. InventoryTypeOK'
  <2>1. loads' \in [1..LastDay -> 0..2] BY <1>0 DEF InventoryTypeOK, LoadSnapshot
  <2>2. {last_df, written, unalerted}' \subseteq SUBSET DOMAIN snapshots'
    BY <1>0, Appends DEF InventoryTypeOK, LoadSnapshot
  <2>3. made' \subseteq StockAlert BY <1>0, MakesAlerts
  <2>4. QED BY <1>0, <2>1, <2>2, <2>3, Appends DEF InventoryTypeOK, LoadSnapshot
<1>2. AlertedInv'
  <2>1. /\ at' = "alerts" /\ alerts' = alerts /\ unalerted' = unalerted /\ at = "load"
        /\ made = {} /\ written = {}
    BY <1>0 DEF LoadSnapshot, AlertedInv
  <2>2. /\ written' \subseteq DOMAIN snapshots' /\ DOMAIN snapshots \subseteq DOMAIN snapshots'
        /\ \A i \in DOMAIN snapshots' : i \in DOMAIN snapshots \/ i \in written'
        /\ \A i \in DOMAIN snapshots : snapshots'[i] = snapshots[i]
    BY <1>0, Appends
  <2>3. \A a, i : i \in DOMAIN snapshots => (Names(a, i)' <=> Names(a, i)) BY <2>2 DEF Names
  <2>4. \A a \in alerts : \E i \in DOMAIN snapshots' : Names(a, i)'
    BY <1>0, <2>2, <2>3 DEF AlertedInv
  <2>5. \A a \in made' : \E i \in DOMAIN snapshots' : Names(a, i)' BY <1>0, <2>2, MakesAlerts
  <2>6. ASSUME NEW i \in (DOMAIN snapshots') \ (unalerted \union written'),
               snapshots'[i].quantity <= Low
        PROVE  \E a \in alerts : Names(a, i)'
    <3>1. i \in DOMAIN snapshots /\ snapshots[i].quantity <= Low BY <2>2, <2>6
    <3>2. PICK a \in alerts : Names(a, i) BY <1>0, <2>1, <2>6, <3>1 DEF AlertedInv
    <3>3. QED BY <2>3, <3>1, <3>2
  <2>7. QED BY <1>0, <2>1, <2>2, <2>4, <2>5, <2>6, MakesAlerts DEF AlertedInv
<1>3. QED BY <1>1, <1>2 DEF InventoryInv

LEMMA InventoryStep == InventoryInv /\ [InventoryNext]_inventoryVars => InventoryInv'
<1> SUFFICES ASSUME InventoryInv, [InventoryNext]_inventoryVars PROVE InventoryInv' OBVIOUS
<1> USE StockBounds
<1>0. InventoryTypeOK /\ AlertedInv BY DEF InventoryInv
<1>1. CASE Midnight
  <2>1. InventoryTypeOK' BY <1>0, <1>1 DEF InventoryTypeOK, Midnight, inventoryRun
  <2>2. AlertedInv' BY <1>0, <1>1 DEF AlertedInv, Names, Midnight, inventoryRun
  <2>3. QED BY <2>1, <2>2 DEF InventoryInv
<1>2. CASE UtcMidnight
  <2>1. InventoryTypeOK' BY <1>0, <1>2 DEF InventoryTypeOK, UtcMidnight, inventoryRun
  <2>2. AlertedInv' BY <1>0, <1>2 DEF AlertedInv, Names, UtcMidnight, inventoryRun
  <2>3. QED BY <2>1, <2>2 DEF InventoryInv
<1>3. CASE ExtractInventory
  <2>1. InventoryTypeOK' BY <1>0, <1>3 DEF InventoryTypeOK, ExtractInventory
  <2>2. AlertedInv' BY <1>0, <1>3 DEF AlertedInv, Names, ExtractInventory
  <2>3. QED BY <2>1, <2>2 DEF InventoryInv
<1>4. CASE ExtractLastSnapshot
  <2>1. InventoryTypeOK' BY <1>0, <1>4 DEF InventoryTypeOK, ExtractLastSnapshot
  <2>2. AlertedInv' BY <1>0, <1>4 DEF AlertedInv, Names, ExtractLastSnapshot
  <2>3. QED BY <2>1, <2>2 DEF InventoryInv
<1>5. CASE StampRows
  <2>1. InventoryTypeOK' BY <1>0, <1>5 DEF InventoryTypeOK, StampRows
  <2>2. AlertedInv' BY <1>0, <1>5 DEF AlertedInv, Names, StampRows
  <2>3. QED BY <2>1, <2>2 DEF InventoryInv
<1>6. CASE LoadSnapshot BY <1>6, LoadSnapshotStep
<1>7. CASE LoadAlerts
  <2>1. InventoryTypeOK' BY <1>0, <1>7 DEF InventoryTypeOK, LoadAlerts, ForgetsRun
  <2>2. /\ snapshots' = snapshots /\ unalerted' = unalerted /\ alerts' = alerts \union made
        /\ at' = "idle" /\ written' = {} /\ made' = {}
    BY <1>7 DEF LoadAlerts, ForgetsRun
  <2>3. \A a, i : Names(a, i)' <=> Names(a, i) BY <2>2 DEF Names
  <2>4. AlertedInv' BY <1>0, <2>2, <2>3 DEF AlertedInv
  <2>5. QED BY <2>1, <2>4 DEF InventoryInv
<1>8. CASE InventoryFail
  <2>1. InventoryTypeOK' BY <1>0, <1>8 DEF InventoryTypeOK, InventoryFail, ForgetsRun
  <2>2. /\ snapshots' = snapshots /\ alerts' = alerts
        /\ unalerted' = unalerted \union {i \in written : snapshots[i].quantity <= Low}
        /\ at' = "idle" /\ written' = {} /\ made' = {}
    BY <1>8 DEF InventoryFail, ForgetsRun, IsLow
  <2>3. \A a, i : Names(a, i)' <=> Names(a, i) BY <2>2 DEF Names
  <2>4. AlertedInv' BY <1>0, <2>2, <2>3 DEF AlertedInv
  <2>5. QED BY <2>1, <2>4 DEF InventoryInv
<1>9. CASE UNCHANGED inventoryVars
  <2>1. InventoryTypeOK' BY <1>0, <1>9 DEF InventoryTypeOK, inventoryVars, inventoryRun
  <2>2. AlertedInv' BY <1>0, <1>9 DEF AlertedInv, Names, inventoryVars, inventoryRun
  <2>3. QED BY <2>1, <2>2 DEF InventoryInv
<1>10. QED BY <1>1, <1>2, <1>3, <1>4, <1>5, <1>6, <1>7, <1>8, <1>9 DEF InventoryNext

(* The type invariant of the inventory pipeline: what it remembers of the  *)
(* snapshots are positions that are there.                                 *)
THEOREM InventoryTypeCorrect == InventorySpec => []InventoryTypeOK
<1>1. InventoryInv => InventoryTypeOK BY DEF InventoryInv
<1>2. QED BY <1>1, InventoryInitially, InventoryStep, PTL DEF InventorySpec

(* Every alert names a row of its SKU, its quantity and, unless midnight   *)
(* came between, its day; and between the runs every low row has such an   *)
(* alert but those of failed runs.                                         *)
THEOREM AlertsStayMatched == InventorySpec => []AlertsMatchRows
<1>1. InventoryInv => AlertsMatchRows
  BY DEF InventoryInv, AlertedInv, AlertsMatchRows
<1>2. QED BY <1>1, InventoryInitially, InventoryStep, PTL DEF InventorySpec

(* A run joins with the rows of the day it read, which no load of its own  *)
(* or of an earlier day can still change: the stamp never goes back.       *)
DaysInv ==
    /\ utcDay <= localDay + 1
    /\ \A i \in DOMAIN snapshots : /\ snapshots[i].day <= localDay
                                   /\ loads[snapshots[i].day] # 0
    /\ at \in {"stamp", "load"} =>
           /\ readDay <= localDay
           /\ last_df = {i \in DOMAIN snapshots : snapshots[i].day = readDay}
    /\ at = "load" => /\ readDay <= stampDay /\ stampDay <= localDay
                       /\ \A i \in DOMAIN snapshots : snapshots[i].day <= stampDay

(* Two rows of one SKU on one day, without the word "Cardinality".         *)
HasTwo(S) == \E i, j \in S : i # j
TwoRowsExplained ==
    \A s \in Skus, d \in 1..LastDay :
        HasTwo(RowsOf(s, d)) => \E e \in 1..d : loads[e] > 1

StockInv == DaysInv /\ DeltasAddUp /\ TwoRowsExplained

LEMMA StockInitially == InventoryInit => StockInv
BY DEF InventoryInit, StockInv, DaysInv, DeltasAddUp, TwoRowsExplained, HasTwo, RowsOf

(* What a load leaves of the days behind it: their rows.                   *)
LEMMA LoadKeepsDays ==
    ASSUME InventoryTypeOK, StockInv, LoadSnapshot
    PROVE  /\ \A i \in DOMAIN snapshots : i \in DOMAIN snapshots' /\ snapshots'[i] = snapshots[i]
           /\ \A i \in written' : /\ i \in DOMAIN snapshots' /\ i \notin DOMAIN snapshots
                                  /\ snapshots'[i].day = stampDay
           /\ \A i \in DOMAIN snapshots' : i \in DOMAIN snapshots \/ i \in written'
           /\ \A s \in Skus, d \in Int : d # stampDay => RowsOf(s, d)' = RowsOf(s, d)
<1>1. /\ \A i \in DOMAIN snapshots : i \in DOMAIN snapshots' /\ snapshots'[i] = snapshots[i]
      /\ written' = (DOMAIN snapshots') \ (DOMAIN snapshots)
  BY Appends
<1>2. PICK of \in [written' -> Merged] : \A i \in written' : snapshots'[i] = SnapshotRow(of[i])
  BY Appends
<1>3. ASSUME NEW i \in written' PROVE snapshots'[i].day = stampDay
  <2>1. \A m : SnapshotRow(m).day = stampDay BY DEF SnapshotRow
  <2>2. snapshots'[i] = SnapshotRow(of[i]) BY <1>2
  <2>3. QED BY <2>1, <2>2, Zenon
<1>4. ASSUME NEW s \in Skus, NEW d \in Int, d # stampDay
      PROVE  RowsOf(s, d)' = RowsOf(s, d)
  <2>1. ASSUME NEW i PROVE i \in RowsOf(s, d)' <=> i \in RowsOf(s, d)
    <3>1. CASE i \in DOMAIN snapshots BY <1>1, <3>1 DEF RowsOf
    <3>2. CASE i \notin DOMAIN snapshots BY <1>1, <1>3, <1>4, <3>2 DEF RowsOf
    <3>3. QED BY <3>1, <3>2
  <2>2. QED BY <2>1
<1>5. QED BY <1>1, <1>3, <1>4

(* A row that is written continues one it was joined with, and was joined  *)
(* with every row that it may continue.                                    *)
LEMMA LoadContinues ==
    ASSUME InventoryTypeOK, StockInv, LoadSnapshot, NEW m \in Merged, NEW row,
           row = SnapshotRow(m), ~row.crossed
    PROVE  IF RowsOf(row.sku, row.day - 1) # {}
           THEN \E j \in RowsOf(row.sku, row.day - 1) :
                    snapshots[j].quantity + row.delta = row.quantity
           ELSE row.delta = IF \E s \in Skus : RowsOf(s, row.day - 1) # {}
                            THEN row.quantity ELSE 0
<1>1. /\ m[1] \in Skus /\ current[m[1]] \in Int
      /\ IF Matches(m[1]) = {} THEN m[2] = 0 ELSE m[2] \in Matches(m[1])
  <2>1. m[1] \in Skus /\ current[m[1]] \in -1..MaxStock BY DEF Merged, InventoryTypeOK
  <2>2. QED BY <2>1, StockBounds DEF Merged
<1>2. /\ row.sku = m[1] /\ row.quantity = current[m[1]] /\ row.day = stampDay
      /\ row.delta = Delta(m[1], m[2]) /\ stampDay = readDay + 1
  BY DEF SnapshotRow
<1>3. /\ readDay \in Int /\ row.day - 1 = readDay
      /\ last_df = {i \in DOMAIN snapshots : snapshots[i].day = readDay}
  BY <1>2, StockBounds DEF InventoryTypeOK, StockInv, DaysInv, LoadSnapshot
<1>4. RowsOf(m[1], readDay) = Matches(m[1]) BY <1>3 DEF RowsOf, Matches, IsMatch
<1>5. (\E s \in Skus : RowsOf(s, readDay) # {}) <=> last_df # {}
  <2>1. \A i \in DOMAIN snapshots : snapshots[i].sku \in Skus
    <3>1. \A i \in DOMAIN snapshots : snapshots[i] \in StockRow BY DEF InventoryTypeOK
    <3>2. QED BY <3>1 DEF StockRow
  <2>2. QED BY <1>3, <2>1 DEF RowsOf
<1>6. CASE Matches(m[1]) = {}
  <2>1. row.delta = IF last_df = {} THEN 0 ELSE row.quantity
    BY <1>1, <1>2, <1>6 DEF Delta
  <2>2. QED BY <1>2, <1>3, <1>4, <1>5, <1>6, <2>1
<1>7. CASE Matches(m[1]) # {}
  <2>1. m[2] \in Matches(m[1]) /\ m[2] \in last_df BY <1>1, <1>7 DEF Matches
  <2>2. m[2] \in DOMAIN snapshots /\ m[2] # 0
    <3>1. DOMAIN snapshots = 1..Len(snapshots) BY DEF InventoryTypeOK
    <3>2. QED BY <1>3, <2>1, <3>1
  <2>3. snapshots[m[2]].quantity \in Int
    <3>1. snapshots[m[2]] \in StockRow BY <2>2 DEF InventoryTypeOK
    <3>2. QED BY <3>1, StockBounds DEF StockRow
  <2>4. row.delta = row.quantity - snapshots[m[2]].quantity
    BY <1>2, <2>1, <2>2 DEF Delta
  <2>5. snapshots[m[2]].quantity + row.delta = row.quantity
    BY <1>1, <1>2, <2>3, <2>4
  <2>6. QED BY <1>2, <1>3, <1>4, <1>7, <2>1, <2>5
<1>8. QED BY <1>6, <1>7

LEMMA LoadAddsUp ==
    ASSUME InventoryTypeOK, StockInv, LoadSnapshot
    PROVE  DeltasAddUp'
<1> DEFINE AddsUp(row) ==
             ~row.crossed =>
                 IF RowsOf(row.sku, row.day - 1) # {}
                 THEN \E j \in RowsOf(row.sku, row.day - 1) :
                          snapshots[j].quantity + row.delta = row.quantity
                 ELSE row.delta = IF \E s \in Skus : RowsOf(s, row.day - 1) # {}
                                  THEN row.quantity ELSE 0
<1>1. \A i \in DOMAIN snapshots : AddsUp(snapshots[i]) BY DEF StockInv, DeltasAddUp
<1>2. ASSUME NEW row, row.sku \in Skus, row.day \in Int, row.day <= stampDay, AddsUp(row)
      PROVE  ~row.crossed =>
                 IF RowsOf(row.sku, row.day - 1)' # {}
                 THEN \E j \in RowsOf(row.sku, row.day - 1)' :
                          snapshots'[j].quantity + row.delta = row.quantity
                 ELSE row.delta = IF \E s \in Skus : RowsOf(s, row.day - 1)' # {}
                                  THEN row.quantity ELSE 0
  <2>1. row.day - 1 \in Int /\ row.day - 1 # stampDay
    BY <1>2, StockBounds DEF InventoryTypeOK
  <2>2. \A s \in Skus : RowsOf(s, row.day - 1)' = RowsOf(s, row.day - 1)
    BY <2>1, LoadKeepsDays
  <2>3. \A j \in RowsOf(row.sku, row.day - 1) : snapshots'[j] = snapshots[j]
    BY LoadKeepsDays DEF RowsOf
  <2>4. QED BY <1>2, <2>2, <2>3
<1>3. PICK of \in [written' -> Merged] : \A i \in written' : snapshots'[i] = SnapshotRow(of[i])
  BY Appends
<1>4. ASSUME NEW i \in DOMAIN snapshots'
      PROVE  /\ snapshots'[i].sku \in Skus /\ snapshots'[i].day \in Int
             /\ snapshots'[i].day <= stampDay /\ AddsUp(snapshots'[i])
  <2>1. snapshots'[i] \in StockRow BY Appends
  <2>2. snapshots'[i].sku \in Skus /\ snapshots'[i].day \in Int
    BY <2>1, StockBounds DEF StockRow
  <2>3. CASE i \in DOMAIN snapshots
    <3>1. snapshots'[i] = snapshots[i] BY <2>3, LoadKeepsDays
    <3>2. QED BY <1>1, <2>2, <2>3, <3>1 DEF StockInv, DaysInv, LoadSnapshot
  <2>4. CASE i \in written'
    <3>1. PICK m \in Merged : snapshots'[i] = SnapshotRow(m) BY <1>3, <2>4
    <3>2. AddsUp(snapshots'[i]) BY <3>1, LoadContinues
    <3>3. snapshots'[i].day = stampDay BY <2>4, LoadKeepsDays
    <3>4. QED BY <2>2, <3>2, <3>3, StockBounds DEF InventoryTypeOK
  <2>5. QED BY <2>3, <2>4, LoadKeepsDays
<1> HIDE DEF AddsUp
<1>5. QED BY <1>2, <1>4 DEF DeltasAddUp

(* The rows of two loads of a day may repeat a SKU; those of one load do   *)
(* only if the rows that it was joined with did.                           *)
LEMMA LoadExplains ==
    ASSUME InventoryTypeOK, StockInv, LoadSnapshot
    PROVE  TwoRowsExplained'
<1>1. /\ stampDay \in 1..LastDay /\ readDay \in 0..LastDay
      /\ readDay <= stampDay /\ LastDay \in Nat
      /\ last_df = {i \in DOMAIN snapshots : snapshots[i].day = readDay}
  BY StockBounds DEF InventoryTypeOK, StockInv, DaysInv, LoadSnapshot
<1>2. \A e \in 1..LastDay : loads[e] > 1 => loads'[e] > 1
  <2>1. loads' = [loads EXCEPT ![stampDay] = IF @ = 0 THEN 1 ELSE 2] BY DEF LoadSnapshot
  <2>2. \A e \in 1..LastDay : loads[e] \in 0..2 BY DEF InventoryTypeOK
  <2>3. \A e \in 1..LastDay : e # stampDay => loads'[e] = loads[e]
    BY <2>1 DEF InventoryTypeOK
  <2>4. loads[stampDay] # 0 => loads'[stampDay] = 2 BY <1>1, <2>1 DEF InventoryTypeOK
  <2>5. QED BY <2>2, <2>3, <2>4
<1>3. loads[stampDay] # 0 => loads'[stampDay] > 1
  BY <1>1 DEF InventoryTypeOK, LoadSnapshot
<1>4. ASSUME NEW s \in Skus, NEW d \in 1..LastDay,
             NEW i \in RowsOf(s, d)', NEW j \in RowsOf(s, d)', i # j
      PROVE  \E e \in 1..d : loads'[e] > 1
  <2>1. CASE d # stampDay
    <3>1. i \in RowsOf(s, d) /\ j \in RowsOf(s, d) BY <1>1, <2>1, LoadKeepsDays
    <3>2. PICK e \in 1..d : loads[e] > 1
      BY <1>4, <3>1 DEF StockInv, TwoRowsExplained, HasTwo
    <3>3. e \in 1..LastDay BY <1>1
    <3>4. QED BY <1>2, <3>2, <3>3
  <2>2. CASE d = stampDay /\ loads[stampDay] # 0 BY <1>1, <1>3, <2>2
  <2>3. CASE d = stampDay /\ loads[stampDay] = 0
    <3>1. i \in DOMAIN snapshots' /\ j \in DOMAIN snapshots'
          /\ snapshots'[i].sku = s /\ snapshots'[j].sku = s
          /\ snapshots'[i].day = stampDay /\ snapshots'[j].day = stampDay
      BY <2>3 DEF RowsOf
    <3>2. \A k \in DOMAIN snapshots : snapshots'[k].day # stampDay
      BY <2>3, LoadKeepsDays DEF StockInv, DaysInv
    <3>3. i \in written' /\ j \in written' BY <3>1, <3>2, LoadKeepsDays
    <3>4. PICK of \in [written' -> Merged] :
              /\ \A k \in written' : snapshots'[k] = SnapshotRow(of[k])
              /\ \A k, l \in written' : of[k] = of[l] => k = l
      BY Appends
    <3>5. PICK m \in Merged, n \in Merged : m = of[i] /\ n = of[j] /\ m # n
      BY <1>4, <3>3, <3>4
    <3>6. m[1] = s /\ n[1] = s
      <4>1. \A x : SnapshotRow(x).sku = x[1] BY DEF SnapshotRow
      <4>2. snapshots'[i] = SnapshotRow(m) /\ snapshots'[j] = SnapshotRow(n)
        BY <3>3, <3>4, <3>5
      <4>3. QED BY <3>1, <4>1, <4>2, Zenon
    <3>7. m = <<s, m[2]>> /\ n = <<s, n[2]>> BY <3>6 DEF Merged
    <3>8. m[2] # n[2] BY <3>5, <3>7
    <3>9. m[2] \in Matches(s) /\ n[2] \in Matches(s)
      <4>1. IF Matches(s) = {} THEN m[2] = 0 ELSE m[2] \in Matches(s) BY <3>6 DEF Merged
      <4>2. IF Matches(s) = {} THEN n[2] = 0 ELSE n[2] \in Matches(s) BY <3>6 DEF Merged
      <4>3. QED BY <3>8, <4>1, <4>2
    <3>10. m[2] \in RowsOf(s, readDay) /\ n[2] \in RowsOf(s, readDay)
      BY <1>1, <3>9 DEF RowsOf, Matches, IsMatch
    <3>11. readDay \in 1..LastDay
      <4>1. m[2] \in DOMAIN snapshots /\ snapshots[m[2]].day = readDay
        BY <3>10 DEF RowsOf
      <4>2. snapshots[m[2]] \in StockRow BY <4>1 DEF InventoryTypeOK
      <4>3. QED BY <4>1, <4>2 DEF StockRow
    <3>12. PICK e \in 1..readDay : loads[e] > 1
      BY <3>8, <3>10, <3>11 DEF StockInv, TwoRowsExplained, HasTwo
    <3>13. e \in 1..d /\ e \in 1..LastDay BY <1>1, <2>3
    <3>14. QED BY <1>2, <3>12, <3>13
  <2>4. QED BY <2>1, <2>2, <2>3
<1>5. QED BY <1>4 DEF TwoRowsExplained, HasTwo

(* The steps that append nothing.                                          *)
LEMMA StockStays ==
    ASSUME InventoryTypeOK, StockInv, DaysInv', UNCHANGED <<snapshots, loads>>
    PROVE  StockInv'
<1>1. \A s, d : RowsOf(s, d)' = RowsOf(s, d) BY DEF RowsOf
<1>2. DeltasAddUp'
  <2>1. snapshots' = snapshots OBVIOUS
  <2>2. DeltasAddUp BY DEF StockInv
  <2>3. QED BY <1>1, <2>1, <2>2 DEF DeltasAddUp
<1>3. TwoRowsExplained' BY <1>1 DEF StockInv, TwoRowsExplained
<1>4. QED BY <1>2, <1>3 DEF StockInv

LEMMA StockStep == InventoryTypeOK /\ StockInv /\ [InventoryNext]_inventoryVars => StockInv'
<1> SUFFICES ASSUME InventoryTypeOK, StockInv, [InventoryNext]_inventoryVars PROVE StockInv'
  OBVIOUS
<1> USE StockBounds
<1>0. DaysInv /\ utcDay \in Int /\ localDay \in Int /\ readDay \in Int
      /\ stampDay \in Int /\ Zone \in -1..1
  BY ZoneAssumption DEF StockInv, InventoryTypeOK
<1>00. \A i \in DOMAIN snapshots : snapshots[i].day \in 1..LastDay
  <2>1. \A i \in DOMAIN snapshots : snapshots[i] \in StockRow BY DEF InventoryTypeOK
  <2>2. QED BY <2>1 DEF StockRow
<1>1. CASE Midnight
  <2>1. localDay' = localDay + 1 /\ utcDay' <= localDay' + 1
    BY <1>0, <1>1 DEF Midnight, DaysInv
  <2>2. UNCHANGED <<snapshots, loads>> /\ at' = at /\ readDay' = readDay /\ last_df' = last_df
        /\ stampDay' = stampDay
    BY <1>1 DEF Midnight, inventoryRun
  <2>3. DaysInv' BY <1>0, <1>00, <2>1, <2>2 DEF DaysInv
  <2>4. QED BY <2>2, <2>3, StockStays
<1>2. CASE UtcMidnight
  <2>1. UNCHANGED <<snapshots, loads, localDay, at, readDay, last_df, stampDay>>
        /\ utcDay' <= localDay' + 1
    BY <1>0, <1>2 DEF UtcMidnight, inventoryRun
  <2>2. DaysInv' BY <1>0, <2>1 DEF DaysInv
  <2>3. QED BY <2>1, <2>2, StockStays
<1>3. CASE ExtractInventory
  <2>1. UNCHANGED <<snapshots, loads, localDay, utcDay>> /\ at' = "last"
    BY <1>3 DEF ExtractInventory
  <2>2. DaysInv' BY <1>0, <2>1 DEF DaysInv
  <2>3. QED BY <2>1, <2>2, StockStays
<1>4. CASE ExtractLastSnapshot
  <2>1. UNCHANGED <<snapshots, loads, localDay, utcDay>> /\ at' = "stamp"
        /\ readDay' = utcDay - 1
        /\ last_df' = {i \in DOMAIN snapshots : snapshots[i].day = utcDay - 1}
    BY <1>4 DEF ExtractLastSnapshot, IsYesterdays
  <2>2. DaysInv' BY <1>0, <2>1 DEF DaysInv
  <2>3. QED BY <2>1, <2>2, StockStays
<1>5. CASE LoadSnapshot
  <2>1. UNCHANGED <<localDay, utcDay>> /\ at' = "alerts" BY <1>5 DEF LoadSnapshot
  <2>2. \A d \in 1..LastDay : loads[d] # 0 \/ d = stampDay => loads'[d] # 0
    <3>1. loads' = [loads EXCEPT ![stampDay] = IF @ = 0 THEN 1 ELSE 2]
      BY <1>5 DEF LoadSnapshot
    <3>2. \A d \in 1..LastDay : d # stampDay => loads'[d] = loads[d]
      BY <3>1 DEF InventoryTypeOK
    <3>3. loads'[stampDay] # 0
      BY <1>5, <3>1 DEF InventoryTypeOK, LoadSnapshot
    <3>4. QED BY <3>2, <3>3
  <2>3. ASSUME NEW i \in DOMAIN snapshots'
        PROVE  snapshots'[i].day <= localDay /\ loads'[snapshots'[i].day] # 0
    <3>1. CASE i \in DOMAIN snapshots
      <4>1. snapshots'[i] = snapshots[i] BY <1>5, <3>1, LoadKeepsDays
      <4>2. QED BY <1>0, <1>00, <2>2, <3>1, <4>1 DEF DaysInv
    <3>2. CASE i \in written'
      <4>1. snapshots'[i].day = stampDay BY <1>5, <3>2, LoadKeepsDays
      <4>2. stampDay \in 1..LastDay /\ stampDay <= localDay
        BY <1>0, <1>5 DEF DaysInv, InventoryTypeOK, LoadSnapshot
      <4>3. QED BY <2>2, <4>1, <4>2
    <3>3. QED BY <1>5, <3>1, <3>2, LoadKeepsDays
  <2>4. DaysInv' BY <1>0, <2>1, <2>3 DEF DaysInv
  <2>5. QED BY <1>5, <2>4, LoadAddsUp, LoadExplains DEF StockInv
<1>6. CASE LoadAlerts
  <2>1. UNCHANGED <<snapshots, loads, localDay, utcDay>> /\ at' = "idle"
    BY <1>6 DEF LoadAlerts, ForgetsRun
  <2>2. DaysInv' BY <1>0, <2>1 DEF DaysInv
  <2>3. QED BY <2>1, <2>2, StockStays
<1>7. CASE InventoryFail
  <2>1. UNCHANGED <<snapshots, loads, localDay, utcDay>> /\ at' = "idle"
    BY <1>7 DEF InventoryFail, ForgetsRun
  <2>2. DaysInv' BY <1>0, <2>1 DEF DaysInv
  <2>3. QED BY <2>1, <2>2, StockStays
<1>8. CASE UNCHANGED inventoryVars
  <2>1. UNCHANGED <<snapshots, loads, localDay, utcDay, at, readDay, last_df, stampDay>>
    BY <1>8 DEF inventoryVars, inventoryRun
  <2>2. DaysInv' BY <1>0, <2>1 DEF DaysInv
  <2>3. QED BY <2>1, <2>2, StockStays
<1>9. CASE StampRows
  <2>1. UNCHANGED <<snapshots, loads, localDay, utcDay, readDay, last_df>>
        /\ at = "stamp" /\ at' = "load" /\ stampDay' = localDay
    BY <1>9 DEF StampRows
  <2>2. DaysInv' BY <1>0, <2>1 DEF DaysInv
  <2>3. QED BY <2>1, <2>2, StockStays
<1>10. QED BY <1>1, <1>2, <1>3, <1>4, <1>5, <1>6, <1>7, <1>8, <1>9 DEF InventoryNext

(* The rows of every day, and what the runs between two steps rely on.     *)
THEOREM StockInvariant == InventorySpec => [](InventoryTypeOK /\ StockInv)
<1>1. InventoryInv => InventoryTypeOK BY DEF InventoryInv
<1>2. QED BY <1>1, InventoryInitially, InventoryStep, StockInitially, StockStep, PTL
          DEF InventorySpec

(* The deltas add up from day to day, however often a run is repeated and  *)
(* whenever midnight comes.                                                *)
THEOREM StockAddsUp == InventorySpec => []DeltasAddUp
<1>1. StockInv => DeltasAddUp BY DEF StockInv
<1>2. QED BY <1>1, StockInvariant, PTL

(* A SKU has a second row on a day only because of a day loaded twice.     *)
THEOREM SecondRowsExplained == InventorySpec => []OneRowPerSku
<1>1. ASSUME InventoryTypeOK, NEW s \in Skus, NEW d \in 1..LastDay,
             Cardinality(RowsOf(s, d)) > 1
      PROVE  HasTwo(RowsOf(s, d))
  <2> DEFINE S == RowsOf(s, d)
  <2>1. IsFiniteSet(S)
    <3>1. Len(snapshots) \in Nat /\ DOMAIN snapshots = 1..Len(snapshots)
      BY DEF InventoryTypeOK
    <3>2. IsFiniteSet(1..Len(snapshots)) BY <3>1, FS_Interval
    <3>3. S \in SUBSET (1..Len(snapshots)) BY <3>1 DEF RowsOf
    <3>4. QED BY <3>2, <3>3, FS_Subset
  <2>2. Cardinality(S) > 1 BY <1>1
  <2> HIDE DEF S
  <2>3. S # {} BY <2>2, FS_EmptySet
  <2>4. PICK i \in S : TRUE BY <2>3
  <2>5. Cardinality({i}) = 1 BY FS_Singleton
  <2>6. S # {i} BY <2>2, <2>5
  <2>7. \E j \in S : j # i BY <2>4, <2>6
  <2>8. QED BY <2>4, <2>7 DEF HasTwo, S
<1>2. InventoryTypeOK /\ StockInv => OneRowPerSku
  BY <1>1 DEF StockInv, TwoRowsExplained, OneRowPerSku
<1>3. QED BY <1>2, StockInvariant, PTL

-----------------------------------------------------------------------------
(* The orders pipeline.                                                    *)

AfterExtract == {"transform", "stage", "merge", "advance"}

(* Nothing is stamped with a time to come, and a run works with the        *)
(* watermark that is stored until it advances it.                          *)
TimesInv ==
    /\ \A o \in Orders : updated[o] <= now
    /\ last_watermark <= now /\ extracted <= now
    /\ phase # "idle" /\ last_watermark # None => since = last_watermark
    /\ phase \in AfterExtract => last_watermark <= extracted

(* The frame has one row per order, of an order that exists.               *)
OrderFrameInv ==
    /\ \A r, s \in df : r[1] = s[1] => r = s
    /\ \A o \in Orders : version[o] = 0 => fact[o] = 0 /\ \A r \in df : r[1] # o
    /\ phase \in {"stage", "merge"} => \A r \in df : r[1] \notin Keyless
    /\ phase = "merge" => staged = df

(* After the extract: an order the frame shows as it is no longer, or does *)
(* not show, has changed since, or had not changed since the watermark.    *)
Current(o) == <<o, version[o]>> \in df
ExtractInv ==
    phase \in AfterExtract =>
        /\ \A r \in df : Current(r[1]) \/ updated[r[1]] >= extracted
        /\ \A o \in Orders \ Keyless :
              \/ version[o] = 0 \/ Current(o)
              \/ updated[o] < since \/ updated[o] >= extracted

(* Before the watermark advances, the frame is in orders_fact.             *)
MergedInv == phase = "advance" => \A r \in df : fact[r[1]] = r[2]

(* NothingElseLost holds in the middle of a run too.                       *)
Kept(o) == fact[o] = version[o] \/ updated[o] >= last_watermark
KeptInv == last_watermark # None => \A o \in Orders \ (Keyless \union missed) : Kept(o)

OrdersInv == OrdersTypeOK /\ TimesInv /\ OrderFrameInv /\ ExtractInv /\ MergedInv /\ KeptInv

LEMMA OrderBounds == /\ MaxChanges \in Nat \ {0} /\ MaxTime \in Nat /\ Lookback \in Nat
                /\ None \in Int /\ None < -Lookback /\ Keyless \subseteq Orders
BY OrderBoundsAssumption, OrdersAssumption DEF None

LEMMA OrdersInitially == OrdersInit => OrdersInv
<1> SUFFICES ASSUME OrdersInit PROVE OrdersInv OBVIOUS
<1> USE OrderBounds
<1>1. OrdersTypeOK
  <2>1. {0, 1} \subseteq 0..MaxChanges OBVIOUS
  <2>2. QED BY <2>1 DEF OrdersInit, OrdersTypeOK, Contents
<1>2. TimesInv BY DEF OrdersInit, TimesInv, AfterExtract
<1>3. OrderFrameInv BY DEF OrdersInit, OrderFrameInv
<1>4. ExtractInv BY DEF OrdersInit, ExtractInv, AfterExtract
<1>5. MergedInv BY DEF OrdersInit, MergedInv
<1>6. KeptInv BY DEF OrdersInit, KeptInv
<1>7. QED BY <1>1, <1>2, <1>3, <1>4, <1>5, <1>6 DEF OrdersInv

-----------------------------------------------------------------------------
(* The actions one by one.                                                 *)
LEMMA TickStep ==
    ASSUME OrdersInv, Tick
    PROVE  OrdersInv'
<1> USE OrderBounds
<1>1. OrdersTypeOK' BY DEF OrdersInv, OrdersTypeOK, Tick
<1>2. TimesInv' BY DEF OrdersInv, OrdersTypeOK, TimesInv, Tick
<1>3. OrderFrameInv' BY DEF OrdersInv, OrderFrameInv, Tick
<1>4. ExtractInv' BY DEF OrdersInv, ExtractInv, Current, Tick
<1>5. MergedInv' BY DEF OrdersInv, MergedInv, Tick
<1>6. KeptInv' BY DEF OrdersInv, KeptInv, Kept, Tick
<1>7. QED BY <1>1, <1>2, <1>3, <1>4, <1>5, <1>6 DEF OrdersInv

LEMMA ChangeOrderStep ==
    ASSUME OrdersInv, NEW p \in Orders, ChangeOrder(p)
    PROVE  OrdersInv'
<1> USE OrderBounds
<1>1. OrdersTypeOK' BY DEF OrdersInv, OrdersTypeOK, ChangeOrder
<1>2. /\ version'[p] = version[p] + 1 \/ (version'[p] = version[p] /\ version[p] # 0)
      /\ updated'[p] = now
      /\ \A o \in Orders \ {p} : version'[o] = version[o] /\ updated'[o] = updated[o]
  BY DEF OrdersInv, OrdersTypeOK, ChangeOrder
<1>3. TimesInv' BY <1>2 DEF OrdersInv, OrdersTypeOK, TimesInv, ChangeOrder
<1>4. OrderFrameInv' BY <1>2 DEF OrdersInv, OrdersTypeOK, OrderFrameInv, ChangeOrder
<1>5. ExtractInv'
  <2>1. \A r \in df : r[1] \in Orders BY DEF OrdersInv, OrdersTypeOK, Contents
  <2>2. now >= extracted BY DEF OrdersInv, OrdersTypeOK, TimesInv
  <2>3. df' = df /\ extracted' = extracted /\ since' = since /\ phase' = phase BY DEF ChangeOrder
  <2>4. QED BY <1>2, <2>1, <2>2, <2>3 DEF OrdersInv, ExtractInv, Current
<1>6. MergedInv' BY DEF OrdersInv, MergedInv, ChangeOrder
<1>7. KeptInv'
  <2>1. now >= last_watermark BY DEF OrdersInv, OrdersTypeOK, TimesInv
  <2>2. QED BY <1>2, <2>1 DEF OrdersInv, KeptInv, Kept, ChangeOrder
<1>8. QED BY <1>1, <1>3, <1>4, <1>5, <1>6, <1>7 DEF OrdersInv

LEMMA StartOrdersStep ==
    ASSUME OrdersInv, StartOrders
    PROVE  OrdersInv'
<1> USE OrderBounds
<1>1. OrdersTypeOK' BY DEF OrdersInv, OrdersTypeOK, StartOrders, source_db
<1>2. TimesInv' BY DEF OrdersInv, OrdersTypeOK, TimesInv, AfterExtract, StartOrders, source_db
<1>3. OrderFrameInv' BY DEF OrdersInv, OrderFrameInv, StartOrders, source_db
<1>4. ExtractInv' BY DEF ExtractInv, AfterExtract, StartOrders
<1>5. MergedInv' BY DEF MergedInv, StartOrders
<1>6. KeptInv' BY DEF OrdersInv, KeptInv, Kept, StartOrders, source_db
<1>7. QED BY <1>1, <1>2, <1>3, <1>4, <1>5, <1>6 DEF OrdersInv

LEMMA ExtractStep ==
    ASSUME OrdersInv, Extract
    PROVE  OrdersInv'
<1> USE OrderBounds
<1>0. /\ \A r \in df' : r[1] \in Orders /\ version[r[1]] # 0 /\ r = <<r[1], version[r[1]]>>
      /\ \A o \in Orders : version[o] # 0 /\ updated[o] >= since => <<o, version[o]>> \in df'
      /\ version' = version /\ updated' = updated /\ since' = since
  BY DEF Extract, ChangedSince, source_db
<1>1. OrdersTypeOK'
  <2>1. df' \subseteq Contents BY <1>0 DEF OrdersInv, OrdersTypeOK, Contents
  <2>2. QED BY <2>1 DEF OrdersInv, OrdersTypeOK, Extract, source_db, Contents
<1>2. TimesInv' BY DEF OrdersInv, OrdersTypeOK, TimesInv, AfterExtract, Extract, source_db
<1>3. OrderFrameInv' BY <1>0 DEF OrdersInv, OrderFrameInv, Extract, source_db
<1>4. ExtractInv'
  <2>1. \A o \in Orders : updated[o] \in Int /\ since \in Int BY DEF OrdersInv, OrdersTypeOK
  <2>2. QED BY <1>0, <2>1 DEF ExtractInv, Current
<1>5. MergedInv' BY DEF MergedInv, Extract
<1>6. KeptInv' BY DEF OrdersInv, KeptInv, Kept, Extract, source_db
<1>7. QED BY <1>1, <1>2, <1>3, <1>4, <1>5, <1>6 DEF OrdersInv

LEMMA TransformStep ==
    ASSUME OrdersInv, Transform
    PROVE  OrdersInv'
<1> USE OrderBounds
<1>0. /\ df' \subseteq df /\ (\A r \in df' : r[1] \notin Keyless)
      /\ (\A r \in df : r[1] \notin Keyless => r \in df')
      /\ version' = version /\ updated' = updated /\ since' = since /\ extracted' = extracted
  BY DEF Transform, HasKeys, source_db
<1>1. OrdersTypeOK' BY <1>0 DEF OrdersInv, OrdersTypeOK, Transform, source_db, Contents
<1>2. TimesInv' BY DEF OrdersInv, OrdersTypeOK, TimesInv, AfterExtract, Transform, source_db
<1>3. OrderFrameInv' BY <1>0 DEF OrdersInv, OrderFrameInv, Transform, source_db
<1>4. ExtractInv'
  <2>1. phase \in AfterExtract BY DEF Transform, AfterExtract
  <2>2. \A o \in Orders : Current(o) /\ o \notin Keyless => <<o, version[o]>> \in df'
    BY <1>0 DEF Current
  <2>3. \A r \in df : r[1] \in Orders BY DEF OrdersInv, OrdersTypeOK, Contents
  <2>4. QED BY <1>0, <2>1, <2>2, <2>3 DEF OrdersInv, ExtractInv, Current
<1>5. MergedInv' BY DEF MergedInv, Transform
<1>6. KeptInv' BY DEF OrdersInv, KeptInv, Kept, Transform, source_db
<1>7. QED BY <1>1, <1>2, <1>3, <1>4, <1>5, <1>6 DEF OrdersInv

LEMMA StageStep ==
    ASSUME OrdersInv, Stage
    PROVE  OrdersInv'
<1> USE OrderBounds
<1>1. OrdersTypeOK' BY DEF OrdersInv, OrdersTypeOK, OrderFrameInv, Stage, source_db, Contents
<1>2. TimesInv' BY DEF OrdersInv, OrdersTypeOK, TimesInv, AfterExtract, Stage, source_db
<1>3. OrderFrameInv' BY DEF OrdersInv, OrderFrameInv, Stage, source_db
<1>4. ExtractInv' BY DEF OrdersInv, ExtractInv, Current, AfterExtract, Stage, source_db
<1>5. MergedInv' BY DEF MergedInv, Stage
<1>6. KeptInv' BY DEF OrdersInv, KeptInv, Kept, Stage, source_db
<1>7. QED BY <1>1, <1>2, <1>3, <1>4, <1>5, <1>6 DEF OrdersInv

(* Orders in the frame get its content, all others keep theirs.            *)
LEMMA Merges ==
    ASSUME OrdersInv, Merge
    PROVE  /\ \A r \in df : fact'[r[1]] = r[2]
           /\ \A o \in Orders : (\A r \in df : r[1] # o) => fact'[o] = fact[o]
<1>1. staged = df BY DEF OrdersInv, OrderFrameInv, Merge
<1>2. \A r \in df : r[1] \in Orders BY DEF OrdersInv, OrdersTypeOK, Contents
<1>3. ASSUME NEW r \in df PROVE fact'[r[1]] = r[2]
  <2>1. (CHOOSE row \in staged : row[1] = r[1]) = r BY <1>1 DEF OrdersInv, OrderFrameInv
  <2>2. \E row \in staged : row[1] = r[1] BY <1>1
  <2>3. QED BY <1>2, <2>1, <2>2 DEF Merge
<1>4. ASSUME NEW o \in Orders, \A r \in df : r[1] # o PROVE fact'[o] = fact[o]
  BY <1>1, <1>4 DEF Merge
<1>5. QED BY <1>3, <1>4

LEMMA MergeStep ==
    ASSUME OrdersInv, Merge
    PROVE  OrdersInv'
<1> USE OrderBounds
<1>1. OrdersTypeOK'
  <2>1. \A o \in Orders : fact'[o] \in 0..MaxChanges
    BY Merges DEF OrdersInv, OrdersTypeOK, Contents
  <2>2. fact' \in [Orders -> 0..MaxChanges] BY <2>1 DEF Merge
  <2>3. QED BY <2>2 DEF OrdersInv, OrdersTypeOK, Merge, source_db, Contents
<1>2. TimesInv' BY DEF OrdersInv, OrdersTypeOK, TimesInv, AfterExtract, Merge, source_db
<1>3. OrderFrameInv' BY Merges DEF OrdersInv, OrderFrameInv, Merge, source_db
<1>4. ExtractInv' BY DEF OrdersInv, ExtractInv, Current, AfterExtract, Merge, source_db
<1>5. MergedInv' BY Merges DEF MergedInv, Merge
<1>6. KeptInv'
  <2>1. SUFFICES ASSUME last_watermark # None, NEW o \in Orders \ (Keyless \union missed)
                 PROVE  fact'[o] = version[o] \/ updated[o] >= last_watermark
    BY DEF KeptInv, Kept, Merge, source_db
  <2>2. CASE \A r \in df : r[1] # o
    BY <2>1, <2>2, Merges DEF OrdersInv, KeptInv, Kept
  <2>3. CASE \E r \in df : r[1] = o
    <3> PICK r \in df : r[1] = o BY <2>3
    <3>1. fact'[o] = r[2] BY Merges
    <3>2. CASE Current(o)
      <4>1. r = <<o, version[o]>> BY <3>2 DEF OrdersInv, OrderFrameInv, Current
      <4>2. QED BY <3>1, <4>1
    <3>3. CASE updated[o] >= extracted
      BY <2>1, <3>3 DEF OrdersInv, OrdersTypeOK, TimesInv, AfterExtract, Merge
    <3>4. QED BY <3>2, <3>3 DEF OrdersInv, ExtractInv, AfterExtract, Merge
  <2>4. QED BY <2>2, <2>3
<1>7. QED BY <1>1, <1>2, <1>3, <1>4, <1>5, <1>6 DEF OrdersInv

(* The change of an order that is older than the new watermark was in the  *)
(* frame, is in orders_fact already, or is remembered as missed.           *)
LEMMA AdvanceStep ==
    ASSUME OrdersInv, Advance
    PROVE  OrdersInv'
<1> USE OrderBounds
<1>1. OrdersTypeOK' BY DEF OrdersInv, OrdersTypeOK, Advance, RunEnds, source_db, Contents
<1>2. TimesInv'
  BY DEF OrdersInv, OrdersTypeOK, TimesInv, AfterExtract, Advance, RunEnds, source_db
<1>3. OrderFrameInv' BY DEF OrdersInv, OrderFrameInv, Advance, RunEnds, source_db
<1>4. ExtractInv' BY DEF ExtractInv, AfterExtract, Advance, RunEnds
<1>5. MergedInv' BY DEF MergedInv, Advance, RunEnds
<1>6. KeptInv'
  <2>1. SUFFICES ASSUME NEW o \in Orders \ (Keyless \union missed')
                 PROVE  fact[o] = version[o] \/ updated[o] >= now
    BY DEF KeptInv, Kept, Advance, source_db
  <2>2. CASE Current(o)
    BY <2>2 DEF OrdersInv, MergedInv, Advance, Current
  <2>3. CASE version[o] = 0
    BY <2>3 DEF OrdersInv, OrderFrameInv
  <2>4. CASE ~Current(o) /\ updated[o] >= extracted
    <3>1. ~(extracted <= updated[o] /\ updated[o] < now)
      BY <2>4 DEF Advance, Current
    <3>2. QED BY <2>4, <3>1 DEF OrdersInv, OrdersTypeOK
  <2>5. CASE ~Current(o) /\ updated[o] < since
    <3>1. last_watermark # None /\ o \notin missed BY <2>5 DEF Advance, Current
    <3>2. since = last_watermark BY <3>1 DEF OrdersInv, TimesInv, Advance
    <3>3. Kept(o) BY <3>1 DEF OrdersInv, KeptInv
    <3>4. QED BY <2>5, <3>2, <3>3 DEF Kept, OrdersInv, OrdersTypeOK
  <2>6. QED BY <2>2, <2>3, <2>4, <2>5 DEF OrdersInv, ExtractInv, AfterExtract, Advance
<1>7. QED BY <1>1, <1>2, <1>3, <1>4, <1>5, <1>6 DEF OrdersInv

LEMMA OrdersFailStep ==
    ASSUME OrdersInv, OrdersFail
    PROVE  OrdersInv'
<1> USE OrderBounds
<1>1. OrdersTypeOK'
  BY DEF OrdersInv, OrdersTypeOK, OrdersFail, KeepsWatermark, RunEnds, source_db, Contents
<1>2. TimesInv' BY DEF OrdersInv, OrdersTypeOK, TimesInv, AfterExtract, OrdersFail,
                        KeepsWatermark, RunEnds, source_db
<1>3. OrderFrameInv' BY DEF OrdersInv, OrderFrameInv, OrdersFail, RunEnds, source_db
<1>4. ExtractInv' BY DEF ExtractInv, AfterExtract, OrdersFail, RunEnds
<1>5. MergedInv' BY DEF MergedInv, OrdersFail, RunEnds
<1>6. KeptInv' BY DEF OrdersInv, KeptInv, Kept, OrdersFail,
                        KeepsWatermark, source_db
<1>7. QED BY <1>1, <1>2, <1>3, <1>4, <1>5, <1>6 DEF OrdersInv

LEMMA OrdersNextStep == OrdersInv /\ [OrdersNext]_orderVars => OrdersInv'
<1> SUFFICES ASSUME OrdersInv, [OrdersNext]_orderVars PROVE OrdersInv' OBVIOUS
<1>1. CASE Tick BY <1>1, TickStep
<1>2. CASE \E o \in Orders : ChangeOrder(o) BY <1>2, ChangeOrderStep
<1>3. CASE StartOrders BY <1>3, StartOrdersStep
<1>4. CASE OrdersRunStep
  BY <1>4, ExtractStep, TransformStep, StageStep, MergeStep, AdvanceStep DEF OrdersRunStep
<1>5. CASE OrdersFail BY <1>5, OrdersFailStep
<1>6. CASE UNCHANGED orderVars
  BY <1>6 DEF OrdersInv, OrdersTypeOK, Contents, TimesInv, OrderFrameInv, ExtractInv, Current,
             MergedInv,
     KeptInv, Kept, orderVars, source_db
<1>7. QED BY <1>1, <1>2, <1>3, <1>4, <1>5, <1>6 DEF OrdersNext

(* The invariant that carries the two below through every step of a run.   *)
THEOREM OrdersInvariant == OrdersSpec => []OrdersInv
BY OrdersInitially, OrdersNextStep, PTL DEF OrdersSpec

(* The type invariant of the orders pipeline.                              *)
THEOREM OrdersTypeCorrect == OrdersSpec => []OrdersTypeOK
<1>1. OrdersInv => OrdersTypeOK BY DEF OrdersInv
<1>2. QED BY <1>1, OrdersInvariant, PTL

(* Whatever fails and whatever the shop does meanwhile, between the runs   *)
(* orders_fact has the status and amount of every order with its keys as   *)
(* the source has them, but for the changes the next extract will see and  *)
(* those the watermark passed unseen.                                      *)
THEOREM LossesExplained == OrdersSpec => []NothingElseLost
<1>1. OrdersInv => NothingElseLost BY DEF OrdersInv, KeptInv, Kept, NothingElseLost
<1>2. QED BY <1>1, OrdersInvariant, PTL
=============================================================================

---------------------------- MODULE SessionsLoad ----------------------------
(***************************************************************************)
(* The sessions pipeline (data/pipeline_repo/sessions_pipeline.py): a run  *)
(* takes the click events of the last hours, cuts each user's events into  *)
(* sessions where the gap between two exceeds the timeout, and appends the *)
(* sessions to sessions_agg.  It keeps no watermark: windows of successive *)
(* runs overlap or leave a gap, as they are started, and a session that    *)
(* crosses the edge of a window is cut there.  A run that raises is        *)
(* started anew by its caller.                                             *)
(*                                                                         *)
(* Time is counted in ticks.  A row is its user and its first and last     *)
(* event; the rows of sessions_agg are a set, so that what a repeated run  *)
(* appends again is not counted.                                           *)
(***************************************************************************)
EXTENDS Integers, FiniteSets

CONSTANTS Visitors,
          Timeout,    \* SESSION_TIMEOUT_MINUTES
          Window,     \* WINDOW_HOURS
          MaxDelay,   \* bound: ticks between an event and its arrival
          MaxClock    \* bound: ticks

ASSUME SessionBoundsAssumption == {Timeout, Window, MaxDelay, MaxClock} \subseteq Nat

VARIABLES clock,
          events,      \* clickstream_events: pairs of a visitor and a time
          stage,       \* "idle", "extract", "transform" or "load"
          watermark,   \* start of the run's window
          extractedAt, \* end of the run's window
          events_df,   \* the events it extracted
          sessions,    \* the rows it made of them
          aggregated,  \* sessions_agg
          known,       \* history: events there were at the run's extract
          reach,       \* history: successful runs cover all times before this
          late         \* history: events that came after the extract of a
                       \* successful run over their time
runFrame == <<watermark, extractedAt, events_df, known>>
sessionVars == <<clock, events, stage, runFrame, sessions, aggregated, reach, late>>

SessionsInit ==
    /\ clock = 0 /\ events = {}
    /\ stage = "idle"
    /\ watermark = 0 /\ extractedAt = 0 /\ events_df = {} /\ known = {} /\ sessions = {}
    /\ aggregated = {} /\ reach = 0 /\ late = {}

Click(u, t) ==
    /\ t \in clock - MaxDelay..clock /\ t >= 0
    /\ events' = events \union {<<u, t>>}
    /\ late' = IF <<u, t>> \notin events /\ t < reach THEN late \union {<<u, t>>} ELSE late
    /\ UNCHANGED <<clock, stage, runFrame, sessions, aggregated, reach>>

ClockTicks ==
    /\ clock < MaxClock
    /\ clock' = clock + 1
    /\ UNCHANGED <<events, stage, runFrame, sessions, aggregated, reach, late>>

-----------------------------------------------------------------------------
StartSessions ==
    /\ stage = "idle"
    /\ watermark' = clock - Window
    /\ stage' = "extract"
    /\ UNCHANGED <<clock, events, extractedAt, events_df, known, sessions, aggregated, reach, late>>

InOpenWindow(e) == watermark < e[2] /\ e[2] < clock
InWindow(e) == watermark <= e[2] /\ e[2] < clock

ExtractEvents ==
    /\ stage = "extract"
    /\ events_df' = {e \in events : InWindow(e)}
    /\ extractedAt' = clock /\ known' = events
    /\ stage' = "transform"
    /\ UNCHANGED <<clock, events, watermark, sessions, aggregated, reach, late>>

(* _assign_session_ids: shift, gap, cumsum.                                *)
Earlier(e) == {d \in events_df : d[1] = e[1] /\ d[2] < e[2]}
PreviousOf(e) == CHOOSE d \in Earlier(e) : \A c \in Earlier(e) : c[2] <= d[2]
SplitsAtTimeout(e) == Earlier(e) = {} \/ e[2] - PreviousOf(e)[2] >= Timeout
IsNewSession(e) == Earlier(e) = {} \/ e[2] - PreviousOf(e)[2] > Timeout
SessionSeq(e) == Cardinality({d \in Earlier(e) \union {e} : IsNewSession(d)})

(* groupby("session_id"); first and last event of a group of times.        *)
Group(e) == {d \in events_df : d[1] = e[1] /\ SessionSeq(d) = SessionSeq(e)}
SessionRow(u, times) ==
    [user |-> u, from |-> CHOOSE t \in times : \A s \in times : t <= s,
                 to |-> CHOOSE t \in times : \A s \in times : s <= t]

TransformEvents ==
    /\ stage = "transform"
    /\ sessions' = {SessionRow(e[1], {d[2] : d \in Group(e)}) : e \in events_df}
    /\ stage' = "load"
    /\ UNCHANGED <<clock, events, runFrame, aggregated, reach, late>>

(* What a run has read is gone when it ends.                               *)
Forgets == /\ watermark' = 0 /\ extractedAt' = 0
           /\ events_df' = {} /\ known' = {} /\ sessions' = {}

LoadSessions ==
    /\ stage = "load"
    /\ aggregated' = aggregated \union sessions
    /\ stage' = "idle"
    /\ reach' = IF watermark <= reach /\ reach < extractedAt THEN extractedAt ELSE reach
    /\ late' = (late \union {e \in events \ known : e[2] < extractedAt}) \ events_df
    /\ Forgets
    /\ UNCHANGED <<clock, events>>

SessionsFail ==
    /\ stage # "idle"
    /\ stage' = "idle"
    /\ Forgets
    /\ UNCHANGED <<clock, events, aggregated, reach, late>>

SessionsNext ==
    \/ \E u \in Visitors, t \in 0..MaxClock : Click(u, t)
    \/ ClockTicks \/ StartSessions \/ ExtractEvents \/ TransformEvents \/ LoadSessions
    \/ SessionsFail

(* No fairness: the properties are about what the runs have loaded.        *)
SessionsSpec == SessionsInit /\ [][SessionsNext]_sessionVars

-----------------------------------------------------------------------------
SessionsTypeOK ==
    /\ clock \in 0..MaxClock /\ extractedAt \in 0..MaxClock /\ reach \in 0..MaxClock
    /\ stage \in {"idle", "extract", "transform", "load"}
    /\ watermark \in -Window..MaxClock
    /\ {events, events_df, known, late} \subseteq SUBSET (Visitors \X (0..MaxClock))
    /\ {sessions, aggregated} \subseteq
           SUBSET [user : Visitors, from : 0..MaxClock, to : 0..MaxClock]

(* Windows that meet leave nothing out: when every successful run began    *)
(* at most a window after the extract of the one before, each event before *)
(* the last extract lies in a session of its user, failed runs in between  *)
(* and the two clock readings of a run notwithstanding, unless the event   *)
(* arrived behind an extract.                                              *)
EventsCovered ==
    \A e \in events \ late :
        e[2] < reach =>
            \E row \in aggregated : row.user = e[1] /\ row.from <= e[2] /\ e[2] <= row.to

(* Reference: a session is a longest run of events of a visitor without a  *)
(* pause, known at the extract.                                            *)
Times(u) == {e[2] : e \in {d \in known : d[1] = u}}
FollowedAt(u, t, s) == s \in Times(u) /\ t < s /\ s <= t + Timeout
IsSession(row) ==
    LET T == Times(row.user)
    IN  /\ row.from \in T /\ row.to \in T
        /\ \A t \in T : row.from <= t /\ t < row.to => \E s \in T : FollowedAt(row.user, t, s)
        /\ \A t \in T : ~FollowedAt(row.user, t, row.from)
        /\ \A s \in T : ~FollowedAt(row.user, row.to, s)

IsCut(row) == row.from < watermark + Timeout \/ row.to + Timeout >= extractedAt

(* Inside a window the rows are the true sessions; only one that begins    *)
(* less than a timeout after the window's start, or ends within one of its *)
(* end, may be a part of a session.                                        *)
SessionsAgree ==
    stage = "load" =>
        \A row \in [user : Visitors, from : 0..MaxClock, to : 0..MaxClock] :
            ~IsCut(row) => (row \in sessions <=> row.from <= row.to /\ IsSession(row))
=============================================================================

----------------------------- MODULE UsageMeter -----------------------------
(***************************************************************************)
(* Usage of one device by one account (usage-meter.js), as the wrapper of  *)
(* registerTool in server-multiuser.js records it.                         *)
(*                                                                         *)
(* A call's start is read from the wall clock, which may be set back, its  *)
(* length from performance.now(), which may not.  Calls overlap.  The time *)
(* shown is that of the union of their intervals; an interval [a, b] is    *)
(* the instants a .. b-1.                                                  *)
(***************************************************************************)
EXTENDS Integers, FiniteSets, SequencesExt

CONSTANTS
    Calls,       \* calls of tools, each with its trace ID
    Epoch,       \* when the database was made (yh_usage_epoch)
    MaxClock,    \* bound of the wall clock
    MaxLength,   \* MAX_DURATION_MS
    Week         \* seven days

ASSUME UsageConstants ==
    /\ MaxClock \in Nat /\ Epoch \in 0..MaxClock
    /\ MaxLength \in Nat /\ Week \in Nat

VARIABLES
    now,      \* the wall clock
    phase,    \* where each call stands
    started,  \* usageStartedMs
    length,   \* time elapsed in each call, up to where it is recorded
    rows      \* yh_usage_calls

usageVars == <<now, phase, started, length, rows>>

Interval == [from : 0..MaxClock, to : 0..(MaxClock + MaxLength)]

UsageTypeOK ==
    /\ now \in 0..MaxClock
    /\ phase \in [Calls -> {"new", "running", "over"}]
    /\ started \in [Calls -> 0..MaxClock]
    /\ length \in [Calls -> 0..(MaxLength + 1)]
    /\ rows \in SUBSET [trace : Calls, at : Interval]

UsageInit ==
    /\ now = Epoch
    /\ phase = [c \in Calls |-> "new"]
    /\ started = [c \in Calls |-> 0] /\ length = [c \in Calls |-> 0]
    /\ rows = {}

Begin(c) ==
    /\ phase[c] = "new"
    /\ phase' = [phase EXCEPT ![c] = "running"]
    /\ started' = [started EXCEPT ![c] = now]
    /\ UNCHANGED <<now, length, rows>>

Tick ==
    /\ now < MaxClock
    /\ now' = now + 1
    /\ length' = [c \in Calls |-> IF phase[c] = "running" /\ length[c] <= MaxLength
                                  THEN length[c] + 1 ELSE length[c]]
    /\ UNCHANGED <<phase, started, rows>>

SetClock(t) == now' = t /\ UNCHANGED <<phase, started, length, rows>>

Drop(S) == /\ phase' = [c \in Calls |-> IF c \in S THEN "over" ELSE phase[c]]
           /\ started' = [c \in Calls |-> IF c \in S THEN 0 ELSE started[c]]
           /\ length' = [c \in Calls |-> IF c \in S THEN 0 ELSE length[c]]

(* record(): what started before the epoch or took too long is not counted.
   Nor is what countsAsUsage() refuses, or could not be inserted. *)
AnyLength(c) == started[c] >= Epoch               \* mutant: MAX_DURATION_MS left out
Counts(c) == started[c] >= Epoch /\ length[c] <= MaxLength
Row(c) == [trace |-> c, at |-> [from |-> started[c], to |-> started[c] + length[c]]]
End(c) ==
    /\ phase[c] = "running"
    /\ \/ Counts(c) /\ rows' = rows \cup {Row(c)}
       \/ UNCHANGED rows
    /\ Drop({c}) /\ UNCHANGED now

(* The Core restarts: calls under way are never recorded, the epoch is read
   back from the database. *)
Restart ==
    LET cut == {c \in Calls : phase[c] = "running"} IN
    cut # {} /\ Drop(cut) /\ UNCHANGED <<now, rows>>

UsageNext ==
    \/ \E c \in Calls : Begin(c) \/ End(c)
    \/ Tick \/ Restart \/ \E t \in 0..MaxClock : SetClock(t)

UsageSpec == UsageInit /\ [][UsageNext]_usageVars

-----------------------------------------------------------------------------
(* summary().                                                              *)

Later(x, y) == IF x > y THEN x ELSE y
Sooner(x, y) == IF x < y THEN x ELSE y

(* unionMs: the intervals in order, the open one in to carried along. *)
Before(a, b) == a.from < b.from \/ (a.from = b.from /\ a.to <= b.to)
InOrder(S) == CHOOSE q \in SetToSeqs(S) : \A i, j \in DOMAIN q : i <= j => Before(q[i], q[j])
ExtendShort(open, i) == [open EXCEPT !.to = i.to]    \* mutant: no maximum
Extend(open, i)      == [open EXCEPT !.to = Later(@, i.to)]
Join(acc, i) ==
    IF i.from > acc.open.to
    THEN [total |-> acc.total + (acc.open.to - acc.open.from), open |-> i]
    ELSE [acc EXCEPT !.open = Extend(@, i)]
Sweep(q) == FoldLeft(Join, [total |-> 0, open |-> q[1]], q)
UnionMs(S) ==
    IF S = {} THEN 0
    ELSE LET r == Sweep(InOrder(S)) IN r.total + (r.open.to - r.open.from)

All == {r.at : r \in rows}
UsageMs == UnionMs(All)

Since == Later(Epoch, now - Week)
Clip(i) == [from |-> Later(Since, i.from), to |-> Sooner(now, i.to)]
Last7DaysMs ==
    UnionMs({i \in {Clip(j) : j \in {k \in All : k.to >= Since}} : i.to >= i.from})

-----------------------------------------------------------------------------
(* Properties.                                                             *)

Busy(t) == \E i \in All : i.from <= t /\ t < i.to

(* The total is the number of instants at which some counted call ran:
   overlapping, nested and touching calls are counted once. *)
TotalExact ==
    UsageMs = Cardinality({t \in 0..(MaxClock + MaxLength) : Busy(t)})

(* The same of the last seven days, from the epoch at the earliest and up to
   now, wherever the clock has been set meanwhile. *)
LastWeekExact ==
    Last7DaysMs = Cardinality({t \in Since..(now - 1) : Busy(t)})

(* Both figures count every instant of use once. *)
UsageExact == TotalExact /\ LastWeekExact

(* The inductive invariant behind UsageExact: what is summed are finitely many
   intervals, none of which ends before it begins. *)
UsageInv == UsageTypeOK /\ IsFiniteSet(rows) /\ \A i \in All : i.from <= i.to
=============================================================================

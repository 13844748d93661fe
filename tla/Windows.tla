------------------------------- MODULE Windows -------------------------------
(***************************************************************************)
(* Windowed fold state and detectors (src/src/core/window.ts,              *)
(* src/src/ha/detectors.ts), fed by one stream of samples.  An event may   *)
(* be recorded late; a reader reads at the present.  The windows and the   *)
(* hop are the same in every call.  A tile keeps the count and the sum of  *)
(* its bucket (min, max and squares are kept and merged the same way).     *)
(* Left out: relativeRise, whose baseline is an exponential average.       *)
(***************************************************************************)
EXTENDS Integers, Sequences, FiniteSets, Functions, Sorting

CONSTANTS WindowMs, HopMs,
          Values,          \* of a sample
          Threshold, ClearBelow, SustainMs,  \* sustainedAbove, with ClearBelow <= Threshold
          MinIncrement, IncrementMs,         \* incrementWatcher
          MaxLag,          \* bound: how late an event is recorded
          MaxClock,        \* bound: milliseconds that pass
          MaxSamples       \* bound: samples

VARIABLES clock,
          samples,    \* history: every sample, [at, value, seen]
          entries,    \* EventWindow: newest first
          tiles,      \* TileWindow: start -> [count, sum]
          sustained,  \* sustainedAbove: [phase, since]
          anchor,     \* incrementWatcher: [at, value]
          fired,      \* history: did the last sample confirm the threshold?
          increments  \* history: the sum of the deltas emitted

windowVars == <<clock, samples, entries, tiles, sustained, anchor, fired, increments>>

None == -1

\* retainEntries: what is not older than the window, newest first; entries of the same
\* time keep their order.
RetainEntries(candidates, now) ==
    LET kept == {i \in DOMAIN candidates : candidates[i].at >= now - WindowMs}
        order == StableSort(kept, [i \in kept |-> -candidates[i].at])
    IN  [k \in DOMAIN order |-> candidates[order[k]]]

\* EventWindow.within, values, size and oldest read through the same filter.
ReadEntries == RetainEntries(entries, clock)

TileStart(at) == (at \div HopMs) * HopMs

\* Seeded fault: a tile goes when its start leaves the window.
BugSharpEdge(ts, now) == Restrict(ts, {start \in DOMAIN ts : start > now - WindowMs})

\* retainTiles: a tile stays while any of it is inside the window.
RetainTiles(ts, now) == Restrict(ts, {start \in DOMAIN ts : start + HopMs > now - WindowMs})

AddToTile(ts, at, value) ==
    LET start == TileStart(at)
        old == IF start \in DOMAIN ts THEN ts[start] ELSE [count |-> 0, sum |-> 0]
    IN  [s \in DOMAIN ts \cup {start} |->
            IF s = start THEN [count |-> old.count + 1, sum |-> old.sum + value] ELSE ts[s]]

\* TileWindow.aggregate: the merge of the tiles still in the window (the mean and the
\* variance are computed from it).
Total(field) == SumFunctionOnSet([s \in DOMAIN tiles |-> tiles[s][field]], DOMAIN RetainTiles(tiles, clock))

\* The step of sustainedAbove: the phase after a sample.
Sustain(at, value) ==
    CASE sustained.phase = "idle" /\ value >= Threshold -> [phase |-> "pending", since |-> at]
      [] sustained.phase = "pending" /\ value < Threshold -> [phase |-> "idle", since |-> None]
      [] sustained.phase = "pending" /\ value >= Threshold /\ at - sustained.since >= SustainMs
             -> [phase |-> "active", since |-> None]
      [] sustained.phase = "active" /\ value < ClearBelow -> [phase |-> "idle", since |-> None]
      [] OTHER -> sustained

\* incrementWatcher emits: enough of a rise above the anchor, inside its window.
Rises(at, value) ==
    /\ anchor.at # None /\ at - anchor.at <= IncrementMs
    /\ value - anchor.value >= MinIncrement

\* Seeded fault: the anchor stays where it was after an emission.
BugNoReanchor(at, value) ==
    IF anchor.at = None \/ value < anchor.value \/ at - anchor.at > IncrementMs
    THEN [at |-> at, value |-> value] ELSE anchor

\* Where it anchors next: the first sample, a counter reset, an expired window, an emission.
Reanchor(at, value) ==
    IF anchor.at = None \/ value < anchor.value \/ at - anchor.at > IncrementMs \/ Rises(at, value)
    THEN [at |-> at, value |-> value] ELSE anchor

\* A sample: the windows fold it under the time it happened, the detectors as it arrives.
Sample(value, lag) ==
    /\ Len(samples) < MaxSamples /\ lag <= clock
    /\ samples' = Append(samples, [at |-> clock - lag, value |-> value, seen |-> clock])
    /\ entries' = RetainEntries(<<[at |-> clock - lag, value |-> value]>> \o entries, clock - lag)
    /\ tiles' = RetainTiles(AddToTile(tiles, clock - lag, value), clock - lag)
    /\ sustained' = Sustain(clock, value)
    /\ fired' = (sustained.phase = "pending" /\ sustained'.phase = "active")
    /\ anchor' = Reanchor(clock, value)
    /\ increments' = IF Rises(clock, value) THEN increments + value - anchor.value ELSE increments
    /\ UNCHANGED clock

Tick ==
    /\ clock < MaxClock
    /\ clock' = clock + 1
    /\ fired' = FALSE
    /\ UNCHANGED <<samples, entries, tiles, sustained, anchor, increments>>

WindowsInit ==
    /\ clock = 0 /\ samples = << >> /\ entries = << >> /\ tiles = << >>
    /\ sustained = [phase |-> "idle", since |-> None] /\ anchor = [at |-> None, value |-> None]
    /\ fired = FALSE /\ increments = 0

WindowsNext == (\E value \in Values, lag \in 0..MaxLag : Sample(value, lag)) \/ Tick

WindowsSpec == WindowsInit /\ [][WindowsNext]_windowVars

-----------------------------------------------------------------------------

\* Type invariant of the windows.
WindowsTypeOK ==
    /\ clock \in 0..MaxClock /\ Len(samples) <= MaxSamples
    /\ sustained.phase \in {"idle", "pending", "active"}
    /\ \A start \in DOMAIN tiles : start % HopMs = 0 /\ tiles[start].count > 0

\* The samples that happened in a window of the given length, as of now.
Inside(length) == {i \in DOMAIN samples : samples[i].at >= clock - length}
SumOf(indices) == SumFunctionOnSet([i \in DOMAIN samples |-> samples[i].value], indices)

\* Evicting at every write loses nothing a reader at the present should see: the event
\* window holds exactly the events of the window, newest first, and the tiles count and
\* sum up all of these and nothing older than the window plus one hop, however late
\* events were recorded.
WindowIsExact ==
    /\ Len(ReadEntries) = Cardinality(Inside(WindowMs))
    /\ \A k \in DOMAIN ReadEntries : k > 1 => ReadEntries[k - 1].at >= ReadEntries[k].at
    /\ \E covered \in SUBSET Inside(WindowMs + HopMs - 1) :
          /\ Inside(WindowMs) \subseteq covered
          /\ Total("count") = Cardinality(covered) /\ Total("sum") = SumOf(covered)

RisesOf == {i \in 2..Len(samples) : samples[i].value > samples[i - 1].value}
TotalRise == SumFunctionOnSet([i \in RisesOf |-> samples[i].value - samples[i - 1].value], RisesOf)

\* The increments reported add up to no more than the counter really rose, and the
\* threshold is confirmed only after samples at or above it for the whole sustain time.
DetectorsAreSound ==
    /\ increments <= TotalRise
    /\ fired => \E i \in DOMAIN samples :
                    /\ samples[Len(samples)].seen - samples[i].seen >= SustainMs
                    /\ \A j \in i..Len(samples) : samples[j].value >= Threshold
===============================================================================

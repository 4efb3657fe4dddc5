---------------------------- MODULE SlogObserver ----------------------------
(***************************************************************************)
(* slog_observer.go: the default observer, which logs the first record of  *)
(* a key at once, counts its repeats for a window and logs one summary.    *)
(*                                                                         *)
(* A record is one signal of some goroutine; it reads the clock before it  *)
(* takes the lock.  A window ends by its timer, whose callback may already *)
(* be on its way when Flush takes the same entries.  Entries are objects:  *)
(* the table holds their names, and a summary reads its object after the   *)
(* lock.  An entry is named after the signal whose record allocates it.    *)
(***************************************************************************)
EXTENDS Integers, FiniteSets

CONSTANTS MaxSignals, \* bound: the signals of a run
          Keys,       \* soKey: signal, handler, outcome and reason
          Windows,    \* the values of WithLogEvery considered
          soMaxKeys,
          NoEntry,
          MaxNow,     \* bound: no record is made after this instant
          MaxFlushes  \* bound: the calls of Flush

\* Signals in the order they are raised, each on a goroutine of its own, and the
\* entries they may allocate.
Signals == 1 .. MaxSignals
Ids == Signals

\* fate: where the entry is between the table and its summary.
Objects == [key : Keys, first : Nat, suppressed : Nat, due : Int,
            timer : {"none", "armed", "fired", "stopped"},
            fate : {"tracked", "closing", "summed", "dropped"}]

\* WithLogEvery leaves no window below zero.
ASSUME SlogAssumption ==
    /\ MaxSignals \in Nat /\ MaxNow \in Nat /\ MaxFlushes \in Nat
    /\ soMaxKeys \in Nat
    /\ Windows \subseteq Nat
    /\ NoEntry \notin Ids /\ NoEntry \notin Keys /\ NoEntry \notin Objects

VARIABLES
    every,            \* the configured window
    entries,          \* entries[k]: the entry tracked for k
    heap,             \* heap[e]: the object, once allocated
    now,              \* the clock
    pc, key, read,    \* a record: where it is, its key, the clock it read
    flushes,          \* history: how often Flush ran
    logged,           \* history: the signals that were logged
    counted,          \* history: counted[e], the signals counted in entry e
    reported,         \* history: reported[e], what the summaries of e told
    stamp, opened     \* history: the last window of k, by the clock its record
                      \* read and by the instant it was opened; -1 after Flush

marks == <<stamp, opened>>
svars == <<every, entries, heap, now, pc, key, read, flushes, logged, counted, reported,
           stamp, opened>>

Tracked == {k \in Keys : entries[k] # NoEntry}

TypeOK ==
    /\ every \in Windows
    /\ entries \in [Keys -> Ids \cup {NoEntry}]
    /\ heap \in [Ids -> Objects \cup {NoEntry}]
    /\ now \in Nat /\ flushes \in Nat
    /\ pc \in [Signals -> {"new", "reading", "done"}]
    /\ key \in [Signals -> Keys \cup {NoEntry}] /\ read \in [Signals -> Nat]
    /\ logged \in SUBSET Signals
    /\ counted \in [Ids -> SUBSET Signals] /\ reported \in [Ids -> Nat]
    /\ stamp \in [Keys -> Nat \cup {-1}] /\ opened \in [Keys -> Nat \cup {-1}]

Init ==
    /\ every \in Windows
    /\ entries = [k \in Keys |-> NoEntry]
    /\ heap = [e \in Ids |-> NoEntry]
    /\ now = 0
    /\ pc = [s \in Signals |-> "new"]
    /\ key = [s \in Signals |-> NoEntry] /\ read = [s \in Signals |-> 0]
    /\ flushes = 0
    /\ logged = {}
    /\ counted = [e \in Ids |-> {}] /\ reported = [e \in Ids |-> 0]
    /\ stamp = [k \in Keys |-> -1] /\ opened = [k \in Keys |-> -1]

-----------------------------------------------------------------------------
\* The record passes to the logger, or is counted in e.
Log(s) ==
    /\ logged' = logged \cup {s}
    /\ UNCHANGED counted
CountIn(e, s) ==
    /\ counted' = [counted EXCEPT ![e] = @ \cup {s}]
    /\ UNCHANGED logged

\* A window of k opens now, by a record that read the clock at `at'.
Opens(k, at) ==
    /\ stamp' = [stamp EXCEPT ![k] = at]
    /\ opened' = [opened EXCEPT ![k] = now]

\* The next signal may be raised.
Raised(s) ==
    /\ pc[s] = "new" /\ now <= MaxNow
    /\ \A r \in 1 .. s - 1 : pc[r] # "new"

\* A signal that is not deduplicated: a breaker transition or a retry attempt.
LogDirect(s) ==
    /\ Raised(s)
    /\ pc' = [pc EXCEPT ![s] = "done"]
    /\ Log(s)
    /\ UNCHANGED <<every, entries, heap, now, key, read, flushes, reported, marks>>

\* record up to the lock, for a signal of key k.
ReadClock(s, k) ==
    /\ Raised(s)
    /\ pc' = [pc EXCEPT ![s] = "reading"]
    /\ key' = [key EXCEPT ![s] = k]
    /\ read' = [read EXCEPT ![s] = now]
    /\ UNCHANGED <<every, entries, heap, now, flushes, logged, counted, reported, marks>>

\* The window of e is over by the clock the record read, with nothing counted.
Stale(e, at) == heap[e].suppressed = 0 /\ at - heap[e].first >= every

\* With no window every record is logged.
RecordAll(s) ==
    /\ every <= 0
    /\ Log(s)
    /\ UNCHANGED <<entries, heap, marks>>

\* The window elapsed with nothing suppressed: a new one.
RecordReopens(s) ==
    LET k == key[s] IN
    /\ every > 0 /\ entries[k] # NoEntry /\ Stale(entries[k], read[s])
    /\ heap' = [heap EXCEPT ![entries[k]].first = read[s]]
    /\ Log(s) /\ Opens(k, read[s])
    /\ UNCHANGED entries

\* An entry with one repeat more; the first one starts the timer of the window.
Repeated(o, ends) ==
    IF o.suppressed = 0
      THEN [o EXCEPT !.suppressed = 1, !.timer = "armed", !.due = ends]
      ELSE [o EXCEPT !.suppressed = @ + 1]

\* Mutant of RecordRepeats: the timer starts at the second repeat.
RecordRepeatsLate(s) ==
    LET k == key[s]
        e == entries[k]
    IN  /\ every > 0 /\ e # NoEntry /\ ~Stale(e, read[s])
        /\ heap' = [heap EXCEPT ![e] =
              [@ EXCEPT !.suppressed = @ + 1,
                        !.timer = IF heap[e].suppressed = 1 THEN "armed" ELSE @,
                        !.due = now + every - (read[s] - heap[e].first)]]
        /\ CountIn(e, s)
        /\ UNCHANGED <<entries, marks>>

\* Mutant of RecordRepeats: what has passed of the window is taken off twice.
RecordRepeatsEarly(s) ==
    LET k == key[s]
        e == entries[k]
    IN  /\ every > 0 /\ e # NoEntry /\ ~Stale(e, read[s])
        /\ heap' = [heap EXCEPT ![e] =
              Repeated(@, now + every - 2 * (read[s] - heap[e].first))]
        /\ CountIn(e, s)
        /\ UNCHANGED <<entries, marks>>

\* A repeat is counted.
RecordRepeats(s) ==
    LET k == key[s]
        e == entries[k]
    IN  /\ every > 0 /\ e # NoEntry /\ ~Stale(e, read[s])
        /\ heap' = [heap EXCEPT ![e] =
              Repeated(@, now + every - (read[s] - heap[e].first))]
        /\ CountIn(e, s)
        /\ UNCHANGED <<entries, marks>>

\* What a record of a key that is not tracked removes from a full table.
Evicted(at) ==
    IF Cardinality(Tracked) < soMaxKeys THEN {}
    ELSE {k \in Tracked : Stale(entries[k], at)}

\* A new key is tracked when there is room after that, and logged either way.
RecordFirst(s) ==
    LET k    == key[s]
        gone == Evicted(read[s])
        room == Cardinality(Tracked \ gone) < soMaxKeys
        kept == [x \in Keys |-> IF x \in gone THEN NoEntry ELSE entries[x]]
        left == [x \in Ids |-> IF \E g \in gone : entries[g] = x
                                 THEN [heap[x] EXCEPT !.fate = "dropped"] ELSE heap[x]]
    IN  /\ every > 0 /\ entries[k] = NoEntry
        /\ entries' = IF room THEN [kept EXCEPT ![k] = s] ELSE kept
        /\ heap' = IF room
                     THEN [left EXCEPT ![s] =
                            [key |-> k, first |-> read[s], suppressed |-> 0, due |-> 0,
                             timer |-> "none", fate |-> "tracked"]]
                     ELSE left
        /\ Log(s)
        /\ IF room THEN Opens(k, read[s]) ELSE UNCHANGED marks

\* record, from the lock on.
Record(s) ==
    /\ pc[s] = "reading"
    /\ RecordAll(s) \/ RecordReopens(s) \/ RecordRepeats(s) \/ RecordFirst(s)
    /\ pc' = [pc EXCEPT ![s] = "done"]
    /\ read' = [read EXCEPT ![s] = 0]
    /\ UNCHANGED <<every, now, key, flushes, reported>>

-----------------------------------------------------------------------------
\* The timer of e fires and its callback waits for the lock.
Fire(e) ==
    /\ heap[e] # NoEntry /\ heap[e].timer = "armed" /\ now >= heap[e].due
    /\ heap' = [heap EXCEPT ![e].timer = "fired", ![e].due = 0]
    /\ UNCHANGED <<every, entries, now, pc, key, read, flushes, logged, counted, reported, marks>>

\* Mutant of FlushKey: whatever is tracked for the key is removed, and e summed.
FlushKeyUnchecked(e) ==
    /\ heap[e] # NoEntry /\ heap[e].timer = "fired"
    /\ entries' = [entries EXCEPT ![heap[e].key] = NoEntry]
    /\ heap' = [heap EXCEPT ![e].timer = "stopped", ![e].fate = "closing"]
    /\ UNCHANGED <<every, now, pc, key, read, flushes, logged, counted, reported, marks>>

\* flushKey: nothing when another entry, or none, is tracked by now.
FlushKey(e) ==
    /\ heap[e] # NoEntry /\ heap[e].timer = "fired"
    /\ IF entries[heap[e].key] = e
         THEN /\ entries' = [entries EXCEPT ![heap[e].key] = NoEntry]
              /\ heap' = [heap EXCEPT ![e].timer = "stopped", ![e].fate = "closing"]
         ELSE /\ heap' = [heap EXCEPT ![e].timer = "stopped"]
              /\ UNCHANGED entries
    /\ UNCHANGED <<every, now, pc, key, read, flushes, logged, counted, reported, marks>>

\* summary, after the lock.
Summary(e) ==
    /\ heap[e] # NoEntry /\ heap[e].fate = "closing"
    /\ reported' = [reported EXCEPT ![e] = @ + heap[e].suppressed]
    /\ heap' = [heap EXCEPT ![e].fate = "summed"]
    /\ UNCHANGED <<every, entries, now, pc, key, read, flushes, logged, counted, marks>>

\* Flush: every entry leaves the table, those with a count to be summed up.  A
\* timer that has not fired is stopped.
Flush ==
    /\ flushes < MaxFlushes
    /\ flushes' = flushes + 1
    /\ heap' = [e \in Ids |->
          IF \E k \in Tracked : entries[k] = e
            THEN IF heap[e].suppressed = 0
                   THEN [heap[e] EXCEPT !.fate = "dropped"]
                   ELSE [heap[e] EXCEPT !.fate = "closing",
                                        !.timer = IF @ = "armed" THEN "stopped" ELSE @]
            ELSE heap[e]]
    /\ entries' = [k \in Keys |-> NoEntry]
    /\ stamp' = [k \in Keys |-> -1] /\ opened' = [k \in Keys |-> -1]
    /\ UNCHANGED <<every, now, pc, key, read, logged, counted, reported>>

\* Time passes while records come or a timer runs.
Tick ==
    /\ \/ now < MaxNow
       \/ \E e \in Ids : heap[e] # NoEntry /\ heap[e].timer = "armed" /\ now < heap[e].due
    /\ now' = now + 1
    /\ UNCHANGED <<every, entries, heap, pc, key, read, flushes, logged, counted, reported, marks>>

Next ==
    \/ \E s \in Signals : LogDirect(s) \/ (\E k \in Keys : ReadClock(s, k)) \/ Record(s)
    \/ \E e \in Ids : Fire(e) \/ FlushKey(e) \/ Summary(e)
    \/ Flush
    \/ Tick

\* Time goes on, timers fire, and a goroutine that waits for the lock or holds
\* a summary to log is scheduled.
Fairness ==
    /\ WF_svars(Tick)
    /\ \A e \in Ids : WF_svars(Fire(e)) /\ WF_svars(FlushKey(e)) /\ WF_svars(Summary(e))

Spec == Init /\ [][Next]_svars
LiveSpec == Spec /\ Fairness

-----------------------------------------------------------------------------
(* Properties *)

\* Where the records counted in e are: with e in the table of their key, with e
\* on its way to the logger, or in the one summary of e.
Kept(e) ==
    /\ heap[e] # NoEntry
    /\ \A s \in counted[e] : key[s] = heap[e].key
    /\ \/ /\ heap[e].fate = "tracked" /\ entries[heap[e].key] = e
          /\ heap[e].suppressed = Cardinality(counted[e]) /\ reported[e] = 0
       \/ /\ heap[e].fate = "closing"
          /\ heap[e].suppressed = Cardinality(counted[e]) /\ reported[e] = 0
       \/ heap[e].fate = "summed" /\ reported[e] = Cardinality(counted[e])

\* Whatever the order of records, timers and Flush, each record is logged, or
\* counted in one entry of its key, whose one summary reports it or is still to
\* come: none is lost and none is counted twice ("so that no suppressed count
\* is lost", slog_observer.go:169).
EveryRecordAccounted ==
    /\ \A s \in Signals : pc[s] = "done" =>
          (s \in logged <=> \A e \in Ids : s \notin counted[e])
    /\ \A e, f \in Ids : e # f => counted[e] \cap counted[f] = {}
    /\ \A e \in Ids : counted[e] # {} => Kept(e)
    /\ \A e \in Ids : counted[e] = {} => reported[e] = 0

\* A counted record is reported in the end, by its timer or by Flush.
SummaryArrives ==
    \A e \in Ids : (heap[e] # NoEntry /\ heap[e].suppressed > 0) ~>
                   (heap[e] # NoEntry /\ heap[e].fate = "summed")

\* A window of k opens: a record is logged at once, and its key is tracked.
Opening(k) ==
    \E s \in logged' \ logged : pc[s] = "reading" /\ key[s] = k /\ entries'[k] # NoEntry

\* How long the record that opened the last window of k waited for the lock.
Waited(k) == opened[k] - stamp[k]

\* The lines of two successive windows of a key are logged a whole window apart,
\* less what the record of the first had waited for the lock after it read the
\* clock: nothing else brings them closer, neither the timer of the first, nor a
\* record that read the clock before that timer fired, nor eviction, but a Flush
\* (slog_observer.go:105-138).
QuietWindow ==
    [][\A k \in Keys : Opening(k) /\ stamp[k] >= 0
          => now - opened[k] >= every - Waited(k)]_svars

-----------------------------------------------------------------------------
(* The inductive invariant *)

\* A record that has not passed the lock has left no trace; one that waits for
\* it has read the clock.
SignalInv(s) ==
    /\ pc[s] # "done" => heap[s] = NoEntry /\ s \notin logged /\ \A e \in Ids : s \notin counted[e]
    /\ pc[s] = "done" => (s \in logged <=> \A e \in Ids : s \notin counted[e])
    /\ pc[s] = "reading" => key[s] \in Keys /\ read[s] <= now

\* A tracked entry is that of its key and its window is the last one of the key;
\* a key that is no longer tracked, and was not flushed, has had its window.
KeyInv(k) ==
    /\ entries[k] # NoEntry =>
          /\ heap[entries[k]] # NoEntry
          /\ heap[entries[k]].key = k /\ heap[entries[k]].fate = "tracked"
          /\ heap[entries[k]].first = stamp[k]
    /\ entries[k] = NoEntry /\ stamp[k] >= 0 => now - stamp[k] >= every

\* An entry has the count of its records and has told it once it is summed; its
\* timer runs only while it is tracked, and to the end of the window.
EntryInv(e) ==
    /\ heap[e] = NoEntry => counted[e] = {} /\ reported[e] = 0
    /\ heap[e] # NoEntry =>
          /\ heap[e].first <= now
          /\ heap[e].suppressed = Cardinality(counted[e])
          /\ reported[e] = IF heap[e].fate = "summed" THEN heap[e].suppressed ELSE 0
          /\ heap[e].fate = "tracked" => entries[heap[e].key] = e
          /\ heap[e].fate = "dropped" => heap[e].suppressed = 0
          /\ heap[e].timer \in {"armed", "fired"} => heap[e].suppressed > 0
          /\ heap[e].timer = "armed" =>
                heap[e].fate = "tracked" /\ heap[e].due >= heap[e].first + every
          /\ heap[e].timer = "fired" /\ heap[e].fate = "tracked" =>
                now >= heap[e].first + every
          /\ heap[e].fate = "tracked" /\ heap[e].suppressed > 0 =>
                heap[e].timer \in {"armed", "fired"}
    /\ \A s \in counted[e] : pc[s] = "done" /\ key[s] = heap[e].key

\* A count never waits for a record that may not come: a tracked entry with a
\* count has a timer that runs or a callback on its way, and one without them
\* has left the table for its summary (slog_observer.go:116-119).
CountsHaveWayOut ==
    \A e \in Ids : heap[e] # NoEntry /\ heap[e].suppressed > 0 =>
        \/ heap[e].fate = "tracked" /\ heap[e].timer \in {"armed", "fired"}
        \/ heap[e].fate \in {"closing", "summed"}

\* The table holds no more than soMaxKeys keys (slog_observer.go:14).
TableBounded == IsFiniteSet(Tracked) /\ Cardinality(Tracked) <= soMaxKeys

OInv ==
    /\ TypeOK
    /\ \A s \in Signals : SignalInv(s)
    /\ \A k \in Keys : KeyInv(k)
    /\ \A e \in Ids : EntryInv(e)
    /\ \A e, f \in Ids : e # f => counted[e] \cap counted[f] = {}
    /\ TableBounded
=============================================================================

----------------------------- MODULE Repositories -----------------------------
(***************************************************************************)
(* The repositories of time series: the append-only JSON-lines files of    *)
(* storage/file_repository.py and the in-memory lists of                   *)
(* storage/memory_repository.py, given the same records.  Every method     *)
(* runs under the repository's lock, so a method is a step; but a write    *)
(* can fail half-way (a full disk) and the process can be killed in it,    *)
(* and what is on the disk is all a restarted process has.                 *)
(*                                                                         *)
(* A file is a sequence of chunks, one per write, and an offset is the     *)
(* number of chunks before it.  A line ends with the first whole chunk.    *)
(***************************************************************************)
EXTENDS TimeIndex, SequencesExt

CONSTANTS
  Systems, Files,
  MaxTime,       \* bound: timestamps are 1..MaxTime
  MaxChunks,     \* bound: chunks written in a behaviour
  MaxRecords,    \* max_records_per_system of the in-memory repository: 100,000
  MaxLives       \* bound: processes that use the files

ASSUME RepositoriesAssumption ==
  /\ {MaxTime, MaxRecords, MaxLives} \subseteq Nat \ {0}
  /\ MaxChunks \in Nat

Times == 1..MaxTime

\* telemetry: FileAppendTelemetryRepository, which reads its files back;
\* states: FileAppendStateHistoryRepository, which does not.
Kinds == {"telemetry", "states"}

\* What a write leaves: a line; a line without its end; a part of its JSON.
Forms == {"whole", "endless", "cut"}
Chunk == [system: Systems, time: Times, form: Forms]
Entry == [time: Times, offset: 0..MaxChunks - 1]

VARIABLES
  kind, strict,  \* the class, and its strict_parsing
  fileOf,        \* the file of a system: the sanitized name, not one to one
  disk,          \* what the files hold; one that holds nothing is not there
  index,         \* _index: the entries of a system, in order of arrival
  initialized,   \* _initialized_systems
  memory,        \* the in-memory repository: _storage and _timestamps
  acked,         \* history: what append() has returned for, as entries
  before,        \* history: how much of acked is from earlier processes
  written, lives \* what the bounds count

vars == <<kind, strict, fileOf, disk, index, initialized, memory, acked, before, written, lives>>
setting == <<kind, strict, fileOf>>

Empty == [s \in Systems |-> <<>>]

Init ==
  /\ kind \in Kinds
  /\ strict \in IF kind = "telemetry" THEN BOOLEAN ELSE {FALSE}
  /\ fileOf \in [Systems -> Files]
  /\ disk = [f \in Files |-> <<>>]
  /\ index = Empty /\ initialized = {}
  /\ memory = Empty
  /\ acked = Empty /\ before = [s \in Systems |-> 0]
  /\ written = 0 /\ lives = 1

-----------------------------------------------------------------------------
(* Reading a file.                                                         *)

LineStarts(d) == {i \in 1..Len(d) : i = 1 \/ d[i - 1].form = "whole"}

\* readline() and json.loads() from the offset of chunk i: what follows a
\* chunk without a line end is on its line, and spoils it.
Parses(d, i) ==
  \/ d[i].form = "whole"
  \/ d[i].form = "endless" /\ i = Len(d)

\* Faulty variant: only what is complete is indexed, torn lines end the scan.
ReadBackToTear(d) ==
  LET torn == {i \in LineStarts(d) : ~Parses(d, i)}
      lines == {i \in LineStarts(d) : \A j \in torn : i < j}
      at == [i \in 1..Len(d) |-> [time |-> d[i].time, offset |-> i - 1]]
  IN Picked(at, lines)

\* The entries of the lines that parse: whatever system they are from.
ReadBack(d) ==
  LET lines == {i \in LineStarts(d) : Parses(d, i)}
      at == [i \in 1..Len(d) |-> [time |-> d[i].time, offset |-> i - 1]]
  IN Picked(at, lines)

Corrupted(d) == \E i \in LineStarts(d) : ~Parses(d, i)

\* _ensure_indexed: in strict mode it raises on a corrupted line.
IndexRaises(s) ==
  kind = "telemetry" /\ strict /\ s \notin initialized /\ Corrupted(disk[fileOf[s]])

Indexed(s) ==
  IF kind = "telemetry" /\ s \notin initialized THEN ReadBack(disk[fileOf[s]]) ELSE index[s]

Opened(s) == IF kind = "telemetry" THEN initialized \union {s} ELSE initialized

\* An offset read back: what a query makes of an entry of d.
Reads(d, e) == e.offset < Len(d) /\ Parses(d, e.offset + 1)

\* The records of a range, as chunks; entries that do not read are skipped.
FileAnswer(s, q) ==
  LET d == disk[fileOf[s]]
      entries == Slice(Indexed(s), q)
      good == {k \in 1..Len(entries) : Reads(d, entries[k])}
      found == [k \in 1..Len(entries) |-> IF k \in good THEN d[entries[k].offset + 1] ELSE <<>>]
  IN Picked(found, good)

\* The strict repository, and the state history's unguarded json.loads, raise.
QueryRaises(s, q) ==
  LET entries == Slice(Indexed(s), q)
  IN \/ Refused(q)
     \/ IndexRaises(s)
     \/ /\ strict \/ kind = "states"
        /\ \E k \in 1..Len(entries) :
             /\ entries[k].offset < Len(disk[fileOf[s]])
             /\ ~Parses(disk[fileOf[s]], entries[k].offset + 1)

\* query_latest(): the record that arrived last, not the latest one.
FileLatest(s) ==
  LET entries == Indexed(s)
      d == disk[fileOf[s]]
  IN IF entries = <<>> \/ ~Reads(d, entries[Len(entries)]) THEN None
     ELSE d[entries[Len(entries)].offset + 1].time

MemoryLatest(s) == IF memory[s] = <<>> THEN None ELSE memory[s][Len(memory[s])].time

\* The in-memory repository answers out of its own list.
MemoryAnswer(s, q) == Slice(memory[s], q)

-----------------------------------------------------------------------------
(* Writing.                                                                *)

\* The in-memory append: in order of time, and the first goes if one too many.
Stored(s, e) ==
  LET m == memory[s]
      longer == IF m = <<>> \/ e.time >= m[Len(m)].time THEN Append(m, e)
                ELSE Insert(m, 1 + BisectRight([k \in 1..Len(m) |-> m[k].time], e.time), e)
  IN IF Len(longer) > MaxRecords THEN Tail(longer) ELSE longer

\* A write puts its chunk at the end of the file.
Write(s, t, form) ==
  /\ written < MaxChunks
  /\ written' = written + 1
  /\ disk' = [disk EXCEPT ![fileOf[s]] = Append(@, [system |-> s, time |-> t, form |-> form])]

\* The line at the end of the file, and its entry behind those there are.
Appended(s, t, entries) ==
  LET e == [time |-> t, offset |-> Len(disk[fileOf[s]])]
  IN /\ Write(s, t, "whole")
     /\ index' = [index EXCEPT ![s] = Append(entries, e)]
     /\ memory' = [memory EXCEPT ![s] = Stored(s, e)]
     /\ acked' = [acked EXCEPT ![s] = Append(@, e)]
     /\ UNCHANGED <<setting, before, lives>>

\* The telemetry repository builds its index first.
AppendTelemetry(s, t) ==
  /\ kind = "telemetry" /\ ~IndexRaises(s)
  /\ Appended(s, t, Indexed(s))
  /\ initialized' = Opened(s)

\* The state history never does.
AppendState(s, t) ==
  /\ kind = "states"
  /\ Appended(s, t, index[s])
  /\ UNCHANGED initialized

\* The write raises: nothing, a part of the line or all but its end is there.
AppendFails(s, t) ==
  /\ ~IndexRaises(s)
  /\ \/ \E form \in {"cut", "endless"} : Write(s, t, form)
     \/ UNCHANGED <<disk, written>>
  /\ index' = [index EXCEPT ![s] = Indexed(s)]
  /\ initialized' = Opened(s)
  /\ UNCHANGED <<setting, memory, acked, before, lives>>

\* A read: all it changes is that the index is built.
ReadSystem(s) ==
  /\ kind = "telemetry" /\ s \notin initialized /\ ~IndexRaises(s)
  /\ index' = [index EXCEPT ![s] = Indexed(s)]
  /\ initialized' = Opened(s)
  /\ UNCHANGED <<setting, disk, memory, acked, before, written, lives>>

\* clear(system_id): the file goes, whoever else writes to it.
ClearSystem(s) ==
  /\ disk' = [disk EXCEPT ![fileOf[s]] = <<>>]
  /\ index' = [index EXCEPT ![s] = <<>>]
  /\ initialized' = initialized \ {s}
  /\ memory' = [memory EXCEPT ![s] = <<>>]
  /\ acked' = [acked EXCEPT ![s] = <<>>]
  /\ before' = [before EXCEPT ![s] = 0]
  /\ UNCHANGED <<setting, written, lives>>

ClearAll ==
  /\ disk' = [f \in Files |-> <<>>]
  /\ index' = Empty /\ initialized' = {}
  /\ memory' = Empty
  /\ acked' = Empty /\ before' = [s \in Systems |-> 0]
  /\ UNCHANGED <<setting, written, lives>>

\* The process is killed, in an append or not, and another one starts.
Restart ==
  /\ lives < MaxLives
  /\ lives' = lives + 1
  /\ \/ \E s \in Systems : \E t \in Times, form \in Forms : ~IndexRaises(s) /\ Write(s, t, form)
     \/ UNCHANGED <<disk, written>>
  /\ index' = Empty /\ initialized' = {}
  /\ memory' = Empty
  /\ before' = [s \in Systems |-> Len(acked[s])]
  /\ UNCHANGED <<setting, acked>>

Next ==
  \/ \E s \in Systems : ReadSystem(s) \/ ClearSystem(s)
  \/ \E s \in Systems : \E t \in Times : AppendTelemetry(s, t) \/ AppendState(s, t) \/ AppendFails(s, t)
  \/ ClearAll \/ Restart

Spec == Init /\ [][Next]_vars

-----------------------------------------------------------------------------
(* Properties.                                                             *)

TypeOK ==
  /\ kind \in Kinds /\ strict \in BOOLEAN /\ fileOf \in [Systems -> Files]
  /\ disk \in [Files -> Seq(Chunk)]
  /\ {index, memory, acked} \subseteq [Systems -> Seq(Entry)]
  /\ initialized \subseteq Systems
  /\ before \in [Systems -> Nat]
  /\ {written, lives} \subseteq Nat

\* No other system has the file: "a.b" and "a_b" share one.
Alone(s) == \A r \in Systems \ {s} : fileOf[r] # fileOf[s]

Queries == Query(Times, MaxChunks)
Wanted(entries, q) ==
  Arranged(Picked(entries, {k \in 1..Len(entries) : InRange(q, entries[k].time)}), q)
TimesOf(s) == [k \in 1..Len(s) |-> s[k].time]

\* The latest MaxRecords of the records of this process.
Latest(s) ==
  LET all == SortedByTime(SubSeq(acked[s], before[s] + 1, Len(acked[s])))
  IN SubSeq(all, 1 + IF Len(all) > MaxRecords THEN Len(all) - MaxRecords ELSE 0, Len(all))

\* The binary searches, the offsets and the files give exactly the records of
\* the range: in memory always, of the latest MaxRecords, however late records
\* come and whichever are as old; and from a file if its records came in order
\* of time and each can still be read, without an error.
RangeQueriesExact ==
  \A s \in Systems, q \in Queries :
    LET entries == Indexed(s)
        d == disk[fileOf[s]]
    IN ~Refused(q) =>
         /\ MemoryAnswer(s, q) = Wanted(Latest(s), q)
         /\ /\ Alone(s) /\ Ascending(TimesOf(entries))
            /\ \A i \in 1..Len(d) : Parses(d, i)
            => /\ ~QueryRaises(s, q)
               /\ TimesOf(FileAnswer(s, q)) = TimesOf(Wanted(entries, q))
               /\ before[s] = 0 /\ Len(entries) = Len(acked[s]) => FileLatest(s) = MemoryLatest(s)

\* What append() has returned for is found again by any later process, unless
\* the write before it was torn, by a failure or a kill, and left its line to
\* this one; nothing that was never written is found.
OnlyGluedIsLost ==
  kind = "telemetry" =>
    \A s \in Systems :
      LET d == disk[fileOf[s]]
          found == ReadBack(d)
      IN /\ Alone(s) =>
              \A k \in 1..Len(acked[s]) :
                LET i == acked[s][k].offset + 1
                IN \/ i > 1 /\ d[i - 1].form # "whole"
                   \/ \E j \in 1..Len(found) : found[j] = acked[s][k]
         /\ \A j \in 1..Len(found) : d[found[j].offset + 1].form # "cut"
=============================================================================

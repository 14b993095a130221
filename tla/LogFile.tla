------------------------------ MODULE LogFile ------------------------------
(***************************************************************************)
(* The log file: the program buffers its records and writes them in        *)
(* batches (_add_periodic_file_logging of scgrep/main.py), the hourly      *)
(* purge rewrites the file beside it (scripts/purge_logs.py), and two      *)
(* reports read it back and credit each line to the last heading before it *)
(* (scripts/replay_loss_report.py, scripts/restart_history.py).            *)
(*                                                                         *)
(* A record is its number in the order of logging; the file holds lines.   *)
(* Standard output, kept by docker for the current container, has every    *)
(* record at once.                                                         *)
(*                                                                         *)
(* The wall clock of the log is taken never to step back.  The purge       *)
(* compares its readings, and restart_history sorts by them; so after a    *)
(* step back a purge would take newer lines and leave older ones, and a    *)
(* connection could be listed under an earlier restart than its own.       *)
(***************************************************************************)
EXTENDS Integers, SequencesExt

CONSTANTS
    MaxAge,     \* PURGE_LOG_MAX_AGE_HOURS
    MaxRecords, \* bound on the records logged
    MaxClock    \* bound on the clock

ASSUME LogFileAssumption ==
    MaxAge \in Nat /\ MaxRecords \in Nat \ {0} /\ MaxClock \in Nat

VARIABLES
    clock,     \* the wall clock, in units of a timestamp; never set back
    log,       \* history: what has been logged, [kind, at, of]
    proc,      \* the process: "up", "closing" (atexit) or "down"
    run,       \* the record that heads this process: "Starting SCGRep"
    cycle,     \* the record that heads this cycle: "Test period begins"; or 0
    container, \* the first record in `docker logs`
    buffer,    \* MemoryHandler: the records not written yet
    flushing,  \* a flush is under way
    file,      \* the lines of the current file
    purge,     \* the purge: [st, cutoff, tmp]
    cut,       \* history: the highest cutoff of a finished purge
    raced,     \* history: records written around a replacement
    crashed    \* history: records a crash took from the buffer

procVars == <<proc, run, cycle, container>>
lost == <<raced, crashed>>
vars == <<clock, log, procVars, buffer, flushing, file, purge, cut, lost>>

Kinds == {"start", "connect", "period", "result", "error"}

\* Its lines: only an error has a second one, the traceback.
Lines(r) ==
    LET entry == [rec |-> r, part |-> 1]
    IN  IF log[r].kind = "error" THEN <<entry, [rec |-> r, part |-> 2]>> ELSE <<entry>>

LineType == [rec : 1 .. MaxRecords, part : {1, 2}]

TypeOK ==
    /\ clock \in 0 .. MaxClock
    /\ log \in Seq([kind : Kinds, at : 0 .. MaxClock, of : 1 .. MaxRecords])
    /\ proc \in {"up", "closing", "down"}
    /\ run \in 0 .. Len(log) /\ cycle \in 0 .. Len(log)
    /\ container \in 1 .. MaxRecords
    /\ buffer \in Seq(1 .. Len(log)) /\ (proc = "down" => buffer = << >>)
    /\ flushing \in BOOLEAN /\ (flushing => buffer # << >>)
    /\ file \in Seq(LineType)
    /\ purge \in [st : {"idle", "replace"}, cutoff : Int, tmp : Seq(LineType)]
    /\ cut \in Int /\ raced \subseteq 1 .. Len(log) /\ crashed \subseteq 1 .. Len(log)

NoPurge == [st |-> "idle", cutoff |-> 0, tmp |-> << >>]

Init ==
    /\ clock = 0 /\ log = << >>
    /\ proc = "down" /\ run = 0 /\ cycle = 0 /\ container = 1
    /\ buffer = << >> /\ flushing = FALSE
    /\ file = << >> /\ purge = NoPurge
    /\ cut = 0 - MaxAge /\ raced = {} /\ crashed = {}

Tick ==
    /\ clock < MaxClock
    /\ clock' = clock + 1
    /\ UNCHANGED <<log, procVars, buffer, flushing, file, purge, cut, lost>>

-----------------------------------------------------------------------------
(* The program.  A flush holds the handler's lock, so nothing is logged    *)
(* during one; an error is flushed by the call that logs it.               *)

Record(kind, of) ==
    /\ Len(log) < MaxRecords
    /\ log' = Append(log, [kind |-> kind, at |-> clock, of |-> of])
    /\ buffer' = Append(buffer, Len(log) + 1)

LogRecord(kind, of) ==
    /\ proc = "up" /\ ~flushing
    /\ Record(kind, of)
    /\ flushing' = (kind = "error")
    /\ UNCHANGED <<clock, proc, run, container, file, purge, cut, lost>>

\* main: the handler opens the file, and the first record is the heading of
\* the process; docker compose may have made a new container.
Start ==
    /\ proc = "down"
    /\ proc' = "up" /\ run' = Len(log) + 1 /\ cycle' = 0
    /\ Record("start", run')
    /\ container' \in {container, run'}
    /\ UNCHANGED <<clock, flushing, file, purge, cut, lost>>

LogConnect == LogRecord("connect", run) /\ UNCHANGED cycle

LogPeriod == LogRecord("period", Len(log) + 1) /\ cycle' = Len(log) + 1

LogResult == cycle # 0 /\ LogRecord("result", cycle) /\ UNCHANGED cycle

\* The cycle goes on, when a fetch raised, or has failed.
LogError == LogRecord("error", Len(log) + 1) /\ cycle' \in {0, cycle}

\* The flush thread, every LOG_FILE_FLUSH_INTERVAL.
Flush ==
    /\ proc = "up" /\ ~flushing /\ buffer # << >>
    /\ flushing' = TRUE
    /\ UNCHANGED <<clock, log, procVars, buffer, file, purge, cut, lost>>

\* Mutant: nothing flushes at exit.
ExitUnflushed ==
    /\ proc = "up" /\ ~flushing
    /\ proc' = "down"
    /\ UNCHANGED <<clock, log, run, cycle, container, buffer, flushing, file, purge, cut, lost>>

\* main returns: atexit calls memory.close, which flushes.
Exit ==
    /\ proc = "up" /\ ~flushing
    /\ IF buffer = << >> THEN proc' = "down" /\ UNCHANGED flushing
                         ELSE proc' = "closing" /\ flushing' = TRUE
    /\ UNCHANGED <<clock, log, run, cycle, container, buffer, file, purge, cut, lost>>

\* WatchedFileHandler.emit: the file is reopened when it has been replaced,
\* then all lines of the record are appended.  A replacement between the two
\* steps has the outcome of one right after them.
WriteRecord ==
    /\ flushing
    /\ file' = file \o Lines(Head(buffer))
    /\ buffer' = Tail(buffer)
    /\ flushing' = (buffer' # << >>)
    /\ proc' = IF proc = "closing" /\ buffer' = << >> THEN "down" ELSE proc
    /\ raced' = IF purge.st = "replace" THEN raced \cup {Head(buffer)} ELSE raced
    /\ UNCHANGED <<clock, log, run, cycle, container, purge, cut, crashed>>

\* The process is killed.  Outside a flush no error is in the buffer to lose.
Crash ==
    /\ proc # "down"
    /\ proc' = "down" /\ buffer' = << >> /\ flushing' = FALSE
    /\ crashed' = crashed \cup {r \in ToSet(buffer) : flushing \/ log[r].kind # "error"}
    /\ UNCHANGED <<clock, log, run, cycle, container, file, purge, cut, raced>>

-----------------------------------------------------------------------------
(* purge_logs.purge.                                                       *)

\* Mutant: a line without a timestamp is always kept.
KeptLoose(lines, cutoff) ==
    SelectSeq(lines, LAMBDA line : line.part # 1 \/ log[line.rec].at >= cutoff)

\* Mutant: the cutoff itself is too old.
KeptAfter(lines, cutoff) ==
    LET entry(i) == SelectLastInSubSeq(lines, 1, i, LAMBDA line : line.part = 1)
        keep(i) == entry(i) = 0 \/ log[lines[entry(i)].rec].at > cutoff
    IN  FoldLeftDomain(LAMBDA out, i : IF keep(i) THEN Append(out, lines[i]) ELSE out,
                       << >>, lines)

\* A line with a timestamp is kept when it is no older than the cutoff, one
\* without when the last one with was, or when there is none.
Kept(lines, cutoff) ==
    LET entry(i) == SelectLastInSubSeq(lines, 1, i, LAMBDA line : line.part = 1)
        keep(i) == entry(i) = 0 \/ log[lines[entry(i)].rec].at >= cutoff
    IN  FoldLeftDomain(LAMBDA out, i : IF keep(i) THEN Append(out, lines[i]) ELSE out,
                       << >>, lines)

\* The cutoff is set and the file read to its end: what is appended from here
\* on is not copied.
PurgeRead ==
    /\ purge.st = "idle"
    /\ LET cutoff == clock - MaxAge
       IN  purge' = [st |-> "replace", cutoff |-> cutoff, tmp |-> Kept(file, cutoff)]
    /\ UNCHANGED <<clock, log, procVars, buffer, flushing, file, cut, lost>>

\* os.replace
PurgeReplace ==
    /\ purge.st = "replace"
    /\ file' = purge.tmp
    /\ purge' = NoPurge
    /\ cut' = Max({cut, purge.cutoff})
    /\ UNCHANGED <<clock, log, procVars, buffer, flushing, lost>>

\* An exception: the temporary file is removed, the log stays as it is.
PurgeFails ==
    /\ purge.st = "replace"
    /\ purge' = NoPurge
    /\ UNCHANGED <<clock, log, procVars, buffer, flushing, file, cut, lost>>

-----------------------------------------------------------------------------
Next ==
    \/ Tick
    \/ Start \/ LogConnect \/ LogPeriod \/ LogResult \/ LogError
    \/ Flush \/ Exit \/ WriteRecord \/ Crash
    \/ PurgeRead \/ PurgeReplace \/ PurgeFails

Spec == Init /\ [][Next]_vars

-----------------------------------------------------------------------------
(* The reports.                                                            *)

Recs(lines) == [i \in DOMAIN lines |-> lines[i].rec]

\* Mutant: results before the first period go to that period.
ScanSummaryEager(lines) ==
    LET period(l) == log[l.rec].kind = "period"
        last(i) == SelectLastInSubSeq(lines, 1, i, period)
        window(i) == IF last(i) # 0 THEN last(i) ELSE SelectInSeq(lines, period)
    IN  {<<lines[window(i)].rec, lines[i].rec>> :
           i \in {j \in DOMAIN lines : log[lines[j].rec].kind = "result" /\ window(j) # 0}}

\* replay_loss_report.scan_summary: each result under the window of the last
\* period line; none before the first.
ScanSummary(lines) ==
    LET window(i) == SelectLastInSubSeq(lines, 1, i, LAMBDA l : log[l.rec].kind = "period")
    IN  {<<lines[window(i)].rec, lines[i].rec>> :
           i \in {j \in DOMAIN lines : log[lines[j].rec].kind = "result" /\ window(j) # 0}}

\* restart_history.read_sources: the union of file and container.  The code
\* sorts it by timestamp (as main sorts the restarts); with a clock that is
\* never set back, and up to ties, that is the order of logging.
ReadSources == ToSet(Recs(file)) \cup container .. Len(log)

\* Mutant: what precedes the first restart shown is listed beneath it.
RestartHistoryEager(records) ==
    LET starts == {r \in records : log[r].kind = "start"}
        before(r) == {s \in starts : s < r}
        prev(r) == IF before(r) # {} THEN Max(before(r)) ELSE Min(starts)
    IN  {<<prev(r), r>> :
           r \in {q \in records : log[q].kind = "connect" /\ starts # {}}}

\* restart_history.main: each connection under the restart before it; those
\* before the first are counted apart.
RestartHistory(records) ==
    LET prev(r) == {s \in records : s < r /\ log[s].kind = "start"}
    IN  {<<Max(prev(r)), r>> :
           r \in {q \in records : log[q].kind = "connect" /\ prev(q) # {}}}

-----------------------------------------------------------------------------
(* Properties.                                                             *)

\* A record gets lost in one of three ways only: it was older than the cutoff
\* of a purge; it was written between the moment a purge had read the file
\* and the moment it replaced it; or the process was killed before
\* it was written, an error only if that happened during its own flush.
LossAccountedFor ==
    \A r \in DOMAIN log :
        \/ r \in ToSet(Recs(file)) \cup ToSet(buffer)
        \/ log[r].at < cut
        \/ r \in raced \cup crashed

\* Purged or not, the file holds whole records, tracebacks with their entry,
\* each once and in the order in which they were logged.
WholeAndInOrder ==
    /\ \A i \in DOMAIN file : \A line \in ToSet(Lines(file[i].rec)) : line \in ToSet(file)
    /\ \A i, j \in DOMAIN file :
         i < j => \/ file[i].rec < file[j].rec
                  \/ file[i].rec = file[j].rec /\ file[i].part < file[j].part

\* Whatever was purged or lost in a crash, the loss report shows a result
\* under the window of its own cycle, or not at all, unless the heading of a
\* cycle was written while the file was replaced.  Holds while the wall clock
\* is not set back: a purge then takes lines from the front only.
ResultsKeepTheirWindow ==
    (\A r \in raced : log[r].kind # "period") =>
        \A entry \in ScanSummary(file) : log[entry[2]].of = entry[1]

\* The same of connections and restarts, with file and container merged by
\* timestamp; again while the wall clock is not set back.
ConnectionsKeepTheirRestart ==
    (\A r \in raced : log[r].kind # "start") =>
        \A entry \in RestartHistory(ReadSources) : log[entry[2]].of = entry[1]
=============================================================================

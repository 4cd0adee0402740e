------------------------------- MODULE Journal --------------------------------
(***************************************************************************)
(* The log a hub keeps of what members did (internal/hub/journal.go):      *)
(* the last entries in memory, and a file of lines behind them.            *)
(*                                                                         *)
(* Every operation holds one mutex, so what can come between its steps is  *)
(* a failure or the end of the hub.  A write to the file may succeed, may  *)
(* fail, or may be the last thing the hub does, and in the latter cases    *)
(* any part of the line may have reached the file: none of it, the         *)
(* beginning, or all of it but the newline, which reads back as a line.    *)
(* What is appended next continues that line, which no longer parses.      *)
(*                                                                         *)
(* Of the file is kept what readJournal tells apart: the lines that parse, *)
(* in order, how many do not, and what its last line is that has no        *)
(* newline: an entry, junk, or none.                                       *)
(*                                                                         *)
(* Entries are numbered in the order they are added, over all runs of the  *)
(* hub; `who' is the member credited, or Nobody.  Their texts are left     *)
(* out, and of their age only that the older ones are dropped first.       *)
(***************************************************************************)
EXTENDS Naturals, Sequences, FiniteSets, Functions

CONSTANTS
    Members,     \* those who may be credited
    Keep,        \* keepEntries
    MaxEntries,  \* entries ever added: a bound
    Nobody

ASSUME KeepAssumption == Keep \in Nat \ {0} /\ MaxEntries \in Nat

VARIABLES
    up,          \* the hub runs
    entries,     \* what it has in memory
    open,        \* j.file # nil
    appended,    \* appends since the last compaction
    disk,        \* the file: its lines that parse, its junk, and its last line
    added,       \* entries added so far
    cuts,        \* lines that lacked nothing but their newline: history
    untrimmed    \* compactions that failed: history

journalVars == <<up, entries, open, appended, disk, added, cuts, untrimmed>>

Lines(s) == [lines |-> s, junk |-> 0, tail |-> "none"]

JournalInit ==
    /\ up = TRUE
    /\ entries = <<>>
    /\ open \in BOOLEAN
    /\ appended = 0
    /\ disk = Lines(<<>>)
    /\ added = 0
    /\ cuts = 0
    /\ untrimmed = 0

-----------------------------------------------------------------------------
(* The file.                                                               *)

\* Mutant: one entry too many.
LastOf_OneMore(s) == SubSeq(s, IF Len(s) > Keep THEN Len(s) - Keep ELSE 1, Len(s))

LastOf(s) == SubSeq(s, IF Len(s) > Keep THEN Len(s) - Keep + 1 ELSE 1, Len(s))

\* What readJournal keeps, and what it reports as trimmed, to be rewritten.
ReadBack(d) == LastOf(d.lines)

\* Mutant: only lines that do not parse count.
Trimmed_ByLinesOnly(d) == d.junk > 0

\* Mutant: lines that do not parse are left where they are.
Trimmed_ByCountOnly(d) == Len(d.lines) > Keep

Trimmed(d) == d.junk > 0 \/ Len(d.lines) > Keep

\* The last line, continued by whatever is written next.
Spoilt(d) ==
    IF d.tail = "entry"
    THEN [d EXCEPT !.lines = SubSeq(@, 1, Len(@) - 1), !.junk = @ + 1]
    ELSE d

Written(d, e) ==
    IF d.tail = "none" THEN [d EXCEPT !.lines = Append(@, e)]
    ELSE [Spoilt(d) EXCEPT !.tail = "none"]

\* A write that does not succeed: nothing, the beginning, all but the newline.
Torn(d) ==
    IF d.tail = "none" THEN [d EXCEPT !.junk = @ + 1, !.tail = "junk"]
    ELSE [Spoilt(d) EXCEPT !.tail = "junk"]

AllButNewline(d, e) ==
    IF d.tail = "none" THEN [d EXCEPT !.lines = Append(@, e), !.tail = "entry"]
    ELSE [Spoilt(d) EXCEPT !.tail = "junk"]

HalfWritten(d, e) == {d, Torn(d), AllButNewline(d, e)}

Cuts(d, next) == IF d.tail = "none" /\ next.tail = "entry" THEN 1 ELSE 0

-----------------------------------------------------------------------------
(* addLocked, without the lock: typed and add call it with it held.        *)

NewEntry(who) == [n |-> added + 1, who |-> who]

\* Mutant: the file is added to, not replaced.
Compact_Adds(now, written) ==
    /\ appended' = 0
    /\ \/ disk' = Lines(disk.lines \o now) /\ UNCHANGED <<open, untrimmed>>
       \/ disk' = Lines(disk.lines \o now) /\ open' = FALSE /\ UNCHANGED untrimmed

\* compactLocked of what is in memory now.  writeJournal may fail, and so may
\* the open that follows the rename.
Compact(now, written) ==
    /\ appended' = 0
    /\ \/ disk' = written /\ untrimmed' = untrimmed + 1 /\ UNCHANGED open
       \/ disk' = Lines(now) /\ UNCHANGED <<open, untrimmed>>
       \/ disk' = Lines(now) /\ open' = FALSE /\ UNCHANGED untrimmed

Remember(e) == entries' = LastOf(Append(entries, e)) /\ added' = added + 1

AddUnwritten(e) ==
    /\ ~open
    /\ Remember(e)
    /\ UNCHANGED <<up, open, appended, disk, cuts, untrimmed>>

AddWritten(e) ==
    /\ open
    /\ Remember(e)
    /\ IF appended + 1 >= Keep
       THEN Compact(entries', Written(disk, e))
       ELSE /\ appended' = appended + 1
            /\ disk' = Written(disk, e)
            /\ UNCHANGED <<open, untrimmed>>
    /\ UNCHANGED <<up, cuts>>

\* The write fails: this run is no longer written down.
AddFails(e) ==
    /\ open
    /\ Remember(e)
    /\ open' = FALSE
    /\ appended' = IF appended + 1 >= Keep THEN 0 ELSE appended + 1
    /\ disk' \in HalfWritten(disk, e)
    /\ cuts' = cuts + Cuts(disk, disk')
    /\ UNCHANGED <<up, untrimmed>>

Add(who) ==
    /\ up
    /\ added < MaxEntries
    /\ LET e == NewEntry(who) IN AddUnwritten(e) \/ AddWritten(e) \/ AddFails(e)

-----------------------------------------------------------------------------
(* The end of a hub, and its next start.                                   *)

\* Between two operations, or in an append, or in a compaction, whose rename
\* may have been made.
HubEnds ==
    /\ up
    /\ up' = FALSE
    /\ open' = FALSE
    /\ entries' = <<>>
    /\ appended' = 0
    /\ \/ UNCHANGED <<disk, added, cuts>>
       \/ /\ open
          /\ added < MaxEntries
          /\ added' = added + 1
          /\ LET e == NewEntry(Nobody) IN
             \/ /\ disk' \in HalfWritten(disk, e)
                /\ cuts' = cuts + Cuts(disk, disk')
             \/ /\ disk' \in {Written(disk, e)} \cup
                             IF appended + 1 >= Keep
                             THEN {Lines(LastOf(Append(entries, e)))} ELSE {}
                /\ UNCHANGED cuts
    /\ UNCHANGED untrimmed

\* The file without its oldest lines, which keepFor has run out for.
Younger(d, old) == [d EXCEPT !.lines = SubSeq(@, old + 1, Len(@))]

\* openJournal: read, rewrite if trimmed, open; each may fail.
OpenJournal ==
    /\ ~up
    /\ up' = TRUE
    /\ appended' = 0
    /\ \/ \E old \in 0..Len(disk.lines) :
             LET young   == Younger(disk, old)
                 trimmed == old > 0 \/ Trimmed(young)
             IN /\ entries' = ReadBack(young)
                /\ \/ /\ disk' = IF trimmed THEN Lines(ReadBack(young)) ELSE disk
                      /\ open' \in BOOLEAN
                   \/ /\ trimmed
                      /\ open' = FALSE
                      /\ UNCHANGED disk
       \/ entries' = <<>> /\ open' = FALSE /\ UNCHANGED disk
    /\ UNCHANGED <<added, cuts, untrimmed>>

-----------------------------------------------------------------------------
(* Properties.                                                             *)

Entry == [n : 1..MaxEntries, who : Members \cup {Nobody}]

JournalTypeOK ==
    /\ {up, open} \subseteq BOOLEAN
    /\ entries \in Seq(Entry) /\ Len(entries) <= Keep
    /\ appended \in 0..(Keep - 1)
    /\ disk \in [lines : Seq(Entry), junk : Nat, tail : {"none", "entry", "junk"}]
    /\ {added, cuts, untrimmed} \subseteq 0..MaxEntries

Increasing(s) == \A i, j \in 1..Len(s) : i < j => s[i].n < s[j].n

\* Entries are kept in the order they were added and none twice, in memory and
\* in what the file reads back, whatever compaction or a crash did to it
\* (compactLocked, journal.go:100; openJournal, journal.go:74).
OrderIsKept == Increasing(entries) /\ Increasing(disk.lines)

\* While the hub writes, what the log shows is what the next hub will read.
\* All that a crash can cost is a line that lacked its newline alone, with the
\* entry appended to it (readJournal, journal.go:195; journal_test.go:100).
ShownIsKept ==
    open => Cardinality(Range(entries) \ Range(ReadBack(disk))) <= 2 * cuts

\* The file stays within twice what is kept, plus as much again for each
\* compaction that failed (journal.go:161).
FileIsBounded == Len(disk.lines) + disk.junk <= (2 + untrimmed) * Keep

=============================================================================

------------------------------ MODULE LedgerFile ------------------------------
(***************************************************************************)
(* The file behind the ledger (ledger/local.py): one event per line, each  *)
(* with its sequence number, the hash of the event before it and its own   *)
(* hash.  A process reads the whole file when it starts and then appends;  *)
(* memory is changed first, the line is written after it.                  *)
(*                                                                         *)
(* A write may be cut short anywhere, because the process is killed or the *)
(* disk is full (the exception ends main).  Somebody may edit the file.    *)
(* Blank lines, which the load skips, are never written and left out.      *)
(***************************************************************************)
EXTENDS Integers, Sequences

CONSTANTS
  Payloads,         \* what an event says: type and payload
  MaxEvents         \* bound of the runs: lines of the file

VARIABLES
  lines,            \* the file: events, and lines that are none
  ended,            \* the last line has its newline
  events,           \* _events of the running process
  up,               \* the process runs, does not, or could not read the file
  record,           \* history: every event whose line was written whole, or whose append returned
  torn,             \* history: a write was cut short after its first byte
  damaged           \* history: the file was edited

vars == <<lines, ended, events, up, record, torn, damaged>>

(***************************************************************************)
(* Events.  A hash is what was hashed: two are equal only if everything    *)
(* that went into them, the chain before them included, is.                *)
(***************************************************************************)
Hashes == Seq(Nat \X Payloads)

Genesis == <<>>

Digest(sequence, payload, prev) == Append(prev, <<sequence, payload>>)

Event == [sequence : Nat, payload : Payloads, prev : Hashes, hash : Hashes]

\* A line that is no JSON document.
Garbage == [text |-> "garbage"]

HashBefore(file, i) == IF i = 1 THEN Genesis ELSE file[i - 1].hash

\* Plausible bug: the hash of an event is not computed again.
LinkedOnly(file, i) ==
  /\ file[i] # Garbage
  /\ file[i].sequence = i
  /\ file[i].prev = HashBefore(file, i)

\* What the load demands of line i.
Valid(file, i) ==
  /\ file[i] # Garbage
  /\ file[i].sequence = i
  /\ file[i].prev = HashBefore(file, i)
  /\ file[i].hash = Digest(file[i].sequence, file[i].payload, file[i].prev)

Loadable(file) == \A i \in 1 .. Len(file) : Valid(file, i)

\* Plausible bug: a process numbers the events of its own time.
NextEventOfProcess(p) ==
  [sequence |-> 1, payload |-> p, prev |-> Genesis, hash |-> Digest(1, p, Genesis)]

\* The event that append makes of p.
NextEvent(p) ==
  LET n    == Len(events) + 1
      prev == HashBefore(events, n)
  IN  [sequence |-> n, payload |-> p, prev |-> prev, hash |-> Digest(n, p, prev)]

(***************************************************************************)
(* The file.                                                               *)
(***************************************************************************)
\* The file when line is written to its end; behind a line without newline it spoils that line.
Extended(line) ==
  IF ended THEN Append(lines, line) ELSE [lines EXCEPT ![Len(lines)] = Garbage]

Init ==
  /\ lines = <<>> /\ ended = TRUE
  /\ events = <<>> /\ up = "down"
  /\ record = <<>> /\ torn = FALSE /\ damaged = FALSE

\* A process starts; a file it cannot read ends it, this time and every other time.
Start ==
  /\ up # "up"
  /\ IF Loadable(lines) THEN events' = lines /\ up' = "up"
     ELSE events' = <<>> /\ up' = "refused"
  /\ UNCHANGED <<lines, ended, record, torn, damaged>>

\* append returns.
AppendEvent(p) ==
  /\ up = "up" /\ Len(lines) < MaxEvents
  /\ events' = Append(events, NextEvent(p))
  /\ lines' = Extended(NextEvent(p))
  /\ record' = events'
  /\ ended' = TRUE
  /\ UNCHANGED <<up, torn, damaged>>

Down == up' = "down" /\ events' = <<>>

\* The process dies or the write fails before a byte is in the file.
DiesBeforeWrite == up = "up" /\ Down /\ UNCHANGED <<lines, ended, record, torn, damaged>>

\* ... after a part of the line,
DiesInWrite ==
  /\ up = "up" /\ Len(lines) < MaxEvents
  /\ Down
  /\ lines' = Extended(Garbage)
  /\ ended' = FALSE
  /\ torn' = TRUE
  /\ UNCHANGED <<record, damaged>>

\* ... after all of it but, perhaps, the newline.
DiesAfterWrite(p, newline) ==
  /\ up = "up" /\ Len(lines) < MaxEvents
  /\ Down
  /\ lines' = Extended(NextEvent(p))
  /\ ended' = newline
  /\ torn' = (torn \/ ~newline)
  /\ record' = IF ended THEN Append(events, NextEvent(p)) ELSE record
  /\ UNCHANGED damaged

(***************************************************************************)
(* One edit of a readable file: another payload, a missing or a repeated   *)
(* line.                                                                   *)
(***************************************************************************)
WithPayload(i, p) == [lines EXCEPT ![i].payload = p]

WithoutLine(i) ==
  [j \in 1 .. Len(lines) - 1 |-> IF j < i THEN lines[j] ELSE lines[j + 1]]

WithLineTwice(i) ==
  [j \in 1 .. Len(lines) + 1 |-> IF j <= i THEN lines[j] ELSE lines[j - 1]]

Edited(file) ==
  /\ ~damaged /\ Loadable(lines)
  /\ lines' = file
  /\ damaged' = TRUE
  /\ UNCHANGED <<ended, events, up, record, torn>>

Alter(i, p) == Edited(WithPayload(i, p)) /\ p # lines[i].payload

\* A file cut at its end is a shorter good file: nothing in it says how long it was.
Omit(i) == i < Len(lines) /\ Edited(WithoutLine(i))

Repeat(i) == Len(lines) < MaxEvents /\ Edited(WithLineTwice(i))

Next ==
  \/ Start
  \/ \E p \in Payloads : AppendEvent(p)
  \/ DiesBeforeWrite \/ DiesInWrite
  \/ \E p \in Payloads, newline \in BOOLEAN : DiesAfterWrite(p, newline)
  \/ \E i \in 1 .. Len(lines) :
       Omit(i) \/ Repeat(i) \/ \E p \in Payloads : Alter(i, p)

Spec == Init /\ [][Next]_vars

(***************************************************************************)
(* What it promises.                                                       *)
(***************************************************************************)
\* Types; only the last line can be without a newline, so a file without lines is ended.
LedgerTypeOK ==
  /\ lines \in Seq(Event \cup {Garbage})
  /\ ended \in BOOLEAN /\ (lines = <<>> => ended)
  /\ events \in Seq(Event) /\ record \in Seq(Event)
  /\ up \in {"up", "down", "refused"}
  /\ torn \in BOOLEAN /\ damaged \in BOOLEAN

Log == INSTANCE AppendOnlyLog WITH
  log <- record, open <- (up = "up"), view <- events

\* Whatever is torn, glued or edited, a process that gets a ledger reads every event recorded
\* so far and no other, so that the kernel's hydration starts from what its predecessor knew.
AppendOnly == Log!LogSpec

\* A file is refused only if a write was cut short in the middle or somebody edited it: kills
\* between writes, failed writes that left nothing and any number of restarts are recovered.
RefusedForCause == up = "refused" => torn \/ damaged

=============================================================================

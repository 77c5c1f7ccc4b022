--------------------------- MODULE LedgerFileProofs ---------------------------
(***************************************************************************)
(* The ledger file refuses to load for cause only, and implements the      *)
(* append-only log, for any payloads and any number of lines.              *)
(***************************************************************************)
EXTENDS LedgerFile, TLAPS

(***************************************************************************)
(* The inductive invariant.                                                *)
(***************************************************************************)
\* A process reads what was recorded.
Memory == IF up = "up" THEN events = record ELSE events = <<>>

\* The file is the record, or has been spoiled for good.
File ==
  \/ lines = record /\ ~damaged
  \/ (torn \/ damaged) /\ ~Loadable(lines)

LedgerInv ==
  /\ LedgerTypeOK
  /\ Memory
  /\ Loadable(record)
  /\ ~ended => torn
  /\ File
  /\ up = "refused" => ~Loadable(lines)

(***************************************************************************)
(* Lemmas.                                                                 *)
(***************************************************************************)
Line == Event \cup {Garbage}

\* An event has fields that garbage does not have.
LEMMA EventsReadable == \A e \in Event : e # Garbage
  BY DEF Event, Garbage

\* The event append makes continues the chain.
LEMMA NextEventChains ==
  ASSUME NEW p \in Payloads, events \in Seq(Event), Loadable(events)
  PROVE  /\ NextEvent(p) \in Event
         /\ Loadable(Append(events, NextEvent(p)))
<1> DEFINE n == Len(events) + 1
           e == NextEvent(p)
           s == Append(events, e)
<1>1. n \in Nat /\ HashBefore(events, n) \in Hashes
  <2>1. n \in Nat /\ (n = 1 \/ n - 1 \in 1 .. Len(events))
    OBVIOUS
  <2>2. \A j \in 1 .. Len(events) : events[j] \in Event
    OBVIOUS
  <2>3. \A j \in 1 .. Len(events) : events[j].hash \in Hashes
    BY <2>2 DEF Event
  <2>4. Genesis \in Hashes
    BY DEF Genesis, Hashes
  <2> QED
    BY <2>1, <2>3, <2>4 DEF HashBefore
<1>2. Digest(n, p, HashBefore(events, n)) \in Hashes
  BY <1>1 DEF Digest, Hashes
<1>3. e \in Event
  BY <1>1, <1>2 DEF NextEvent, Event
<1>4. ASSUME NEW i \in 1 .. Len(s)
      PROVE  Valid(s, i)
  <2>1. CASE i = n
    <3>1. s[i] = e /\ HashBefore(s, i) = HashBefore(events, n)
      BY <2>1, <1>3 DEF HashBefore
    <3>2. e.sequence = n /\ e.prev = HashBefore(events, n) /\ e.hash = Digest(n, p, e.prev) /\ e.payload = p
      BY DEF NextEvent
    <3> QED
      BY <2>1, <3>1, <3>2, <1>3, EventsReadable DEF Valid
  <2>2. CASE i # n
    <3>1. i \in 1 .. Len(events) /\ Valid(events, i)
      BY <2>2, <1>3 DEF Loadable
    <3>2. s[i] = events[i] /\ HashBefore(s, i) = HashBefore(events, i)
      BY <3>1, <1>3 DEF HashBefore
    <3> QED
      BY <3>1, <3>2 DEF Valid
  <2> QED
    BY <2>1, <2>2
<1> QED
  BY <1>3, <1>4 DEF Loadable

\* The file keeps its type when a line is added.
LEMMA ExtendedType ==
  ASSUME lines \in Seq(Line), ended \in BOOLEAN, lines = <<>> => ended, NEW x \in Line
  PROVE  Extended(x) \in Seq(Line) /\ Extended(x) # <<>>
  BY DEF Extended, Line

\* What cannot be read is not repaired by writing more of it.
LEMMA SpoiledStays ==
  ASSUME lines \in Seq(Line), ended \in BOOLEAN, lines = <<>> => ended, NEW x \in Line,
         ~Loadable(lines) \/ ~ended \/ x = Garbage
  PROVE  ~Loadable(Extended(x))
<1>1. CASE ~ended
  <2>1. Len(lines) \in 1 .. Len(Extended(x)) /\ Extended(x)[Len(lines)] = Garbage
    BY <1>1 DEF Extended
  <2> QED
    BY <2>1 DEF Loadable, Valid
<1>2. CASE ended /\ x = Garbage
  <2>1. Len(lines) + 1 \in 1 .. Len(Extended(x)) /\ Extended(x)[Len(lines) + 1] = Garbage
    BY <1>2 DEF Extended
  <2> QED
    BY <2>1 DEF Loadable, Valid
<1>3. CASE ended /\ ~Loadable(lines)
  <2>1. PICK i \in 1 .. Len(lines) : ~Valid(lines, i)
    BY <1>3 DEF Loadable
  <2>2. i \in 1 .. Len(Extended(x)) /\ Extended(x)[i] = lines[i]
        /\ HashBefore(Extended(x), i) = HashBefore(lines, i)
    BY <1>3, <2>1 DEF Extended, HashBefore
  <2>3. ~Valid(Extended(x), i)
    BY <2>1, <2>2 DEF Valid
  <2> QED
    BY <2>2, <2>3 DEF Loadable
<1> QED
  BY <1>1, <1>2, <1>3

\* A readable file holds events.
LEMMA LoadableEvents ==
  ASSUME NEW file \in Seq(Line), Loadable(file)
  PROVE  file \in Seq(Event)
<1>1. \A i \in 1 .. Len(file) : file[i] \in Event
  BY DEF Loadable, Valid, Line
<1> QED
  BY <1>1

\* A function over the first n numbers is a sequence of that length.
LEMMA FunctionIsSeq ==
  ASSUME NEW S, NEW n \in Nat, NEW f \in [1 .. n -> S]
  PROVE  f \in Seq(S) /\ Len(f) = n
  OBVIOUS

\* Each of the edits leaves a file of lines that cannot be read.
LEMMA EditsNoticed ==
  ASSUME lines \in Seq(Event), Loadable(lines), NEW i \in 1 .. Len(lines), NEW p \in Payloads
  PROVE  /\ p # lines[i].payload =>
              WithPayload(i, p) \in Seq(Line) /\ ~Loadable(WithPayload(i, p)) /\ WithPayload(i, p) # <<>>
         /\ i < Len(lines) =>
              WithoutLine(i) \in Seq(Line) /\ ~Loadable(WithoutLine(i)) /\ WithoutLine(i) # <<>>
         /\ WithLineTwice(i) \in Seq(Line) /\ ~Loadable(WithLineTwice(i)) /\ WithLineTwice(i) # <<>>
<1>0. /\ lines[i] \in Event /\ Valid(lines, i) /\ lines[i].sequence = i
      /\ lines[i].prev \in Hashes /\ lines[i].payload \in Payloads
  <2>1. lines[i] \in Event
    OBVIOUS
  <2>2. Valid(lines, i)
    BY DEF Loadable
  <2> QED
    BY <2>1, <2>2 DEF Valid, Event
<1>1. ASSUME p # lines[i].payload
      PROVE  WithPayload(i, p) \in Seq(Line) /\ ~Loadable(WithPayload(i, p)) /\ WithPayload(i, p) # <<>>
  <2> DEFINE e == [lines[i] EXCEPT !.payload = p]
             d == lines[i].prev
  <2>1. e \in Event /\ e.payload = p /\ e.sequence = i /\ e.prev = d /\ e.hash = Digest(i, lines[i].payload, d)
    BY <1>0 DEF Event, Valid
  <2>2. Digest(i, lines[i].payload, d) # Digest(i, p, d)
    <3>1. /\ Digest(i, lines[i].payload, d)[Len(d) + 1] = <<i, lines[i].payload>>
          /\ Digest(i, p, d)[Len(d) + 1] = <<i, p>>
      BY <1>0 DEF Digest, Hashes
    <3> QED
      BY <3>1, <1>1
  <2>3. /\ WithPayload(i, p) = [lines EXCEPT ![i] = e]
        /\ WithPayload(i, p) \in Seq(Line) /\ Len(WithPayload(i, p)) = Len(lines)
        /\ WithPayload(i, p)[i] = e
    BY <2>1 DEF WithPayload, Line
  <2>4. ~Valid(WithPayload(i, p), i)
    BY <2>1, <2>2, <2>3 DEF Valid
  <2> QED
    BY <2>3, <2>4 DEF Loadable
<1>2. ASSUME i < Len(lines)
      PROVE  WithoutLine(i) \in Seq(Line) /\ ~Loadable(WithoutLine(i)) /\ WithoutLine(i) # <<>>
  <2>1. lines[i + 1].sequence = i + 1
    BY <1>2 DEF Loadable, Valid
  <2>2. /\ WithoutLine(i) \in Seq(Line) /\ Len(WithoutLine(i)) = Len(lines) - 1
        /\ WithoutLine(i)[i] = lines[i + 1]
    <3>1. \A j \in 1 .. Len(lines) - 1 : WithoutLine(i)[j] \in Line
      <4>1. \A j \in 1 .. Len(lines) : lines[j] \in Event
        OBVIOUS
      <4>2. ASSUME NEW j \in 1 .. Len(lines) - 1
            PROVE  WithoutLine(i)[j] \in Event
        BY <4>1 DEF WithoutLine
      <4> QED
        BY <4>2 DEF Line
    <3>2. WithoutLine(i) \in [1 .. Len(lines) - 1 -> Line] /\ Len(lines) - 1 \in Nat
      BY <3>1, <1>2 DEF WithoutLine
    <3>3. WithoutLine(i)[i] = lines[i + 1]
      BY <1>2 DEF WithoutLine
    <3> QED
      BY <3>2, <3>3, FunctionIsSeq
  <2>3. ~Valid(WithoutLine(i), i) /\ i \in 1 .. Len(WithoutLine(i))
    BY <2>1, <2>2, <1>2 DEF Valid
  <2> QED
    BY <2>2, <2>3 DEF Loadable
<1>3. WithLineTwice(i) \in Seq(Line) /\ ~Loadable(WithLineTwice(i)) /\ WithLineTwice(i) # <<>>
  <2>1. /\ WithLineTwice(i) \in Seq(Line) /\ Len(WithLineTwice(i)) = Len(lines) + 1
        /\ WithLineTwice(i)[i + 1] = lines[i]
    <3>1. \A j \in 1 .. Len(lines) + 1 : WithLineTwice(i)[j] \in Line
      <4>1. \A j \in 1 .. Len(lines) : lines[j] \in Event
        OBVIOUS
      <4>2. ASSUME NEW j \in 1 .. Len(lines) + 1
            PROVE  WithLineTwice(i)[j] \in Event
        BY <4>1 DEF WithLineTwice
      <4> QED
        BY <4>2 DEF Line
    <3>2. WithLineTwice(i) \in [1 .. Len(lines) + 1 -> Line] /\ Len(lines) + 1 \in Nat
      BY <3>1 DEF WithLineTwice
    <3>3. WithLineTwice(i)[i + 1] = lines[i]
      BY DEF WithLineTwice
    <3> QED
      BY <3>2, <3>3, FunctionIsSeq
  <2>2. ~Valid(WithLineTwice(i), i + 1) /\ i + 1 \in 1 .. Len(WithLineTwice(i))
    BY <2>1, <1>0 DEF Valid
  <2> QED
    BY <2>1, <2>2 DEF Loadable
<1> QED
  BY <1>1, <1>2, <1>3

(***************************************************************************)
(* Induction.                                                              *)
(***************************************************************************)
LEMMA LedgerInvInit == Init => LedgerInv
<1> SUFFICES ASSUME Init PROVE LedgerInv
  OBVIOUS
<1>1. LedgerTypeOK
  <2>1. \A S : <<>> \in Seq(S)
    OBVIOUS
  <2> QED
    BY <2>1 DEF Init, LedgerTypeOK
<1>2. Loadable(record)
  BY DEF Init, Loadable
<1> QED
  BY <1>1, <1>2 DEF Init, LedgerInv, Memory, File

\* A process that appends, whole or cut short, leaves the record or a spoiled file.
LEMMA AppendKeeps ==
  ASSUME LedgerInv, NEW p \in Payloads, up = "up", lines' = Extended(NextEvent(p))
  PROVE  /\ NextEvent(p) \in Event
         /\ lines' \in Seq(Line) /\ lines' # <<>>
         /\ Append(events, NextEvent(p)) \in Seq(Event)
         /\ Loadable(Append(events, NextEvent(p)))
         /\ \/ ended /\ ~damaged /\ lines' = Append(events, NextEvent(p))
            \/ (torn \/ damaged) /\ ~Loadable(lines')
<1>1. events \in Seq(Event) /\ Loadable(events) /\ events = record
  BY DEF LedgerInv, LedgerTypeOK, Memory
<1>2. NextEvent(p) \in Event /\ Loadable(Append(events, NextEvent(p)))
  BY <1>1, NextEventChains
<1>3. lines \in Seq(Line) /\ ended \in BOOLEAN /\ (lines = <<>> => ended) /\ NextEvent(p) \in Line
  BY <1>2 DEF LedgerInv, LedgerTypeOK, Line
<1>4. lines' \in Seq(Line) /\ lines' # <<>>
  BY <1>3, ExtendedType
<1>5. Append(events, NextEvent(p)) \in Seq(Event)
  BY <1>1, <1>2
<1>6. CASE ended /\ lines = record /\ ~damaged
  BY <1>1, <1>2, <1>4, <1>5, <1>6 DEF Extended
<1>7. CASE ~ended \/ ~Loadable(lines)
  <2>1. ~Loadable(lines')
    BY <1>3, <1>7, SpoiledStays
  <2>2. torn \/ damaged
    BY <1>7 DEF LedgerInv, File
  <2> QED
    BY <1>2, <1>4, <1>5, <2>1, <2>2
<1> QED
  BY <1>6, <1>7 DEF LedgerInv, File

\* An edit leaves the memory and the record and spoils the file.
LEMMA EditKeeps ==
  ASSUME LedgerInv, NEW i \in 1 .. Len(lines), NEW p \in Payloads,
         Alter(i, p) \/ Omit(i) \/ Repeat(i)
  PROVE  LedgerInv'
<1>1. lines \in Seq(Event) /\ Loadable(lines)
  <2>1. lines \in Seq(Line) /\ Loadable(lines)
    BY DEF Alter, Omit, Repeat, Edited, LedgerInv, LedgerTypeOK, Line
  <2> QED
    BY <2>1, LoadableEvents
<1>2. lines' \in Seq(Line) /\ ~Loadable(lines') /\ lines' # <<>>
  BY <1>1, EditsNoticed DEF Alter, Omit, Repeat, Edited
<1>3. damaged' = TRUE /\ UNCHANGED <<ended, events, up, record, torn>>
  BY DEF Alter, Omit, Repeat, Edited
<1>4. LedgerTypeOK'
  BY <1>2, <1>3 DEF LedgerInv, LedgerTypeOK, Line
<1>5. Memory' /\ Loadable(record)' /\ (~ended => torn)'
  BY <1>3 DEF LedgerInv, Memory
<1> QED
  BY <1>2, <1>3, <1>4, <1>5 DEF LedgerInv, File

LEMMA LedgerInvNext == LedgerInv /\ [Next]_vars => LedgerInv'
<1> SUFFICES ASSUME LedgerInv, [Next]_vars
             PROVE  LedgerInv'
  OBVIOUS
<1>0. /\ LedgerTypeOK /\ Memory /\ Loadable(record) /\ (~ended => torn) /\ File
      /\ up = "refused" => ~Loadable(lines)
  BY DEF LedgerInv
<1>1. CASE Start
  <2>1. CASE Loadable(lines)
    <3>1. lines = record /\ ~damaged /\ events' = lines /\ up' = "up"
      BY <1>0, <1>1, <2>1 DEF Start, File
    <3>2. UNCHANGED <<lines, ended, record, torn, damaged>>
      BY <1>1 DEF Start
    <3> QED
      BY <1>0, <3>1, <3>2 DEF LedgerInv, LedgerTypeOK, Memory, File
  <2>2. CASE ~Loadable(lines)
    <3>1. events' = <<>> /\ up' = "refused" /\ UNCHANGED <<lines, ended, record, torn, damaged>>
      BY <1>1, <2>2 DEF Start
    <3> QED
      BY <1>0, <2>2, <3>1 DEF LedgerInv, LedgerTypeOK, Memory, File
  <2> QED
    BY <2>1, <2>2
<1>2. ASSUME NEW p \in Payloads, AppendEvent(p)
      PROVE  LedgerInv'
  <2>1. /\ up = "up" /\ lines' = Extended(NextEvent(p)) /\ events' = Append(events, NextEvent(p))
        /\ record' = events' /\ ended' = TRUE /\ UNCHANGED <<up, torn, damaged>>
    BY <1>2 DEF AppendEvent
  <2>2. /\ lines' \in Seq(Line) /\ lines' # <<>>
        /\ events' \in Seq(Event) /\ Loadable(events')
        /\ \/ ended /\ ~damaged /\ lines' = events'
           \/ (torn \/ damaged) /\ ~Loadable(lines')
    BY <2>1, AppendKeeps
  <2>3. LedgerTypeOK'
    BY <1>0, <2>1, <2>2 DEF LedgerTypeOK, Line
  <2> QED
    BY <1>0, <2>1, <2>2, <2>3 DEF LedgerInv, Memory, File
<1>3. CASE DiesBeforeWrite
  BY <1>0, <1>3 DEF LedgerInv, DiesBeforeWrite, Down, LedgerTypeOK, Memory, File
<1>4. CASE DiesInWrite
  <2>1. /\ lines' = Extended(Garbage) /\ ended' = FALSE /\ torn' = TRUE /\ UNCHANGED <<record, damaged>>
        /\ up' = "down" /\ events' = <<>>
    BY <1>4 DEF DiesInWrite, Down
  <2>2. lines \in Seq(Line) /\ ended \in BOOLEAN /\ (lines = <<>> => ended) /\ Garbage \in Line
    BY <1>0 DEF LedgerTypeOK, Line
  <2>3. lines' \in Seq(Line) /\ lines' # <<>> /\ ~Loadable(lines')
    BY <2>1, <2>2, ExtendedType, SpoiledStays
  <2>4. LedgerTypeOK'
    <3>1. lines' \in Seq(Event \cup {Garbage}) /\ record' \in Seq(Event)
      BY <1>0, <2>1, <2>3 DEF LedgerTypeOK, Line
    <3>2. events' \in Seq(Event) /\ up' \in {"up", "down", "refused"}
      BY <2>1
    <3>3. ended' \in BOOLEAN /\ torn' \in BOOLEAN /\ damaged' \in BOOLEAN /\ (lines' = <<>> => ended')
      BY <1>0, <2>1, <2>3 DEF LedgerTypeOK
    <3> QED
      BY <3>1, <3>2, <3>3 DEF LedgerTypeOK
  <2> QED
    BY <1>0, <2>1, <2>3, <2>4 DEF LedgerInv, Memory, File
<1>5. ASSUME NEW p \in Payloads, NEW newline \in BOOLEAN, DiesAfterWrite(p, newline)
      PROVE  LedgerInv'
  <2>1. /\ up = "up" /\ lines' = Extended(NextEvent(p)) /\ events' = <<>> /\ up' = "down"
        /\ ended' = newline /\ torn' = (torn \/ ~newline) /\ damaged' = damaged
        /\ record' = IF ended THEN Append(events, NextEvent(p)) ELSE record
    BY <1>5 DEF DiesAfterWrite, Down
  <2>2. /\ lines' \in Seq(Line) /\ lines' # <<>>
        /\ Append(events, NextEvent(p)) \in Seq(Event) /\ Loadable(Append(events, NextEvent(p)))
        /\ \/ ended /\ ~damaged /\ lines' = Append(events, NextEvent(p))
           \/ (torn \/ damaged) /\ ~Loadable(lines')
    BY <2>1, AppendKeeps
  <2>3. record' \in Seq(Event) /\ Loadable(record')
    BY <1>0, <2>1, <2>2 DEF LedgerTypeOK
  <2>4. LedgerTypeOK'
    <3>1. up' \in {"up", "down", "refused"} /\ events' \in Seq(Event)
      BY <2>1
    <3>2. torn' \in BOOLEAN
      BY <1>0, <2>1 DEF LedgerTypeOK
    <3>3. ended' \in BOOLEAN /\ damaged' \in BOOLEAN /\ (lines' = <<>> => ended')
      BY <1>0, <2>1, <2>2 DEF LedgerTypeOK
    <3>4. lines' \in Seq(Event \cup {Garbage}) /\ record' \in Seq(Event)
      BY <2>2, <2>3 DEF Line
    <3> QED
      BY <3>1, <3>2, <3>3, <3>4 DEF LedgerTypeOK
  <2>5. File'
    BY <2>1, <2>2 DEF File
  <2> QED
    BY <1>0, <2>1, <2>3, <2>4, <2>5 DEF LedgerInv, Memory
<1>6. ASSUME NEW i \in 1 .. Len(lines), Omit(i) \/ Repeat(i) \/ \E p \in Payloads : Alter(i, p)
      PROVE  LedgerInv'
  <2>1. lines[i] \in Event /\ lines[i].payload \in Payloads
    <3>1. lines \in Seq(Line) /\ Loadable(lines)
      BY <1>0, <1>6 DEF Alter, Omit, Repeat, Edited, LedgerTypeOK, Line
    <3>2. lines \in Seq(Event)
      BY <3>1, LoadableEvents
    <3>3. lines[i] \in Event
      BY <3>2
    <3> QED
      BY <3>3 DEF Event
  <2> QED
    BY <1>6, <2>1, EditKeeps
<1>7. CASE UNCHANGED vars
  BY <1>0, <1>7 DEF LedgerInv, vars, LedgerTypeOK, Memory, File
<1> QED
  BY <1>1, <1>2, <1>3, <1>4, <1>5, <1>6, <1>7 DEF Next

LEMMA LedgerInvAlways == Spec => []LedgerInv
  BY LedgerInvInit, LedgerInvNext, PTL DEF Spec

(***************************************************************************)
(* Results.                                                                *)
(***************************************************************************)
\* The variables of the file, the process and the record always have their types.
THEOREM LedgerTypeCorrect == Spec => []LedgerTypeOK
<1>1. LedgerInv => LedgerTypeOK
  BY DEF LedgerInv
<1> QED
  BY <1>1, LedgerInvAlways, PTL

\* The load refuses a file only after a cut write or an edit, for any payloads and any length.
THEOREM Refusals == Spec => []RefusedForCause
<1>1. LedgerInv => RefusedForCause
  BY DEF LedgerInv, File, RefusedForCause
<1> QED
  BY <1>1, LedgerInvAlways, PTL

\* Whatever is cut, glued or edited, a step of the file is a step of the append-only log or
\* none: a reader gets every recorded event in its order, or no ledger.
THEOREM Refinement == Spec => AppendOnly
<1>1. Init => Log!LogInit
  BY DEF Init, Log!LogInit
<1>2. ASSUME LedgerInv, [Next]_vars
      PROVE  [Log!LogNext]_(Log!logVars)
  <2>0. Memory /\ record \in Seq(Event) /\ events \in Seq(Event)
    BY <1>2 DEF LedgerInv, LedgerTypeOK
  <2>1. ASSUME NEW s \in Seq(Event), NEW e \in Event
        PROVE  Len(Append(s, e)) = Len(s) + 1 /\ SubSeq(Append(s, e), 1, Len(s)) = s
    OBVIOUS
  <2>2. CASE Start
    <3>1. CASE Loadable(lines)
      <4>1. lines = record
        BY <1>2, <3>1 DEF LedgerInv, File
      <4> QED
        BY <2>2, <3>1, <4>1 DEF Start, Log!LogNext, Log!OpenLog
    <3>2. CASE ~Loadable(lines)
      BY <2>0, <2>2, <3>2 DEF Start, Memory, Log!logVars
    <3> QED
      BY <3>1, <3>2
  <2>3. ASSUME NEW p \in Payloads, AppendEvent(p)
        PROVE  Log!LogNext
    <3>1. up = "up" /\ up' = up /\ record = events /\ record' = Append(events, NextEvent(p)) /\ events' = record'
      BY <2>0, <2>3 DEF AppendEvent, Memory
    <3>2. NextEvent(p) \in Event
      BY <1>2, <2>3, AppendKeeps DEF AppendEvent
    <3>3. Log!Grows
      BY <2>0, <2>1, <3>1, <3>2 DEF Log!Grows
    <3> QED
      BY <3>1, <3>3 DEF Log!LogNext, Log!RecordEvent
  <2>4. CASE DiesBeforeWrite
    BY <2>4 DEF DiesBeforeWrite, Down, Log!LogNext, Log!CloseLog
  <2>5. CASE DiesInWrite
    BY <2>5 DEF DiesInWrite, Down, Log!LogNext, Log!CloseLog
  <2>6. ASSUME NEW p \in Payloads, NEW newline \in BOOLEAN, DiesAfterWrite(p, newline)
        PROVE  Log!LogNext
    <3>1. /\ up = "up" /\ up' = "down" /\ events' = <<>> /\ record = events
          /\ record' = IF ended THEN Append(events, NextEvent(p)) ELSE record
      BY <2>0, <2>6 DEF DiesAfterWrite, Down, Memory
    <3>2. NextEvent(p) \in Event
      BY <1>2, <2>6, AppendKeeps DEF DiesAfterWrite
    <3>3. record' = record \/ Log!Grows
      BY <2>0, <2>1, <3>1, <3>2 DEF Log!Grows
    <3> QED
      BY <3>1, <3>3 DEF Log!LogNext, Log!CloseLog
  <2>7. ASSUME NEW i \in 1 .. Len(lines), Omit(i) \/ Repeat(i) \/ \E p \in Payloads : Alter(i, p)
        PROVE  UNCHANGED Log!logVars
    BY <2>7 DEF Omit, Repeat, Alter, Edited, Log!logVars
  <2>8. CASE UNCHANGED vars
    BY <2>8 DEF vars, Log!logVars
  <2> QED
    BY <1>2, <2>2, <2>3, <2>4, <2>5, <2>6, <2>7, <2>8 DEF Next
<1> QED
  BY <1>1, <1>2, LedgerInvAlways, PTL DEF Spec, AppendOnly, Log!LogSpec

=============================================================================

---------------------------- MODULE FileAdapter -----------------------------
(***************************************************************************)
(* The file adapter: a stream writer and a stream reader on one file.      *)
(*                                                                         *)
(* Four threads meet here.  The session thread of one route writes, the    *)
(* session thread of another reads, the thread of the stream reader tests  *)
(* the end of the file, rewinds it and wakes the session, and the service  *)
(* creates, updates and deletes.  Nothing in the adapter locks; a call of  *)
(* the C library on a FILE (fgets, feof, fseek) is one step.  The text of  *)
(* the file is FileText's; what the writer's FILE has not flushed is kept  *)
(* apart from what is on disk.                                             *)
(*                                                                         *)
(* Routing Service is external: it reads once after it was notified, it    *)
(* deletes a stream reader only between reads, and it may update the       *)
(* properties of a reader at any time.                                     *)
(***************************************************************************)
EXTENDS FileText, FiniteSets

CONSTANTS
  InitialTexts,   (* what the file may hold before the adapter opens it     *)
  MaxSamples,     (* bounds the model: number of samples, in file and new   *)
  BatchSizes,     (* values of SamplesPerRead                               *)
  WriteSizes,     (* bounds the model: samples per write()                  *)
  Divisors        (* values of SamplesPerDisposedSample and of              *)
                  (* SamplesPerUnregisteredSample: 0 where it is not set    *)

ASSUME FileAssumption ==
  /\ MaxSamples \in Nat /\ Divisors \subseteq Nat \X Nat
  /\ BatchSizes \subseteq Nat \ {0} /\ WriteSizes \subseteq Nat \ {0}

Samples == 1..MaxSamples
Pieces == {Newline, Bad} \cup {HeadOf(n) : n \in Samples} \cup {TailOf(n) : n \in Samples}
Texts == Seq(Pieces)

(* Samples are numbered in the order in which they came into the file; a   *)
(* sample is there when its tail is.                                       *)
Numbered(text) ==
  \A p, q \in DOMAIN text, m, n \in Samples :
    p < q /\ text[p] = TailOf(m) /\ text[q] = TailOf(n) => m < n
SamplesOf(text) == {n \in Samples : \E p \in DOMAIN text : text[p] = TailOf(n)}

ASSUME TextsAssumption == \A text \in InitialTexts : text \in Texts /\ Numbered(text)

VARIABLES
  exists, disk,    (* the file and its text on disk                         *)
  stream_writer,   (* "none", or "open" with flushEnabled in flush          *)
  flush,
  out,             (* text printed and not flushed                          *)
  left,            (* samples of the current write() still to be written    *)
  newest,          (* number of the sample the writer was handed last       *)
  stream_reader,   (* "none", "open", or "closing": _run is 0               *)
  pos, eof,        (* the reader's FILE: pieces consumed, end-of-file flag  *)
  loop, samplesPerRead, allocated,  (* of the reader; the arrays' length    *)
  divisors,        (* of the reader                                         *)
  run,             (* where the reader's thread is                          *)
  notified,        (* on_data_available was called, no read since           *)
  reading,         (* a read() is in progress                               *)
  i, batch,        (* its line counter; the samples it has put in the list  *)
  undefined,       (* how the behaviour became undefined, or "no"           *)
  stored,          (* history: samples whose text the file should have      *)
  seen,            (* history: samples read since the file's beginning      *)
  broken,          (* history: a line read since then was no sample         *)
  handed,          (* history: the samples of the last read                 *)
  grown            (* history: samplesPerRead was raised after creation     *)

file == <<exists, disk>>
writer == <<stream_writer, flush, out, left, newest, stored>>
FILE == <<pos, eof>>
config == <<loop, samplesPerRead, allocated, divisors, grown>>
thread == <<run, notified>>
read == <<reading, i, batch, handed>>
reader == <<stream_reader, FILE, config, thread, read, seen, broken>>
vars == <<file, writer, reader, undefined>>

Largest(S) == IF S = {} THEN 0 ELSE CHOOSE m \in S : \A n \in S : n <= m

Init ==
  /\ exists \in BOOLEAN
  /\ disk \in (IF exists THEN InitialTexts ELSE {<<>>})
  /\ stream_writer = "none" /\ flush = FALSE /\ out = <<>> /\ left = 0
  /\ stored = SamplesOf(disk) /\ newest = Largest(stored)
  /\ stream_reader = "none" /\ pos = 0 /\ eof = FALSE
  /\ loop = FALSE /\ samplesPerRead = 0 /\ allocated = 0 /\ divisors = <<0, 0>>
  /\ grown = FALSE
  /\ run = "none" /\ notified = FALSE
  /\ reading = FALSE /\ i = 0 /\ batch = <<>> /\ handed = {}
  /\ seen = <<>> /\ broken = FALSE
  /\ undefined = "no"

Defined == undefined = "no"
Undefined(why) == undefined' = why /\ UNCHANGED <<file, writer, reader>>

-----------------------------------------------------------------------------
(* RTIRS_FileConnection_create_stream_writer.  An existing file with mode  *)
(* `keep' is an error, and is opened for writing all the same before the   *)
(* error is looked at.  That no file is cut short under an open reader is  *)
(* assumed: the reader's FILE may still hold text that is gone.            *)
Refused(mode) == mode = "keep" /\ exists
Emptied(mode) == mode # "append"

create_stream_writer(mode, f) ==
  /\ Defined /\ stream_writer = "none"
  /\ mode = "append" \/ stream_reader = "none"
  /\ exists' = TRUE
  /\ IF Emptied(mode)
     THEN disk' = <<>> /\ stored' = {}
     ELSE UNCHANGED <<disk, stored>>
  /\ IF Refused(mode)
     THEN UNCHANGED <<stream_writer, flush>>
     ELSE stream_writer' = "open" /\ flush' = f
  /\ UNCHANGED <<out, left, newest, reader, undefined>>

(* RTIRS_FileStreamWriter_write is called for n samples.                   *)
write(n) ==
  /\ Defined /\ stream_writer = "open" /\ left = 0
  /\ newest + n <= MaxSamples
  /\ left' = n
  /\ UNCHANGED <<file, stream_writer, flush, out, newest, stored, reader, undefined>>

(* One sample of the loop of write().  The first failure ends the loop;    *)
(* the samples after it are not tried, and nothing is flushed.             *)
Printed(failing) == out \o write_sample(newest + 1, failing)
WriteSample(failing) ==
  /\ Defined /\ left > 0
  /\ IF failing = "none"
     THEN /\ stored' = stored \cup {newest + 1}
          /\ newest' = newest + 1
          /\ left' = left - 1
          /\ IF flush THEN disk' = disk \o Printed(failing) /\ out' = <<>>
                      ELSE out' = Printed(failing) /\ UNCHANGED disk
     ELSE /\ newest' = newest + left
          /\ left' = 0
          /\ out' = Printed(failing)
          /\ UNCHANGED <<disk, stored>>
  /\ UNCHANGED <<exists, stream_writer, flush, reader, undefined>>

(* The C library writes some of what is not flushed whenever its buffer is *)
(* full, in the middle of a line as it comes.                              *)
Spill ==
  /\ Defined /\ out # <<>>
  /\ disk' = Append(disk, Head(out))
  /\ out' = Tail(out)
  /\ UNCHANGED <<exists, stream_writer, flush, left, newest, stored, reader, undefined>>

delete_stream_writer ==
  /\ Defined /\ stream_writer = "open" /\ left = 0
  /\ stream_writer' = "none" /\ flush' = FALSE
  /\ disk' = disk \o out
  /\ out' = <<>>
  /\ UNCHANGED <<exists, left, newest, stored, reader, undefined>>

-----------------------------------------------------------------------------
(* RTIRS_FileConnection_create_stream_reader.  A file that cannot be       *)
(* opened is an error whose clean-up closes a FILE that was never opened.  *)
create_stream_reader(l, n) ==
  /\ Defined /\ stream_reader = "none"
  /\ IF ~exists
     THEN Undefined("fclose(NULL)")
     ELSE /\ stream_reader' = "open"
          /\ loop' = l /\ samplesPerRead' = n /\ allocated' = n
          /\ divisors' \in Divisors
          /\ run' = "top"
          /\ UNCHANGED <<file, writer, FILE, grown, notified, read, seen, broken, undefined>>

(* RTIRS_FileStreamReader_update parses the properties again, also the two *)
(* that divide: without them in the update they are 0 from now on.         *)
update(l, n) ==
  /\ Defined /\ stream_reader = "open"
  /\ loop' = l /\ samplesPerRead' = n /\ divisors' \in Divisors
  /\ grown' = (grown \/ n > allocated)
  /\ UNCHANGED <<file, writer, stream_reader, FILE, allocated, thread, read, seen, broken, undefined>>

(* RTIRS_FileStreamReader_run: the thread sleeps, tests the end of the     *)
(* file, rewinds it if it is to loop, notifies, and looks at _run again.   *)
RunTop ==
  /\ Defined /\ run = "top"
  /\ run' = IF stream_reader = "open" THEN "asleep" ELSE "ended"
  /\ UNCHANGED <<file, writer, stream_reader, FILE, config, notified, read, seen, broken, undefined>>

AfterSleepAlways == IF loop THEN "rewind" ELSE "notify"
AfterSleep == IF ~eof THEN "notify" ELSE IF loop THEN "rewind" ELSE "top"

RunWakes ==
  /\ Defined /\ run = "asleep"
  /\ run' = AfterSleep
  /\ UNCHANGED <<file, writer, stream_reader, FILE, config, notified, read, seen, broken, undefined>>

RunRewinds ==
  /\ Defined /\ run = "rewind"
  /\ pos' = 0 /\ eof' = FALSE
  /\ seen' = <<>> /\ broken' = FALSE
  /\ run' = "notify"
  /\ UNCHANGED <<file, writer, stream_reader, config, notified, read, undefined>>

RunNotifies ==
  /\ Defined /\ run = "notify"
  /\ notified' = TRUE
  /\ run' = "top"
  /\ UNCHANGED <<file, writer, stream_reader, FILE, config, read, seen, broken, undefined>>

(* RTIRS_FileStreamReader_read begins.                                     *)
StartRead ==
  /\ Defined /\ stream_reader = "open" /\ notified /\ ~reading
  /\ notified' = FALSE
  /\ reading' = TRUE /\ handed' = {}
  /\ UNCHANGED <<file, writer, stream_reader, FILE, config, run, i, batch, seen, broken, undefined>>

(* Its loop goes on: the test of feof and the fgets that follows are one   *)
(* step, because only fgets sets the flag and only a thread that has seen  *)
(* it set clears it.                                                       *)
MoreLinesOffByOne == i <= samplesPerRead /\ ~eof
MoreLines == i < samplesPerRead /\ ~eof

Unread == SubSeq(disk, pos + 1, Len(disk))
NextLine == SubSeq(Unread, 1, LineLength(Unread))

NoLine ==          (* fgets returns NULL                                    *)
  /\ Unread = <<>>
  /\ eof' = TRUE
  /\ i' = i + 1
  /\ UNCHANGED <<pos, reading, batch, handed, seen, broken>>

Line(o) ==         (* the outcome o of read_sample, and the switch on it    *)
  /\ pos' = pos + Len(NextLine)
  /\ eof' = ~HasLine(Unread)
  /\ CASE o.action = "error" ->
            /\ reading' = FALSE
            /\ broken' = TRUE
            /\ i' = 0 /\ batch' = <<>>
            /\ UNCHANGED <<handed, seen>>
       [] o.action = "skip" ->
            /\ i' = i + 1
            /\ UNCHANGED <<reading, batch, handed, seen, broken>>
       [] o.action = "send" ->
            /\ i' = i + 1
            /\ batch' = Append(batch, o.sample)
            /\ seen' = Append(seen, o.sample)
            /\ broken' = (broken \/ o.sample = Garbage)
            /\ UNCHANGED <<reading, handed>>

(* The sample of the list at `index' is read into first; then the count of *)
(* samples is taken modulo the first property, and the second unless the   *)
(* sample was a disposed one.                                              *)
ReadLine ==
  /\ Defined /\ reading /\ MoreLines
  /\ IF Len(batch) >= allocated THEN Undefined("outside the arrays")
     ELSE \/ 0 \in ToSet(divisors) /\ Undefined("division by zero")
          \/ /\ divisors[1] # 0
             /\ \/ NoLine
                \/ Unread # <<>> /\ \E o \in read_sample(NextLine) : Line(o)
             /\ UNCHANGED <<file, writer, stream_reader, config, thread, undefined>>

EndRead ==
  /\ Defined /\ reading /\ ~MoreLines
  /\ reading' = FALSE
  /\ handed' = ToSet(batch)
  /\ i' = 0 /\ batch' = <<>>
  /\ UNCHANGED <<file, writer, stream_reader, FILE, config, thread, seen, broken, undefined>>

(* RTIRS_FileConnection_delete_stream_reader: _run = 0, the join, and the  *)
(* reader is freed.                                                        *)
delete_stream_reader ==
  /\ Defined /\ stream_reader = "open" /\ ~reading
  /\ stream_reader' = "closing"
  /\ UNCHANGED <<file, writer, FILE, config, thread, read, seen, broken, undefined>>

Join ==
  /\ Defined /\ stream_reader = "closing" /\ run = "ended"
  /\ stream_reader' = "none" /\ pos' = 0 /\ eof' = FALSE
  /\ loop' = FALSE /\ samplesPerRead' = 0 /\ allocated' = 0 /\ divisors' = <<0, 0>>
  /\ grown' = FALSE
  /\ run' = "none" /\ notified' = FALSE
  /\ reading' = FALSE /\ i' = 0 /\ batch' = <<>> /\ handed' = {}
  /\ seen' = <<>> /\ broken' = FALSE
  /\ UNCHANGED <<file, writer, undefined>>

-----------------------------------------------------------------------------
WriterNext ==
  \/ \E mode \in {"keep", "overwrite", "append"}, f \in BOOLEAN : create_stream_writer(mode, f)
  \/ \E n \in WriteSizes : write(n)
  \/ \E failing \in Failures : WriteSample(failing)
  \/ Spill
  \/ delete_stream_writer

RunNext == RunTop \/ RunWakes \/ RunRewinds \/ RunNotifies
ReadNext == StartRead \/ ReadLine \/ EndRead

Next ==
  \/ WriterNext
  \/ \E l \in BOOLEAN, n \in BatchSizes : create_stream_reader(l, n) \/ update(l, n)
  \/ RunNext
  \/ ReadNext
  \/ delete_stream_reader
  \/ Join

Spec == Init /\ [][Next]_vars

(* The threads are scheduled: that of the reader, and that of the session  *)
(* once it was notified.  Nobody need write, update or delete.             *)
Fairness == WF_vars(RunNext) /\ WF_vars(ReadNext) /\ WF_vars(Join)
FairSpec == Spec /\ Fairness
-----------------------------------------------------------------------------
(* Every variable stays within its type; in particular the line counter of *)
(* a read never exceeds the largest SamplesPerRead (FileAdapter.c:191).    *)
TypeOK ==
  /\ exists \in BOOLEAN /\ disk \in Texts /\ out \in Texts
  /\ stream_writer \in {"none", "open"} /\ flush \in BOOLEAN
  /\ newest \in 0..MaxSamples /\ left \in 0..MaxSamples - newest
  /\ stored \subseteq 1..newest
  /\ stream_reader \in {"none", "open", "closing"}
  /\ pos \in 0..Len(disk) \/ stream_reader = "none"
  /\ eof \in BOOLEAN /\ loop \in BOOLEAN /\ notified \in BOOLEAN /\ reading \in BOOLEAN
  /\ broken \in BOOLEAN /\ grown \in BOOLEAN
  /\ samplesPerRead \in BatchSizes \cup {0} /\ allocated \in BatchSizes \cup {0}
  /\ divisors \in Divisors \cup {<<0, 0>>}
  /\ run \in {"none", "top", "asleep", "rewind", "notify", "ended"}
  /\ i \in Nat /\ \E n \in BatchSizes \cup {0} : i <= n
  /\ batch \in Seq(Samples \cup {Garbage}) /\ Len(batch) <= i
  /\ handed \subseteq Samples \cup {Garbage}
  /\ seen \in Seq(Samples \cup {Garbage})
  /\ undefined \in {"no", "fclose(NULL)", "outside the arrays", "division by zero"}

(* What the writer stored is what the reader gets, whoever runs when: the  *)
(* samples read since the beginning of the file are samples the writer     *)
(* reported as written, in the order of writing and none twice, and unless *)
(* a line was broken none is left out, although failed samples leave text  *)
(* behind and the reader overtakes the writer (LineConversion.c:190,       *)
(* FileAdapter.c:126 and 191).                                             *)
ReadBack ==
  stream_reader # "none" =>
    LET got == ToSet(seen) \ {Garbage}
    IN /\ got \subseteq stored
       /\ \A j, k \in DOMAIN seen : j < k /\ seen[k] \in got => seen[j] < seen[k]
       /\ ~broken => \A s \in stored, later \in got : s < later => s \in got

(* read() leaves the arrays allocated for it only after update() raised    *)
(* SamplesPerRead (FileAdapter.c:191, 360 and 595).                        *)
WithinArrays == undefined = "outside the arrays" => grown

(* With Loop on, a file whose lines are all samples or blank, and the      *)
(* threads scheduled, every sample in the file is handed over again and    *)
(* again, however rewinds, reads and updates fall (FileAdapter.c:126).     *)
Sound(text) ==
  \A k \in DOMAIN Lines(text) : {Error, Send(Garbage)} \cap read_sample(Lines(text)[k]) = {}
Calm == Defined /\ stream_reader = "open" /\ loop /\ out = <<>> /\ Sound(disk)
EverySampleServed ==
  \A s \in Samples : []([](Calm /\ s \in stored) => <>(s \in handed))

(* "File exists and WriteMode is keep": a stream writer of mode `keep'     *)
(* leaves an existing file as it is (FileAdapter.c:792).                   *)
KeepLeavesTheFile ==
  [][\A f \in BOOLEAN : create_stream_writer("keep", f) /\ exists => disk' = disk]_vars
=============================================================================

------------------------------ MODULE EventLog ------------------------------
(***************************************************************************)
(* Log files, zcm/eventlog.c, and the file transport that plays them,      *)
(* zcm/transport/transport_file.cpp: a process appends events through a    *)
(* buffer of stdio, loses what it had buffered when it dies, and appends   *)
(* again; another reads the file meanwhile, event by event or as a         *)
(* transport.                                                              *)
(*                                                                         *)
(* A file is a sequence of words of four bytes, the first at place 0, and  *)
(* the lengths in it count words.  MAGIC, as a length, is negative.  The   *)
(* playback speed is 1.                                                    *)
(***************************************************************************)
EXTENDS Naturals, Sequences, SequencesExt, FiniteSets, FiniteSetsExt

CONSTANTS
  MAGIC,        \* 0xEDA1DA01
  WordMod,      \* 2^32: the values of a word
  ChanLimit,    \* 1000: no channel's name is as long
  Chan,         \* the word that is the channel's name
  Payloads,     \* data of the events
  Stamps,       \* sequences of timestamps the events may have
  Readers,      \* how the file is read: "calls" or "transport"
  Timeout,      \* of recvmsg
  SeekBits,     \* steps of bisection until seek_to_timestamp stops
  MaxBuffered, MaxCrashes, MaxEnds   \* bounds

ASSUME LogAssumption ==
  /\ MAGIC \in 0 .. WordMod - 1 /\ Chan \in Nat \ {MAGIC}
  /\ Stamps \subseteq Seq(1 .. MAGIC - 1)
  /\ ChanLimit > 1 /\ Timeout \in Nat \ {0} /\ SeekBits \in Nat

VARIABLES
  stamps,       \* of the events, in the order they are written
  file,         \* what the file holds
  buffer,       \* written, and not in the file yet
  eventcount,   \* of the process that writes
  recs,         \* history: where each event was written, and if all of it was
  crashes,
  reader, open, \* how the file is read, and if it still is
  pos,          \* where the reader stands
  got,          \* what it has read, as places in the file
  ends,         \* how often it found nothing to read
  clock, lastMsgUtime, lastDispatchUtime,
  dispatched    \* history: events the transport returned, and when

writer == <<stamps, file, buffer, eventcount, recs, crashes>>
player == <<clock, lastMsgUtime, lastDispatchUtime, dispatched>>
vars == <<writer, reader, open, pos, got, ends, player>>

-----------------------------------------------------------------------------
(* The format.                                                             *)

Record(num, ts, data) == <<MAGIC, 0, num, 0, ts, 1, Len(data), Chan>> \o data

At(i) == file[i + 1]
Magics == {i \in 0 .. Len(file) - 1 : At(i) = MAGIC}

Stamp(m) == At(m + 3) * WordMod + At(m + 4)
End(m) == m + 7 + At(m + 5) + At(m + 6)

\* zcm_event_read_helper finds an event behind the magic at m: the lengths are
\* possible, the body is all there, and if anything follows it is a magic.
Readable(m) ==
  /\ m + 6 < Len(file)
  /\ At(m + 5) \in 1 .. ChanLimit - 1 /\ At(m + 6) # MAGIC
  /\ End(m) <= Len(file)
  /\ End(m) < Len(file) => At(End(m)) = MAGIC

NULL == Len(file)


\* A failed attempt leaves the stream behind its magic.
read_next_event(p) ==
  Min({m \in Magics : m >= p /\ Readable(m)} \cup {NULL})

\* The last byte before the reader is never looked at.
sync_stream_backwards(p) == {m \in Magics : m + 2 <= p}

\* A failed attempt leaves the stream at its magic.
read_prev_event ==
  [p \in 0 .. Len(file) |->
     LET prev[q \in 0 .. p] ==
           IF sync_stream_backwards(q) = {} THEN NULL
           ELSE LET m == Max(sync_stream_backwards(q))
                IN  IF Readable(m) THEN m ELSE prev[m]
     IN  prev[p]]

\* get_next_event_time from a place given in bytes: the event it stops at.
next_event(byte) ==
  Min({m \in Magics : 4 * m >= byte} \cup {NULL})

Half(lo, hi) == (lo + hi) \div 2
Probe(lo, hi) == next_event((Half(lo, hi) * 4 * Len(file)) \div 2^SeekBits)


bracket(ts, lo, hi) ==
  IF Stamp(Probe(lo, hi)) < ts THEN <<Half(lo, hi), hi>> ELSE <<lo, Half(lo, hi)>>

\* Where the reader stands after seek_to_timestamp, or NULL if it returns -1.
seek_to_timestamp(ts) ==
  LET Fractions == 0 .. 2^SeekBits
      seek[b \in Fractions \X Fractions] ==
        LET m == Probe(b[1], b[2])
        IN  IF m + 4 >= Len(file) THEN NULL
            ELSE IF b[2] - b[1] <= 1 \/ Stamp(m) = ts THEN m
            ELSE seek[bracket(ts, b[1], b[2])]
  IN  seek[<<0, 2^SeekBits>>]

-----------------------------------------------------------------------------
(* The process that writes.                                                *)

write_event(data) ==
  /\ Len(recs) < Len(stamps) /\ Len(buffer) <= MaxBuffered
  /\ buffer' = buffer \o Record(eventcount, stamps[Len(recs) + 1], data)
  /\ eventcount' = eventcount + 1
  /\ recs' = Append(recs, [start |-> Len(file) + Len(buffer),
                           end |-> Len(file) + Len(buffer) + 8 + Len(data),
                           ts |-> stamps[Len(recs) + 1], data |-> data,
                           whole |-> TRUE])
  /\ UNCHANGED <<stamps, file, crashes, reader, open, pos, got, ends, player>>

\* stdio writes some of its buffer.
Flush(n) ==
  /\ n \in 1 .. Len(buffer)
  /\ file' = file \o SubSeq(buffer, 1, n)
  /\ buffer' = SubSeq(buffer, n + 1, Len(buffer))
  /\ UNCHANGED <<stamps, eventcount, recs, crashes, reader, open, pos, got, ends, player>>

\* The process dies, or its disk is full, with some of the buffer written; the
\* file is opened again to append.
Crash ==
  /\ crashes < MaxCrashes
  /\ buffer # <<>>
  /\ crashes' = crashes + 1
  /\ buffer' = <<>> /\ eventcount' = 0
  /\ recs' = LET left == SelectSeq(recs, LAMBDA r : r.start < Len(file))
             IN  [i \in DOMAIN left |->
                    [left[i] EXCEPT !.whole = @ /\ left[i].end <= Len(file)]]
  /\ UNCHANGED <<stamps, file, reader, open, pos, got, ends, player>>

-----------------------------------------------------------------------------
(* The process that reads.                                                 *)

\* Mutant: the end of the file rewinds it.
ReadNext_Rewinds ==
  /\ reader = "calls"
  /\ LET m == read_next_event(pos)
     IN  IF m = NULL
         THEN /\ ends < MaxEnds /\ ends' = ends + 1
              /\ pos' = 0 /\ UNCHANGED got
         ELSE /\ pos' = End(m)
              /\ got' = Append(got, [start |-> m, end |-> End(m)])
              /\ UNCHANGED ends
  /\ UNCHANGED <<writer, reader, open, player>>

ReadNext ==
  /\ reader = "calls"
  /\ LET m == read_next_event(pos)
     IN  IF m = NULL
         THEN /\ ends < MaxEnds /\ ends' = ends + 1
              /\ pos' = Len(file) /\ UNCHANGED got
         ELSE /\ pos' = End(m)
              /\ got' = Append(got, [start |-> m, end |-> End(m)])
              /\ UNCHANGED ends
  /\ UNCHANGED <<writer, reader, open, player>>

\* A stamp before the last one makes an unsigned difference so large that the
\* time at which it is over wraps around to the past.
Backwards(ts) == ts < lastMsgUtime

\* The time the next event is due in, from now.
Due(ts, now) ==
  LET last == IF lastMsgUtime = 0 THEN ts ELSE lastMsgUtime
      local == now - (IF lastDispatchUtime = 0 THEN now ELSE lastDispatchUtime)
  IN  IF ts - last > local THEN ts - last - local ELSE 0

\* How long recvmsg may sleep: at least until the event is due or for the
\* timeout.  A difference just below 2^64 is out of range when it is converted
\* back from double, which may give 0.
Sleeps(ts, now) ==
  IF Backwards(ts) THEN {0, Timeout, Timeout + 1}
  ELSE IF Due(ts, now) = 0 THEN {0}
  ELSE LET least == Min({Due(ts, now), Timeout}) IN {least, least + 1}

Returned(ts, now, slept) == Backwards(ts) \/ slept >= Due(ts, now)

\* recvmsg reads an event, sleeps, and returns the event only if it is due by
\* then; it is not read again.  At the end the file is closed.  The log that
\* is played is complete.
recvmsg ==
  /\ reader = "transport" /\ open
  /\ Len(recs) = Len(stamps) /\ buffer = <<>>
  /\ LET m == read_next_event(pos)
         ts == Stamp(m)
     IN  IF m = NULL
         THEN /\ open' = FALSE /\ ends' = ends + 1
              /\ UNCHANGED <<pos, got, player>>
         ELSE \E slept \in Sleeps(ts, clock) :
                /\ pos' = End(m)
                /\ got' = Append(got, [start |-> m, end |-> End(m)])
                /\ clock' = clock + slept
                /\ IF Returned(ts, clock, slept)
                   THEN /\ lastMsgUtime' = ts /\ lastDispatchUtime' = clock'
                        /\ dispatched' = Append(dispatched, [ts |-> ts, at |-> clock'])
                   ELSE UNCHANGED <<lastMsgUtime, lastDispatchUtime, dispatched>>
                /\ UNCHANGED <<open, ends>>
  /\ UNCHANGED <<writer, reader>>

Init ==
  /\ stamps \in Stamps
  /\ file = <<>> /\ buffer = <<>> /\ eventcount = 0 /\ recs = <<>> /\ crashes = 0
  /\ reader \in Readers /\ open = TRUE /\ pos = 0 /\ got = <<>> /\ ends = 0
  /\ clock = 1 /\ lastMsgUtime = 0 /\ lastDispatchUtime = 0 /\ dispatched = <<>>

Next ==
  \/ \E data \in Payloads : write_event(data)
  \/ \E n \in 1 .. Len(buffer) : Flush(n)
  \/ Crash
  \/ ReadNext
  \/ recvmsg

Spec == Init /\ [][Next]_vars

-----------------------------------------------------------------------------
\* Every variable has the values the code can give it.
TypeOK ==
  /\ file \in Seq(Nat) /\ buffer \in Seq(Nat)
  /\ eventcount \in 0 .. Len(stamps) /\ crashes \in 0 .. MaxCrashes
  /\ pos \in 0 .. Len(file) /\ ends \in 0 .. MaxEnds
  /\ clock \in Nat \ {0} /\ open \in BOOLEAN

Plain(r) == MAGIC \notin ToSet(r.data)
Torn == {i \in DOMAIN recs : ~recs[i].whole}
IsRead(r) == \E i \in DOMAIN got : got[i].start = r.start /\ got[i].end = r.end

\* With nothing torn, a reader that is never ahead of the writer gets exactly
\* the events that were written, in their order, whatever bytes they hold:
\* magics in the data are stepped over, and an event is not taken before all
\* of it is in the file.
ReadBack ==
  Torn = {} /\ ends = 0 =>
    /\ Len(got) <= Len(recs)
    /\ \A i \in DOMAIN got : got[i] = [start |-> recs[i].start, end |-> recs[i].end]

\* A reader that meets the end of a file still being written may lose the event
\* that was incomplete then, its magic being behind it, and no other one; it
\* reads nothing twice and nothing that was not written (no magics in the
\* data).
OneLostPerEnd ==
  Torn = {} /\ (\A i \in DOMAIN recs : Plain(recs[i])) =>
    /\ \A i \in DOMAIN got : \E k \in DOMAIN recs :
         got[i].start = recs[k].start /\ got[i].end = recs[k].end
    /\ \A i \in 2 .. Len(got) : got[i - 1].end <= got[i].start
    /\ Cardinality({k \in DOMAIN recs : recs[k].end <= pos /\ ~IsRead(recs[k])}) <= ends


\* Going back from the end of an event finds that event, and so undoes a step
\* forward (no magics in the data, nothing torn).
PrevUndoesNext ==
  Torn = {} /\ (\A i \in DOMAIN recs : Plain(recs[i])) =>
    \A k \in DOMAIN recs :
      recs[k].end <= Len(file) /\ Readable(recs[k].start)
        => read_prev_event[recs[k].end] = recs[k].start

Increasing == \A i, k \in DOMAIN recs : i < k => recs[i].ts < recs[k].ts
Size(k) == recs[k].end - recs[k].start


\* The transport returns events no faster than they were logged; a stamp of 0
\* is taken for none (transport_file.cpp:143).
Paced ==
  \A i \in 2 .. Len(dispatched) :
    LET now == dispatched[i]
        last == dispatched[i - 1]
    IN  now.ts > last.ts /\ last.ts # 0 => now.at - last.at >= now.ts - last.ts

\* "Messages that have been 'enable'd with recvmsg_enable() *must* be received"
\* (zcm/transport.h): what the transport has read it has returned.
EnabledIsReceived == reader = "transport" => Len(dispatched) = Len(got)
=============================================================================

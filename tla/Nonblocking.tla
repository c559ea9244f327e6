---------------------------- MODULE Nonblocking ----------------------------
(***************************************************************************)
(* The nonblocking layer (nonblocking.c) on top of the generic serial      *)
(* transport: one program publishes and polls, another subscribes, polls   *)
(* and has its callbacks called.  A callback may itself subscribe and      *)
(* unsubscribe while dispatch_message is in its loop over the table.       *)
(*                                                                         *)
(* A channel given to subscribe is "plain", a supported "regex", which is  *)
(* a prefix with a wildcard, or a "bad" one that isSupportedRegex refuses. *)
(***************************************************************************)
EXTENDS GenericSerial

CONSTANTS
  SubsMax,     \* ZCM_NONBLOCK_SUBS_MAX
  Patterns,    \* what is subscribed to: records with a kind and a name
  Programs     \* what the two programs may do: the messages published (msgs)
               \* and how many of them (sends), the calls of subscribe and
               \* unsubscribe in all, and the bytes the line may lose (faults)

ASSUME NonblockingAssumption == SubsMax \in Nat \ {0}

VARIABLES
  program,
  subs,        \* the table; id tells one use of a slot from the next
  subInUse, subInUseEnd,
  enabled,     \* patterns last passed to recvmsg_enable with true
  leaked,      \* those of a subscribe that failed after it
  phase,       \* "idle", "recv", "dispatch" (in the loop) or "callback"
  flushing,    \* whether dispatch is called from flush
  slot,        \* the loop index i
  msg, called, \* the message being dispatched and the ids called with it
  watch,       \* the subscriptions there were when dispatch began
  handed,      \* all messages dispatched
  calls        \* calls of subscribe and unsubscribe made

tableVars == <<subs, subInUse, subInUseEnd, enabled, leaked, calls>>
loopVars  == <<phase, flushing, slot, msg, called, watch, handed>>
vars      == <<program, serialVars, tableVars, loopVars>>

Slots == 0..(SubsMax - 1)
NoSub == [pattern |-> [kind |-> "none", name |-> <<>>], id |-> 0]
NoMsg == [channel |-> <<>>, data |-> <<>>]

Init ==
  /\ SerialInit
  /\ program \in Programs
  /\ subs = [s \in Slots |-> NoSub] /\ subInUse = [s \in Slots |-> FALSE]
  /\ subInUseEnd = 0 /\ enabled = {} /\ leaked = {} /\ calls = 0
  /\ phase = "idle" /\ flushing = FALSE /\ slot = 0
  /\ msg = NoMsg /\ called = <<>> /\ watch = {} /\ handed = <<>>

----------------------------------------------------------------------------
(* The table of subscriptions. *)

\* The slots subscribe looks at: up to and including the first never used.
FreeSlots == {s \in Slots : s <= subInUseEnd /\ ~subInUse[s]}

\* The transport hears of the pattern before a slot is looked for; a full
\* table and an unsupported regex give NULL and do not take that back.  The
\* refused regex stays in the slot, which is not marked as in use.
subscribe(p) ==
  /\ phase \in {"idle", "callback"}
  /\ calls < program.calls /\ calls' = calls + 1
  /\ enabled' = enabled \cup {p}
  /\ IF FreeSlots = {}
       THEN leaked' = leaked \cup {p} /\ UNCHANGED <<subs, subInUse, subInUseEnd>>
       ELSE LET s == Min(FreeSlots) IN
         /\ subs' = [subs EXCEPT ![s] = [pattern |-> p, id |-> calls + 1]]
         /\ IF p.kind = "bad"
              THEN leaked' = leaked \cup {p} /\ UNCHANGED <<subInUse, subInUseEnd>>
              ELSE /\ subInUse' = [subInUse EXCEPT ![s] = TRUE]
                   /\ subInUseEnd' = IF s = subInUseEnd THEN s + 1 ELSE subInUseEnd
                   /\ UNCHANGED leaked
  /\ UNCHANGED <<program, serialVars, loopVars>>

\* The end of the table after slot s is given up: it moves down over every
\* unused slot below.
EndAfter(s) ==
  Max({0} \cup {t + 1 : t \in {u \in Slots : u < subInUseEnd /\ u # s /\ subInUse[u]}})

\* Whether no other subscription has the pattern of slot s.
LastOf(s) == \A t \in Slots : t < subInUseEnd /\ subInUse[t] /\ t # s
                                => subs[t].pattern # subs[s].pattern

\* A second unsubscribe of the same slot is refused and changes nothing.
unsubscribe(s) ==
  /\ phase \in {"idle", "callback"}
  /\ calls < program.calls /\ calls' = calls + 1
  /\ s < subInUseEnd /\ subInUse[s]
  /\ IF LastOf(s) THEN /\ enabled' = enabled \ {subs[s].pattern}
                       /\ leaked' = leaked \ {subs[s].pattern}
                  ELSE UNCHANGED <<enabled, leaked>>
  /\ subInUse' = [subInUse EXCEPT ![s] = FALSE]
  /\ subInUseEnd' = EndAfter(s)
  /\ UNCHANGED <<program, subs, serialVars, loopVars>>

----------------------------------------------------------------------------
(* Dispatch. *)

Matches(p, m) == IF p.kind = "regex" THEN IsPrefix(p.name, m.channel)
                                     ELSE p.name = m.channel

\* A loop that goes on from the slot it has just called.
Due_Again(from) == {s \in Slots : /\ from - 1 <= s /\ s < subInUseEnd /\ subInUse[s]
                                  /\ Matches(subs[s].pattern, msg)}

\* The slots the loop still calls, as the table is now.
Due(from) == {s \in Slots : /\ from <= s /\ s < subInUseEnd /\ subInUse[s]
                            /\ Matches(subs[s].pattern, msg)}

\* zcm_trans_update: what the line gives goes into the ring.
update(n) ==
  /\ phase = "idle" /\ phase' = "recv" /\ Readable(n)
  /\ line' = SubSeq(line, n + 1, Len(line))
  /\ recvBuffer' = Received(n)
  /\ UNCHANGED <<program, sendBuffer, accepted, faults, tableVars,
                 slot, msg, called, watch, handed>>

handle_nonblock(n) == update(n) /\ flushing' = FALSE

\* flush calls update twice, which together read any number of bytes too.
flush(n) == update(n) /\ flushing' = TRUE

\* recvmsg on what is in the ring, and dispatch_message if there is a message;
\* handle_nonblock and flush return if there is none.
Receive ==
  LET r == recvmsg(recvBuffer) IN
  /\ phase = "recv"
  /\ recvBuffer' = r.cb
  /\ IF r.rc = "EOK"
       THEN /\ phase' = "dispatch" /\ msg' = r.msg /\ handed' = Append(handed, r.msg)
            /\ watch' = {[slot |-> s, id |-> subs[s].id, pattern |-> subs[s].pattern] :
                            s \in {t \in Slots : subInUse[t]}}
            /\ UNCHANGED flushing
       ELSE /\ phase' = "idle" /\ flushing' = FALSE
            /\ UNCHANGED <<msg, watch, handed>>
  /\ UNCHANGED <<program, sendBuffer, line, accepted, faults, tableVars, slot, called>>

\* The loop runs to the next subscription that matches and calls it.
Call ==
  /\ phase = "dispatch" /\ Due(slot) # {}
  /\ slot' = Min(Due(slot)) /\ called' = Append(called, subs[slot'].id)
  /\ phase' = "callback"
  /\ UNCHANGED <<program, serialVars, tableVars, flushing, msg, watch, handed>>

Return ==
  /\ phase = "callback"
  /\ phase' = "dispatch" /\ slot' = slot + 1
  /\ UNCHANGED <<program, serialVars, tableVars, flushing, msg, called, watch, handed>>

\* The loop ends; flush goes on to the next message, handle_nonblock returns.
EndOfLoop ==
  /\ phase = "dispatch" /\ Due(slot) = {}
  /\ phase' = (IF flushing THEN "recv" ELSE "idle")
  /\ slot' = 0 /\ msg' = NoMsg /\ called' = <<>> /\ watch' = {}
  /\ UNCHANGED <<program, serialVars, tableVars, flushing, handed>>

----------------------------------------------------------------------------
(* The program at the other end, and the line. *)

Publish ==
  /\ Len(accepted) < program.sends
  /\ \E m \in program.msgs : publish(m)
  /\ UNCHANGED <<program, tableVars, loopVars>>

Poll ==
  /\ \E n \in 1..LineSize : update_tx(n)
  /\ UNCHANGED <<program, tableVars, loopVars>>

Fault ==
  /\ faults < program.faults
  /\ LoseByte
  /\ UNCHANGED <<program, tableVars, loopVars>>

Handle == \E n \in 0..LineSize : handle_nonblock(n)
Flush  == \E n \in 0..LineSize : flush(n)
Subscribe   == \E p \in Patterns : subscribe(p)
Unsubscribe == \E s \in Slots : unsubscribe(s)

Next ==
  \/ Publish \/ Poll \/ Fault \/ Handle \/ Flush
  \/ Subscribe \/ Unsubscribe \/ Receive \/ Call \/ Return \/ EndOfLoop

\* The device takes at least a byte.
PutOn == \E n \in 1..LineSize : /\ n <= cb_size(sendBuffer) /\ n <= LineSize - Len(line)
                               /\ line' = line \o Written(sendBuffer, n)

\* A poll, of which the line gives something if there is something to get.
ReadOn ==
  /\ phase = "idle" /\ phase' = "recv"
  /\ \E n \in 0..LineSize : /\ Readable(n) /\ (n > 0 \/ ~Readable(1))
                            /\ line' = SubSeq(line, n + 1, Len(line))

\* The poll goes on: recvmsg returns, and so do the callbacks.
GoOn == phase # "idle" /\ phase' \in {"idle", "recv", "dispatch", "callback"} \ {phase}

\* Both programs poll in a loop and the device moves bytes: a poll may come
\* too early for a byte, but not always.  Nobody has to publish, subscribe or
\* flush.
Fairness == WF_line(PutOn) /\ SF_phase(ReadOn) /\ WF_phase(GoOn)

Spec == Init /\ [][Next]_vars /\ Fairness
----------------------------------------------------------------------------
(* Properties. *)

Bytes == 0..(Base - 1)
Ring  == [data : [0..(Capacity - 1) -> Bytes \cup {Stale}],
          front : 0..(Capacity - 1), back : 0..(Capacity - 1)]

\* The rings keep their indices inside the array, the table and the loop
\* their types.
TypeOK ==
  /\ sendBuffer \in Ring /\ recvBuffer \in Ring
  /\ Len(line) <= LineSize /\ faults <= program.faults
  /\ subInUse \in [Slots -> BOOLEAN] /\ subInUseEnd \in 0..SubsMax
  /\ enabled \subseteq Patterns /\ leaked \subseteq Patterns
  /\ phase \in {"idle", "recv", "dispatch", "callback"} /\ slot \in 0..SubsMax
  /\ calls <= program.calls

\* The frame of the comment above FRAME_BYTES: every escape in channel and
\* data doubled, header and checksum as they are.
Frame(m) ==
  <<ESCAPE, 0, Len(m.channel), Len(m.data)>>
    \o FlattenSeq([i \in DOMAIN Body(m) |-> IF Body(m)[i] = ESCAPE THEN <<ESCAPE, ESCAPE>>
                                                                  ELSE <<Body(m)[i]>>])
    \o fletcher(Body(m))

Contents(cb) == [k \in 1..cb_size(cb) |-> cb_front(cb, k - 1)]

\* sendmsg is all or nothing wherever the ring stands: it appends exactly the
\* frame when there is room for all of it, and otherwise takes back every byte
\* it has pushed, also when it finds out at an escape in the middle.
SendWhole ==
  \A m \in program.msgs :
    LET r == sendmsg(sendBuffer, m)
    IN IF Len(Frame(m)) <= cb_room(sendBuffer)
         THEN r.rc = "EOK" /\ Contents(r.cb) = Contents(sendBuffer) \o Frame(m)
         ELSE r.rc = "EAGAIN" /\ r.cb = sendBuffer

\* The assertion in cb_front, compiled out of the transport: recvmsg never
\* looks at a byte behind what the ring holds, whatever arrived.
ReadsInside == Attempt(recvBuffer).consumed <= cb_size(recvBuffer)

\* As long as the line loses nothing, what is dispatched is what sendmsg
\* accepted, whole, in order and once, however the bytes were cut up.
Delivery == faults = 0 => IsPrefix(handed, accepted)

\* A ring with room for the longest frame is never full of bytes that recvmsg
\* neither takes nor skips, not even when a lost byte makes it read lengths
\* that nobody sent.
NotWedged == Roomy /\ cb_room(recvBuffer) = 0 => recvmsg(recvBuffer).cb # recvBuffer

\* subscribe finds every free slot: the end of the table is just behind the
\* last slot in use, after any order of calls.
TableTight == subInUseEnd = Max({0} \cup {s + 1 : s \in {t \in Slots : subInUse[t]}})

\* The transport delivers the channels of the subscriptions there are; the
\* only others it delivers are those of a subscribe that failed.
EnabledExact == enabled = {subs[s].pattern : s \in {t \in Slots : subInUse[t]}} \cup leaked

Held(w) == subInUse[w.slot] /\ subs[w.slot].id = w.id
Times(id) == Cardinality({k \in DOMAIN called : called[k] = id})

\* A dispatch calls every subscription that matches and is there from its
\* beginning to its end once, and none twice, while callbacks rearrange the
\* table under the loop.
DispatchExact ==
  [][phase = "dispatch" /\ phase' \in {"idle", "recv"} =>
       /\ \A k, l \in DOMAIN called : called[k] = called[l] => k = l
       /\ \A w \in watch :
            Held(w) => (Times(w.id) = 1 <=> Matches(w.pattern, msg))]_vars

\* Whatever is accepted is dispatched if the line loses nothing.
Arrives == [](<>(Len(handed) = Len(accepted) \/ faults > 0))
=============================================================================

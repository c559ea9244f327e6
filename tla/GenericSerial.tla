--------------------------- MODULE GenericSerial ---------------------------
(***************************************************************************)
(* One direction of the generic serial transport                           *)
(* (generic_serial_transport.c): sendmsg puts a frame into the sender's    *)
(* ring, update moves bytes from there to the line and from the line into  *)
(* the receiver's ring, recvmsg takes a frame out of it or, after a fault  *)
(* on the line, looks for the next one.                                    *)
(*                                                                         *)
(* A byte is a number below Base, escape the largest of them; the length   *)
(* of the data is one byte of the header where the code has four, so a     *)
(* frame has FRAME_BYTES = 6 bytes around channel and data.                *)
(***************************************************************************)
EXTENDS CircBuff

CONSTANTS
  Base,        \* number of byte values, a power of two
  MTU,         \* the longest data
  ChanMax,     \* the longest channel name, ZCM_CHANNEL_MAXLEN
  LineSize     \* bytes that can be under way between the two ends

ASSUME SerialAssumption ==
  /\ Base \in Nat /\ Base > 2 /\ MTU \in 1..(Base - 1)
  /\ ChanMax \in 1..(Base - 1) /\ LineSize \in Nat \ {0}

ESCAPE == Base - 1
FRAME_BYTES == 6

\* Capacities at which the longest frame fits, every byte of it escaped.  The
\* users of the transport ask for ten times the MTU; create accepts less.
Roomy == Capacity - 1 >= FRAME_BYTES + 2 * (ChanMax + MTU)

VARIABLES
  sendBuffer, line, recvBuffer,
  accepted,    \* the messages for which sendmsg returned EOK
  faults       \* number of bytes the line has lost

serialVars == <<sendBuffer, line, recvBuffer, accepted, faults>>

SerialInit ==
  /\ sendBuffer = cb_init /\ recvBuffer = cb_init
  /\ line = <<>> /\ accepted = <<>> /\ faults = 0

Reduce(sum) == (sum % Base) + (sum \div Base)

\* One step of the checksum: two sums with end-around carry.
fletcherUpdate(b, sum) ==
  LET low == sum[2] + b
  IN <<Reduce(Reduce(sum[1] + low)), Reduce(Reduce(low))>>

\* The sums start at all ones.
fletcher(bytes) == FoldLeft(LAMBDA sum, b : fletcherUpdate(b, sum),
                            <<Base - 1, Base - 1>>, bytes)

Push(cb, bytes) == FoldLeft(cb_push_back, cb, bytes)

(***************************************************************************)
(* sendmsg.  The loops over the channel and over the data are one loop     *)
(* over both: byte i of n, with n - i to come in either.                   *)
(***************************************************************************)

\* Room for a second escape: the rest and the checksum have to fit as well.
EscapeFits(cb, left) == cb_room(cb) > left + 1

PushByte(st, c, left) ==
  LET cb == cb_push_back(st.cb, c)
  IN IF ~st.ok THEN st
     ELSE IF c # ESCAPE THEN [st EXCEPT !.cb = cb, !.pushed = @ + 1]
     ELSE IF EscapeFits(cb, left)
       THEN [st EXCEPT !.cb = cb_push_back(cb, c), !.pushed = @ + 2]
       ELSE [st EXCEPT !.ok = FALSE, !.cb = cb_pop_back(cb, st.pushed + 1)]

Body(m) == m.channel \o m.data

Framed(cb, m) ==
  LET n      == Len(Body(m))
      header == <<ESCAPE, 0, Len(m.channel), Len(m.data)>>
      start  == [cb |-> Push(cb, header), pushed |-> Len(header), ok |-> TRUE]
  IN FoldLeftDomain(LAMBDA st, i : PushByte(st, Body(m)[i], n - (i - 1)), start, Body(m))

\* The result of sendmsg and the ring it leaves.
sendmsg(cb, m) ==
  IF Len(m.channel) > ChanMax \/ Len(m.data) > MTU
    THEN [rc |-> "EINVALID", cb |-> cb]
  ELSE IF FRAME_BYTES + Len(Body(m)) > cb_room(cb)
    THEN [rc |-> "EAGAIN", cb |-> cb]
  ELSE LET st == Framed(cb, m)
       IN IF st.ok THEN [rc |-> "EOK", cb |-> Push(st.cb, fletcher(Body(m)))]
                   ELSE [rc |-> "EAGAIN", cb |-> st.cb]

(***************************************************************************)
(* recvmsg.  Again the two loops are one.  consumed is the offset of the   *)
(* next byte, size what the ring held at the start.                        *)
(***************************************************************************)

\* After an escape: the second one, the rest and the checksum are there.
RestThere(size, consumed, left) == consumed + left + 2 <= size

PullByte(cb, size, st, left) ==
  LET c    == cb_front(cb, st.consumed)
      next == cb_front(cb, st.consumed + 1)
  IN IF st.rc # "EOK" THEN st
     ELSE IF c # ESCAPE
       THEN [st EXCEPT !.bytes = Append(@, c), !.consumed = @ + 1]
     ELSE IF ~RestThere(size, st.consumed + 1, left)
       THEN [st EXCEPT !.rc = "EAGAIN", !.consumed = @ + 1]
     ELSE IF next # ESCAPE THEN [st EXCEPT !.rc = "fail", !.consumed = @ + 2]
     ELSE [st EXCEPT !.bytes = Append(@, c), !.consumed = @ + 2]

\* Any lengths are waited for.
Plausible_Any(chanLen, len) == TRUE

\* Lengths that sendmsg could have sent.
Plausible(chanLen, len) == chanLen <= ChanMax /\ len <= MTU

\* One byte more is waited for.
Complete_More(size, n) == size > FRAME_BYTES + n

\* Bytes enough for the frame if nothing in it is escaped.
Complete(size, n) == size >= FRAME_BYTES + n

\* One attempt at the frame that starts at the front of the ring.
Attempt(cb) ==
  LET size    == cb_size(cb)
      chanLen == cb_front(cb, 2)
      len     == cb_front(cb, 3)
      n       == chanLen + len
      start   == [rc |-> "EOK", bytes |-> <<>>, consumed |-> FRAME_BYTES - 2]
      body    == FoldLeft(LAMBDA st, i : PullByte(cb, size, st, n - (i - 1)),
                          start, [i \in 1..n |-> i])
      sums    == <<cb_front(cb, body.consumed), cb_front(cb, body.consumed + 1)>>
      result(rc, used) ==
        [rc |-> rc, consumed |-> used,
         msg |-> [channel |-> SubSeq(body.bytes, 1, chanLen),
                  data    |-> SubSeq(body.bytes, chanLen + 1, n)]]
  IN IF size < FRAME_BYTES THEN [rc |-> "EAGAIN", consumed |-> 0]
     ELSE IF cb_front(cb, 0) # ESCAPE \/ cb_front(cb, 1) # 0 \/ ~Plausible(chanLen, len)
       THEN [rc |-> "fail", consumed |-> FRAME_BYTES - 2]
     ELSE IF ~Complete(size, n) THEN [rc |-> "EAGAIN", consumed |-> FRAME_BYTES - 2]
     ELSE IF body.rc # "EOK" THEN [rc |-> body.rc, consumed |-> body.consumed]
     ELSE result(IF sums = fletcher(body.bytes) THEN "EOK" ELSE "fail", body.consumed + 2)

\* The number of bytes given up after a failed attempt: one, and then all up
\* to the next escape.
Skip(cb) ==
  LET escapes == {k \in 1..(cb_size(cb) - 1) : cb_front(cb, k) = ESCAPE}
  IN IF escapes = {} THEN cb_size(cb) ELSE Min(escapes)

\* A recvmsg that leaves the frame it returns in the ring.
recvmsg_Keeps(cb) ==
  LET try == Attempt(cb)
  IN IF try.rc = "EOK" THEN [rc |-> "EOK", msg |-> try.msg, cb |-> cb]
                       ELSE [rc |-> "EAGAIN", cb |-> cb]

\* recvmsg tries again until it has a message or too few bytes.
RECURSIVE recvmsg(_)
recvmsg(cb) ==
  LET try == Attempt(cb)
  IN CASE try.rc = "EOK"    -> [rc |-> "EOK", msg |-> try.msg,
                                cb |-> cb_pop_front(cb, try.consumed)]
       [] try.rc = "EAGAIN" -> [rc |-> "EAGAIN", cb |-> cb]
       [] try.rc = "fail"   -> recvmsg(cb_pop_front(cb, Skip(cb)))

(***************************************************************************)
(* update_tx and update_rx: the callbacks put and get move any number of   *)
(* bytes that both sides have.  The line keeps their order and may lose    *)
(* some.                                                                   *)
(***************************************************************************)

update_tx(n) ==
  /\ n <= cb_size(sendBuffer) /\ n <= LineSize - Len(line)
  /\ line' = line \o Written(sendBuffer, n)
  /\ sendBuffer' = cb_flush_out(sendBuffer, n)
  /\ UNCHANGED <<recvBuffer, accepted, faults>>

\* The ring of the receiver after update_rx has read n bytes.
Received(n) == cb_flush_in(recvBuffer, SubSeq(line, 1, n))
Readable(n) == n <= Len(line) /\ n <= cb_room(recvBuffer)

publish(m) ==
  /\ sendBuffer' = sendmsg(sendBuffer, m).cb
  /\ accepted' = IF sendmsg(sendBuffer, m).rc = "EOK" THEN Append(accepted, m)
                                                      ELSE accepted
  /\ UNCHANGED <<line, recvBuffer, faults>>

LoseByte ==
  /\ line # <<>>
  /\ line' = Tail(line) /\ faults' = faults + 1
  /\ UNCHANGED <<sendBuffer, recvBuffer, accepted>>
=============================================================================

-------------------------------- MODULE Udp ---------------------------------
(***************************************************************************)
(* The udp transport, zcm/transport/udp: sendmsg cuts a message into       *)
(* packets, recvmsg puts packets that were lost, doubled and reordered     *)
(* together again in the fragment buffers of a MessagePool, whose memory   *)
(* comes from the free lists of a MemPool.                                 *)
(*                                                                         *)
(* A payload byte is a pair: the number of the message it was sent in and  *)
(* its place there.  Sizes are in bytes, with the limits of the code as    *)
(* constants.  The wall clock and the steady clock are one clock.          *)
(***************************************************************************)
EXTENDS Naturals, FiniteSets, FiniteSetsExt

CONSTANTS
  Addrs,        \* addresses packets come from
  Lens,         \* lengths of the messages that are sent
  ChanSize,     \* length of their channel's name, with the final zero
  ChanMax,      \* ZCM_CHANNEL_MAXLEN + 1
  MTU,          \* longest message
  ShortMax,     \* ZCM_SHORT_MESSAGE_MAX_SIZE
  FragMax,      \* ZCM_FRAGMENT_MAX_PAYLOAD
  PacketSize,   \* ZCM_MAX_UNFRAGMENTED_PACKET_SIZE
  FragBufSize,  \* sizeof(FragBuf)
  FragmentSize, \* sizeof(FragBuf::Fragment)
  MinBlock,     \* size of the blocks of the first free list
  maxSize,      \* MAX_FRAG_BUF_TOTAL_SIZE
  maxBuffers,   \* MAX_NUM_FRAG_BUFS
  Patience,     \* five seconds, on the clock of the model
  SeqMod,       \* 2^32: the sequence numbers of the messages wrap
  MaxSends, MaxClock   \* bounds of the model

ASSUME UdpAssumption ==
  /\ 0 < ChanSize /\ ChanSize < FragMax /\ FragMax <= ShortMax
  /\ ChanSize <= ChanMax
  /\ SeqMod > 0 /\ maxBuffers > 0
  /\ \A n \in Lens : n <= MTU

VARIABLES
  msg_seqno,    \* next sequence number of each sender
  net,          \* packets on the network: none is ever used up
  sent,         \* messages handed to sendmsg so far
  fragbufs,     \* assemblies in progress
  totalSize,    \* their memory, as the pool counts it
  pkt,          \* recvmsg is running and holds a packet
  m,            \* the message lent to the caller of recvmsg, or NULL
  inuse,        \* blocks of each size that are allocated and not freed
  clock,
  run           \* packets of one message that came with no other between them

sender == <<msg_seqno, net, sent>>
pool == <<fragbufs, totalSize, inuse>>
vars == <<sender, pool, pkt, m, clock, run>>

NULL == [chan |-> 0]
NoRun == [id |-> 0, nos |-> {}, at |-> 0, done |-> FALSE]

\* What a block holds that nobody has written yet.
Stale == <<0, 0>>

-----------------------------------------------------------------------------
(* Sending.                                                                *)

Bytes(id, offset, size) == [i \in offset .. offset + size - 1 |-> <<id, i>>]

Fragments(len) ==
  (ChanSize + len) \div FragMax + (IF (ChanSize + len) % FragMax = 0 THEN 0 ELSE 1)

\* The first fragment carries the channel name before its data.
FragOffset(no) == IF no = 0 THEN 0 ELSE no * FragMax - ChanSize

FragLen(len, no) ==
  IF no = 0 THEN FragMax - ChanSize
            ELSE Min({FragMax, len - FragOffset(no)})

Fragment(a, id, len, no) ==
  [kind |-> "long", from |-> a, seqno |-> msg_seqno[a], chan |-> id,
   msg_size |-> len, no |-> no, count |-> Fragments(len),
   offset |-> FragOffset(no),
   data |-> Bytes(id, FragOffset(no), FragLen(len, no))]

\* A failing send ends the loop: then the rest is among what never arrives.
Packets(a, id, len) ==
  IF ChanSize + len <= ShortMax
  THEN {[kind |-> "short", from |-> a, chan |-> id, data |-> Bytes(id, 0, len)]}
  ELSE {Fragment(a, id, len, no) : no \in 0 .. Fragments(len) - 1}

sendmsg(a, len) ==
  LET id == Cardinality(sent) + 1
  IN  /\ Cardinality(sent) < MaxSends
      /\ net' = net \cup Packets(a, id, len)
      /\ sent' = sent \cup {[id |-> id, from |-> a, seqno |-> msg_seqno[a],
                             len |-> len]}
      /\ msg_seqno' = [msg_seqno EXCEPT ![a] = (@ + 1) % SeqMod]
      /\ UNCHANGED <<pool, pkt, m, clock, run>>

-----------------------------------------------------------------------------
(* Memory.  A holder is described by the sizes of the blocks it has: one   *)
(* for the object itself and one for its buffer while it has one.          *)

computeSlot(size) ==
  CHOOSE k \in 0 .. size :
    /\ size <= MinBlock * 2^k
    /\ k = 0 \/ size > MinBlock * 2^(k - 1)

Slots == 0 .. computeSlot(MTU)

\* How many of the blocks in the bag of sizes bs are of slot s.
Count(bs, s) == Cardinality({b \in bs : computeSlot(b.size) = s})

Blk(owner, size) == [owner |-> owner, size |-> size]

PacketBlocks == {Blk(<<"packet">>, 1), Blk(<<"packet buf">>, PacketSize)}
MessageBlocks(x) == IF x = NULL THEN {}
                    ELSE {Blk(<<"message">>, 1), Blk(<<"message buf">>, x.bufsize)}
FragBufBlocks(f) == {Blk(<<f.from, f.seqno>>, 1),
                     Blk(<<f.from, f.seqno, "buf">>, f.bufsize)}
AllBlocks(fs) == UNION {FragBufBlocks(f) : f \in fs}

\* A free list gives a block out and takes it back by its size alone, and with
\* the list empty malloc does: what counts is how many are out.
Recycle(freed, taken) ==
  inuse' = [s \in Slots |-> inuse[s] + Count(taken, s) - Count(freed, s)]

-----------------------------------------------------------------------------
(* The pool of assemblies.                                                 *)

SumSize(fs) == MapThenSumSet(LAMBDA f : f.allocated_size, fs)

Expired == {f \in fragbufs : clock - f.last_progress >= Patience}

Fits(fs, size) ==
  \/ fs = {}
  \/ /\ totalSize - SumSize(fragbufs \ fs) + size <= maxSize
     /\ Cardinality(fs) < maxBuffers

\* What may be left of the live assemblies fs once there is room for one of
\* this size: the least recently updated go first, and no more than have to.
\* Of several updated at one time any may be the eldest.
Evict(fs, size) ==
  {rest \in SUBSET fs :
     LET gone == fs \ rest
     IN  /\ Fits(rest, size)
         /\ \A g \in gone, r \in rest : g.last_packet_utime <= r.last_packet_utime
         /\ gone # {} =>
              \E g \in gone :
                /\ \A o \in gone : o.last_packet_utime <= g.last_packet_utime
                /\ ~Fits(rest \cup {g}, size)}

payload_offset(size) == Min({ChanMax, MTU - size})

NewFragBuf(p) ==
  LET bufsize == payload_offset(p.msg_size) + p.msg_size
  IN  [from |-> p.from, seqno |-> p.seqno, data_size |-> p.msg_size,
       chan |-> 0, fragments_remaining |-> p.count,
       fragments |-> [i \in 0 .. p.count - 1 |->
                        [offset |-> 0, size |-> 0, received |-> FALSE]],
       data |-> [i \in 0 .. p.msg_size - 1 |-> Stale],
       bufsize |-> bufsize,
       allocated_size |-> bufsize + FragBufSize + p.count * FragmentSize,
       last_packet_utime |-> 0, last_progress |-> clock]

-----------------------------------------------------------------------------
(* Receiving.                                                              *)

Size(p) == Cardinality(DOMAIN p.data)

\* Mutant: a fragment that reaches the end of the message is refused.
WellFormed_Short(p) ==
  /\ p.msg_size <= MTU /\ p.count # 0 /\ p.no < p.count
  /\ p.no = 0 => ChanSize <= payload_offset(p.msg_size) /\ p.offset = 0
  /\ p.offset <= p.msg_size /\ Size(p) < p.msg_size - p.offset

\* Everything recvFragment checks before it looks at the pool.
WellFormed(p) ==
  /\ p.msg_size <= MTU /\ p.count # 0 /\ p.no < p.count
  /\ p.no = 0 => ChanSize <= payload_offset(p.msg_size) /\ p.offset = 0
  /\ p.offset <= p.msg_size /\ Size(p) <= p.msg_size - p.offset
  /\ p.no # 0 => Size(p) # 0
  /\ p.no + 1 = p.count => p.offset + Size(p) = p.msg_size

Live == fragbufs \ Expired

\* Mutant: assemblies of different senders are confused.
lookupFragBuf_AnySender(p) == {f \in Live : f.seqno = p.seqno}

lookupFragBuf(p) == {f \in Live : f.from = p.from /\ f.seqno = p.seqno}

SameShape(f, p) == f.data_size = p.msg_size /\ Cardinality(DOMAIN f.fragments) = p.count

Received(f, p) == SameShape(f, p) /\ f.fragments[p.no].received

\* The packet cannot be part of the message the assembly is for.
Contradicts(f, p) ==
  \/ ~SameShape(f, p)
  \/ /\ Received(f, p)
     /\ \/ f.fragments[p.no].offset # p.offset
        \/ f.fragments[p.no].size # Size(p)
        \/ \E i \in DOMAIN p.data : f.data[i] # p.data[i]
        \/ p.no = 0 /\ f.chan # p.chan
  \/ /\ SameShape(f, p) /\ ~Received(f, p)
     /\ \/ /\ p.no > 0
           /\ LET prev == f.fragments[p.no - 1]
              IN  prev.received /\ prev.offset + prev.size # p.offset
        \/ /\ p.no + 1 < p.count
           /\ LET next == f.fragments[p.no + 1]
              IN  next.received /\ p.offset + Size(p) # next.offset

Put(f, p) ==
  [f EXCEPT !.chan = IF p.no = 0 THEN p.chan ELSE @,
            !.data = [i \in DOMAIN @ |-> IF i \in DOMAIN p.data THEN p.data[i] ELSE @[i]],
            !.fragments[p.no] = [offset |-> p.offset, size |-> Size(p), received |-> TRUE],
            !.last_packet_utime = clock,
            !.last_progress = clock,
            !.fragments_remaining = @ - 1]

\* The history of undisturbed arrivals.  It starts with a packet of which the
\* pool holds nothing, and a pause long enough for an assembly to expire, or a
\* packet of another message, ends it.
Observe(p, no) ==
  run' = IF run.id = p.chan /\ clock - run.at < Patience
         THEN [run EXCEPT !.nos = @ \cup {no}, !.done = @ \/ m'.chan = p.chan,
                          !.at = IF no \in run.nos THEN @ ELSE clock]
         ELSE IF p.kind = "short" \/ lookupFragBuf(p) = {}
         THEN [id |-> p.chan, nos |-> {no}, at |-> clock, done |-> m'.chan = p.chan]
         ELSE NoRun

Arrives(p) == /\ pkt /\ p \in net
              /\ Observe(p, IF p.kind = "short" THEN 0 ELSE p.no)
              /\ UNCHANGED <<sender, clock>>

\* The assemblies gone leave the pool and those in fs are new in it; other
\* blocks are freed and taken.
Change(gone, fs, freed, taken) ==
  /\ fragbufs' = (fragbufs \ gone) \cup fs
  /\ totalSize' = totalSize - SumSize(gone) + SumSize(fs)
  /\ Recycle(AllBlocks(gone) \cup freed, taken)

Ignored(p) == /\ Change(Expired, {}, {}, {})
              /\ UNCHANGED <<pkt, m>>
              /\ Arrives(p)

recvShort(p) ==
  /\ p.kind = "short"
  /\ m' = [chan |-> p.chan, data |-> p.data, bufsize |-> PacketSize]
  /\ pkt' = FALSE
  /\ Change(Expired, {}, {Blk(<<"packet">>, 1)}, {Blk(<<"message">>, 1)})
  /\ Arrives(p)

recvBad(p) == p.kind = "long" /\ ~WellFormed(p) /\ Ignored(p)

recvDuplicate(p) ==
  /\ p.kind = "long" /\ WellFormed(p)
  /\ \E f \in lookupFragBuf(p) : Received(f, p) /\ ~Contradicts(f, p)
  /\ Ignored(p)

\* The assembly and the packet disagree: both are dropped.
recvContradiction(p) ==
  /\ p.kind = "long" /\ WellFormed(p)
  /\ \E f \in lookupFragBuf(p) :
       Contradicts(f, p) /\ Change(Expired \cup {f}, {}, {}, {})
  /\ UNCHANGED <<pkt, m>>
  /\ Arrives(p)

recvFirst(p) ==
  /\ p.kind = "long" /\ WellFormed(p) /\ lookupFragBuf(p) = {}
  /\ LET f == Put(NewFragBuf(p), p)
     IN  \E rest \in Evict(Live, f.allocated_size) :
           Change(fragbufs \ rest, {f}, {}, FragBufBlocks(f))
  /\ UNCHANGED <<pkt, m>>
  /\ Arrives(p)

\* A complete message takes the buffer of its assembly along.
recvRest(p) ==
  /\ p.kind = "long" /\ WellFormed(p)
  /\ \E f \in lookupFragBuf(p) :
       /\ ~Received(f, p) /\ ~Contradicts(f, p)
       /\ IF f.fragments_remaining > 1
          THEN /\ fragbufs' = (Live \ {f}) \cup {Put(f, p)}
               /\ totalSize' = totalSize - SumSize(Expired)
               /\ Recycle(AllBlocks(Expired), {})
               /\ UNCHANGED <<pkt, m>>
          ELSE /\ m' = [chan |-> Put(f, p).chan, data |-> Put(f, p).data,
                        bufsize |-> f.bufsize]
               /\ pkt' = FALSE
               /\ fragbufs' = Live \ {f}
               /\ totalSize' = totalSize - SumSize(Expired \cup {f})
               /\ Recycle(AllBlocks(Expired) \cup PacketBlocks
                            \cup {Blk(<<"assembly">>, 1)}, {Blk(<<"message">>, 1)})
  /\ Arrives(p)

\* Mutant: the message lent last is forgotten, not freed.
recvmsg_Forgets ==
  /\ ~pkt
  /\ Change(Expired, {}, {}, PacketBlocks)
  /\ m' = NULL /\ pkt' = TRUE
  /\ UNCHANGED <<sender, clock, run>>

\* A call begins: the message lent last is taken back.
recvmsg ==
  /\ ~pkt
  /\ fragbufs' = Live
  /\ totalSize' = totalSize - SumSize(Expired)
  /\ Recycle(MessageBlocks(m) \cup AllBlocks(Expired), PacketBlocks)
  /\ m' = NULL /\ pkt' = TRUE
  /\ UNCHANGED <<sender, clock, run>>

\* No packet within the time the caller allows.
recvTimeout ==
  /\ pkt
  /\ pkt' = FALSE
  /\ Recycle(PacketBlocks, {})
  /\ UNCHANGED <<sender, fragbufs, totalSize, m, clock, run>>

Tick == /\ clock < MaxClock
        /\ clock' = clock + 1
        /\ UNCHANGED <<sender, pool, pkt, m, run>>

Init ==
  /\ msg_seqno = [a \in Addrs |-> 0]
  /\ net = {} /\ sent = {}
  /\ fragbufs = {} /\ totalSize = 0
  /\ pkt = FALSE /\ m = NULL
  /\ inuse = [s \in Slots |-> 0]
  /\ clock = 0 /\ run = NoRun

Next ==
  \/ \E a \in Addrs, len \in Lens : sendmsg(a, len)
  \/ /\ pkt
     /\ \E p \in net : \/ recvShort(p) \/ recvBad(p) \/ recvDuplicate(p)
                       \/ recvContradiction(p) \/ recvFirst(p) \/ recvRest(p)
  \/ recvmsg \/ recvTimeout \/ Tick

Spec == Init /\ [][Next]_vars

-----------------------------------------------------------------------------
IsPayload(d) == \E n \in Lens : d \in [0 .. n - 1 -> (0 .. MaxSends) \X (0 .. MTU)]

\* Every variable has the values the code can give it.
TypeOK ==
  /\ msg_seqno \in [Addrs -> 0 .. SeqMod - 1]
  /\ \A f \in fragbufs :
       /\ f.from \in Addrs /\ f.seqno \in 0 .. SeqMod - 1
       /\ IsPayload(f.data) /\ DOMAIN f.data = 0 .. f.data_size - 1
       /\ f.chan \in 0 .. MaxSends
  /\ totalSize \in Nat /\ pkt \in BOOLEAN
  /\ m = NULL \/ (m.chan \in 1 .. MaxSends /\ IsPayload(m.data))
  /\ inuse \in [Slots -> Nat]
  /\ clock \in 0 .. MaxClock

\* The messages a receiver cannot tell from s.
Twins(s) == {t \in sent : t.from = s.from /\ t.seqno = s.seqno /\ t.len = s.len}

\* What recvmsg lends out is a message that was sent, of its full length, and
\* each byte of it is the byte at that place of that message: no byte of a
\* recycled block shows, and nothing of another message, unless a sender has
\* used the sequence number twice for messages of one length (udp.cpp:187).
WholeMessage ==
  m # NULL =>
    \E s \in sent :
      /\ m.chan = s.id
      /\ DOMAIN m.data = 0 .. s.len - 1
      /\ \A i \in DOMAIN m.data : \E t \in Twins(s) : m.data[i] = <<t.id, i>>

\* An assembly in the pool still lacks a fragment, counts the ones it lacks,
\* and is the only one for its sender and sequence number: a finished message
\* never lingers, and no fragment is saved where it will not be looked up.
AssembliesOpen ==
  \A f \in fragbufs :
    /\ f.fragments_remaining > 0
    /\ f.fragments_remaining =
         Cardinality({i \in DOMAIN f.fragments : ~f.fragments[i].received})
    /\ \A g \in fragbufs : f.from = g.from /\ f.seqno = g.seqno => f = g

\* The pool's count of the memory in assemblies is exact, and within its
\* budget unless a single assembly is larger than all of it (buffers.cpp:94).
Budget ==
  /\ totalSize = SumSize(fragbufs)
  /\ totalSize <= maxSize \/ Cardinality(fragbufs) = 1
  /\ Cardinality(fragbufs) <= maxBuffers

\* Every block that is out has one holder, and is freed as what it was: moving
\* buffers between packets, assemblies and messages loses and doubles none.
BlocksConserved ==
  LET held == (IF pkt THEN PacketBlocks ELSE {}) \cup MessageBlocks(m)
              \cup AllBlocks(fragbufs)
  IN  \A s \in Slots : inuse[s] = Count(held, s)

\* When all packets of a message come with no other packet between them and no
\* pause as long as the expiry, in any order and with repetitions, the message
\* is delivered, however large it is and whatever the pool held.  Only a
\* message that leaves its channel no room below the MTU is not (udp.cpp:146).
UndisturbedIsDelivered ==
  \A s \in sent :
    /\ s.len + ChanSize <= MTU
    /\ run.id = s.id
    /\ run.nos = IF ChanSize + s.len <= ShortMax THEN {0}
                 ELSE 0 .. Fragments(s.len) - 1
    => run.done
=============================================================================

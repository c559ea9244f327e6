\* Two senders and three messages: of one packet, of two and of three fragments,
\* and one whose length leaves its channel no room.  Two assemblies of the
\* larger kind exceed the pool, and sequence numbers are used again.
CONSTANTS
  a1 = a1
  a2 = a2
  Addrs = {a1, a2}
  Lens = {1, 5, 14, 15}
  ChanSize = 1
  ChanMax = 1
  MTU = 15
  ShortMax = 5
  FragMax = 5
  PacketSize = 8
  FragBufSize = 1
  FragmentSize = 1
  MinBlock = 8
  maxSize = 18
  maxBuffers = 2
  Patience = 2
  SeqMod = 2
  MaxSends = 3
  MaxClock = 2
SYMMETRY Symmetry
SPECIFICATION Spec
INVARIANTS WholeMessage BlocksConserved UndisturbedIsDelivered

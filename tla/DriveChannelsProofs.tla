------------------------ MODULE DriveChannelsProofs ------------------------
(***************************************************************************)
(* Proofs about DriveChannels for any channels, image, block size and      *)
(* buffer size: a byte that is read or written is the byte the program's   *)
(* last command and its transfers since have reached.                      *)
(***************************************************************************)
EXTENDS DriveChannels, TLAPS

\* The rules of a program that the proofs need; only ChannelTypes needs
\* "inside" as well.
Orderly == {"seeks", "checks"} \subseteq Rules

Handler ==
    [open : {TRUE}, buf : Seq(Nat), eos : BOOLEAN, position : Nat,
     window : BOOLEAN, base : 0..Total, len : 0..BlockSize, full : {0, Total}]

Stream == [open : {TRUE}, writable : BOOLEAN, pos : Nat, cur : Nat,
           size : 0..(Total + BlockSize)]

\* The types of the state; the positions are bounded by Sized and Reached.
Typed ==
    /\ handler \in [Channels -> Handler \cup {NoHandler}]
    /\ stream \in [Channels -> Stream \cup {NoStream}]
    /\ \A c \in Channels : handler[c].open = stream[c].open
    /\ ahead \in [Channels -> Seq(Nat)]
    /\ count \in [0..(Blocks - 1) -> Counts]
    /\ place \in [Channels -> Nat] /\ limit \in [Channels -> 0..(Total + BlockSize)]
    /\ stale \in [Channels -> Nat]
    /\ last \in [Channels -> {"none", "read", "write"}]
    /\ erred \in [Channels -> Nat]

\* Behind its first z bytes, which are from before the last command, the
\* read-ahead a holds what follows the pointer p, the buffer b what follows that,
\* and none of it is behind the window; pos is the position of the channel.
Buffered(pos, b, a, z, p, end) ==
    /\ z <= Len(a) /\ pos = p + (Len(a) - z)
    /\ \A i \in 1..Len(a) : i > z => a[i] = p + (i - z) - 1
    /\ \A i \in 1..Len(b) : b[i] = pos + i - 1
    /\ Len(a) > z \/ b # <<>> => p + (Len(a) - z) + Len(b) <= end

\* The stream is behind the last buffered byte, and an end of file was seen at
\* the end of the window or of the container.
Following(h, s) ==
    /\ s.cur = h.position + Len(h.buf)
    /\ h.eos => h.buf = <<>> /\ (s.cur >= s.size \/ s.cur >= Total)

\* The window of the program is the window of the stream; F-P has given back
\* the extent of the container; a window ends with its block.
Extent(h, s, end) ==
    /\ end = s.size
    /\ ~h.window /\ h.full > 0 => s.size = Total
    /\ h.window => s.size <= h.base + BlockSize

\* The buffers have their sizes.
Sized(h, a) ==
    /\ Len(h.buf) <= BufferSize /\ Len(a) <= 2
    /\ \A i \in 1..Len(a) : a[i] \in Offsets

\* A program that writes inside its block moves nothing farther than a command
\* could.
Reached(s, q) ==
    "inside" \in Rules => s.pos \in Offsets /\ s.cur \in Offsets /\ q \in Offsets

Channel(c) ==
    IF ~handler[c].open
    THEN place[c] = 0 /\ limit[c] = 0 /\ ahead[c] = <<>> /\ stale[c] = 0
    ELSE
        /\ Sized(handler[c], ahead[c])
        /\ Reached(stream[c], place[c])
        /\ Buffered(handler[c].position, handler[c].buf, ahead[c], stale[c], place[c], limit[c])
        /\ last[c] # "read" => Len(ahead[c]) = stale[c] /\ handler[c].buf = <<>>
        /\ erred[c] = 0 => /\ Extent(handler[c], stream[c], limit[c])
                           /\ Following(handler[c], stream[c])
        /\ erred[c] = 0 /\ last[c] # "write" => stream[c].pos = stream[c].cur

Inv ==
    /\ Typed
    /\ \A c \in Channels : Channel(c)
    /\ strayed = {} /\ refused \in BOOLEAN

-----------------------------------------------------------------------------
(* The layers.                                                             *)

LEMMA Sizes == /\ Blocks \in Nat /\ BlockSize \in Nat /\ BufferSize \in Nat
               /\ BufferSize > 0 /\ BlockSize > 0 /\ Blocks > 0
               /\ Total \in Nat
  BY SizeAssumption DEF Total

LEMMA InOffsets ==
    ASSUME NEW q \in Nat
    PROVE  /\ q <= Total + BlockSize + 1 => q \in Offsets
           /\ q \in Offsets => q <= Total + BlockSize + 1
  BY Sizes DEF Offsets

LEMMA MinOfTwo ==
    ASSUME NEW a \in Nat, NEW b \in Nat
    PROVE  /\ Min({a, b}) \in Nat /\ Min({a, b}) <= a /\ Min({a, b}) <= b
           /\ Min({a, b}) = a \/ Min({a, b}) = b
  <1>1. \E x \in {a, b} : \A y \in {a, b} : x =< y
    OBVIOUS
  <1>. QED
    BY <1>1 DEF Min

LEMMA MinOfThree ==
    ASSUME NEW a \in Nat, NEW b \in Nat, NEW d \in Nat
    PROVE  /\ Min({a, b, d}) \in Nat
           /\ Min({a, b, d}) <= a /\ Min({a, b, d}) <= b /\ Min({a, b, d}) <= d
           /\ Min({a, b, d}) = a \/ Min({a, b, d}) = b \/ Min({a, b, d}) = d
  <1>1. \E x \in {a, b, d} : \A y \in {a, b, d} : x =< y
    <2>1. CASE a <= b /\ a <= d
      BY <2>1
    <2>2. CASE b <= a /\ b <= d
      BY <2>2
    <2>3. CASE d <= a /\ d <= b
      BY <2>3
    <2>. QED
      BY <2>1, <2>2, <2>3
  <1>. QED
    BY <1>1 DEF Min

LEMMA StreamTypes ==
    ASSUME NEW s \in Stream
    PROVE  /\ s.pos \in Nat /\ s.cur \in Nat /\ s.size \in 0..(Total + BlockSize)
           /\ s.size \in Nat /\ s.size <= Total + BlockSize
  <1>1. s.pos \in Nat /\ s.cur \in Nat /\ s.size \in 0..(Total + BlockSize)
    BY DEF Stream
  <1>. QED
    BY <1>1, Sizes

LEMMA HandlerTypes ==
    ASSUME NEW h \in Handler
    PROVE  /\ h.buf \in Seq(Nat) /\ h.position \in Nat /\ h.window \in BOOLEAN
           /\ h.base \in 0..Total /\ h.len \in 0..BlockSize /\ h.full \in {0, Total}
           /\ h.base \in Nat /\ h.base <= Total
  <1>1. /\ h.buf \in Seq(Nat) /\ h.position \in Nat /\ h.window \in BOOLEAN
        /\ h.base \in 0..Total /\ h.len \in 0..BlockSize /\ h.full \in {0, Total}
    BY DEF Handler
  <1>. QED
    BY <1>1, Sizes

\* The state of one channel while IECFileDevice fills its read-ahead.
Loaded(x, z, p, end) ==
    /\ x.h \in Handler /\ x.s \in Stream /\ x.ahead \in Seq(Nat)
    /\ Buffered(x.h.position, x.h.buf, x.ahead, z, p, end)
    /\ Extent(x.h, x.s, end)
    /\ Following(x.h, x.s)
    /\ x.s.pos = x.s.cur
    /\ Sized(x.h, x.ahead) /\ Reached(x.s, p)

\* A read of nothing happens at the end of the window or of the container, a
\* read of n bytes stays within both.
LEMMA ReadableBound ==
    ASSUME NEW s \in Stream, NEW n \in Nat \ {0}
    PROVE  /\ Readable(s, n) \in Nat /\ Readable(s, n) <= n
           /\ Readable(s, n) > 0 => s.pos + Readable(s, n) <= s.size
           /\ Readable(s, n) > 0 => s.cur < Total
           /\ Readable(s, n) = 0 => s.pos >= s.size \/ s.cur >= Total
  <1>. DEFINE w == IF s.pos < s.size THEN s.size - s.pos ELSE 0
              l == IF s.cur < Total THEN Total - s.cur ELSE 0
  <1>1. w \in Nat /\ l \in Nat
    BY Sizes DEF Stream
  <1>2. Readable(s, n) = Min({n, w, l})
    BY DEF Readable
  <1>3. s.pos \in Nat /\ s.size \in Nat /\ s.cur \in Nat
    BY DEF Stream
  <1>4. /\ Min({n, w, l}) \in Nat
        /\ Min({n, w, l}) <= n /\ Min({n, w, l}) <= w /\ Min({n, w, l}) <= l
        /\ Min({n, w, l}) = n \/ Min({n, w, l}) = w \/ Min({n, w, l}) = l
    BY <1>1, MinOfThree
  <1>. QED
    BY <1>1, <1>2, <1>3, <1>4, Sizes

LEMMA RefillLoaded ==
    ASSUME NEW x, NEW z \in Nat, NEW p \in Nat, NEW end \in Nat, Loaded(x, z, p, end),
           x.h.buf = <<>>
    PROVE  /\ Loaded(Refill(x), z, p, end)
           /\ Refill(x).h.buf = <<>> => Refill(x).h.eos
           /\ Refill(x).ahead = x.ahead
  <1>. DEFINE n == Readable(x.s, BufferSize)
              b == [i \in 1..n |-> x.s.cur + i - 1]
              g == [x.h EXCEPT !.buf = b, !.eos = (n = 0)]
              t == [x.s EXCEPT !.pos = @ + n, !.cur = @ + n]
  <1>1. x.h \in Handler /\ x.s \in Stream /\ x.ahead \in Seq(Nat)
    BY DEF Loaded
  <1>2. /\ n \in Nat /\ n <= BufferSize
        /\ n > 0 => x.s.pos + n <= x.s.size
        /\ n = 0 => x.s.pos >= x.s.size \/ x.s.cur >= Total
    BY <1>1, ReadableBound, Sizes
  <1>3. /\ x.s.cur \in Nat /\ x.s.pos \in Nat /\ x.h.position \in Nat
        /\ x.s.size \in Nat /\ x.s.size <= Total + BlockSize
    BY <1>1, StreamTypes, HandlerTypes
  <1>4. b \in Seq(Nat) /\ Len(b) = n /\ \A i \in 1..n : b[i] = x.s.cur + i - 1
    BY <1>2, <1>3, SMTT(30)
  <1>5. Refill(x).h = g /\ Refill(x).s = t /\ Refill(x).ahead = x.ahead
    BY DEF Refill
  <1>. HIDE DEF b, n
  <1>6. g \in Handler /\ t \in Stream
    <2>1. x.s.pos + n \in Nat /\ x.s.cur + n \in Nat
      BY <1>2, <1>3
    <2>2. g \in Handler
      BY <1>1, <1>4, Zenon DEF Handler
    <2>3. t \in Stream
      BY <1>1, <2>1 DEF Stream
    <2>. QED
      BY <2>2, <2>3
  <1>7. /\ g.buf = b /\ (g.eos <=> n = 0) /\ g.position = x.h.position
        /\ g.base = x.h.base /\ g.window = x.h.window /\ g.full = x.h.full
        /\ t.pos = x.s.pos + n /\ t.cur = x.s.cur + n /\ t.size = x.s.size
    BY <1>1 DEF Handler, Stream
  <1>. HIDE DEF g, t
  <1>8. x.s.cur = x.h.position /\ x.s.pos = x.s.cur
    BY <1>3 DEF Loaded, Following
  <1>9. Buffered(g.position, g.buf, x.ahead, z, p, end)
    <2>1. /\ x.h.position = p + (Len(x.ahead) - z) /\ end = x.s.size /\ z <= Len(x.ahead)
          /\ \A i \in 1..Len(x.ahead) : i > z => x.ahead[i] = p + (i - z) - 1
      BY DEF Loaded, Buffered, Extent
    <2>2. Len(x.ahead) \in Nat
      BY <1>1
    <2>3. Len(x.ahead) > z => p + (Len(x.ahead) - z) <= end
      BY <1>3, <2>2 DEF Loaded, Buffered
    <2>4. b # <<>> => n > 0
      BY <1>2, <1>4
    <2>5. Len(x.ahead) > z \/ b # <<>> => p + (Len(x.ahead) - z) + n <= end
      BY <1>2, <1>3, <1>8, <2>1, <2>2, <2>3, <2>4
    <2>6. \A i \in 1..Len(b) : b[i] = g.position + i - 1
      BY <1>4, <1>7, <1>8
    <2>. QED
      BY <1>4, <1>7, <2>1, <2>5, <2>6 DEF Buffered
  <1>10. Following(g, t)
    <2>1. n = 0 => b = <<>>
      BY <1>4
    <2>. QED
      BY <1>2, <1>3, <1>4, <1>7, <1>8, <2>1, Sizes DEF Following
  <1>11. Extent(g, t, end) /\ t.pos = t.cur
    BY <1>7, <1>8 DEF Loaded, Extent
  <1>12. b = <<>> => n = 0
    BY <1>2, <1>4
  <1>13. Sized(g, x.ahead)
    BY <1>2, <1>4, <1>7 DEF Loaded, Sized
  <1>14. Reached(t, p)
    <2>1. CASE n = 0
      BY <1>3, <1>7, <2>1 DEF Loaded, Reached
    <2>2. CASE n > 0
      <3>1. t.pos \in Nat /\ t.pos <= Total + BlockSize + 1 /\ t.cur = t.pos
        BY <1>2, <1>3, <1>7, <1>8, <2>2, Sizes
      <3>2. t.pos \in Offsets /\ t.cur \in Offsets
        BY <3>1, InOffsets
      <3>. QED
        BY <3>2 DEF Loaded, Reached
    <2>. QED
      BY <1>2, <2>1, <2>2
  <1>. QED
    BY <1>1, <1>5, <1>6, <1>7, <1>9, <1>10, <1>11, <1>12, <1>13, <1>14 DEF Loaded

\* The first k bytes of v move to the end of u.
LEMMA Split ==
    ASSUME NEW u \in Seq(Nat), NEW v \in Seq(Nat), NEW k \in Nat, k <= Len(v)
    PROVE  /\ SubSeq(v, k + 1, Len(v)) \in Seq(Nat)
           /\ Len(SubSeq(v, k + 1, Len(v))) = Len(v) - k
           /\ \A i \in 1..(Len(v) - k) : SubSeq(v, k + 1, Len(v))[i] = v[k + i]
           /\ u \o SubSeq(v, 1, k) \in Seq(Nat)
           /\ Len(u \o SubSeq(v, 1, k)) = Len(u) + k
           /\ \A i \in 1..Len(u) : (u \o SubSeq(v, 1, k))[i] = u[i]
           /\ \A i \in 1..k : (u \o SubSeq(v, 1, k))[Len(u) + i] = v[i]
  <1>1. Len(u) \in Nat /\ Len(v) \in Nat
    OBVIOUS
  <1>2. /\ SubSeq(v, k + 1, Len(v)) \in Seq(Nat)
        /\ Len(SubSeq(v, k + 1, Len(v))) = Len(v) - k
        /\ \A i \in 1..(Len(v) - k) : SubSeq(v, k + 1, Len(v))[i] = v[k + i]
    <2>0. k + 1 \in Nat
      OBVIOUS
    <2>1. PICK m, n : m \in Nat /\ n \in Nat /\ m = k + 1 /\ n = Len(v)
      BY <1>1, <2>0
    <2>2. m >= 1 /\ m <= n + 1 /\ n <= Len(v)
      BY <1>1, <2>1
    <2>3. SubSeq(v, m, n) \in Seq(Nat)
      BY <2>1, <2>2
    <2>4. Len(SubSeq(v, m, n)) = n - m + 1
      BY <2>1, <2>2
    <2>5. \A i \in 1..(n - m + 1) : SubSeq(v, m, n)[i] = v[m + i - 1]
      BY <2>1, <2>2
    <2>6. n - m + 1 = Len(v) - k /\ \A i \in 1..(Len(v) - k) : m + i - 1 = k + i
      BY <1>1, <2>1
    <2>. QED
      BY <2>1, <2>3, <2>4, <2>5, <2>6
  <1>3. /\ SubSeq(v, 1, k) \in Seq(Nat) /\ Len(SubSeq(v, 1, k)) = k
        /\ \A i \in 1..k : SubSeq(v, 1, k)[i] = v[i]
    BY <1>1
  <1>4. ASSUME NEW w \in Seq(Nat)
        PROVE  /\ u \o w \in Seq(Nat) /\ Len(u \o w) = Len(u) + Len(w)
               /\ \A i \in 1..Len(u) : (u \o w)[i] = u[i]
               /\ \A i \in 1..Len(w) : (u \o w)[Len(u) + i] = w[i]
    BY <1>1
  <1>5. PICK w \in Seq(Nat) : w = SubSeq(v, 1, k)
    BY <1>3
  <1>6. /\ u \o w \in Seq(Nat) /\ Len(u \o w) = Len(u) + k
        /\ \A i \in 1..Len(u) : (u \o w)[i] = u[i]
        /\ \A i \in 1..k : (u \o w)[Len(u) + i] = v[i]
    BY <1>3, <1>4, <1>5
  <1>. QED
    BY <1>2, <1>5, <1>6

LEMMA Moved ==
    ASSUME NEW u \in Seq(Nat), NEW v \in Seq(Nat), NEW pos \in Nat, NEW z \in Nat,
           NEW p \in Nat, NEW end \in Nat, NEW k \in Nat, k <= Len(v),
           Buffered(pos, v, u, z, p, end)
    PROVE  Buffered(pos + k, SubSeq(v, k + 1, Len(v)), u \o SubSeq(v, 1, k), z, p, end)
  <1>. DEFINE a == u \o SubSeq(v, 1, k)
              r == SubSeq(v, k + 1, Len(v))
  <1>0. Len(u) \in Nat /\ Len(v) \in Nat
    OBVIOUS
  <1>1. /\ r \in Seq(Nat) /\ Len(r) = Len(v) - k /\ Len(a) = Len(u) + k
        /\ a \in Seq(Nat) /\ Len(u) \in Nat /\ Len(v) \in Nat
    BY <1>0, Split, Zenon
  <1>2. \A i \in 1..(Len(v) - k) : r[i] = v[k + i]
    BY <1>0
  <1>3. /\ \A i \in 1..Len(u) : a[i] = u[i]
        /\ \A i \in 1..k : a[Len(u) + i] = v[i]
    BY Split, ZenonT(30)
  <1>. HIDE DEF a, r
  <1>4. z <= Len(a) /\ pos + k = p + (Len(a) - z) /\ pos = p + (Len(u) - z)
    BY <1>1 DEF Buffered
  <1>5. \A i \in 1..Len(a) : i > z => a[i] = p + (i - z) - 1
    <2>. SUFFICES ASSUME NEW i \in 1..Len(a), i > z PROVE a[i] = p + (i - z) - 1
      OBVIOUS
    <2>1. CASE i <= Len(u)
      BY <2>1, <1>1, <1>3 DEF Buffered
    <2>2. CASE i > Len(u)
      <3>1. PICK j \in 1..k : i = Len(u) + j
        <4>1. i - Len(u) \in 1..k /\ i = Len(u) + (i - Len(u))
          BY <2>2, <1>1
        <4>. QED
          BY <4>1
      <3>2. v[j] = pos + j - 1
        BY <1>1 DEF Buffered
      <3>. QED
        BY <3>1, <3>2, <1>1, <1>3, <1>4
    <2>. QED
      BY <2>1, <2>2, <1>1
  <1>6. \A i \in 1..Len(r) : r[i] = (pos + k) + i - 1
    BY <1>1, <1>2, SMTT(30) DEF Buffered
  <1>7. Len(a) > z \/ r # <<>> => p + (Len(a) - z) + Len(r) <= end
    <2>1. r # <<>> => Len(r) > 0
      BY <1>1
    <2>2. Len(v) > 0 => v # <<>>
      BY <1>1
    <2>3. Len(u) > z \/ Len(v) > 0 => p + (Len(u) - z) + Len(v) <= end
      BY <2>2 DEF Buffered
    <2>4. r = <<>> \/ Len(r) > 0
      BY <2>1
    <2>5. Len(a) > z \/ Len(r) > 0 => Len(u) > z \/ Len(v) > 0
      BY <1>1
    <2>6. p + (Len(a) - z) + Len(r) = p + (Len(u) - z) + Len(v)
      BY <1>1
    <2>. QED
      BY <2>3, <2>4, <2>5, <2>6
  <1>. QED
    BY <1>4, <1>5, <1>6, <1>7 DEF Buffered, a, r

\* The computer takes the first byte of the read-ahead: the byte at the pointer,
\* or one from before the last command.
LEMMA Taken ==
    ASSUME NEW u \in Seq(Nat), NEW v \in Seq(Nat), NEW pos \in Nat, NEW z \in Nat,
           NEW p \in Nat, NEW end \in Nat, Buffered(pos, v, u, z, p, end), u # <<>>
    PROVE  /\ Tail(u) \in Seq(Nat) /\ Len(Tail(u)) = Len(u) - 1
           /\ \A i \in 1..Len(Tail(u)) : Tail(u)[i] = u[i + 1]
           /\ z = 0 => /\ Head(u) = p /\ p < end
                       /\ Buffered(pos, v, Tail(u), 0, p + 1, end)
           /\ z > 0 => Buffered(pos, v, Tail(u), z - 1, p, end)
  <1>1. Len(u) \in Nat /\ Len(u) > 0 /\ Len(v) \in Nat
    OBVIOUS
  <1>2. Head(u) = u[1]
    OBVIOUS
  <1>a. /\ Tail(u) \in Seq(Nat) /\ Len(Tail(u)) = Len(u) - 1
        /\ \A i \in 1..(Len(u) - 1) : Tail(u)[i] = u[i + 1]
    BY <1>1
  <1>3. PICK t \in Seq(Nat) : t = Tail(u) /\ Len(t) = Len(u) - 1
                              /\ \A i \in 1..(Len(u) - 1) : t[i] = u[i + 1]
    BY <1>a, Zenon
  <1>4. /\ z <= Len(u) /\ pos = p + (Len(u) - z)
        /\ \A i \in 1..Len(u) : i > z => u[i] = p + (i - z) - 1
        /\ \A i \in 1..Len(v) : v[i] = pos + i - 1
        /\ Len(u) > z \/ v # <<>> => p + (Len(u) - z) + Len(v) <= end
    BY DEF Buffered
  <1>5. ASSUME z = 0
        PROVE  Head(u) = p /\ p < end /\ Buffered(pos, v, t, 0, p + 1, end)
    <2>0. 1 \in 1..Len(u) /\ 1 > z /\ Len(u) > z
      BY <1>1, <1>5
    <2>a. u[1] = p + (1 - z) - 1 /\ p + (Len(u) - z) + Len(v) <= end
      BY <1>4, <2>0
    <2>1. Head(u) = p /\ p < end
      BY <1>1, <1>2, <1>5, <2>a
    <2>2. \A i \in 1..Len(t) : t[i] = (p + 1) + (i - 0) - 1
      BY <1>1, <1>3, <1>4, <1>5
    <2>3. /\ 0 <= Len(t) /\ pos = (p + 1) + (Len(t) - 0)
          /\ (p + 1) + (Len(t) - 0) + Len(v) <= end
      BY <1>1, <1>3, <1>4, <1>5
    <2>. QED
      BY <1>4, <2>1, <2>2, <2>3 DEF Buffered
  <1>6. ASSUME z > 0 PROVE Buffered(pos, v, t, z - 1, p, end)
    <2>1. \A i \in 1..Len(t) : i > z - 1 => t[i] = p + (i - (z - 1)) - 1
      BY <1>1, <1>3, <1>4, <1>6
    <2>2. z - 1 <= Len(t) /\ pos = p + (Len(t) - (z - 1)) /\ (Len(t) > z - 1 => Len(u) > z)
      BY <1>1, <1>3, <1>4, <1>6
    <2>3. Len(t) > z - 1 \/ v # <<>> => p + (Len(t) - (z - 1)) + Len(v) <= end
      BY <1>1, <1>3, <1>4, <1>6, <2>2
    <2>. QED
      BY <1>4, <2>1, <2>2, <2>3 DEF Buffered
  <1>. QED
    BY <1>1, <1>3, <1>5, <1>6

\* Serve() hands on the bytes that follow; if none are there the end has been
\* reached.
LEMMA ServeLoaded ==
    ASSUME NEW x, NEW z \in Nat, NEW p \in Nat, NEW end \in Nat, Loaded(x, z, p, end),
           NEW n \in Nat \ {0}, Len(x.ahead) + n <= 2
    PROVE  /\ Loaded(Serve(x, n), z, p, end)
           /\ Serve(x, n).ahead = <<>> => Serve(x, n).h.eos
  <1>. DEFINE y == IF x.h.buf = <<>> /\ ~x.h.eos THEN Refill(x) ELSE x
              k == Min({n, Len(y.h.buf)})
              a == y.ahead \o SubSeq(y.h.buf, 1, k)
              r == SubSeq(y.h.buf, k + 1, Len(y.h.buf))
              g == [y.h EXCEPT !.buf = r, !.position = @ + k]
  <1>1. Loaded(y, z, p, end) /\ (y.h.buf = <<>> => y.h.eos) /\ y.ahead = x.ahead
    <2>1. CASE x.h.buf = <<>> /\ ~x.h.eos
      BY <2>1, RefillLoaded
    <2>2. CASE ~(x.h.buf = <<>> /\ ~x.h.eos)
      BY <2>2
    <2>. QED
      BY <2>1, <2>2
  <1>2. Serve(x, n).h = g /\ Serve(x, n).s = y.s /\ Serve(x, n).ahead = a
    BY DEF Serve
  <1>. HIDE DEF y
  <1>3. /\ y.h \in Handler /\ y.s \in Stream /\ y.ahead \in Seq(Nat)
        /\ y.h.buf \in Seq(Nat) /\ y.h.position \in Nat
    BY <1>1 DEF Loaded, Handler
  <1>4. k \in Nat /\ k <= n /\ k <= Len(y.h.buf) /\ (k = n \/ k = Len(y.h.buf))
    <2>1. Len(y.h.buf) \in Nat
      BY <1>3
    <2>. QED
      BY <2>1, MinOfTwo
  <1>. HIDE DEF k
  <1>6. /\ r \in Seq(Nat) /\ Len(r) = Len(y.h.buf) - k
        /\ a \in Seq(Nat) /\ Len(a) = Len(y.ahead) + k
    <2>. DEFINE v == y.h.buf
                u == y.ahead
    <2>1. u \in Seq(Nat) /\ v \in Seq(Nat) /\ k \in Nat /\ k <= Len(v)
      BY <1>3, <1>4
    <2>2. r = SubSeq(v, k + 1, Len(v)) /\ a = u \o SubSeq(v, 1, k)
      OBVIOUS
    <2>. HIDE DEF u, v, a, r
    <2>3. /\ r \in Seq(Nat) /\ Len(r) = Len(v) - k
          /\ a \in Seq(Nat) /\ Len(a) = Len(u) + k
      BY <2>1, <2>2, Split, Zenon
    <2>. QED
      BY <2>3 DEF u, v
  <1>7. \A i \in 1..Len(y.ahead) : a[i] = y.ahead[i]
    <2>1. PICK u \in Seq(Nat), v \in Seq(Nat) : u = y.ahead /\ v = y.h.buf
      BY <1>3
    <2>2. \A i \in 1..Len(u) : (u \o SubSeq(v, 1, k))[i] = u[i]
      BY <1>4, <2>1, Split, ZenonT(30)
    <2>. QED
      BY <2>1, <2>2
  <1>. HIDE DEF a, r
  <1>8. g \in Handler
    <2>1. y.h.position + k \in Nat
      BY <1>3, <1>4, SMTT(30)
    <2>. QED
      BY <1>3, <1>6, <2>1, Zenon DEF Handler
  <1>9. /\ g.buf = r /\ g.position = y.h.position + k /\ g.eos = y.h.eos
        /\ g.base = y.h.base /\ g.window = y.h.window /\ g.full = y.h.full
    BY <1>3 DEF Handler
  <1>. HIDE DEF g
  <1>11. Buffered(g.position, g.buf, a, z, p, end)
    <2>1. Buffered(y.h.position + k, r, a, z, p, end)
      BY <1>1, <1>3, <1>4, Moved DEF Loaded, a, r
    <2>. QED
      BY <1>9, <2>1
  <1>12. Following(g, y.s)
    <2>1. y.h.buf = <<>> => r = <<>>
      BY <1>3, <1>4, <1>6
    <2>2. y.s.cur \in Nat /\ Len(y.h.buf) \in Nat
      BY <1>3, StreamTypes
    <2>3. /\ y.s.cur = y.h.position + Len(y.h.buf)
          /\ y.h.eos => y.h.buf = <<>> /\ (y.s.cur >= y.s.size \/ y.s.cur >= Total)
      BY <1>1 DEF Loaded, Following
    <2>4. y.s.cur = g.position + Len(g.buf)
      <3>1. y.h.position \in Nat /\ g.position = y.h.position + k /\ Len(g.buf) = Len(y.h.buf) - k
        BY <1>3, <1>6, <1>9
      <3>2. PICK m \in Nat, q \in Nat, j \in Nat :
               m = Len(y.h.buf) /\ q = y.h.position /\ j = k
        BY <1>4, <2>2, <3>1, Zenon
      <3>3. y.s.cur = q + m /\ g.position = q + j /\ Len(g.buf) = m - j
        BY <2>3, <3>1, <3>2, Zenon
      <3>4. q + m = (q + j) + (m - j)
        OBVIOUS
      <3>. QED
        BY <3>3, <3>4, Zenon
    <2>. QED
      BY <1>9, <2>1, <2>3, <2>4 DEF Following
  <1>13. Extent(g, y.s, end)
    BY <1>1, <1>9 DEF Loaded, Extent
  <1>14. a = <<>> => g.eos
    <2>. SUFFICES ASSUME a = <<>> PROVE y.h.eos
      BY <1>9
    <2>1. k = 0
      BY <1>3, <1>4, <1>6
    <2>2. y.h.buf = <<>>
      BY <2>1, <1>3, <1>4
    <2>. QED
      BY <2>2, <1>1
  <1>15. Sized(g, a)
    <2>1. Len(y.ahead) \in Nat /\ Len(y.h.buf) \in Nat
      BY <1>3
    <2>2. Len(a) <= 2
      BY <1>1, <1>4, <1>6, <2>1
    <2>3. Len(r) <= BufferSize
      BY <1>1, <1>4, <1>6, <2>1, Sizes DEF Loaded, Sized
    <2>4. end <= Total + BlockSize /\ z <= Len(y.ahead)
      BY <1>1, <1>3, StreamTypes DEF Loaded, Extent, Buffered
    <2>5. ASSUME NEW i \in 1..Len(a) PROVE a[i] \in Offsets
      <3>1. CASE i <= Len(y.ahead)
        <4>1. a[i] = y.ahead[i]
          BY <1>3, <1>7, <3>1, <2>1
        <4>2. y.ahead[i] \in Offsets
          BY <1>1, <3>1, <2>1 DEF Loaded, Sized
        <4>. QED
          BY <4>1, <4>2
      <3>2. CASE i > Len(y.ahead)
        <4>2. Len(r) \in Nat /\ Len(a) \in Nat
          BY <1>6
        <4>3. i > z /\ Len(a) > z
          BY <2>1, <2>4, <3>2, <4>2
        <4>1. a[i] = p + (i - z) - 1 /\ p + (Len(a) - z) + Len(r) <= end
          BY <1>9, <1>11, <4>3 DEF Buffered
        <4>. QED
          BY <2>1, <2>4, <3>2, <4>1, <4>2, Sizes DEF Offsets
      <3>. QED
        BY <1>6, <2>1, <3>1, <3>2
    <2>. QED
      BY <1>1, <1>9, <2>2, <2>3, <2>5 DEF Loaded, Sized
  <1>. QED
    BY <1>1, <1>2, <1>3, <1>6, <1>8, <1>11, <1>12, <1>13, <1>14, <1>15 DEF Loaded

LEMMA FillLoaded ==
    ASSUME NEW x, NEW z \in Nat, NEW p \in Nat, NEW end \in Nat, Loaded(x, z, p, end)
    PROVE  /\ Loaded(FillRound(x), z, p, end)
           /\ FillRound(x).ahead = <<>> => FillRound(x).h.eos
  <1>1. x.ahead \in Seq(Nat) /\ Len(x.ahead) \in Nat
    BY DEF Loaded
  <1>2. CASE Len(x.ahead) < 2
    <2>1. PICK n \in Nat \ {0} : n = 2 - Len(x.ahead) /\ Len(x.ahead) + n <= 2
      <3>1. PICK m \in Nat : m = Len(x.ahead)
        BY <1>1
      <3>2. m < 2
        BY <1>2, <3>1
      <3>3. m = 0 \/ m = 1
        BY <3>2
      <3>4. CASE m = 0
        BY <3>1, <3>4
      <3>5. CASE m = 1
        BY <3>1, <3>5
      <3>. QED
        BY <3>3, <3>4, <3>5
    <2>. QED
      BY <1>2, <2>1, ServeLoaded DEF FillRound
  <1>3. CASE ~(Len(x.ahead) < 2)
    BY <1>1, <1>3 DEF FillRound
  <1>. QED
    BY <1>2, <1>3

-----------------------------------------------------------------------------
(* What the commands do to handler and stream.                             *)

LEMMA RepositionedFields ==
    ASSUME NEW h \in Handler, NEW q \in Nat
    PROVE  /\ repositioned(h, q) \in Handler
           /\ repositioned(h, q).buf = <<>> /\ repositioned(h, q).eos = FALSE
           /\ repositioned(h, q).position = q
           /\ repositioned(h, q).window = h.window /\ repositioned(h, q).full = h.full
           /\ repositioned(h, q).base = h.base
  <1>1. <<>> \in Seq(Nat)
    OBVIOUS
  <1>2. repositioned(h, q) \in Handler
    BY <1>1, Zenon DEF repositioned, Handler
  <1>. QED
    BY <1>2 DEF repositioned, Handler

\* A handler whose window has just been set.
Windowed(h, base, q) ==
    /\ h \in Handler /\ h.buf = <<>> /\ h.eos = FALSE /\ h.position = q
    /\ h.window = TRUE /\ h.base = base

LEMMA WindowFields ==
    ASSUME NEW h \in Handler, NEW base \in 0..Total, NEW q \in Nat, NEW n \in 0..BlockSize
    PROVE  Windowed(setBlockWindow(h, base, q, n), base, q)
  <1>1. PICK g \in Handler : /\ g = repositioned(h, q) /\ g.buf = <<>> /\ g.eos = FALSE
                             /\ g.position = q
    BY RepositionedFields
  <1>2. setBlockWindow(h, base, q, n) = [g EXCEPT !.window = TRUE, !.base = base, !.len = n]
    BY <1>1 DEF setBlockWindow
  <1>3. [g EXCEPT !.window = TRUE, !.base = base, !.len = n] \in Handler
    BY Zenon DEF Handler
  <1>. DEFINE k == [g EXCEPT !.window = TRUE, !.base = base, !.len = n]
  <1>4. /\ k.buf = g.buf /\ k.eos = g.eos /\ k.position = g.position
        /\ k.window = TRUE /\ k.base = base
    BY DEF Handler
  <1>. QED
    BY <1>1, <1>2, <1>3, <1>4 DEF Windowed

LEMMA NewHandlerFields ==
    ASSUME NEW full \in {0, Total}
    PROVE  /\ NewHandler(full) \in Handler
           /\ NewHandler(full).buf = <<>> /\ NewHandler(full).eos = FALSE
           /\ NewHandler(full).position = 0 /\ NewHandler(full).window = TRUE
           /\ NewHandler(full).base = 0
  <1>. DEFINE h == [open |-> TRUE, buf |-> <<>>, eos |-> FALSE, position |-> 0,
                    window |-> FALSE, base |-> 0, len |-> 0, full |-> full]
  <1>1. h \in Handler
    BY Sizes DEF Handler
  <1>2. NewHandler(full) = setBlockWindow(h, 0, 0, BlockSize)
    BY DEF NewHandler
  <1>. HIDE DEF h
  <1>3. 0 \in 0..Total /\ 0 \in Nat /\ BlockSize \in 0..BlockSize
    BY Sizes
  <1>4. PICK g : g = setBlockWindow(h, 0, 0, BlockSize)
    OBVIOUS
  <1>5. PICK x \in Handler, y \in 0..Total, z \in Nat, n \in 0..BlockSize :
           x = h /\ y = 0 /\ z = 0 /\ n = BlockSize
    BY <1>1, <1>3
  <1>6. Windowed(setBlockWindow(x, y, z, n), y, z)
    BY WindowFields
  <1>. QED
    BY <1>2, <1>4, <1>5, <1>6 DEF Windowed

LEMMA SeekFields ==
    ASSUME NEW s \in Stream, NEW q \in Nat
    PROVE  /\ Seek(s, q) \in Stream /\ Seek(s, q).pos = q /\ Seek(s, q).cur = q
           /\ Seek(s, q).size = s.size
  BY DEF Seek, Stream

LEMMA ResizedFields ==
    ASSUME NEW s \in Stream, NEW n \in 0..(Total + BlockSize)
    PROVE  /\ Resized(s, n) \in Stream /\ Resized(s, n).size = n
           /\ Resized(s, n).pos = s.pos /\ Resized(s, n).cur = s.cur
  BY DEF Resized, Stream

LEMMA OpenTypes ==
    /\ \A h \in Handler : h.open = TRUE
    /\ \A s \in Stream : s.open = TRUE
    /\ NoHandler.open = FALSE /\ NoStream.open = FALSE
  BY DEF Handler, Stream, NoHandler, NoStream

-----------------------------------------------------------------------------
(* One channel.                                                            *)

\* Nothing of channel d changes.
Same(d) ==
    /\ handler'[d] = handler[d] /\ stream'[d] = stream[d] /\ ahead'[d] = ahead[d]
    /\ place'[d] = place[d] /\ limit'[d] = limit[d] /\ stale'[d] = stale[d]
    /\ last'[d] = last[d] /\ erred'[d] = erred[d]

LEMMA SameChannel == ASSUME NEW d \in Channels, Channel(d), Same(d) PROVE Channel(d)'
  BY DEF Channel, Same

\* The channel c is the only one a step changes, to h, s, a, z, q, ...
Becomes(c, h, s, a, z, q, end, l, e) ==
    /\ handler' = [handler EXCEPT ![c] = h] /\ stream' = [stream EXCEPT ![c] = s]
    /\ ahead' = [ahead EXCEPT ![c] = a] /\ stale' = [stale EXCEPT ![c] = z]
    /\ place' = [place EXCEPT ![c] = q] /\ limit' = [limit EXCEPT ![c] = end]
    /\ last' = [last EXCEPT ![c] = l] /\ erred' = [erred EXCEPT ![c] = e]

\* What has to be shown of the new values.
Fits(h, s, a, z, q, end, l, e) ==
    /\ h \in Handler /\ s \in Stream /\ a \in Seq(Nat)
    /\ Buffered(h.position, h.buf, a, z, q, end)
    /\ Sized(h, a) /\ Reached(s, q)
    /\ l # "read" => Len(a) = z /\ h.buf = <<>>
    /\ e = 0 => Extent(h, s, end) /\ Following(h, s)
    /\ e = 0 /\ l # "write" => s.pos = s.cur

LEMMA BecomesInv ==
    ASSUME Inv, NEW c \in Channels, NEW h, NEW s, NEW a, NEW z \in Nat, NEW q \in Nat,
           NEW end \in 0..(Total + BlockSize),
           NEW l \in {"none", "read", "write"}, NEW e \in Nat,
           Becomes(c, h, s, a, z, q, end, l, e),
           \/ Fits(h, s, a, z, q, end, l, e)
           \/ h = NoHandler /\ s = NoStream /\ a = <<>> /\ z = 0 /\ q = 0 /\ end = 0,
           count' \in [0..(Blocks - 1) -> Counts], strayed' = strayed, refused' \in BOOLEAN
    PROVE  Inv'
  <1>1. /\ h \in Handler \cup {NoHandler} /\ s \in Stream \cup {NoStream}
        /\ a \in Seq(Nat) /\ h.open = s.open
    <2>1. <<>> \in Seq(Nat)
      OBVIOUS
    <2>. QED
      BY <2>1, OpenTypes, Zenon DEF Fits
  <1>2. Typed'
    BY <1>1 DEF Inv, Typed, Becomes
  <1>3. ASSUME NEW d \in Channels PROVE Channel(d)'
    <2>1. CASE d # c
      <3>1. Same(d)
        BY <2>1 DEF Same, Becomes, Inv, Typed
      <3>. QED
        BY <3>1, SameChannel DEF Inv
    <2>2. CASE d = c
      <3>1. /\ handler'[d] = h /\ stream'[d] = s /\ ahead'[d] = a /\ place'[d] = q
            /\ stale'[d] = z /\ limit'[d] = end /\ last'[d] = l /\ erred'[d] = e
        BY <2>2 DEF Becomes, Inv, Typed
      <3>2. IF h.open THEN Fits(h, s, a, z, q, end, l, e)
            ELSE q = 0 /\ end = 0 /\ a = <<>> /\ z = 0
        BY OpenTypes DEF Fits
      <3>. QED
        BY <3>1, <3>2 DEF Channel, Fits
    <2>. QED
      BY <2>1, <2>2
  <1>. QED
    BY <1>2, <1>3 DEF Inv

\* A channel just moved to q: all that is read ahead is from before.
LEMMA SelectedFits ==
    ASSUME NEW h \in Handler, NEW s \in Stream, NEW a \in Seq(Nat), NEW q \in Nat,
           NEW end \in Nat, NEW z, z = Len(a), Len(a) <= 2,
           \A i \in 1..Len(a) : a[i] \in Offsets,
           h.buf = <<>>, h.eos = FALSE, h.position = q, s.pos = q, s.cur = q,
           Extent(h, s, end), q <= Total + BlockSize + 1
    PROVE  Fits(h, s, a, z, q, end, "none", 0)
  <1>1. Sized(h, a)
    BY Sizes DEF Sized
  <1>2. Reached(s, q)
    BY InOffsets DEF Reached
  <1>3. Buffered(h.position, h.buf, a, z, q, end)
    BY DEF Buffered
  <1>. QED
    BY <1>1, <1>2, <1>3 DEF Fits, Following

LEMMA InitInv == Init => Inv
  <1>. SUFFICES ASSUME Init PROVE Inv
    OBVIOUS
  <1>1. Typed
    <2>1. <<>> \in Seq(Nat) /\ 0 \in Nat /\ 0 \in 0..(Total + BlockSize)
      BY Sizes
    <2>2. /\ handler \in [Channels -> Handler \cup {NoHandler}]
          /\ stream \in [Channels -> Stream \cup {NoStream}]
          /\ \A c \in Channels : handler[c].open = stream[c].open
      BY OpenTypes, Zenon DEF Init
    <2>. QED
      BY <2>1, <2>2 DEF Init, Typed
  <1>2. \A c \in Channels : Channel(c)
    BY OpenTypes DEF Init, Channel
  <1>. QED
    BY <1>1, <1>2 DEF Init, Inv

-----------------------------------------------------------------------------
(* The actions.                                                            *)

LEMMA OpenDirectInv ==
    ASSUME Inv, NEW c \in Channels, NEW w \in BOOLEAN, NEW full \in {0, Total},
           OpenDirect(c, w, full)
    PROVE  Inv'
  <1>. DEFINE s == [open |-> TRUE, writable |-> w, pos |-> 0, cur |-> 0, size |-> BlockSize]
  <1>1. s \in Stream /\ s.pos = 0 /\ s.cur = 0 /\ s.size = BlockSize
    BY Sizes DEF Stream
  <1>2. Becomes(c, NewHandler(full), s, <<>>, 0, 0, BlockSize, "none", 0)
    <2>1. ahead' = [ahead EXCEPT ![c] = <<>>]
      BY DEF OpenDirect
    <2>2. Len(ahead'[c]) = 0
      BY <2>1 DEF Inv, Typed
    <2>. QED
      BY <2>1, <2>2 DEF OpenDirect, Select, Becomes
  <1>. HIDE DEF s
  <1>3. Extent(NewHandler(full), s, BlockSize)
    <2>1. NewHandler(full).window = TRUE /\ NewHandler(full).base = 0
      BY NewHandlerFields, Zenon
    <2>2. s.size <= NewHandler(full).base + BlockSize
      BY <1>1, <2>1, Sizes
    <2>. QED
      BY <1>1, <2>1, <2>2 DEF Extent
  <1>4. Fits(NewHandler(full), s, <<>>, 0, 0, BlockSize, "none", 0)
    <2>1. PICK h \in Handler : h = NewHandler(full)
      BY NewHandlerFields
    <2>2. /\ h.buf = <<>> /\ h.eos = FALSE /\ h.position = 0
          /\ 0 <= Total + BlockSize + 1
      <3>1. /\ h.buf = <<>> /\ h.eos = FALSE /\ h.position = 0
        BY <2>1, NewHandlerFields, Zenon
      <3>. QED
        BY <3>1, Sizes
    <2>a. <<>> \in Seq(Nat) /\ Len(<<>>) = 0 /\ 0 \in Nat /\ BlockSize \in Nat
      BY Sizes
    <2>3. PICK a \in Seq(Nat), q \in Nat, z \in Nat : a = <<>> /\ q = 0 /\ z = 0 /\ z = Len(a)
      BY <2>a, Zenon
    <2>b. \A i \in 1..Len(a) : a[i] \in Offsets
      BY <2>3
    <2>c. Len(a) <= 2 /\ q <= Total + BlockSize + 1
      BY <2>2, <2>3
    <2>4. Fits(h, s, a, z, q, BlockSize, "none", 0)
      BY <1>1, <1>3, <2>1, <2>2, <2>3, <2>a, <2>b, <2>c, SelectedFits
    <2>. QED
      BY <2>1, <2>3, <2>4
  <1>5. count' \in [0..(Blocks - 1) -> Counts] /\ strayed' = strayed /\ refused' \in BOOLEAN
    BY DEF OpenDirect, Select, Inv, Typed
  <1>6. BlockSize \in 0..(Total + BlockSize) /\ 0 \in Nat
    BY Sizes
  <1>. QED
    BY <1>2, <1>4, <1>5, <1>6, BecomesInv

LEMMA GoneInv ==
    ASSUME Inv, NEW c \in Channels, OpenFails(c) \/ Close(c)
    PROVE  Inv'
  <1>1. Becomes(c, NoHandler, NoStream, <<>>, 0, 0, 0, "none", 0)
    <2>1. CASE OpenFails(c)
      <3>1. ahead' = [ahead EXCEPT ![c] = <<>>]
        BY <2>1 DEF OpenFails
      <3>2. Len(ahead'[c]) = 0
        BY <3>1 DEF Inv, Typed
      <3>. QED
        BY <2>1, <3>1, <3>2 DEF OpenFails, Select, Becomes
    <2>2. CASE Close(c)
      <3>1. ahead' = [ahead EXCEPT ![c] = <<>>]
        BY <2>2 DEF Close, Forget, Inv, Typed
      <3>2. Len(ahead'[c]) = 0
        BY <3>1 DEF Inv, Typed
      <3>. QED
        BY <2>2, <3>1, <3>2 DEF Close, Forget, Select, Becomes, Inv, Typed
    <2>. QED
      BY <2>1, <2>2
  <1>2. count' \in [0..(Blocks - 1) -> Counts] /\ strayed' = strayed /\ refused' \in BOOLEAN
    BY DEF OpenFails, Close, Select, Inv, Typed
  <1>3. <<>> \in Seq(Nat) /\ 0 \in Nat /\ 0 \in 0..(Total + BlockSize)
    BY Sizes
  <1>. QED
    BY <1>1, <1>2, <1>3, BecomesInv

LEMMA ResetInv == ASSUME Inv, Reset PROVE Inv'
  <1>0. <<>> \in Seq(Nat) /\ 0 \in Nat /\ 0 \in 0..(Total + BlockSize)
    BY Sizes
  <1>1. /\ handler' = [c \in Channels |-> NoHandler]
        /\ stream' = [c \in Channels |-> NoStream]
        /\ ahead' = [c \in Channels |-> <<>>]
    BY DEF Reset, Forget
  <1>2. Typed'
    <2>1. /\ handler' \in [Channels -> Handler \cup {NoHandler}]
          /\ stream' \in [Channels -> Stream \cup {NoStream}]
          /\ \A c \in Channels : handler'[c].open = stream'[c].open
      BY <1>1, OpenTypes, Zenon
    <2>. QED
      BY <1>0, <1>1, <2>1 DEF Reset, Inv, Typed
  <1>3. \A c \in Channels : Channel(c)'
    BY <1>1, OpenTypes DEF Channel, Reset
  <1>. QED
    BY <1>2, <1>3 DEF Reset, Inv

\* Steps that leave the layers alone.
LEMMA StatusInv ==
    ASSUME Inv, UNCHANGED <<handler, stream, ahead, count, place, limit, stale, last, erred,
                            strayed, refused>>
    PROVE  Inv'
  <1>1. Typed'
    BY DEF Inv, Typed
  <1>2. \A c \in Channels : Channel(c)'
    BY DEF Inv, Channel
  <1>. QED
    BY <1>1, <1>2 DEF Inv

\* What canRead() makes of a channel that may be read.
LEMMA FilledLoaded ==
    ASSUME Inv, Orderly, NEW c \in Channels, handler[c].open, MayGet(c)
    PROVE  /\ Loaded(Filled(c), stale[c], place[c], limit[c])
           /\ Filled(c).ahead = <<>> => Filled(c).h.eos
           /\ last[c] # "write" /\ erred[c] = 0
           /\ stale[c] \in Nat /\ place[c] \in Nat
           /\ limit[c] \in 0..(Total + BlockSize) /\ limit[c] \in Nat
           /\ last[c] \in {"none", "read", "write"}
  <1>. DEFINE x == [h |-> handler[c], s |-> stream[c], ahead |-> ahead[c]]
  <1>1. last[c] # "write" /\ erred[c] = 0
    BY DEF MayGet, Orderly
  <1>2. /\ handler[c] \in Handler /\ stream[c] \in Stream /\ ahead[c] \in Seq(Nat)
        /\ place[c] \in Nat /\ limit[c] \in 0..(Total + BlockSize) /\ stale[c] \in Nat
        /\ last[c] \in {"none", "read", "write"}
    BY OpenTypes DEF Inv, Typed
  <1>3. limit[c] \in Nat
    BY <1>2, Sizes
  <1>4. Loaded(x, stale[c], place[c], limit[c])
    BY <1>1, <1>2 DEF Loaded, Inv, Channel
  <1>5. Filled(c) = FillRound(FillRound(x))
    BY DEF Filled
  <1>. HIDE DEF x
  <1>6. /\ Loaded(FillRound(FillRound(x)), stale[c], place[c], limit[c])
        /\ FillRound(FillRound(x)).ahead = <<>> => FillRound(FillRound(x)).h.eos
    BY <1>2, <1>3, <1>4, FillLoaded
  <1>. QED
    BY <1>1, <1>2, <1>3, <1>5, <1>6

LEMMA AskInv == ASSUME Inv, Orderly, NEW c \in Channels, Ask(c) PROVE Inv'
  <1>. DEFINE x == Filled(c)
              l == IF x.ahead = <<>> THEN last[c] ELSE "read"
  <1>1. handler[c].open /\ MayGet(c)
    BY DEF Ask
  <1>2. /\ Loaded(x, stale[c], place[c], limit[c])
        /\ x.ahead = <<>> => x.h.eos
        /\ last[c] # "write" /\ erred[c] = 0
        /\ stale[c] \in Nat /\ place[c] \in Nat /\ limit[c] \in 0..(Total + BlockSize)
        /\ last[c] \in {"none", "read", "write"}
    BY <1>1, FilledLoaded
  <1>3. Becomes(c, x.h, x.s, x.ahead, stale[c], place[c], limit[c], l, 0)
    BY <1>2 DEF Ask, Becomes, Inv, Typed
  <1>4. count' \in [0..(Blocks - 1) -> Counts] /\ strayed' = strayed /\ refused' \in BOOLEAN
    BY DEF Ask, Inv, Typed
  <1>. HIDE DEF x
  <1>5. l # "read" => Len(x.ahead) = stale[c] /\ x.h.buf = <<>>
    <2>. SUFFICES ASSUME x.ahead = <<>> PROVE Len(x.ahead) = stale[c] /\ x.h.buf = <<>>
      OBVIOUS
    <2>1. Len(x.ahead) = 0 /\ stale[c] <= Len(x.ahead)
      BY <1>2 DEF Loaded, Buffered
    <2>2. x.h.buf = <<>>
      BY <1>2 DEF Loaded, Following
    <2>. QED
      BY <1>2, <2>1, <2>2
  <1>6. Fits(x.h, x.s, x.ahead, stale[c], place[c], limit[c], l, 0)
    BY <1>2, <1>5 DEF Fits, Loaded
  <1>7. l \in {"none", "read", "write"} /\ 0 \in Nat
    BY <1>2
  <1>. HIDE DEF l
  <1>. QED
    BY <1>2, <1>3, <1>4, <1>6, <1>7, BecomesInv

LEMMA GetInv == ASSUME Inv, Orderly, NEW c \in Channels, Get(c) PROVE Inv'
  <1>. DEFINE x == Filled(c)
              none == x.ahead = <<>>
              old == stale[c] > 0
  <1>1. handler[c].open /\ MayGet(c)
    BY DEF Get
  <1>2. /\ Loaded(x, stale[c], place[c], limit[c])
        /\ x.ahead = <<>> => x.h.eos
        /\ last[c] # "write" /\ erred[c] = 0
        /\ stale[c] \in Nat /\ place[c] \in Nat
        /\ limit[c] \in 0..(Total + BlockSize) /\ limit[c] \in Nat
        /\ last[c] \in {"none", "read", "write"}
    BY <1>1, FilledLoaded
  <1>5. /\ handler' = [handler EXCEPT ![c] = x.h]
        /\ stream' = [stream EXCEPT ![c] = x.s]
        /\ ahead' = [ahead EXCEPT ![c] = IF none THEN <<>> ELSE Tail(x.ahead)]
        /\ place' = [place EXCEPT ![c] = IF none \/ old THEN place[c] ELSE place[c] + 1]
        /\ stale' = [stale EXCEPT ![c] = IF old THEN stale[c] - 1 ELSE stale[c]]
        /\ last' = [last EXCEPT ![c] = IF none THEN last[c] ELSE "read"]
        /\ (IF none THEN place[c] >= Min({limit[c], Total})
            ELSE old \/ (Head(x.ahead) = place[c] /\ place[c] < limit[c])) => strayed' = strayed
        /\ UNCHANGED <<count, limit, erred>>
    BY DEF Get
  <1>6. limit' = [limit EXCEPT ![c] = limit[c]] /\ erred' = [erred EXCEPT ![c] = 0]
    BY <1>2, <1>5 DEF Inv, Typed
  <1>7. count' \in [0..(Blocks - 1) -> Counts] /\ refused' \in BOOLEAN
    BY <1>5 DEF Get, Inv, Typed
  <1>. HIDE DEF x
  <1>8. /\ x.h \in Handler /\ x.s \in Stream /\ x.ahead \in Seq(Nat)
        /\ Buffered(x.h.position, x.h.buf, x.ahead, stale[c], place[c], limit[c])
        /\ Extent(x.h, x.s, limit[c]) /\ Following(x.h, x.s) /\ x.s.pos = x.s.cur
        /\ Sized(x.h, x.ahead) /\ Reached(x.s, place[c])
    BY <1>2 DEF Loaded
  <1>9. /\ x.s.cur \in Nat /\ x.s.size \in Nat /\ x.s.size <= Total + BlockSize
        /\ x.h.position \in Nat /\ x.h.buf \in Seq(Nat)
    BY <1>8, StreamTypes, HandlerTypes
  <1>10. CASE none
    <2>0. stale[c] = 0 /\ Len(x.ahead) = 0
      BY <1>2, <1>8, <1>10 DEF Buffered
    <2>1. x.h.buf = <<>> /\ (x.s.cur >= limit[c] \/ x.s.cur >= Total)
      BY <1>2, <1>8, <1>10 DEF Following, Extent
    <2>2. x.s.cur = place[c]
      BY <1>2, <1>8, <1>9, <2>0, <2>1 DEF Following, Buffered
    <2>3. place[c] >= Min({limit[c], Total})
      <3>1. PICK m \in Nat : m = Min({limit[c], Total}) /\ m <= limit[c] /\ m <= Total
        BY <1>2, Sizes, MinOfTwo
      <3>. QED
        BY <3>1, <2>1, <2>2, <1>2, <1>9, Sizes
    <2>4. strayed' = strayed
      BY <1>5, <1>10, <2>3
    <2>a. ~old
      BY <2>0
    <2>5. Becomes(c, x.h, x.s, <<>>, stale[c], place[c], limit[c], last[c], 0)
      BY <1>5, <1>6, <1>10, <2>a DEF Becomes
    <2>6. Fits(x.h, x.s, <<>>, stale[c], place[c], limit[c], last[c], 0)
      BY <1>8, <1>10, <2>0, <2>1 DEF Fits
    <2>7. 0 \in Nat
      OBVIOUS
    <2>. QED
      BY <1>2, <1>7, <2>4, <2>5, <2>6, <2>7, BecomesInv
  <1>11. CASE ~none
    <2>. DEFINE t == Tail(x.ahead)
                q == IF old THEN place[c] ELSE place[c] + 1
                z == IF old THEN stale[c] - 1 ELSE stale[c]
    <2>1. /\ t \in Seq(Nat) /\ Len(t) = Len(x.ahead) - 1
          /\ \A i \in 1..Len(t) : t[i] = x.ahead[i + 1]
          /\ stale[c] = 0 => Head(x.ahead) = place[c] /\ place[c] < limit[c]
          /\ Buffered(x.h.position, x.h.buf, t, z, q, limit[c])
      <3>1. PICK u \in Seq(Nat), v \in Seq(Nat), pos \in Nat, k \in Nat, p \in Nat, end \in Nat :
               /\ u = x.ahead /\ v = x.h.buf /\ pos = x.h.position
               /\ k = stale[c] /\ p = place[c] /\ end = limit[c]
        BY <1>2, <1>8, <1>9
      <3>2. Buffered(pos, v, u, k, p, end) /\ u # <<>>
        BY <1>8, <1>11, <3>1
      <3>3. /\ Tail(u) \in Seq(Nat) /\ Len(Tail(u)) = Len(u) - 1
            /\ \A i \in 1..Len(Tail(u)) : Tail(u)[i] = u[i + 1]
            /\ k = 0 => Head(u) = p /\ p < end /\ Buffered(pos, v, Tail(u), 0, p + 1, end)
            /\ k > 0 => Buffered(pos, v, Tail(u), k - 1, p, end)
        BY <3>2, Taken
      <3>4. k = 0 \/ k > 0
        OBVIOUS
      <3>. QED
        BY <3>1, <3>3, <3>4
    <2>2. strayed' = strayed
      BY <1>2, <1>5, <1>11, <2>1
    <2>3. Becomes(c, x.h, x.s, t, z, q, limit[c], "read", 0)
      BY <1>5, <1>6, <1>11 DEF Becomes
    <2>4. q \in Nat /\ z \in Nat /\ 0 \in Nat
      BY <1>2
    <2>5. q = place[c] \/ (q = place[c] + 1 /\ place[c] < limit[c])
      BY <1>2, <2>1
    <2>. HIDE DEF t, q, z
    <2>6. Fits(x.h, x.s, t, z, q, limit[c], "read", 0)
      <3>1. Sized(x.h, t)
        <4>1. Len(x.ahead) \in Nat /\ Len(t) \in Nat
          BY <1>8, <2>1
        <4>2. \A i \in 1..Len(t) : i + 1 \in 1..Len(x.ahead)
          BY <2>1, <4>1
        <4>. QED
          BY <1>8, <2>1, <4>1, <4>2 DEF Sized
      <3>2. "inside" \in Rules => q \in Offsets
        <4>1. CASE q = place[c]
          BY <1>8, <4>1 DEF Reached
        <4>2. CASE q = place[c] + 1 /\ place[c] < limit[c]
          BY <1>2, <4>2, Sizes DEF Offsets
        <4>. QED
          BY <2>5, <4>1, <4>2
      <3>3. Reached(x.s, q)
        BY <1>8, <3>2 DEF Reached
      <3>. QED
        BY <1>8, <2>1, <3>1, <3>3 DEF Fits
    <2>. QED
      BY <1>2, <1>7, <2>2, <2>3, <2>4, <2>6, BecomesInv
  <1>. QED
    BY <1>10, <1>11

\* A write goes to the pointer: with nothing read since the last command the
\* stream is where the channel is.
LEMMA PutInv == ASSUME Inv, Orderly, NEW c \in Channels, NEW n \in WriteSizes, Put(c, n) PROVE Inv'
  <1>. DEFINE h == WrittenThrough(handler[c], n)
              s == [stream[c] EXCEPT !.cur = @ + n]
  <1>0. n \in Nat
    BY SizeAssumption
  <1>1. handler[c].open /\ last[c] # "read" /\ erred[c] = 0
    BY DEF Put, MayPut, Orderly, Inv, Typed
  <1>2. /\ handler[c] \in Handler /\ stream[c] \in Stream /\ ahead[c] \in Seq(Nat)
        /\ place[c] \in Nat /\ limit[c] \in 0..(Total + BlockSize) /\ stale[c] \in Nat
    BY <1>1, OpenTypes DEF Inv, Typed
  <1>3. /\ Len(ahead[c]) = stale[c] /\ handler[c].buf = <<>>
        /\ handler[c].position = place[c] /\ stream[c].cur = place[c]
        /\ Extent(handler[c], stream[c], limit[c])
        /\ Sized(handler[c], ahead[c]) /\ Reached(stream[c], place[c])
    BY <1>1, <1>2 DEF Inv, Channel, Buffered, Following, Handler
  <1>4. h \in Handler
    <2>1. handler[c].position + n \in Nat /\ <<>> \in Seq(Nat)
      BY <1>0, <1>2, <1>3
    <2>. QED
      BY <1>2, <2>1, Zenon DEF WrittenThrough, Handler
  <1>5. /\ h.buf = <<>> /\ h.eos = FALSE /\ h.position = place[c] + n
        /\ h.window = handler[c].window /\ h.full = handler[c].full
        /\ h.base = handler[c].base
    BY <1>2, <1>3 DEF WrittenThrough, Handler
  <1>6. /\ s \in Stream /\ s.cur = place[c] + n /\ s.size = stream[c].size
        /\ s.pos = stream[c].pos
    <2>1. stream[c].cur + n \in Nat
      BY <1>0, <1>2, <1>3
    <2>2. s \in Stream
      BY <1>2, <2>1, Zenon DEF Stream
    <2>. QED
      BY <1>2, <1>3, <2>2 DEF Stream
  <1>7. /\ handler' = [handler EXCEPT ![c] = h] /\ stream' = [stream EXCEPT ![c] = s]
        /\ place' = [place EXCEPT ![c] = place[c] + n]
        /\ last' = [last EXCEPT ![c] = "write"]
        /\ UNCHANGED <<ahead, limit, stale, erred>>
    BY DEF Put
  <1>8. strayed' = strayed
    BY <1>3 DEF Put
  <1>9. count' \in [0..(Blocks - 1) -> Counts] /\ refused' \in BOOLEAN
    BY DEF Put, Inv, Typed
  <1>. HIDE DEF h, s
  <1>10. Becomes(c, h, s, ahead[c], stale[c], place[c] + n, limit[c], "write", 0)
    BY <1>1, <1>3, <1>7 DEF Becomes, Inv, Typed
  <1>11. Fits(h, s, ahead[c], stale[c], place[c] + n, limit[c], "write", 0)
    <2>1. Buffered(h.position, h.buf, ahead[c], stale[c], place[c] + n, limit[c])
      BY <1>0, <1>2, <1>3, <1>5 DEF Buffered
    <2>2. Extent(h, s, limit[c])
      BY <1>3, <1>5, <1>6 DEF Extent
    <2>3. Following(h, s)
      BY <1>0, <1>2, <1>5, <1>6 DEF Following
    <2>4. Sized(h, ahead[c])
      BY <1>3, <1>5, <1>6, Sizes DEF Sized
    <2>5. Reached(s, place[c] + n)
      <3>1. "inside" \in Rules => place[c] + n <= Total
        BY DEF Put, MayPut
      <3>2. "inside" \in Rules => place[c] + n \in Offsets
        BY <1>0, <1>2, <3>1, Sizes DEF Offsets
      <3>. QED
        BY <1>3, <1>6, <3>2 DEF Reached
    <2>. QED
      BY <1>2, <1>3, <1>4, <1>5, <1>6, <2>1, <2>2, <2>3, <2>4, <2>5 DEF Fits
  <1>12. place[c] + n \in Nat /\ 0 \in Nat
    BY <1>0, <1>2
  <1>. QED
    BY <1>2, <1>8, <1>9, <1>10, <1>11, <1>12, BecomesInv

\* A command selects a window: the buffer was dropped, the read-ahead was not.
LEMMA SelectInv ==
    ASSUME Inv, NEW c \in Channels, NEW h \in Handler, NEW s \in Stream,
           NEW q \in Nat, NEW end \in 0..(Total + BlockSize), handler[c].open,
           h.buf = <<>>, h.eos = FALSE, h.position = q, s.pos = q, s.cur = q,
           Extent(h, s, end), q <= Total + BlockSize + 1,
           handler' = [handler EXCEPT ![c] = h], stream' = [stream EXCEPT ![c] = s],
           UNCHANGED <<ahead, count>>, Select(c, q, end)
    PROVE  Inv'
  <1>1. PICK a \in Seq(Nat), z \in Nat : a = ahead[c] /\ z = Len(a)
    BY DEF Inv, Typed
  <1>2. Becomes(c, h, s, a, z, q, end, "none", 0)
    BY <1>1 DEF Becomes, Select, Inv, Typed
  <1>3. Len(a) <= 2 /\ \A i \in 1..Len(a) : a[i] \in Offsets
    BY <1>1 DEF Inv, Channel, Sized
  <1>4. end \in Nat /\ 0 \in Nat
    BY Sizes
  <1>5. Fits(h, s, a, z, q, end, "none", 0)
    BY <1>1, <1>3, <1>4, SelectedFits
  <1>6. count' \in [0..(Blocks - 1) -> Counts] /\ strayed' = strayed /\ refused' \in BOOLEAN
    BY DEF Select, Inv, Typed
  <1>. QED
    BY <1>1, <1>2, <1>4, <1>5, <1>6, BecomesInv

\* A command fails: pointer and buffers stay, the stream may have moved and have
\* another size, and the channel may have left block mode.
LEMMA FailsInv ==
    ASSUME Inv, NEW c \in Channels, NEW code, NEW h \in Handler, NEW s \in Stream,
           handler[c].open, h.buf = handler[c].buf, h.position = handler[c].position,
           Reached(s, place[c]), refused' \in BOOLEAN,
           handler' = [handler EXCEPT ![c] = h], stream' = [stream EXCEPT ![c] = s],
           Fails(c, code)
    PROVE  Inv'
  <1>1. /\ ahead[c] \in Seq(Nat) /\ place[c] \in Nat /\ stale[c] \in Nat
        /\ limit[c] \in 0..(Total + BlockSize) /\ last[c] \in {"none", "read", "write"}
        /\ erred[c] \in Nat
    BY OpenTypes DEF Inv, Typed
  <1>2. PICK e \in Nat : e = erred[c] + 1 /\ e # 0
    BY <1>1
  <1>3. Becomes(c, h, s, ahead[c], stale[c], place[c], limit[c], last[c], e)
    BY <1>2 DEF Becomes, Fails, Inv, Typed
  <1>4. Fits(h, s, ahead[c], stale[c], place[c], limit[c], last[c], e)
    BY <1>1, <1>2 DEF Fits, Inv, Channel, Sized
  <1>5. count' \in [0..(Blocks - 1) -> Counts] /\ strayed' = strayed
    BY DEF Fails, Inv, Typed
  <1>. QED
    BY <1>1, <1>2, <1>3, <1>4, <1>5, BecomesInv

LEMMA OpenChannel ==
    ASSUME Inv, Orderly, NEW c \in Channels, handler[c].open
    PROVE  /\ handler[c] \in Handler /\ stream[c] \in Stream
           /\ limit[c] \in 0..(Total + BlockSize) /\ limit[c] \in Nat
           /\ MayPoint(c) => Extent(handler[c], stream[c], limit[c])
           /\ Reached(stream[c], place[c])
  <1>1. limit[c] \in 0..(Total + BlockSize)
    BY DEF Inv, Typed
  <1>2. limit[c] \in Nat
    BY <1>1, Sizes
  <1>. QED
    BY <1>1, <1>2, OpenTypes DEF Inv, Typed, Channel, Orderly, MayPoint

\* The blocks sectorByteOffset() admits start inside the image or at its end.
LEMMA BlockOffset == ASSUME NEW b \in 0..Blocks PROVE b * BlockSize \in 0..Total
  BY Sizes DEF Total

\* U1, U2, B-R and B-W that succeed, with a window of n bytes from byte extra of
\* block b.
LEMMA BlockSelectedInv ==
    ASSUME Inv, Orderly, NEW c \in Channels, NEW b \in 0..Blocks, NEW extra \in {0, 1},
           NEW n \in 0..BlockSize, extra + n <= BlockSize, handler[c].open,
           BlockSelected(c, b, extra, n)
    PROVE  Inv'
  <1>. DEFINE base == b * BlockSize
              start == base + extra
              h == setBlockWindow(handler[c], base, start, n)
              r == Resized(stream[c], start + n)
              s == Seek(r, start)
  <1>1. b \in Nat
    BY Sizes
  <1>2. base \in 0..Total
    BY BlockOffset
  <1>. HIDE DEF base
  <1>3. /\ start \in Nat /\ start <= Total + BlockSize + 1
        /\ start + n \in 0..(Total + BlockSize) /\ start + n <= base + BlockSize
    BY <1>2, Sizes
  <1>4. /\ handler' = [handler EXCEPT ![c] = h] /\ stream' = [stream EXCEPT ![c] = s]
        /\ UNCHANGED <<ahead, count>> /\ Select(c, start, start + n)
    BY DEF BlockSelected, SelectWindow, base
  <1>. HIDE DEF start
  <1>5. /\ handler[c] \in Handler /\ stream[c] \in Stream
    BY OpenChannel
  <1>6. /\ h \in Handler /\ h.buf = <<>> /\ h.eos = FALSE /\ h.position = start
        /\ h.window = TRUE /\ h.base = base
    <2>1. PICK hc \in Handler, x \in 0..Total, y \in Nat :
             hc = handler[c] /\ x = base /\ y = start
      BY <1>2, <1>3, <1>5
    <2>2. Windowed(setBlockWindow(hc, x, y, n), x, y)
      BY WindowFields
    <2>. QED
      BY <2>1, <2>2 DEF Windowed
  <1>7. r \in Stream /\ r.size = start + n
    BY <1>3, <1>5, ResizedFields
  <1>. HIDE DEF r, h
  <1>8. s \in Stream /\ s.pos = start /\ s.cur = start /\ s.size = start + n
    BY <1>3, <1>7, SeekFields
  <1>. HIDE DEF s
  <1>9. Extent(h, s, start + n)
    BY <1>3, <1>6, <1>8 DEF Extent
  <1>10. PICK end \in 0..(Total + BlockSize) : end = start + n
    BY <1>3
  <1>. QED
    BY <1>3, <1>4, <1>5, <1>6, <1>8, <1>9, <1>10, SelectInv

LEMMA BlockRefusedInv ==
    ASSUME Inv, Orderly, NEW c \in Channels, NEW b, NEW code, NEW s \in Stream,
           handler[c].open, Reached(s, place[c]), BlockRefused(c, b, code, s)
    PROVE  Inv'
  <1>1. refused' \in BOOLEAN
    BY DEF BlockRefused, Inv
  <1>2. handler' = [handler EXCEPT ![c] = handler[c]] /\ handler[c] \in Handler
    BY OpenTypes DEF BlockRefused, Inv, Typed
  <1>. QED
    BY <1>1, <1>2, FailsInv DEF BlockRefused

\* The stream a block command leaves behind when the container refuses a seek: at
\* some place of the image, with the size of the block that was not reached.
LEMMA TornStream ==
    ASSUME Inv, Orderly, NEW c \in Channels, handler[c].open, NEW q \in Nat,
           q <= Total + BlockSize + 1, NEW n \in 0..(Total + BlockSize)
    PROVE  /\ Resized(stream[c], n) \in Stream /\ Reached(Resized(stream[c], n), place[c])
           /\ Seek(stream[c], q) \in Stream /\ Reached(Seek(stream[c], q), place[c])
           /\ Resized(Seek(stream[c], q), n) \in Stream
           /\ Reached(Resized(Seek(stream[c], q), n), place[c])
  <1>1. PICK s \in Stream : s = stream[c] /\ Reached(s, place[c])
    BY OpenChannel
  <1>2. PICK t \in Stream : t = Seek(s, q) /\ t.pos = q /\ t.cur = q
    BY SeekFields
  <1>3. q \in Offsets
    BY InOffsets
  <1>4. /\ Resized(s, n) \in Stream /\ Resized(s, n).pos = s.pos /\ Resized(s, n).cur = s.cur
        /\ Resized(t, n) \in Stream /\ Resized(t, n).pos = t.pos /\ Resized(t, n).cur = t.cur
    BY ResizedFields
  <1>5. /\ Reached(Resized(s, n), place[c]) /\ Reached(t, place[c])
        /\ Reached(Resized(t, n), place[c])
    BY <1>1, <1>2, <1>3, <1>4 DEF Reached
  <1>. QED
    BY <1>1, <1>2, <1>4, <1>5

LEMMA WholeBlockInv ==
    ASSUME Inv, Orderly, NEW c \in Channels, NEW b \in BlockNumbers, NEW w \in BOOLEAN,
           WholeBlock(c, b, w)
    PROVE  Inv'
  <1>1. handler[c].open /\ stream[c] \in Stream /\ Reached(stream[c], place[c])
    BY OpenChannel DEF WholeBlock
  <1>. DEFINE s == Resized(stream[c], b * BlockSize + BlockSize)
  <1>2. \/ \E code : BlockRefused(c, b, code, stream[c])
        \/ sectorByteOffset(b) # {} /\ \E code : BlockRefused(c, b, code, s)
        \/ sectorByteOffset(b) # {} /\ BlockSelected(c, b, 0, BlockSize)
    BY DEF WholeBlock
  <1>. HIDE DEF s
  <1>3. CASE \E code : BlockRefused(c, b, code, stream[c])
    BY <1>1, <1>3, BlockRefusedInv
  <1>4. ASSUME sectorByteOffset(b) # {}
        PROVE  b \in 0..Blocks /\ b * BlockSize + BlockSize \in 0..(Total + BlockSize)
    <2>1. b \in 0..Blocks
      BY <1>4, Sizes DEF sectorByteOffset, BlockNumbers
    <2>2. PICK q \in 0..Total : q = b * BlockSize
      BY <2>1, BlockOffset
    <2>3. q + BlockSize \in 0..(Total + BlockSize)
      BY Sizes
    <2>. QED
      BY <2>1, <2>2, <2>3
  <1>5. CASE sectorByteOffset(b) # {} /\ \E code : BlockRefused(c, b, code, s)
    <2>1. PICK n \in 0..(Total + BlockSize) : n = b * BlockSize + BlockSize
      BY <1>4, <1>5
    <2>2. 0 \in Nat /\ 0 <= Total + BlockSize + 1
      BY Sizes
    <2>3. Resized(stream[c], n) \in Stream /\ Reached(Resized(stream[c], n), place[c])
      BY <1>1, <2>2, TornStream
    <2>4. s \in Stream /\ Reached(s, place[c])
      BY <2>1, <2>3 DEF s
    <2>. QED
      BY <1>1, <1>5, <2>4, BlockRefusedInv
  <1>6. CASE sectorByteOffset(b) # {} /\ BlockSelected(c, b, 0, BlockSize)
    <2>1. b \in 0..Blocks /\ BlockSize \in 0..BlockSize /\ 0 + BlockSize <= BlockSize
      BY <1>4, <1>6, Sizes
    <2>. QED
      BY <1>1, <1>6, <2>1, BlockSelectedInv
  <1>. QED
    BY <1>2, <1>3, <1>5, <1>6

\* The count byte of B-R is read before the window is set; if it cannot be read
\* the stream has been moved and its size has not, and if the seek behind it is
\* refused both have changed.
LEMMA CountedBlockInv ==
    ASSUME Inv, Orderly, NEW c \in Channels, NEW b \in BlockNumbers, NEW w \in BOOLEAN,
           CountedBlock(c, b, w)
    PROVE  Inv'
  <1>. DEFINE base == b * BlockSize
              s == Seek(stream[c], base)
              t == Resized(Seek(stream[c], base + 1), base + 1 + count[b])
  <1>1. handler[c].open /\ stream[c] \in Stream /\ Reached(stream[c], place[c])
    BY OpenChannel DEF CountedBlock
  <1>2. b \in Nat
    BY Sizes DEF BlockNumbers
  <1>3. base \in Nat
    BY <1>2, Sizes
  <1>4. base \in Nat => s \in Stream /\ s.cur = base
    BY <1>1, SeekFields
  <1>5. \/ \E code : BlockRefused(c, b, code, stream[c])
        \/ sectorByteOffset(b) # {} /\ \E code : BlockRefused(c, b, code, s)
        \/ sectorByteOffset(b) # {} /\ Readable(s, 1) = 1 /\ \E code : BlockRefused(c, b, code, t)
        \/ sectorByteOffset(b) # {} /\ Readable(s, 1) = 1 /\ BlockSelected(c, b, 1, count[b])
    BY DEF CountedBlock
  <1>6. b = Blocks => base = Total
    BY DEF Total
  <1>. HIDE DEF base, s, t
  <1>7. CASE \E code : BlockRefused(c, b, code, stream[c])
    BY <1>1, <1>7, BlockRefusedInv
  <1>8. CASE sectorByteOffset(b) # {} /\ \E code : BlockRefused(c, b, code, s)
    <2>1. b \in 0..Blocks
      BY <1>2, <1>8, Sizes DEF sectorByteOffset
    <2>2. base \in Nat /\ base <= Total + BlockSize + 1 /\ 0 \in 0..(Total + BlockSize)
      BY <2>1, BlockOffset, Sizes DEF base
    <2>3. Seek(stream[c], base) \in Stream /\ Reached(Seek(stream[c], base), place[c])
      BY <1>1, <2>2, TornStream
    <2>. QED
      BY <1>1, <1>8, <2>3, BlockRefusedInv DEF s
  <1>9. ASSUME sectorByteOffset(b) # {}, Readable(s, 1) = 1
        PROVE  b \in 0..(Blocks - 1) /\ count[b] \in 0..BlockSize /\ 1 + count[b] <= BlockSize
    <2>1. b <= Blocks
      BY <1>9 DEF sectorByteOffset
    <2>2. s.cur < Total
      BY <1>3, <1>4, <1>9, ReadableBound
    <2>3. b \in 0..(Blocks - 1)
      BY <1>2, <1>3, <1>4, <1>6, <2>1, <2>2, Sizes
    <2>. QED
      BY <2>3, Sizes DEF Inv, Typed, Counts
  <1>10. CASE sectorByteOffset(b) # {} /\ Readable(s, 1) = 1 /\ \E code : BlockRefused(c, b, code, t)
    <2>1. b \in 0..Blocks /\ count[b] \in 0..BlockSize /\ 1 + count[b] <= BlockSize
      BY <1>9, <1>10, Sizes
    <2>2. base \in 0..Total
      BY <2>1, BlockOffset DEF base
    <2>3. PICK q \in Nat, n \in 0..(Total + BlockSize) :
             q = base + 1 /\ q <= Total + BlockSize + 1 /\ n = base + 1 + count[b]
      BY <2>1, <2>2, Sizes
    <2>4. /\ Resized(Seek(stream[c], q), n) \in Stream
          /\ Reached(Resized(Seek(stream[c], q), n), place[c])
      BY <1>1, <2>3, TornStream
    <2>5. t \in Stream /\ Reached(t, place[c])
      BY <2>3, <2>4 DEF t
    <2>. QED
      BY <1>1, <1>10, <2>5, BlockRefusedInv
  <1>11. CASE sectorByteOffset(b) # {} /\ Readable(s, 1) = 1 /\ BlockSelected(c, b, 1, count[b])
    <2>1. b \in 0..Blocks /\ count[b] \in 0..BlockSize /\ 1 + count[b] <= BlockSize
      BY <1>9, <1>11, Sizes
    <2>. QED
      BY <1>1, <1>11, <2>1, BlockSelectedInv
  <1>. QED
    BY <1>5, <1>7, <1>8, <1>10, <1>11

LEMMA BufferPointerInv ==
    ASSUME Inv, Orderly, NEW c \in Channels, NEW q \in 0..BlockSize, BufferPointer(c, q)
    PROVE  Inv'
  <1>. DEFINE target == handler[c].base + q
              h == repositioned(handler[c], target)
              s == Seek(stream[c], target)
  <1>1. /\ handler[c].open /\ handler[c] \in Handler /\ stream[c] \in Stream
        /\ limit[c] \in 0..(Total + BlockSize) /\ Extent(handler[c], stream[c], limit[c])
        /\ Reached(stream[c], place[c])
    BY OpenChannel DEF BufferPointer
  <1>2. target \in Nat /\ target <= Total + BlockSize + 1
    <2>1. handler[c].base \in 0..Total
      BY <1>1 DEF Handler
    <2>2. q \in Nat /\ q <= BlockSize
      BY Sizes
    <2>. QED
      BY <2>1, <2>2, Sizes
  <1>3. \/ /\ handler' = [handler EXCEPT ![c] = h] /\ stream' = [stream EXCEPT ![c] = s]
           /\ UNCHANGED <<ahead, count>> /\ Select(c, target, limit[c])
        \/ handler' = handler /\ stream' = stream /\ refused' = refused /\ Fails(c, "syntax")
    BY DEF BufferPointer
  <1>. HIDE DEF target
  <1>4. /\ h \in Handler /\ h.buf = <<>> /\ h.eos = FALSE /\ h.position = target
        /\ h.window = handler[c].window /\ h.full = handler[c].full
        /\ h.base = handler[c].base
    BY <1>1, <1>2, RepositionedFields
  <1>5. s \in Stream /\ s.pos = target /\ s.cur = target /\ s.size = stream[c].size
    BY <1>1, <1>2, SeekFields
  <1>. HIDE DEF h, s
  <1>6. Extent(h, s, limit[c])
    BY <1>1, <1>4, <1>5 DEF Extent
  <1>7. CASE handler' = handler /\ stream' = stream /\ refused' = refused /\ Fails(c, "syntax")
    <2>1. /\ stream' = [stream EXCEPT ![c] = stream[c]] /\ refused' \in BOOLEAN
          /\ handler' = [handler EXCEPT ![c] = handler[c]]
      BY <1>7 DEF Inv, Typed
    <2>. QED
      BY <1>1, <1>7, <2>1, FailsInv
  <1>. QED
    BY <1>1, <1>2, <1>3, <1>4, <1>5, <1>6, <1>7, SelectInv

\* F-P: the extent it puts back is the one the program counts with.
LEMMA FilePointerInv ==
    ASSUME Inv, Orderly, NEW c \in Channels, NEW q \in 0..(Total + 1), FilePointer(c, q)
    PROVE  Inv'
  <1>. DEFINE h == [handler[c] EXCEPT !.window = FALSE]
              g == repositioned(h, q)
              n == FullExtent(handler[c], stream[c])
              r == Resized(stream[c], n)
              s == Seek(r, q)
              end == IF h.full > 0 THEN Total ELSE limit[c]
  <1>1. /\ handler[c].open /\ handler[c] \in Handler /\ stream[c] \in Stream
        /\ limit[c] \in 0..(Total + BlockSize) /\ limit[c] \in Nat
        /\ Extent(handler[c], stream[c], limit[c]) /\ Reached(stream[c], place[c])
    BY OpenChannel DEF FilePointer
  <1>2. q \in Nat /\ q <= Total + BlockSize + 1
    BY Sizes
  <1>3. \/ /\ handler' = [handler EXCEPT ![c] = h] /\ stream' = [stream EXCEPT ![c] = r]
           /\ Fails(c, "syntax") /\ refused' = refused
        \/ /\ handler' = [handler EXCEPT ![c] = g] /\ stream' = [stream EXCEPT ![c] = s]
           /\ UNCHANGED <<ahead, count>> /\ Select(c, q, end)
    BY DEF FilePointer
  <1>4. h \in Handler
    BY <1>1, Zenon DEF Handler
  <1>5. /\ h.buf = handler[c].buf /\ h.position = handler[c].position
        /\ h.window = FALSE /\ h.full = handler[c].full
    BY <1>1 DEF Handler
  <1>. HIDE DEF h
  <1>6. /\ g \in Handler /\ g.buf = <<>> /\ g.eos = FALSE /\ g.position = q
        /\ g.full = handler[c].full /\ g.window = FALSE
    BY <1>2, <1>4, <1>5, RepositionedFields
  <1>. HIDE DEF g
  <1>7. n = end /\ end \in Nat /\ (handler[c].full > 0 => end = Total)
    <2>1. handler[c].full \in {0, Total} /\ handler[c].window \in BOOLEAN
      BY <1>1 DEF Handler
    <2>2. /\ limit[c] = stream[c].size
          /\ ~handler[c].window /\ handler[c].full > 0 => stream[c].size = Total
      BY <1>1 DEF Extent
    <2>3. CASE handler[c].full > 0
      <3>1. handler[c].full = Total
        BY <2>1, <2>3, Sizes
      <3>. QED
        BY <1>5, <2>2, <2>3, <3>1, Sizes DEF FullExtent
    <2>4. CASE ~(handler[c].full > 0)
      BY <1>1, <1>5, <2>2, <2>4 DEF FullExtent
    <2>. QED
      BY <2>3, <2>4
  <1>8. end \in 0..(Total + BlockSize)
    BY <1>1, <1>7, Sizes
  <1>. HIDE DEF n, end
  <1>9. r \in Stream /\ r.size = n /\ Reached(r, place[c])
    BY <1>1, <1>7, <1>8, ResizedFields DEF Reached
  <1>. HIDE DEF r
  <1>10. s \in Stream /\ s.pos = q /\ s.cur = q /\ s.size = n
    BY <1>2, <1>9, SeekFields
  <1>. HIDE DEF s
  <1>11. Extent(g, s, end)
    BY <1>6, <1>7, <1>10 DEF Extent
  <1>12. CASE /\ handler' = [handler EXCEPT ![c] = h] /\ stream' = [stream EXCEPT ![c] = r]
              /\ Fails(c, "syntax") /\ refused' = refused
    <2>1. refused' \in BOOLEAN
      BY <1>12 DEF Inv
    <2>. QED
      BY <1>1, <1>4, <1>5, <1>9, <1>12, <2>1, FailsInv
  <1>. QED
    BY <1>1, <1>2, <1>3, <1>6, <1>8, <1>10, <1>11, <1>12, SelectInv

LEMMA CommandInv == ASSUME Inv, Orderly, NEW c \in Channels, Command(c) PROVE Inv'
  <1>1. CASE NoChannel(c)
    BY <1>1, StatusInv DEF NoChannel, history
  <1>. QED
    BY <1>1, WholeBlockInv, CountedBlockInv, BufferPointerInv, FilePointerInv DEF Command

LEMMA NextInv == ASSUME Inv, Orderly, [Next]_vars PROVE Inv'
  <1>1. CASE \E c \in Channels : Unopened(c)
    BY <1>1, StatusInv DEF Unopened, history
  <1>2. CASE ReadStatus
    BY <1>2, StatusInv DEF ReadStatus, history
  <1>3. CASE UNCHANGED vars
    BY <1>3, StatusInv DEF vars, impl, history
  <1>. QED
    BY <1>1, <1>2, <1>3, OpenDirectInv, GoneInv, AskInv, GetInv, PutInv, CommandInv, ResetInv DEF Next

-----------------------------------------------------------------------------
(* The bounds of TypeOK.                                                   *)

\* What is buffered lies before the end of the window, so the positions of a
\* channel are bounded by its pointer and its window.
LEMMA ChannelBounds ==
    ASSUME Inv, "inside" \in Rules, NEW c \in Channels, handler[c].open
    PROVE  /\ Range(handler[c].buf) \subseteq Offsets
           /\ Len(handler[c].buf) <= BufferSize
           /\ handler[c].position \in Offsets /\ handler[c].base \in Offsets
           /\ handler[c].len \in 0..BlockSize
           /\ stream[c].pos \in Offsets /\ stream[c].cur \in Offsets
           /\ stream[c].size \in Offsets
           /\ handler[c].window /\ erred[c] = 0
                 => stream[c].size <= handler[c].base + BlockSize
           /\ stale[c] \in 0..Len(ahead[c])
           /\ ahead[c] \in UNION {[1..n -> Offsets] : n \in 0..2}
           /\ place[c] \in Offsets /\ limit[c] \in Offsets
  <1>1. /\ handler[c] \in Handler /\ stream[c] \in Stream /\ ahead[c] \in Seq(Nat)
        /\ place[c] \in Nat /\ stale[c] \in Nat /\ limit[c] \in 0..(Total + BlockSize)
    BY OpenTypes DEF Inv, Typed
  <1>2. /\ Sized(handler[c], ahead[c]) /\ Reached(stream[c], place[c])
        /\ Buffered(handler[c].position, handler[c].buf, ahead[c], stale[c], place[c], limit[c])
        /\ handler[c].window /\ erred[c] = 0 => stream[c].size <= handler[c].base + BlockSize
    BY DEF Inv, Channel, Extent
  <1>3. PICK a \in Seq(Nat), b \in Seq(Nat), z \in Nat, q \in Nat,
             end \in 0..(Total + BlockSize), pos \in Nat :
           /\ a = ahead[c] /\ b = handler[c].buf /\ z = stale[c] /\ q = place[c]
           /\ end = limit[c] /\ pos = handler[c].position
    BY <1>1, <1>2 DEF Handler, Stream
  <1>4. /\ Buffered(pos, b, a, z, q, end) /\ Len(b) <= BufferSize /\ Len(a) <= 2
        /\ q \in Offsets /\ \A i \in 1..Len(a) : a[i] \in Offsets
    BY <1>2, <1>3 DEF Sized, Reached
  <1>5. Len(a) \in Nat /\ Len(b) \in Nat
    OBVIOUS
  <1>6. pos \in Offsets
    <2>1. CASE Len(a) = z
      BY <1>4, <1>5, <2>1 DEF Buffered
    <2>2. CASE Len(a) > z
      BY <1>4, <1>5, <2>2, Sizes DEF Buffered, Offsets
    <2>. QED
      BY <1>4, <1>5, <2>1, <2>2 DEF Buffered
  <1>7. \A i \in 1..Len(b) : b[i] \in Offsets
    <2>. SUFFICES ASSUME NEW i \in 1..Len(b) PROVE b[i] \in Offsets
      OBVIOUS
    <2>1. b[i] = pos + i - 1 /\ pos = q + (Len(a) - z) /\ pos + Len(b) <= end
      BY <1>4, <1>5 DEF Buffered
    <2>. QED
      BY <1>5, <2>1, Sizes DEF Offsets
  <1>8. z \in 0..Len(a) /\ stream[c].size \in Offsets
    <2>1. stream[c].size \in 0..(Total + BlockSize)
      BY <1>1, StreamTypes
    <2>. QED
      BY <1>4, <1>5, <2>1, Sizes DEF Buffered, Offsets
  <1>9. a \in [1..Len(a) -> Offsets] /\ Len(a) \in 0..2
    <2>1. a \in [1..Len(a) -> Nat]
      OBVIOUS
    <2>2. a \in [1..Len(a) -> Offsets]
      BY <1>4, <2>1, Zenon
    <2>. QED
      BY <1>4, <1>5, <2>2
  <1>10. Range(b) \subseteq Offsets
    BY <1>7 DEF Range
  <1>11. end \in Offsets
    BY Sizes DEF Offsets
  <1>12. handler[c].base \in Offsets /\ handler[c].len \in 0..BlockSize
    <2>1. handler[c].base \in Nat /\ handler[c].base <= Total
      BY <1>1, HandlerTypes
    <2>. QED
      BY <1>1, <2>1, HandlerTypes, Sizes DEF Offsets
  <1>13. ahead[c] \in UNION {[1..n -> Offsets] : n \in 0..2}
    BY <1>3, <1>9
  <1>. QED
    BY <1>2, <1>3, <1>4, <1>6, <1>8, <1>10, <1>11, <1>12, <1>13 DEF Reached, Sized

LEMMA InvBounds == ASSUME "inside" \in Rules PROVE Inv => TypeOK
  <1>. SUFFICES ASSUME Inv PROVE TypeOK
    OBVIOUS
  <1>0. 0 \in Offsets
    BY Sizes DEF Offsets
  <1>1. ASSUME NEW c \in Channels
        PROVE  place[c] \in Offsets /\ limit[c] \in Offsets
    BY <1>0, ChannelBounds DEF Inv, Channel
  <1>2. ASSUME NEW c \in Channels
        PROVE  ahead[c] \in UNION {[1..n -> Offsets] : n \in 0..2}
    <2>1. CASE handler[c].open
      BY <2>1, ChannelBounds
    <2>2. CASE ~handler[c].open
      <3>1. ahead[c] = <<>>
        BY <2>2 DEF Inv, Channel
      <3>2. <<>> \in [1..0 -> Offsets]
        OBVIOUS
      <3>. QED
        BY <3>1, <3>2
    <2>. QED
      BY <2>1, <2>2
  <1>3. ahead \in [Channels -> UNION {[1..n -> Offsets] : n \in 0..2}]
    BY <1>2, Zenon DEF Inv, Typed
  <1>4. {place[c] : c \in Channels} \cup {limit[c] : c \in Channels} \subseteq Offsets
    BY <1>1
  <1>5. \A c \in Channels : handler[c].open = stream[c].open
    BY DEF Inv, Typed
  <1>6. \A c \in Channels : handler[c].open =>
           /\ Range(handler[c].buf) \subseteq Offsets
           /\ Len(handler[c].buf) <= BufferSize
           /\ {handler[c].position, handler[c].base} \subseteq Offsets
           /\ handler[c].len \in 0..BlockSize
           /\ {stream[c].pos, stream[c].cur, stream[c].size} \subseteq Offsets
           /\ handler[c].window /\ erred[c] = 0
                 => stream[c].size <= handler[c].base + BlockSize
    BY ChannelBounds
  <1>7. \A c \in Channels : stale[c] \in 0..Len(ahead[c])
    <2>. SUFFICES ASSUME NEW c \in Channels PROVE stale[c] \in 0..Len(ahead[c])
      OBVIOUS
    <2>1. CASE ~handler[c].open
      <3>1. ahead[c] = <<>> /\ stale[c] = 0
        BY <2>1 DEF Inv, Channel
      <3>. QED
        BY <3>1
    <2>. QED
      BY <2>1, ChannelBounds
  <1>. QED
    BY <1>3, <1>4, <1>5, <1>6, <1>7 DEF TypeOK, Inv, Typed

-----------------------------------------------------------------------------
(* Theorems.                                                               *)

\* The layers of an open channel follow the pointer of the program in every
\* reachable state.
THEOREM Invariance == ASSUME Orderly PROVE Spec => []Inv
  <1>1. Inv /\ [Next]_vars => Inv'
    BY NextInv
  <1>. QED
    BY InitInv, <1>1, PTL DEF Spec

\* Whatever a program that keeps the rules reads, writes and selects, the
\* buffers of the channel handler and of IECFileDevice stay within their sizes,
\* no position leaves the image by more than a block, and a window never reaches
\* behind its block.
THEOREM ChannelTypes ==
    ASSUME Orderly, "inside" \in Rules
    PROVE  Spec => []TypeOK
  <1>1. Inv => TypeOK
    BY InvBounds
  <1>. QED
    BY Invariance, <1>1, PTL

\* Every GET# on a direct-access channel returns the byte at the pointer of the
\* program, up to the end of its window and not behind it, for any block size,
\* buffer size and number of channels, except that the bytes IECFileDevice had
\* read ahead before a block command, two at most, come first.  The command may
\* come at any time, in the middle of a block with the channel's buffer full: the
\* buffer is dropped (iecChannelHandler::repositioned, setBlockWindow).
THEOREM ReadsRight == ASSUME Orderly PROVE Spec => []ReadsInPlace
  <1>1. Inv => ReadsInPlace
    BY DEF Inv, ReadsInPlace
  <1>. QED
    BY Invariance, <1>1, PTL

\* Every PRINT# lands at the pointer of the program (iecChannelHandlerFile::write
\* goes through to a stream that is where the last command has put it).
THEOREM WritesRight == ASSUME Orderly PROVE Spec => []WritesInPlace
  <1>1. Inv => WritesInPlace
    BY DEF Inv, WritesInPlace
  <1>. QED
    BY Invariance, <1>1, PTL

\* The position a channel reports, its read-ahead, its buffer and the stream
\* below it agree in every reachable state (drive.h:74-87).
THEOREM PositionsRight == ASSUME Orderly PROVE Spec => []PositionsAgree
  <1>1. Inv => PositionsAgree
    BY DEF Inv, Channel, Buffered, Following, PositionsAgree
  <1>. QED
    BY Invariance, <1>1, PTL
=============================================================================

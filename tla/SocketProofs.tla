----------------------------- MODULE SocketProofs -----------------------------
(***************************************************************************)
(* Proofs about the connection table of a Socket (src/socket/mod.rs): for  *)
(* any peers, timeout, frame times and messages, without the bounds on     *)
(* what happens in a behaviour.                                            *)
(***************************************************************************)
EXTENDS Socket, OperatorProofs

-----------------------------------------------------------------------------
(* The smaller and the larger of two numbers *)

LEMMA MinOfTwo ==
    ASSUME NEW i \in Nat, NEW j \in Nat
    PROVE  Min({i, j}) = IF i <= j THEN i ELSE j
<1>1. {i, j} \subseteq Nat /\ {i, j} # {}
  OBVIOUS
<1>2. Min({i, j}) \in {i, j} /\ \A y \in {i, j} : Min({i, j}) <= y
  BY <1>1, MinIsLeast
<1> QED
  BY <1>2

LEMMA MaxOfTwo ==
    ASSUME NEW i \in Int, NEW j \in Int
    PROVE  Max({i, j}) = IF i <= j THEN j ELSE i
<1>1. \E x \in {i, j} : \A y \in {i, j} : x >= y
  BY DEF Max
<1>2. Max({i, j}) \in {i, j} /\ \A y \in {i, j} : Max({i, j}) >= y
  BY <1>1 DEF Max
<1> QED
  BY <1>2

\* What a frame counts for.
LEMMA CappedIsNat == ASSUME NEW dt \in Deltas PROVE Capped(dt) \in Nat
<1>1. dt \in Nat /\ MaxDelta \in Nat
  BY SocketAssumption
<1> QED
  BY <1>1, MinOfTwo DEF Capped

-----------------------------------------------------------------------------
(* Connections *)

\* A new connection is one, and has nothing to give out.
LEMMA NewConnectionFacts ==
    /\ NewConnection \in ConnectionType
    /\ NewConnection.left = HeartbeatTimeout
    /\ Ready(NewConnection) = {}
<1>1. HeartbeatTimeout \in 0 .. HeartbeatTimeout
  BY SocketAssumption
<1>2. NewSlidingWindow \in SlidingWindows
  BY NewSlidingWindowFacts
<1> QED
  BY <1>1, <1>2 DEF NewConnection, ConnectionType, Ready

\* The timer of a connection is the time it had less the time of the frame.
LEMMA LaterFacts ==
    ASSUME NEW c \in ConnectionType, NEW dt \in Deltas
    PROVE  /\ Later(c, dt) \in ConnectionType
           /\ Later(c, dt).left
                = IF c.left <= Capped(dt) THEN 0 ELSE c.left - Capped(dt)
<1> DEFINE gone == Capped(dt)
           rest == Max({0, c.left - gone})
<1>1. c.left \in 0 .. HeartbeatTimeout /\ gone \in Nat /\ HeartbeatTimeout \in Nat
  BY CappedIsNat, SocketAssumption DEF ConnectionType
<1>2. Later(c, dt) = [c EXCEPT !.left = rest]
  BY DEF Later
<1> HIDE DEF gone
<1>3. rest = IF c.left <= gone THEN 0 ELSE c.left - gone
  <2>1. 0 \in Int /\ c.left - gone \in Int
    BY <1>1
  <2> QED
    BY <1>1, <2>1, MaxOfTwo
<1> HIDE DEF rest
<1>4. rest \in 0 .. HeartbeatTimeout
  BY <1>1, <1>3
<1>5. Later(c, dt) \in ConnectionType
  BY <1>2, <1>4 DEF ConnectionType
<1>6. Later(c, dt).left = rest
  BY <1>2 DEF ConnectionType
<1> QED
  BY <1>3, <1>5, <1>6 DEF gone

\* To take a message leaves the timer alone.
LEMMA TakeFacts ==
    ASSUME NEW c \in ConnectionType, NEW m \in Message
    PROVE  Take(c, m) \in ConnectionType /\ Take(c, m).left = c.left
<1>1. /\ c.taken \in Seq(Message) /\ c.window \in SlidingWindows
      /\ Append(c.taken, m) \in Seq(Message)
  BY DEF ConnectionType
<1>2. SlidingMark(c.window, m.id) \in SlidingWindows
  BY <1>1, SlidingMarkFacts
<1>3. \/ Take(c, m) = [c EXCEPT !.taken = Append(@, m)]
      \/ Take(c, m) = [c EXCEPT !.taken = Append(@, m),
                                !.window = SlidingMark(@, m.id)]
      \/ Take(c, m) = c
  BY DEF Take
<1> QED
  BY <1>1, <1>2, <1>3 DEF ConnectionType

\* Nor do the messages of a packet, one by one.
LEMMA TakeAllFacts ==
    ASSUME NEW c \in ConnectionType, NEW ms \in Seq(Message)
    PROVE  TakeAll(c, ms) \in ConnectionType /\ TakeAll(c, ms).left = c.left
<1> DEFINE C == {d \in ConnectionType : d.left = c.left}
           n == Len(ms)
           step == [p \in (1 .. n) \X C |-> Take(p[2], ms[p[1]])]
           Body(g) == [i \in 0 .. n |->
                          IF i = 0 THEN c ELSE Take(g[i - 1], ms[i])]
           h == CHOOSE g : g = Body(g)
<1>1. n \in Nat /\ c \in C /\ n \in 0 .. n
  OBVIOUS
<1>2. \A i \in 1 .. n : ms[i] \in Message
  OBVIOUS
<1>3. \A d \in C, i \in 1 .. n : Take(d, ms[i]) \in C
  BY <1>2, TakeFacts
<1>4. step \in [(1 .. n) \X C -> C]
  BY <1>3
<1>5. \A d \in C, i \in 1 .. n : step[<<i, d>>] = Take(d, ms[i])
  OBVIOUS
<1> HIDE DEF step, C
<1>6. PICK f \in [0 .. n -> C] : Iterates(f, c, step, n)
  <2> HIDE DEF n
  <2> QED
    BY <1>1, <1>4, RecursionExists
<1>7. f = Body(f)
  <2>1. f[0] = c /\ \A i \in 1 .. n : f[i] = Take(f[i - 1], ms[i])
    <3>1. \A i \in 1 .. n : f[i - 1] \in C
      BY <1>1, <1>6
    <3> QED
      BY <1>5, <1>6, <3>1 DEF Iterates
  <2>2. \A i \in 0 .. n : i = 0 \/ i \in 1 .. n
    BY <1>1
  <2>3. \A i \in 0 .. n : f[i] = IF i = 0 THEN c ELSE Take(f[i - 1], ms[i])
    BY <2>1, <2>2
  <2> QED
    BY <1>6, <2>3
<1>8. h = Body(h)
  BY <1>7
<1>9. TakeAll(c, ms) = h[n]
  BY DEF TakeAll
<1> HIDE DEF h
<1>10. h[0] = c /\ \A i \in 1 .. n : h[i] = Take(h[i - 1], ms[i])
  <2>1. \A i \in 0 .. n : h[i] = IF i = 0 THEN c ELSE Take(h[i - 1], ms[i])
    BY <1>8, Zenon
  <2>2. 0 \in 0 .. n /\ \A i \in 1 .. n : i \in 0 .. n /\ i # 0
    BY <1>1
  <2> QED
    BY <2>1, <2>2
<1> DEFINE Bad == {i \in 0 .. n : h[i] \notin C}
<1>11. Bad = {}
  <2> SUFFICES ASSUME Bad # {} PROVE FALSE
    OBVIOUS
  <2>1. PICK i \in Bad : \A j \in Bad : i <= j
    <3>1. Bad \subseteq Nat
      OBVIOUS
    <3> HIDE DEF Bad
    <3> QED
      BY <3>1, NatLeast
  <2>2. i \in 0 .. n /\ h[i] \notin C
    OBVIOUS
  <2>3. i # 0
    BY <1>1, <1>10, <2>2
  <2>4. i \in 1 .. n /\ i - 1 \in 0 .. n /\ ~ (i <= i - 1)
    BY <2>2, <2>3
  <2>5. h[i - 1] \in C
    BY <2>1, <2>4
  <2> QED
    BY <1>3, <1>10, <2>2, <2>4, <2>5
<1>12. h[n] \in C
  BY <1>1, <1>11
<1> QED
  BY <1>9, <1>12 DEF C

\* A connection that was heard has all its time again.
LEMMA HearFacts ==
    ASSUME NEW c \in ConnectionType, NEW ms \in Seq(Message)
    PROVE  Hear(c, ms) \in ConnectionType /\ Hear(c, ms).left = HeartbeatTimeout
<1> DEFINE d == [c EXCEPT !.left = HeartbeatTimeout]
<1>1. HeartbeatTimeout \in 0 .. HeartbeatTimeout
  BY SocketAssumption
<1>2. d \in ConnectionType /\ d.left = HeartbeatTimeout
  BY <1>1 DEF ConnectionType
<1>3. Hear(c, ms) = TakeAll(d, ms)
  BY DEF Hear
<1> HIDE DEF d
<1> QED
  BY <1>2, <1>3, TakeAllFacts

\* A message given out is no longer kept.
LEMMA GivesOutFacts ==
    ASSUME NEW c \in ConnectionType, NEW i \in DOMAIN c.taken
    PROVE  LET d == [c EXCEPT !.taken = RemoveAt(@, i)] IN
           d \in ConnectionType /\ d.left = c.left
<1>1. RemoveAt(c.taken, i) \in Seq(Message)
  BY RemoveAtFacts DEF ConnectionType
<1> QED
  BY <1>1 DEF ConnectionType

-----------------------------------------------------------------------------
(* What an application knows by the events *)

\* The two kinds of events, told from an event.
LEMMA EventFacts ==
    /\ \A a \in Addrs : Connection(a) \in EventType /\ Disconnection(a) \in EventType
    /\ \A e \in EventType, a \in Addrs :
         e = Connection(a) <=> e.what = "Connection" /\ e.addr = a
BY DEF Connection, Disconnection, EventType

\* Without an event, what it knew.
LEMMA AfterNone ==
    ASSUME NEW known \in SUBSET Addrs, NEW es PROVE After(known, es, 0) = known
BY DEF After

\* Only the events taken count.
LEMMA AfterAgrees ==
    ASSUME NEW known, NEW es, NEW fs, NEW n \in Nat,
           \A i \in 1 .. n : es[i] = fs[i]
    PROVE  After(known, es, n) = After(known, fs, n)
<1>1. ASSUME NEW a \in Addrs
      PROVE  a \in After(known, es, n) <=> a \in After(known, fs, n)
  <2>1. \A i \in 1 .. n : \A j \in (i + 1) .. n : j \in 1 .. n
    OBVIOUS
  <2> QED
    BY <2>1 DEF After
<1> QED
  BY <1>1 DEF After

\* One event more: the peer it names is connected, or is not.
LEMMA AfterAppend ==
    ASSUME NEW known, NEW es \in Seq(EventType), NEW e \in EventType
    PROVE  After(known, Append(es, e), Len(es) + 1)
             = IF e.what = "Connection"
               THEN After(known, es, Len(es)) \cup {e.addr}
               ELSE After(known, es, Len(es)) \ {e.addr}
<1> DEFINE n == Len(es)
           fs == Append(es, e)
<1>1. /\ n \in Nat /\ fs[n + 1] = e
      /\ \A i \in 1 .. n : fs[i] = es[i] /\ es[i] \in EventType
  OBVIOUS
<1> HIDE DEF n, fs
<1>2. e.addr \in Addrs
  BY DEF EventType
<1>3. ASSUME NEW a \in Addrs
      PROVE  a \in After(known, fs, n + 1)
               <=> IF a = e.addr THEN e.what = "Connection"
                                 ELSE a \in After(known, es, n)
  <2>1. \A i \in 1 .. n : /\ i \in 1 .. (n + 1) /\ n + 1 \in (i + 1) .. (n + 1)
                          /\ \A j \in (i + 1) .. n : j \in 1 .. n
                          /\ \A j \in (i + 1) .. n : j \in (i + 1) .. (n + 1)
                          /\ \A j \in (i + 1) .. (n + 1) :
                                j = n + 1 \/ j \in (i + 1) .. n
    BY <1>1
  <2>2. /\ \A i \in 1 .. (n + 1) : i = n + 1 \/ i \in 1 .. n
        /\ n + 1 \in 1 .. (n + 1)
        /\ \A j \in (n + 1 + 1) .. (n + 1) : FALSE
    BY <1>1
  <2>3. fs[n + 1] = Connection(a) <=> e.what = "Connection" /\ e.addr = a
    BY <1>1, EventFacts
  <2>4. fs[n + 1].addr = e.addr
    BY <1>1
  <2>5. CASE a = e.addr
    <3>1. a \in After(known, fs, n + 1) <=> fs[n + 1] = Connection(a)
      BY <2>1, <2>2, <2>4, <2>5 DEF After
    <3> QED
      BY <2>3, <2>5, <3>1
  <2>6. CASE a # e.addr
    <3>1. \A i \in 1 .. (n + 1) :
             /\ fs[i] = Connection(a)
             /\ \A j \in (i + 1) .. (n + 1) : fs[j].addr # a
             <=>
             /\ i \in 1 .. n /\ es[i] = Connection(a)
             /\ \A j \in (i + 1) .. n : es[j].addr # a
      <4> SUFFICES ASSUME NEW i \in 1 .. (n + 1)
                   PROVE  /\ fs[i] = Connection(a)
                          /\ \A j \in (i + 1) .. (n + 1) : fs[j].addr # a
                          <=>
                          /\ i \in 1 .. n /\ es[i] = Connection(a)
                          /\ \A j \in (i + 1) .. n : es[j].addr # a
        OBVIOUS
      <4>1. CASE i = n + 1
        <5>1. i \notin 1 .. n
          BY <1>1, <4>1
        <5> QED
          BY <2>3, <2>6, <4>1, <5>1
      <4>2. CASE i \in 1 .. n
        <5>1. (\A j \in (i + 1) .. (n + 1) : fs[j].addr # a)
                 <=> \A j \in (i + 1) .. n : es[j].addr # a
          BY <1>1, <2>1, <2>4, <2>6, <4>2
        <5> QED
          BY <1>1, <4>2, <5>1
      <4> QED
        BY <2>2, <4>1, <4>2
    <3>2. (\A j \in 1 .. (n + 1) : fs[j].addr # a)
            <=> \A j \in 1 .. n : es[j].addr # a
      BY <1>1, <2>1, <2>2, <2>4, <2>6
    <3>3. \A i \in 1 .. n : i \in 1 .. (n + 1)
      BY <2>1
    <3> QED
      BY <2>6, <3>1, <3>2, <3>3 DEF After
  <2> QED
    BY <2>5, <2>6
<1>4. After(known, fs, n + 1) \subseteq Addrs /\ After(known, es, n) \subseteq Addrs
  BY DEF After
<1>5. After(known, fs, n + 1) = IF e.what = "Connection"
                                THEN After(known, es, n) \cup {e.addr}
                                ELSE After(known, es, n) \ {e.addr}
  BY <1>2, <1>3, <1>4
<1> QED
  BY <1>5 DEF fs, n

\* Who has taken the first event knows the same by those that are left.
LEMMA AfterTail ==
    ASSUME NEW known \in SUBSET Addrs, NEW es \in Seq(EventType), es # <<>>,
           NEW n \in 0 .. (Len(es) - 1)
    PROVE  After(After(known, es, 1), Tail(es), n) = After(known, es, n + 1)
<1> DEFINE fs == Tail(es)
           first == After(known, es, 1)
<1>1. /\ n \in Nat /\ n + 1 <= Len(es) /\ Len(es) \in Nat
      /\ \A i \in 1 .. n : fs[i] = es[i + 1]
  BY TailFacts
<1>2. ASSUME NEW a \in Addrs
      PROVE  a \in first <=> \/ es[1] = Connection(a)
                             \/ a \in known /\ es[1].addr # a
  <2> DEFINE L(i) == es[i] = Connection(a) /\ \A j \in (i + 1) .. 1 : es[j].addr # a
  <2>1. a \in first <=> \/ \E i \in 1 .. 1 : L(i)
                        \/ a \in known /\ \A j \in 1 .. 1 : es[j].addr # a
    BY DEF After
  <2>2. 1 \in 1 .. 1 /\ \A i \in 1 .. 1 : i = 1
    OBVIOUS
  <2>3. L(1) <=> es[1] = Connection(a)
    OBVIOUS
  <2> HIDE DEF L, first
  <2> QED
    BY <2>1, <2>2, <2>3
<1> HIDE DEF fs, first
<1>3. ASSUME NEW a \in Addrs
      PROVE  a \in After(first, fs, n) <=> a \in After(known, es, n + 1)
  <2> DEFINE L(i) == fs[i] = Connection(a) /\ \A j \in (i + 1) .. n : fs[j].addr # a
             R(i) == es[i] = Connection(a)
                       /\ \A j \in (i + 1) .. (n + 1) : es[j].addr # a
             Silent == \A j \in 1 .. n : fs[j].addr # a
  <2>1. \A j \in 2 .. (n + 1) : j - 1 \in 1 .. n /\ es[j] = fs[j - 1]
    BY <1>1
  <2>2. \A j \in 1 .. n : j + 1 \in 2 .. (n + 1) /\ es[j + 1] = fs[j]
    BY <1>1
  <2>3. ASSUME NEW i \in 1 .. n PROVE L(i) <=> R(i + 1)
    <3>1. \A j \in (i + 1) .. n : /\ j + 1 \in (i + 1 + 1) .. (n + 1)
                                  /\ j \in 1 .. n
      BY <1>1
    <3>2. \A j \in (i + 1 + 1) .. (n + 1) : /\ j - 1 \in (i + 1) .. n
                                            /\ j \in 2 .. (n + 1)
      BY <1>1
    <3>3. (\A j \in (i + 1 + 1) .. (n + 1) : es[j].addr # a)
             => \A j \in (i + 1) .. n : fs[j].addr # a
      BY <2>2, <3>1
    <3>4. (\A j \in (i + 1) .. n : fs[j].addr # a)
             => \A j \in (i + 1 + 1) .. (n + 1) : es[j].addr # a
      BY <2>1, <3>2
    <3>5. fs[i] = es[i + 1]
      BY <1>1
    <3> QED
      BY <3>3, <3>4, <3>5
  <2>4. Silent <=> \A j \in 2 .. (n + 1) : es[j].addr # a
    <3>1. ASSUME Silent, NEW j \in 2 .. (n + 1) PROVE es[j].addr # a
      BY <2>1, <3>1
    <3>2. ASSUME \A j \in 2 .. (n + 1) : es[j].addr # a, NEW j \in 1 .. n
          PROVE  fs[j].addr # a
      BY <2>2, <3>2
    <3> QED
      BY <3>1, <3>2
  <2>5. a \in After(first, fs, n) <=> \/ \E i \in 1 .. n : L(i)
                                      \/ a \in first /\ Silent
    BY DEF After
  <2>6. a \in After(known, es, n + 1) <=>
           \/ \E i \in 1 .. (n + 1) : R(i)
           \/ a \in known /\ \A j \in 1 .. (n + 1) : es[j].addr # a
    BY DEF After
  <2>7. (\A j \in 1 .. (n + 1) : es[j].addr # a) <=> es[1].addr # a /\ Silent
    <3>1. 1 \in 1 .. (n + 1) /\ \A j \in 1 .. (n + 1) : j = 1 \/ j \in 2 .. (n + 1)
      BY <1>1
    <3>2. \A j \in 2 .. (n + 1) : j \in 1 .. (n + 1)
      BY <1>1
    <3> HIDE DEF Silent
    <3> QED
      BY <2>4, <3>1, <3>2
  <2>8. R(1) <=> es[1] = Connection(a) /\ Silent
    <3>1. 1 + 1 = 2
      OBVIOUS
    <3> QED
      BY <2>4, <3>1
  <2>9. (\E i \in 1 .. (n + 1) : R(i)) <=> R(1) \/ \E i \in 1 .. n : L(i)
    <3>1. \A i \in 1 .. (n + 1) : i = 1 \/ (i - 1 \in 1 .. n /\ (i - 1) + 1 = i)
      BY <1>1
    <3>2. 1 \in 1 .. (n + 1) /\ \A i \in 1 .. n : i + 1 \in 1 .. (n + 1)
      BY <1>1
    <3> HIDE DEF L, R
    <3>3. ASSUME NEW i \in 1 .. (n + 1), R(i)
          PROVE  R(1) \/ \E k \in 1 .. n : L(k)
      <4>1. CASE i = 1
        BY <3>3, <4>1
      <4>2. CASE i # 1
        <5>1. i - 1 \in 1 .. n /\ (i - 1) + 1 = i
          BY <3>1, <4>2
        <5>2. R((i - 1) + 1)
          BY <3>3, <5>1
        <5> QED
          BY <2>3, <5>1, <5>2
      <4> QED
        BY <4>1, <4>2
    <3>4. \A i \in 1 .. n : L(i) => R(i + 1) /\ i + 1 \in 1 .. (n + 1)
      BY <2>3, <3>2
    <3> QED
      BY <3>2, <3>3, <3>4
  <2>10. a \in first <=> \/ es[1] = Connection(a)
                         \/ a \in known /\ es[1].addr # a
    BY <1>2
  <2> HIDE DEF L, R, Silent
  <2> QED
    BY <2>5, <2>6, <2>7, <2>8, <2>9, <2>10
<1>4. After(first, fs, n) \subseteq Addrs /\ After(known, es, n + 1) \subseteq Addrs
  BY DEF After
<1>5. After(first, fs, n) = After(known, es, n + 1)
  BY <1>3, <1>4
<1> QED
  BY <1>5 DEF fs, first

-----------------------------------------------------------------------------
(* Queues of events *)

\* By all the events who is connected is known, and each tells something new.
Tells(known, es, now) ==
    /\ After(known, es, Len(es)) = now
    /\ \A n \in 1 .. Len(es) : After(known, es, n) # After(known, es, n - 1)

LEMMA TellsNothing ==
    ASSUME NEW known \in SUBSET Addrs PROVE Tells(known, <<>>, known)
<1>1. Len(<<>>) = 0 /\ \A n \in 1 .. 0 : FALSE
  OBVIOUS
<1>2. After(known, <<>>, 0) = known
  BY AfterNone
<1> QED
  BY <1>1, <1>2 DEF Tells

\* An event that tells something new may be added.
LEMMA TellsAppend ==
    ASSUME NEW known, NEW es \in Seq(EventType), NEW now, Tells(known, es, now),
           NEW e \in EventType, NEW next, next # now,
           next = IF e.what = "Connection" THEN now \cup {e.addr}
                                           ELSE now \ {e.addr}
    PROVE  Tells(known, Append(es, e), next)
<1> DEFINE fs == Append(es, e)
           n == Len(es)
<1>1. /\ n \in Nat /\ Len(fs) = n + 1
      /\ \A i \in 1 .. n : fs[i] = es[i]
  OBVIOUS
<1>2. After(known, fs, n + 1) = next
  <2>1. After(known, es, Len(es)) = now
    BY DEF Tells
  <2>2. After(known, fs, n + 1) = IF e.what = "Connection"
                                  THEN After(known, es, n) \cup {e.addr}
                                  ELSE After(known, es, n) \ {e.addr}
    BY AfterAppend
  <2> QED
    BY <2>1, <2>2
<1> HIDE DEF fs
<1>3. \A i \in 0 .. n : After(known, fs, i) = After(known, es, i)
  <2> SUFFICES ASSUME NEW i \in 0 .. n
               PROVE  After(known, fs, i) = After(known, es, i)
    OBVIOUS
  <2>1. i \in Nat /\ \A j \in 1 .. i : j \in 1 .. n
    BY <1>1
  <2>2. \A j \in 1 .. i : fs[j] = es[j]
    BY <1>1, <2>1
  <2> QED
    BY <2>1, <2>2, AfterAgrees
<1>4. ASSUME NEW i \in 1 .. (n + 1)
      PROVE  After(known, fs, i) # After(known, fs, i - 1)
  <2>1. CASE i = n + 1
    <3>1. i - 1 = n /\ n \in 0 .. n
      BY <1>1, <2>1
    <3> QED
      BY <1>2, <1>3, <2>1, <3>1 DEF Tells
  <2>2. CASE i # n + 1
    <3>1. i \in 1 .. n /\ i \in 0 .. n /\ i - 1 \in 0 .. n
      BY <1>1, <2>2
    <3> QED
      BY <1>3, <3>1 DEF Tells
  <2> QED
    BY <2>1, <2>2
<1>5. Tells(known, fs, next)
  BY <1>1, <1>2, <1>4 DEF Tells
<1> QED
  BY <1>5 DEF fs

\* The first event may be taken.
LEMMA TellsTail ==
    ASSUME NEW known \in SUBSET Addrs, NEW es \in Seq(EventType), es # <<>>,
           NEW now, Tells(known, es, now)
    PROVE  Tells(After(known, es, 1), Tail(es), now)
<1> DEFINE fs == Tail(es)
           first == After(known, es, 1)
           n == Len(es) - 1
<1>1. /\ Len(es) \in Nat /\ n \in Nat /\ Len(fs) = n /\ n + 1 = Len(es)
      /\ n \in 0 .. n
  BY TailFacts
<1>2. \A i \in 0 .. n : After(first, fs, i) = After(known, es, i + 1)
  BY AfterTail
<1> HIDE DEF fs, first, n
<1>3. After(first, fs, n) = now
  BY <1>1, <1>2 DEF Tells
<1>4. ASSUME NEW i \in 1 .. n
      PROVE  After(first, fs, i) # After(first, fs, i - 1)
  <2>1. /\ i \in 0 .. n /\ i - 1 \in 0 .. n /\ i + 1 \in 1 .. Len(es)
        /\ (i - 1) + 1 = (i + 1) - 1
    BY <1>1
  <2>2. After(known, es, i + 1) # After(known, es, (i + 1) - 1)
    BY <2>1 DEF Tells
  <2> QED
    BY <1>2, <2>1, <2>2
<1>5. Tells(first, fs, now)
  BY <1>1, <1>3, <1>4 DEF Tells
<1> QED
  BY <1>5 DEF fs, first

-----------------------------------------------------------------------------
(* The inductive invariant *)

\* A poll visits the connections one by one, each once.
VisitInv ==
    /\ phase # "poll" => todo = {} /\ visited = {}
    /\ visited \cap todo = {}
    /\ \A a, b \in visited : a = b

\* A heartbeat timer is what the silence of its peer has left of the timeout.
SilenceInv ==
    \A a \in Connected : connections[a].left = HeartbeatTimeout - silent[a]

\* But for packets, and until a poll has visited it, no connection holds a
\* message that it could give out.
DrainedInv ==
    phase # "receive" =>
        \A a \in Connected \ (todo \cup visited) : Ready(connections[a]) = {}

\* Connections whose end a poll has told, and that it has still to remove.
Ended ==
    {a \in Connected : /\ phase = "poll" /\ a \notin todo \cup visited
                       /\ TimedOut(connections[a])}

\* The events tell the others, each something new.
EventsInv == Tells(told, events, Connected \ Ended)

SocketInv == TypeOK /\ VisitInv /\ SilenceInv /\ DrainedInv /\ EventsInv

LEMMA InitSocket == ASSUME Init PROVE SocketInv
<1>1. /\ connections = <<>> /\ events = <<>> /\ messages = <<>>
      /\ phase = "idle" /\ todo = {} /\ visited = {} /\ told = {}
      /\ silent = [a \in Addrs |-> 0] /\ packets = 0 /\ connects = 0
  BY DEF Init
<1>2. Connected = {} /\ connections \in [Connected -> ConnectionType]
  BY <1>1 DEF Connected
<1>3. silent \in [Addrs -> 0 .. HeartbeatTimeout]
  BY <1>1, SocketAssumption
<1>4. TypeOK
  BY <1>1, <1>2, <1>3 DEF TypeOK
<1>5. VisitInv /\ SilenceInv /\ DrainedInv
  BY <1>1, <1>2 DEF VisitInv, SilenceInv, DrainedInv
<1>6. EventsInv
  <2>1. Connected \ Ended = {}
    BY <1>2
  <2> QED
    BY <1>1, <2>1, TellsNothing DEF EventsInv
<1> QED
  BY <1>4, <1>5, <1>6 DEF SocketInv

-----------------------------------------------------------------------------
(* Every step keeps the invariant *)

\* The application connects to a peer that is not connected.
LEMMA ConnectKeeps ==
    ASSUME SocketInv, NEW a \in Addrs, Connect(a) PROVE SocketInv'
<1>1. /\ phase = "idle" /\ a \notin Connected
      /\ connections' = [b \in Connected \cup {a} |->
                            IF b = a THEN NewConnection ELSE connections[b]]
      /\ events' = Append(events, Connection(a))
      /\ silent' = [silent EXCEPT ![a] = 0]
      /\ connects' = connects + 1
      /\ UNCHANGED <<messages, phase, todo, visited, told, packets>>
  BY DEF Connect, Opens, pollVars
<1>2. TypeOK /\ VisitInv /\ SilenceInv /\ DrainedInv /\ EventsInv
  BY DEF SocketInv
<1>3. /\ Connected' = Connected \cup {a}
      /\ connections'[a] = NewConnection
      /\ \A b \in Connected : connections'[b] = connections[b] /\ b # a
  BY <1>1 DEF Connected
<1>4. todo = {} /\ visited = {}
  BY <1>1, <1>2 DEF VisitInv
<1>5. Connection(a) \in EventType /\ events' \in Seq(EventType)
  BY <1>1, <1>2, EventFacts DEF TypeOK
<1>6. TypeOK'
  <2>1. connections' \in [Connected' -> ConnectionType]
    <3>1. \A b \in Connected : connections[b] \in ConnectionType
      BY <1>2 DEF TypeOK
    <3> QED
      BY <1>1, <1>3, <3>1, NewConnectionFacts
  <2>2. silent' \in [Addrs -> 0 .. HeartbeatTimeout]
    BY <1>1, <1>2, SocketAssumption DEF TypeOK
  <2>3. Connected' \subseteq Addrs
    BY <1>2, <1>3 DEF TypeOK
  <2> QED
    BY <1>1, <1>2, <1>4, <1>5, <2>1, <2>2, <2>3 DEF TypeOK
<1>7. VisitInv' /\ DrainedInv'
  BY <1>1, <1>2, <1>3, <1>4, NewConnectionFacts DEF VisitInv, DrainedInv
<1>8. SilenceInv'
  <2>1. HeartbeatTimeout = HeartbeatTimeout - 0
    BY SocketAssumption
  <2>2. silent'[a] = 0 /\ \A b \in Connected : silent'[b] = silent[b]
    BY <1>1, <1>2, <1>3 DEF TypeOK
  <2> QED
    BY <1>2, <1>3, <2>1, <2>2, NewConnectionFacts DEF SilenceInv
<1>9. EventsInv'
  <2>1. Ended = {} /\ Ended' = {}
    BY <1>1 DEF Ended
  <2>2. Tells(told, events, Connected) /\ events \in Seq(EventType)
    BY <1>2, <2>1 DEF EventsInv, TypeOK
  <2>3. /\ Connected' # Connected
        /\ Connected' = IF Connection(a).what = "Connection"
                        THEN Connected \cup {Connection(a).addr}
                        ELSE Connected \ {Connection(a).addr}
    BY <1>1, <1>3 DEF Connection
  <2>4. Tells(told, Append(events, Connection(a)), Connected')
    BY <1>5, <2>2, <2>3, TellsAppend
  <2>5. Connected' \ Ended' = Connected'
    BY <2>1
  <2> QED
    BY <1>1, <2>4, <2>5 DEF EventsInv
<1> QED
  BY <1>6, <1>7, <1>8, <1>9 DEF SocketInv

\* The application disconnects a peer.
LEMMA DisconnectKeeps ==
    ASSUME SocketInv, NEW a \in Addrs, Disconnect(a) PROVE SocketInv'
<1>1. /\ phase = "idle" /\ a \in Connected
      /\ connections' = [b \in Connected \ {a} |-> connections[b]]
      /\ events' = Append(events, Disconnection(a))
      /\ UNCHANGED <<messages, phase, todo, visited, told, silent, packets,
                     connects>>
  BY DEF Disconnect, Restrict, pollVars
<1>2. TypeOK /\ VisitInv /\ SilenceInv /\ DrainedInv /\ EventsInv
  BY DEF SocketInv
<1>3. /\ Connected' = Connected \ {a}
      /\ \A b \in Connected' : connections'[b] = connections[b]
  BY <1>1 DEF Connected
<1>4. todo = {} /\ visited = {}
  BY <1>1, <1>2 DEF VisitInv
<1>5. Disconnection(a) \in EventType /\ events' \in Seq(EventType)
  BY <1>1, <1>2, EventFacts DEF TypeOK
<1>6. TypeOK'
  <2>1. connections' \in [Connected' -> ConnectionType]
    BY <1>1, <1>2, <1>3 DEF TypeOK
  <2>2. Connected' \subseteq Addrs
    BY <1>2, <1>3 DEF TypeOK
  <2> QED
    BY <1>1, <1>2, <1>4, <1>5, <2>1, <2>2 DEF TypeOK
<1>7. VisitInv' /\ DrainedInv' /\ SilenceInv'
  BY <1>1, <1>2, <1>3, <1>4 DEF VisitInv, DrainedInv, SilenceInv
<1>8. EventsInv'
  <2>1. Ended = {} /\ Ended' = {}
    BY <1>1 DEF Ended
  <2>2. Tells(told, events, Connected) /\ events \in Seq(EventType)
    BY <1>2, <2>1 DEF EventsInv, TypeOK
  <2>3. /\ Connected' # Connected
        /\ Connected' = IF Disconnection(a).what = "Connection"
                        THEN Connected \cup {Disconnection(a).addr}
                        ELSE Connected \ {Disconnection(a).addr}
    BY <1>1, <1>3 DEF Disconnection
  <2>4. Tells(told, Append(events, Disconnection(a)), Connected')
    BY <1>5, <2>2, <2>3, TellsAppend
  <2>5. Connected' \ Ended' = Connected'
    BY <2>1
  <2> QED
    BY <1>1, <2>4, <2>5 DEF EventsInv
<1> QED
  BY <1>6, <1>7, <1>8 DEF SocketInv

\* The application takes an event, or all.
LEMMA EventsKeep ==
    ASSUME SocketInv, GetEvent \/ ClearEvents PROVE SocketInv'
<1>1. /\ events # <<>>
      /\ \/ events' = Tail(events) /\ told' = After(told, events, 1)
         \/ events' = <<>> /\ told' = After(told, events, Len(events))
      /\ UNCHANGED <<connections, messages, phase, todo, visited, silent,
                     packets, connects>>
  BY DEF GetEvent, ClearEvents, pollVars
<1>2. TypeOK /\ VisitInv /\ SilenceInv /\ DrainedInv /\ EventsInv
  BY DEF SocketInv
<1>3. /\ Connected' = Connected /\ Ended' = Ended
      /\ events \in Seq(EventType) /\ told \subseteq Addrs
  BY <1>1, <1>2 DEF Connected, Ended, TypeOK
<1>4. told' \subseteq Addrs
  BY <1>1 DEF After
<1>5. TypeOK'
  <2>1. events' \in Seq(EventType)
    <3>1. <<>> \in Seq(EventType) /\ Tail(events) \in Seq(EventType)
      BY <1>1, <1>3, TailFacts
    <3> QED
      BY <1>1, <3>1
  <2> QED
    BY <1>1, <1>2, <1>3, <1>4, <2>1 DEF TypeOK
<1>6. VisitInv' /\ SilenceInv' /\ DrainedInv'
  BY <1>1, <1>2, <1>3 DEF VisitInv, SilenceInv, DrainedInv
<1>7. EventsInv'
  <2>1. Tells(told, events, Connected \ Ended)
    BY <1>2 DEF EventsInv
  <2>2. CASE events' = Tail(events) /\ told' = After(told, events, 1)
    <3>1. Tells(After(told, events, 1), Tail(events), Connected \ Ended)
      BY <1>1, <1>3, <2>1, TellsTail
    <3> QED
      BY <1>3, <2>2, <3>1 DEF EventsInv
  <2>3. CASE events' = <<>> /\ told' = After(told, events, Len(events))
    <3>1. told' = Connected \ Ended
      BY <2>1, <2>3 DEF Tells
    <3>2. Connected \ Ended \in SUBSET Addrs
      BY <1>2 DEF TypeOK
    <3>3. Tells(Connected \ Ended, <<>>, Connected \ Ended)
      BY <3>2, TellsNothing
    <3> QED
      BY <1>3, <2>3, <3>1, <3>3 DEF EventsInv
  <2> QED
    BY <1>1, <2>2, <2>3
<1> QED
  BY <1>5, <1>6, <1>7 DEF SocketInv

\* The application takes messages from the queue.
LEMMA RecvFromKeeps == ASSUME SocketInv, RecvFrom PROVE SocketInv'
<1>1. /\ messages # <<>> /\ messages' \in {Tail(messages), <<>>}
      /\ UNCHANGED <<connections, events, phase, todo, visited, told, silent,
                     packets, connects>>
  BY DEF RecvFrom, pollVars
<1>2. TypeOK /\ VisitInv /\ SilenceInv /\ DrainedInv /\ EventsInv
  BY DEF SocketInv
<1>3. Connected' = Connected /\ Ended' = Ended
  BY <1>1 DEF Connected, Ended
<1>4. messages' \in Seq([from : Addrs, message : Message])
  <2> DEFINE S == [from : Addrs, message : Message]
  <2>1. messages \in Seq(S)
    BY <1>2 DEF TypeOK
  <2> HIDE DEF S
  <2>2. <<>> \in Seq(S) /\ Tail(messages) \in Seq(S)
    BY <1>1, <2>1, TailFacts
  <2>3. messages' \in Seq(S)
    BY <1>1, <2>2
  <2> QED
    BY <2>3 DEF S
<1>5. TypeOK'
  BY <1>1, <1>2, <1>3, <1>4 DEF TypeOK
<1> QED
  BY <1>1, <1>2, <1>3, <1>5
     DEF SocketInv, VisitInv, SilenceInv, DrainedInv, EventsInv

\* A poll begins: every timer and every silence moves by the time of the frame.
LEMMA PollKeeps ==
    ASSUME SocketInv, NEW dt \in Deltas, Poll(dt) PROVE SocketInv'
<1>1. /\ phase = "idle" /\ phase' = "receive"
      /\ connections' = [a \in Connected |-> Later(connections[a], dt)]
      /\ silent' = [a \in Addrs |-> IF a \in Connected
                      THEN Min({HeartbeatTimeout, silent[a] + Capped(dt)})
                      ELSE silent[a]]
      /\ UNCHANGED <<events, messages, todo, visited, told, packets, connects>>
  BY DEF Poll
<1>2. TypeOK /\ VisitInv /\ SilenceInv /\ DrainedInv /\ EventsInv
  BY DEF SocketInv
<1>3. Connected' = Connected /\ Connected \subseteq Addrs
  BY <1>1, <1>2 DEF Connected, TypeOK
<1> DEFINE gone == Capped(dt)
<1>4. gone \in Nat /\ HeartbeatTimeout \in Nat
  BY CappedIsNat, SocketAssumption
<1>5. \A a \in Addrs : silent[a] \in 0 .. HeartbeatTimeout
  BY <1>2 DEF TypeOK
<1>6. \A a \in Connected : connections[a] \in ConnectionType
  BY <1>2 DEF TypeOK
<1> HIDE DEF gone
<1>7. ASSUME NEW a \in Addrs
      PROVE  Min({HeartbeatTimeout, silent[a] + gone})
               = IF HeartbeatTimeout <= silent[a] + gone
                 THEN HeartbeatTimeout ELSE silent[a] + gone
  <2>1. silent[a] + gone \in Nat
    BY <1>4, <1>5
  <2> QED
    BY <1>4, <2>1, MinOfTwo
<1>8. TypeOK'
  <2>1. connections' \in [Connected' -> ConnectionType]
    BY <1>1, <1>3, <1>6, LaterFacts
  <2>2. silent' \in [Addrs -> 0 .. HeartbeatTimeout]
    <3>1. ASSUME NEW a \in Addrs PROVE silent'[a] \in 0 .. HeartbeatTimeout
      <4>1. \/ silent'[a] = Min({HeartbeatTimeout, silent[a] + gone})
            \/ silent'[a] = silent[a]
        BY <1>1 DEF gone
      <4>2. silent[a] \in 0 .. HeartbeatTimeout
        BY <1>5
      <4>3. Min({HeartbeatTimeout, silent[a] + gone}) \in 0 .. HeartbeatTimeout
        BY <1>4, <1>7, <4>2
      <4> QED
        BY <4>1, <4>2, <4>3
    <3> QED
      BY <1>1, <3>1
  <2> QED
    BY <1>1, <1>2, <1>3, <2>1, <2>2 DEF TypeOK
<1>9. VisitInv' /\ DrainedInv'
  BY <1>1, <1>2 DEF VisitInv, DrainedInv
<1>10. SilenceInv'
  <2> SUFFICES ASSUME NEW a \in Connected
               PROVE  connections'[a].left = HeartbeatTimeout - silent'[a]
    BY <1>3 DEF SilenceInv
  <2>1. /\ connections'[a].left = IF connections[a].left <= gone THEN 0
                                  ELSE connections[a].left - gone
    BY <1>1, <1>6, LaterFacts DEF gone
  <2>2. connections[a].left = HeartbeatTimeout - silent[a]
    BY <1>2 DEF SilenceInv
  <2>3. silent'[a] = IF HeartbeatTimeout <= silent[a] + gone
                     THEN HeartbeatTimeout ELSE silent[a] + gone
    BY <1>1, <1>3, <1>7 DEF gone
  <2>4. silent[a] \in 0 .. HeartbeatTimeout
    BY <1>3, <1>5
  <2> QED
    BY <1>4, <2>1, <2>2, <2>3, <2>4
<1>11. EventsInv'
  <2>1. Ended = {} /\ Ended' = {}
    BY <1>1 DEF Ended
  <2> QED
    BY <1>1, <1>2, <1>3, <2>1 DEF EventsInv
<1> QED
  BY <1>8, <1>9, <1>10, <1>11 DEF SocketInv

\* The packets the model has peers send are sequences of messages.
LEMMA PeerPacketFacts ==
    ASSUME NEW a \in Addrs, NEW ms \in PeerPackets
    PROVE  /\ ms \in Seq(Message)
           /\ From(a, ms) \in Seq([from : Addrs, message : Message])
<1>1. ms \in Seq(Message)
  <2>1. PeerMessages \subseteq Message
    BY SocketAssumption DEF Message
  <2>2. ms = <<>> \/ \E m \in PeerMessages : ms = <<m>>
    BY DEF PeerPackets
  <2>3. <<>> \in Seq(Message) /\ \A m \in Message : <<m>> \in Seq(Message)
    OBVIOUS
  <2> QED
    BY <2>1, <2>2, <2>3
<1>2. /\ Len(ms) \in Nat /\ DOMAIN ms = 1 .. Len(ms)
      /\ \A i \in 1 .. Len(ms) : ms[i] \in Message
  BY <1>1
<1>3. From(a, ms) = [i \in 1 .. Len(ms) |-> [from |-> a, message |-> ms[i]]]
  BY <1>2 DEF From
<1> DEFINE S == [from : Addrs, message : Message]
<1>4. \A i \in 1 .. Len(ms) : [from |-> a, message |-> ms[i]] \in S
  BY <1>2
<1> HIDE DEF S
<1>5. From(a, ms) \in Seq(S)
  BY <1>2, <1>3, <1>4
<1> QED
  BY <1>1, <1>5 DEF S

\* A packet arrives.
LEMMA ReceivePacketKeeps ==
    ASSUME SocketInv, NEW a \in Addrs, NEW ms \in PeerPackets,
           ReceivePacket(a, ms)
    PROVE  SocketInv'
<1>1. /\ phase = "receive" /\ packets' = packets + 1
      /\ UNCHANGED <<events, phase, todo, visited, told, connects>>
      /\ \/ /\ a \in Connected
            /\ connections' = [connections EXCEPT ![a] = Hear(@, ms)]
            /\ silent' = [silent EXCEPT ![a] = 0]
            /\ messages' = messages
         \/ /\ messages' = messages \o From(a, ms)
            /\ UNCHANGED <<connections, silent>>
  BY DEF ReceivePacket, pollVars
<1>2. TypeOK /\ VisitInv /\ SilenceInv /\ DrainedInv /\ EventsInv
  BY DEF SocketInv
<1>3. Connected' = Connected /\ Ended' = {} /\ Ended = {}
  BY <1>1 DEF Connected, Ended
<1>4. VisitInv' /\ DrainedInv' /\ EventsInv'
  BY <1>1, <1>2, <1>3 DEF VisitInv, DrainedInv, EventsInv
<1>5. CASE /\ a \in Connected
           /\ connections' = [connections EXCEPT ![a] = Hear(@, ms)]
           /\ silent' = [silent EXCEPT ![a] = 0]
           /\ messages' = messages
  <2>1. /\ Hear(connections[a], ms) \in ConnectionType
        /\ Hear(connections[a], ms).left = HeartbeatTimeout
    BY <1>2, <1>5, PeerPacketFacts, HearFacts DEF TypeOK
  <2>2. connections' \in [Connected' -> ConnectionType]
    BY <1>2, <1>3, <1>5, <2>1 DEF TypeOK
  <2>3. silent' \in [Addrs -> 0 .. HeartbeatTimeout]
    BY <1>2, <1>5, SocketAssumption DEF TypeOK
  <2>4. TypeOK'
    BY <1>1, <1>2, <1>3, <1>5, <2>2, <2>3 DEF TypeOK
  <2>5. SilenceInv'
    <3>1. /\ connections \in [Connected -> ConnectionType]
          /\ silent \in [Addrs -> 0 .. HeartbeatTimeout]
          /\ Connected \subseteq Addrs
          /\ HeartbeatTimeout = HeartbeatTimeout - 0
      BY <1>2, SocketAssumption DEF TypeOK
    <3>2. /\ connections'[a] = Hear(connections[a], ms) /\ silent'[a] = 0
          /\ \A b \in Connected : b # a => /\ connections'[b] = connections[b]
                                           /\ silent'[b] = silent[b]
      BY <1>5, <3>1
    <3> QED
      BY <1>2, <1>3, <2>1, <3>1, <3>2 DEF SilenceInv
  <2> QED
    BY <1>4, <2>4, <2>5 DEF SocketInv
<1>6. CASE /\ messages' = messages \o From(a, ms)
           /\ UNCHANGED <<connections, silent>>
  <2>1. messages' \in Seq([from : Addrs, message : Message])
    <3> DEFINE S == [from : Addrs, message : Message]
    <3>1. messages \in Seq(S) /\ From(a, ms) \in Seq(S)
      BY <1>2, PeerPacketFacts DEF TypeOK
    <3> HIDE DEF S
    <3>2. messages \o From(a, ms) \in Seq(S)
      BY <3>1
    <3> QED
      BY <1>6, <3>2 DEF S
  <2>2. TypeOK'
    BY <1>1, <1>2, <1>3, <1>6, <2>1 DEF TypeOK
  <2>3. SilenceInv'
    BY <1>2, <1>3, <1>6 DEF SilenceInv
  <2> QED
    BY <1>4, <2>2, <2>3 DEF SocketInv
<1> QED
  BY <1>1, <1>5, <1>6

\* Nothing more has arrived: the connections are visited next.
LEMMA StopReceivingKeeps == ASSUME SocketInv, StopReceiving PROVE SocketInv'
<1>1. /\ phase = "receive" /\ phase' = "poll" /\ todo' = Connected
      /\ UNCHANGED <<connections, events, messages, visited, told, silent,
                     packets, connects>>
  BY DEF StopReceiving
<1>2. TypeOK /\ VisitInv /\ SilenceInv /\ DrainedInv /\ EventsInv
  BY DEF SocketInv
<1>3. Connected' = Connected /\ Ended = {} /\ Ended' = {} /\ visited = {}
  BY <1>1, <1>2 DEF Connected, Ended, VisitInv
<1>4. TypeOK'
  BY <1>1, <1>2, <1>3 DEF TypeOK
<1> QED
  BY <1>1, <1>2, <1>3, <1>4
     DEF SocketInv, VisitInv, SilenceInv, DrainedInv, EventsInv

\* The next connection.
LEMMA VisitKeeps == ASSUME SocketInv, NEW a \in Addrs, Visit(a) PROVE SocketInv'
<1>1. /\ phase = "poll" /\ visited = {} /\ a \in todo
      /\ todo' = todo \ {a} /\ visited' = {a}
      /\ UNCHANGED <<connections, events, messages, phase, told, silent,
                     packets, connects>>
  BY DEF Visit
<1>2. TypeOK /\ VisitInv /\ SilenceInv /\ DrainedInv /\ EventsInv
  BY DEF SocketInv
<1>3. Connected' = Connected /\ todo' \cup visited' = todo \cup visited
  BY <1>1 DEF Connected
<1>4. Ended' = Ended
  BY <1>1, <1>3 DEF Ended
<1>5. TypeOK'
  BY <1>1, <1>2, <1>3 DEF TypeOK
<1>6. VisitInv'
  BY <1>1 DEF VisitInv
<1> QED
  BY <1>1, <1>2, <1>3, <1>4, <1>5, <1>6
     DEF SocketInv, SilenceInv, DrainedInv, EventsInv

\* The visited connection gives a message to the queue.
LEMMA DrainKeeps == ASSUME SocketInv, Drain PROVE SocketInv'
<1>1. PICK a \in visited : \E i \in Ready(connections[a]) :
          /\ messages' = Append(messages,
                 [from |-> a, message |-> connections[a].taken[i]])
          /\ connections' = [connections EXCEPT ![a].taken = RemoveAt(@, i)]
  BY DEF Drain
<1>2. PICK i \in Ready(connections[a]) :
          /\ messages' = Append(messages,
                 [from |-> a, message |-> connections[a].taken[i]])
          /\ connections' = [connections EXCEPT ![a].taken = RemoveAt(@, i)]
  BY <1>1
<1>3. UNCHANGED <<events, phase, todo, visited, told, silent, packets, connects>>
  BY DEF Drain, pollVars
<1>4. TypeOK /\ VisitInv /\ SilenceInv /\ DrainedInv /\ EventsInv
  BY DEF SocketInv
<1>5. /\ a \in Connected /\ a \in Addrs
      /\ connections \in [Connected -> ConnectionType]
      /\ connections[a] \in ConnectionType
  BY <1>4 DEF TypeOK
<1> DEFINE d == [connections[a] EXCEPT !.taken = RemoveAt(@, i)]
<1>6. i \in DOMAIN connections[a].taken
  BY DEF Ready
<1>7. d \in ConnectionType /\ d.left = connections[a].left
  BY <1>5, <1>6, GivesOutFacts
<1>8. connections' = [connections EXCEPT ![a] = d]
  BY <1>2
<1> HIDE DEF d
<1>9. /\ Connected' = Connected
      /\ connections' \in [Connected' -> ConnectionType]
      /\ \A b \in Connected : connections'[b].left = connections[b].left
      /\ \A b \in Connected : b # a => connections'[b] = connections[b]
  BY <1>5, <1>7, <1>8 DEF Connected
<1>10. Ended' = Ended
  BY <1>3, <1>9 DEF Ended, TimedOut
<1>11. messages' \in Seq([from : Addrs, message : Message])
  <2> DEFINE S == [from : Addrs, message : Message]
             m == [from |-> a, message |-> connections[a].taken[i]]
  <2>1. connections[a].taken[i] \in Message
    BY <1>5, <1>6 DEF ConnectionType
  <2>2. messages \in Seq(S) /\ m \in S
    BY <1>4, <1>5, <2>1 DEF TypeOK
  <2>3. messages' = Append(messages, m)
    BY <1>2
  <2> HIDE DEF S, m
  <2>4. messages' \in Seq(S)
    BY <2>2, <2>3
  <2> QED
    BY <2>4 DEF S
<1>12. TypeOK'
  BY <1>3, <1>4, <1>9, <1>11 DEF TypeOK
<1>13. VisitInv' /\ SilenceInv'
  BY <1>3, <1>4, <1>9 DEF VisitInv, SilenceInv
<1>14. DrainedInv'
  BY <1>3, <1>4, <1>9 DEF DrainedInv
<1>15. EventsInv'
  BY <1>3, <1>4, <1>9, <1>10 DEF EventsInv
<1> QED
  BY <1>12, <1>13, <1>14, <1>15 DEF SocketInv

\* The visited connection has nothing more to give out; when its time is over
\* its end is told.
LEMMA LeaveKeeps == ASSUME SocketInv, Leave PROVE SocketInv'
<1>1. PICK a \in visited :
          /\ Drained(connections[a])
          /\ events' = IF TimedOut(connections[a])
                       THEN Append(events, Disconnection(a)) ELSE events
  BY DEF Leave
<1>2. /\ visited' = {}
      /\ UNCHANGED <<connections, messages, phase, todo, told, silent, packets,
                     connects>>
  BY DEF Leave
<1>3. TypeOK /\ VisitInv /\ SilenceInv /\ DrainedInv /\ EventsInv
  BY DEF SocketInv
<1>4. /\ visited = {a} /\ a \notin todo /\ phase = "poll"
      /\ Ready(connections[a]) = {}
  BY <1>1, <1>3 DEF VisitInv, Drained
<1>5. Connected' = Connected /\ a \in Connected /\ a \in Addrs
  BY <1>2, <1>3 DEF Connected, TypeOK
<1>6. Disconnection(a) \in EventType /\ events \in Seq(EventType)
  BY <1>3, <1>5, EventFacts DEF TypeOK
<1>7. TypeOK'
  <2>1. events' \in Seq(EventType)
    BY <1>1, <1>6
  <2> QED
    BY <1>2, <1>3, <1>5, <2>1 DEF TypeOK
<1>8. VisitInv' /\ SilenceInv' /\ DrainedInv'
  BY <1>2, <1>3, <1>4, <1>5 DEF VisitInv, SilenceInv, DrainedInv
<1>9. EventsInv'
  <2>1. Tells(told, events, Connected \ Ended)
    BY <1>3 DEF EventsInv
  <2>2. a \notin Ended
    BY <1>4 DEF Ended
  <2>3. Ended' = IF TimedOut(connections[a]) THEN Ended \cup {a} ELSE Ended
    BY <1>2, <1>4, <1>5 DEF Ended
  <2>4. CASE TimedOut(connections[a])
    <3> DEFINE e == Disconnection(a)
               now == Connected \ Ended
               next == now \ {a}
    <3>1. e.what # "Connection" /\ e.addr = a
      BY DEF Disconnection
    <3>2. next # now
      BY <1>5, <2>2
    <3>3. e \in EventType /\ Tells(told, events, now)
      BY <1>6, <2>1
    <3>4. Connected' \ Ended' = next
      BY <1>5, <2>3, <2>4
    <3> HIDE DEF e, now
    <3>5. Tells(told, Append(events, e), next)
      BY <1>6, <3>1, <3>2, <3>3, TellsAppend
    <3>6. events' = Append(events, e) /\ told' = told
      BY <1>1, <1>2, <2>4 DEF e
    <3> HIDE DEF next
    <3> QED
      BY <3>4, <3>5, <3>6 DEF EventsInv
  <2>5. CASE ~ TimedOut(connections[a])
    BY <1>1, <1>2, <1>5, <2>1, <2>3, <2>5 DEF EventsInv
  <2> QED
    BY <2>4, <2>5
<1> QED
  BY <1>7, <1>8, <1>9 DEF SocketInv

\* The poll ends: the connections whose time is over leave the table.
LEMMA EndPollKeeps == ASSUME SocketInv, EndPoll PROVE SocketInv'
<1>1. /\ phase = "poll" /\ todo = {} /\ visited = {} /\ phase' = "idle"
      /\ connections' = [a \in Survivors |-> connections[a]]
      /\ UNCHANGED <<events, messages, todo, visited, told, silent, packets,
                     connects>>
  BY DEF EndPoll, Restrict
<1>2. TypeOK /\ VisitInv /\ SilenceInv /\ DrainedInv /\ EventsInv
  BY DEF SocketInv
<1>3. /\ Connected' = Survivors /\ Survivors \subseteq Connected
      /\ \A a \in Survivors : connections'[a] = connections[a]
  BY <1>1 DEF Connected, Survivors
<1>4. Survivors = Connected \ Ended /\ Ended' = {}
  BY <1>1 DEF Survivors, Ended
<1>5. TypeOK'
  <2>1. connections' \in [Connected' -> ConnectionType]
    BY <1>1, <1>2, <1>3 DEF TypeOK
  <2>2. Connected' \subseteq Addrs
    BY <1>2, <1>3 DEF TypeOK
  <2> QED
    BY <1>1, <1>2, <2>1, <2>2 DEF TypeOK
<1>6. VisitInv' /\ SilenceInv' /\ DrainedInv'
  BY <1>1, <1>2, <1>3 DEF VisitInv, SilenceInv, DrainedInv
<1>7. EventsInv'
  BY <1>1, <1>2, <1>3, <1>4 DEF EventsInv
<1> QED
  BY <1>5, <1>6, <1>7 DEF SocketInv

\* Nothing happens.
LEMMA StutterKeepsSocket ==
    ASSUME SocketInv, UNCHANGED vars PROVE SocketInv'
<1>1. UNCHANGED <<connections, events, messages, phase, todo, visited, told,
                  silent, packets, connects>>
  BY DEF vars, pollVars
<1>2. Connected' = Connected /\ Ended' = Ended
  BY <1>1 DEF Connected, Ended
<1> QED
  BY <1>1, <1>2
     DEF SocketInv, TypeOK, VisitInv, SilenceInv, DrainedInv, EventsInv

\* The invariant holds in every state of the specification.
THEOREM SocketInductive == Spec => []SocketInv
<1>1. Init => SocketInv
  BY InitSocket
<1>2. SocketInv /\ [Next]_vars => SocketInv'
  <2> SUFFICES ASSUME SocketInv, [Next]_vars PROVE SocketInv'
    OBVIOUS
  <2>1. CASE Application
    BY <2>1, ConnectKeeps, DisconnectKeeps, EventsKeep, RecvFromKeeps
       DEF Application
  <2>2. ASSUME NEW dt \in Deltas, Poll(dt) PROVE SocketInv'
    BY <2>2, PollKeeps
  <2>3. ASSUME NEW a \in Addrs, NEW ms \in PeerPackets, ReceivePacket(a, ms)
        PROVE  SocketInv'
    BY <2>3, ReceivePacketKeeps
  <2>4. CASE Polling
    BY <2>4, StopReceivingKeeps, VisitKeeps, DrainKeeps, LeaveKeeps,
       EndPollKeeps DEF Polling
  <2>5. CASE UNCHANGED vars
    BY <2>5, StutterKeepsSocket
  <2> QED
    BY <2>1, <2>2, <2>3, <2>4, <2>5 DEF Next
<1> QED
  BY <1>1, <1>2, PTL DEF Spec

-----------------------------------------------------------------------------
(* Theorems *)

\* Every variable keeps its type.
THEOREM SocketTypeCorrect == Spec => []TypeOK
<1>1. SocketInv => TypeOK
  BY DEF SocketInv
<1> QED
  BY <1>1, SocketInductive, PTL

\* Who takes all the events knows who is connected, and no event says what is
\* known already: an end of a connection is told once, when it is visited, and
\* the table follows at the end of the poll.
THEOREM EventsAreTheTable == Spec => []EventsTellConnections
<1>1. SocketInv => EventsTellConnections
  <2> SUFFICES ASSUME SocketInv PROVE EventsTellConnections
    OBVIOUS
  <2>1. Tells(told, events, Connected \ Ended)
    BY DEF SocketInv, EventsInv
  <2>2. phase = "idle" => Ended = {}
    BY DEF Ended
  <2> QED
    BY <2>1, <2>2 DEF Tells, EventsTellConnections
<1> QED
  BY <1>1, SocketInductive, PTL

\* The invariants of a poll that ends are those of the table it leaves.
LEMMA PollEnds ==
    ASSUME SocketInv, [Next]_vars, phase = "poll", phase' = "idle"
    PROVE  EndPoll
<1>1. CASE Application
  BY <1>1 DEF Application, Connect, Disconnect, GetEvent, ClearEvents, RecvFrom
<1>2. CASE \E dt \in Deltas : Poll(dt)
  BY <1>2 DEF Poll
<1>3. CASE \E a \in Addrs, ms \in PeerPackets : ReceivePacket(a, ms)
  BY <1>3 DEF ReceivePacket
<1>4. CASE Polling
  BY <1>4 DEF Polling, StopReceiving, Visit, Drain, Leave, pollVars
<1>5. CASE UNCHANGED vars
  BY <1>5 DEF vars, pollVars
<1> QED
  BY <1>1, <1>2, <1>3, <1>4, <1>5 DEF Next

\* A poll removes a connection exactly when its peer was silent for the timeout.
THEOREM SilenceEndsConnections == Spec => TimeoutsAreExact
<1>1. SocketInv /\ [Next]_vars =>
        [phase = "poll" /\ phase' = "idle" =>
            \A a \in Connected :
               a \notin Connected' <=> silent[a] >= HeartbeatTimeout]_vars
  <2> SUFFICES ASSUME SocketInv, [Next]_vars, phase = "poll", phase' = "idle",
                      NEW a \in Connected
               PROVE  a \notin Connected' <=> silent[a] >= HeartbeatTimeout
    OBVIOUS
  <2>1. EndPoll
    BY PollEnds
  <2>2. Connected' = Survivors
    BY <2>1 DEF EndPoll, Restrict, Connected
  <2>3. connections[a].left = HeartbeatTimeout - silent[a]
    BY DEF SocketInv, SilenceInv
  <2>4. silent[a] \in 0 .. HeartbeatTimeout /\ HeartbeatTimeout \in Nat
    BY SocketAssumption DEF SocketInv, TypeOK
  <2>5. a \in Survivors <=> connections[a].left # 0
    BY DEF Survivors, TimedOut
  <2> QED
    BY <2>2, <2>3, <2>4, <2>5
<1> QED
  BY <1>1, SocketInductive, PTL DEF Spec, TimeoutsAreExact

\* A connection takes no message with it that it could have given out.
THEOREM ConnectionsLeaveNothing == Spec => LeavesNothing
<1>1. SocketInv /\ [Next]_vars =>
        [\A a \in Connected \ Connected' : Ready(connections[a]) = {}]_vars
  <2> SUFFICES ASSUME SocketInv, [Next]_vars, NEW a \in Connected, a \notin Connected'
               PROVE  Ready(connections[a]) = {}
    OBVIOUS
  <2>1. CASE phase = "receive"
    <3>1. Connected' = Connected
      BY <2>1 DEF Next, Application, Connect, Disconnect, GetEvent, ClearEvents,
         RecvFrom, Poll, ReceivePacket, Polling, StopReceiving, Visit, Drain,
         Leave, EndPoll, Connected, vars
    <3> QED
      BY <3>1
  <2>2. CASE phase # "receive" /\ a \notin todo \cup visited
    BY <2>2 DEF SocketInv, DrainedInv
  <2>3. CASE phase # "receive" /\ a \in todo \cup visited
    <3>1. phase = "poll"
      BY <2>3 DEF SocketInv, VisitInv
    <3>2. Connected' = Connected
      BY <2>3, <3>1 DEF Next, Application, Connect, Disconnect, GetEvent,
         ClearEvents, RecvFrom, Poll, ReceivePacket, Polling, StopReceiving,
         Visit, Drain, Leave, EndPoll, Connected, vars
    <3> QED
      BY <3>2
  <2> QED
    BY <2>1, <2>2, <2>3
<1> QED
  BY <1>1, SocketInductive, PTL DEF Spec, LeavesNothing

=============================================================================

----------------------------- MODULE BackendProofs ----------------------------
(***************************************************************************)
(* Proofs about the readers of datagrams (src/socket/backend.rs, the       *)
(* receive loop of src/socket/mod.rs, src/broadcast.rs) and the virtual    *)
(* socket (src/socket/virt.rs): for whatever sizes, delays and datagrams   *)
(* there are and however many.                                             *)
(***************************************************************************)
EXTENDS Backend, OperatorProofs

\* What waits for the reader, and what arrived, is from the network.
InboxInv ==
    /\ inbox \in Seq(Genuine \cup Strange)
    /\ arrived \in Seq(Genuine \cup Strange)

-----------------------------------------------------------------------------
(* Lemmas *)

\* A sequence over a set is one over each larger set.
LEMMA SeqMonotone ==
    ASSUME NEW S, NEW T, S \subseteq T, NEW s \in Seq(S)
    PROVE  s \in Seq(T)
OBVIOUS

\* A release only adds to the wire.
LEMMA ReleaseAdds ==
    ASSUME NEW ps, NEW time, Release(ps, time) PROVE wire \subseteq wire'
BY DEF Release

\* Sending only adds to what is genuine.
LEMMA SendingAdds ==
    ASSUME SendTo \/ VirtPoll
    PROVE  wire \subseteq wire' /\ UNCHANGED <<inbox, arrived>>
<1>1. UNCHANGED <<inbox, arrived>>
  BY DEF SendTo, VirtPoll, reading
<1>2. wire' = wire \/ \E ps, time : Release(ps, time)
  BY DEF SendTo, VirtPoll
<1> QED
  BY <1>1, <1>2, ReleaseAdds

\* What is taken out of the kernel's buffer leaves the rest.
LEMMA RecvLeavesRest ==
    ASSUME NEW S, inbox \in Seq(S) PROVE AfterRecv(inbox) \in Seq(S)
BY DEF AfterRecv

-----------------------------------------------------------------------------
(* Every step keeps the invariant *)

\* Sending keeps the invariant, since what is genuine stays so.
LEMMA SendingKeepsInbox ==
    ASSUME InboxInv, SendTo \/ VirtPoll PROVE InboxInv'
<1>1. Genuine \subseteq Genuine' /\ UNCHANGED <<inbox, arrived>>
  BY SendingAdds DEF Genuine
<1>2. Strange' = Strange
  BY DEF Strange
<1> QED
  BY <1>1, <1>2, SeqMonotone DEF InboxInv

\* What arrives is genuine or strange.
LEMMA ArrivalKeepsInbox == ASSUME InboxInv, Arrives PROVE InboxInv'
<1>1. PICK d \in Genuine \cup Strange :
          inbox' = Append(inbox, d) /\ arrived' = Append(arrived, d)
  BY DEF Arrives
<1>2. Genuine' = Genuine /\ Strange' = Strange
  <2>1. wire' = wire
    BY DEF Arrives, sending
  <2> QED
    BY <2>1 DEF Genuine, Strange
<1> HIDE DEF Genuine
<1> QED
  BY <1>1, <1>2 DEF InboxInv

\* Both readers go through recv_from.
LEMMA ReadingKeepsInbox ==
    ASSUME InboxInv, BeginReceive \/ ReceiveNext \/ ListenerRecv
    PROVE  InboxInv'
<1>1. Genuine' = Genuine /\ Strange' = Strange /\ arrived' = arrived
  <2>1. wire' = wire /\ arrived' = arrived
    BY DEF BeginReceive, ReceiveNext, ListenerRecv, sending
  <2> QED
    BY <2>1 DEF Genuine, Strange
<1>2. inbox' = inbox \/ inbox' = AfterRecv(inbox)
  BY DEF BeginReceive, ReceiveNext, ListenerRecv
<1>3. inbox' \in Seq(Genuine \cup Strange)
  BY <1>2, RecvLeavesRest DEF InboxInv
<1> QED
  BY <1>1, <1>3 DEF InboxInv

\* The invariant holds always.
THEOREM InboxInductive == Spec => []InboxInv
<1>1. Init => InboxInv
  BY DEF Init, InboxInv
<1>2. InboxInv /\ [Next]_vars => InboxInv'
  <2> SUFFICES ASSUME InboxInv, [Next]_vars PROVE InboxInv'
    OBVIOUS
  <2>1. CASE SendTo \/ VirtPoll
    BY <2>1, SendingKeepsInbox
  <2>2. CASE Arrives
    BY <2>2, ArrivalKeepsInbox
  <2>3. CASE BeginReceive \/ ReceiveNext \/ ListenerRecv
    BY <2>3, ReadingKeepsInbox
  <2>4. CASE UNCHANGED vars
    BY <2>4 DEF vars, sending, reading, InboxInv, Genuine, Strange
  <2> QED
    BY <2>1, <2>2, <2>3, <2>4 DEF Next
<1> QED
  BY <1>1, <1>2, PTL DEF Spec

-----------------------------------------------------------------------------
(* The reader goes through what arrives in order, and leaves nothing out *)

\* How many datagrams it has read, and where the good ones of them are.
Count == Len(arrived) - Len(inbox)
GoodPlaces == {i \in 1 .. Count : Good(arrived[i])}

ReadInv ==
    /\ reader \in {"socket", "listener"}
    /\ receiving => reader = "socket"
    /\ Len(inbox) <= Len(arrived)
    /\ NoneSkipped

\* The numbers of it.
LEMMA ReadFacts ==
    ASSUME InboxInv, ReadInv
    PROVE  /\ Len(arrived) \in Nat /\ Len(inbox) \in Nat
           /\ Count \in 0 .. Len(arrived) /\ Count \in Nat
           /\ GoodPlaces \in SUBSET (1 .. Count)
           /\ inbox = SubSeq(arrived, Count + 1, Len(arrived))
           /\ taken = Subsequence(arrived, GoodPlaces)
<1>1. Len(arrived) \in Nat /\ Len(inbox) \in Nat
  <2> DEFINE S == Genuine \cup Strange
  <2>1. arrived \in Seq(S) /\ inbox \in Seq(S)
    BY DEF InboxInv
  <2> HIDE DEF S
  <2> QED
    BY <2>1
<1>2. Len(inbox) <= Len(arrived)
  BY DEF ReadInv
<1> QED
  BY <1>1, <1>2 DEF ReadInv, NoneSkipped, Count, GoodPlaces

\* One datagram more waits.
LEMMA ArrivalKeepsRead == ASSUME InboxInv, ReadInv, Arrives PROVE ReadInv'
<1> DEFINE S == Genuine \cup Strange
<1>1. PICK d \in S : inbox' = Append(inbox, d) /\ arrived' = Append(arrived, d)
  BY DEF Arrives
<1>2. UNCHANGED <<reader, receiving, taken>>
  BY DEF Arrives
<1>3. arrived \in Seq(S) /\ inbox \in Seq(S)
  BY DEF InboxInv
<1> HIDE DEF S
<1>4. /\ Len(arrived) \in Nat /\ Len(inbox) \in Nat
      /\ Count \in 0 .. Len(arrived) /\ Count \in Nat
      /\ GoodPlaces \in SUBSET (1 .. Count)
      /\ inbox = SubSeq(arrived, Count + 1, Len(arrived))
      /\ taken = Subsequence(arrived, GoodPlaces)
  BY ReadFacts
<1>5. /\ Len(arrived') = Len(arrived) + 1 /\ Len(inbox') = Len(inbox) + 1
      /\ \A i \in 1 .. Len(arrived) : arrived'[i] = arrived[i]
  BY <1>1, <1>3
<1>6. Count' = Count
  BY <1>4, <1>5 DEF Count
<1>7. \A i \in 1 .. Count : arrived'[i] = arrived[i]
  BY <1>4, <1>5
<1>8. GoodPlaces' = GoodPlaces
  BY <1>2, <1>6, <1>7 DEF GoodPlaces, Good
<1>9. inbox' = SubSeq(arrived', Count' + 1, Len(arrived'))
  BY <1>1, <1>3, <1>4, <1>5, <1>6, SuffixGrows
<1>10. taken' = Subsequence(arrived', GoodPlaces')
  <2>1. \A i \in GoodPlaces : arrived[i] = arrived'[i]
    BY <1>4, <1>7
  <2>2. Subsequence(arrived, GoodPlaces) = Subsequence(arrived', GoodPlaces)
    BY <1>4, <2>1, SubsequenceAgrees
  <2> QED
    BY <1>2, <1>4, <1>8, <2>2
<1>11. NoneSkipped'
  BY <1>9, <1>10 DEF NoneSkipped, Count, GoodPlaces
<1>12. Len(inbox') <= Len(arrived')
  BY <1>4, <1>5 DEF ReadInv
<1> QED
  BY <1>2, <1>11, <1>12 DEF ReadInv

\* To read the next datagram is to take it exactly if it is good.
LEMMA NextIsRead ==
    ASSUME InboxInv, ReadInv, inbox # <<>>, inbox' = Tail(inbox),
           arrived' = arrived, reader' = reader,
           taken' = IF Good(Head(inbox)) THEN Append(taken, Head(inbox))
                                         ELSE taken
    PROVE  NoneSkipped' /\ Len(inbox') <= Len(arrived')
<1> DEFINE S == Genuine \cup Strange
<1>1. arrived \in Seq(S) /\ inbox \in Seq(S)
  BY DEF InboxInv
<1> HIDE DEF S
<1>2. /\ Len(arrived) \in Nat /\ Len(inbox) \in Nat
      /\ Count \in 0 .. Len(arrived) /\ Count \in Nat
      /\ GoodPlaces \in SUBSET (1 .. Count)
      /\ inbox = SubSeq(arrived, Count + 1, Len(arrived))
      /\ taken = Subsequence(arrived, GoodPlaces)
  BY ReadFacts
<1>3. Len(inbox) > 0 /\ Len(inbox') = Len(inbox) - 1
  BY <1>1
<1>4. Count' = Count + 1 /\ Count \in 0 .. (Len(arrived) - 1)
  BY <1>2, <1>3 DEF Count
<1>5. /\ Head(inbox) = arrived[Count + 1]
      /\ inbox' = SubSeq(arrived', Count' + 1, Len(arrived'))
  <2>1. /\ Head(inbox) = arrived[Count + 1]
        /\ Tail(inbox) = SubSeq(arrived, Count + 2, Len(arrived))
    BY <1>1, <1>2, <1>4, SuffixShrinks
  <2>2. Count' + 1 = Count + 2
    BY <1>2, <1>4
  <2> QED
    BY <2>1, <2>2
<1>6. GoodPlaces' = IF Good(arrived[Count + 1])
                    THEN GoodPlaces \cup {Count + 1} ELSE GoodPlaces
  <2>1. GoodPlaces' = {i \in 1 .. (Count + 1) : Good(arrived[i])}
    BY <1>4 DEF GoodPlaces, Good
  <2>2. 1 .. (Count + 1) = (1 .. Count) \cup {Count + 1}
    BY <1>2
  <2> QED
    BY <2>1, <2>2 DEF GoodPlaces
<1>7. taken' = Subsequence(arrived', GoodPlaces')
  <2>1. CASE Good(arrived[Count + 1])
    <3>1. Subsequence(arrived, GoodPlaces \cup {Count + 1})
            = Append(Subsequence(arrived, GoodPlaces), arrived[Count + 1])
      <4>1. Count \in Nat /\ Count < Len(arrived)
        BY <1>2, <1>4
      <4> QED
        BY <1>1, <1>2, <4>1, SubsequenceGrows
    <3> QED
      BY <1>2, <1>5, <1>6, <2>1, <3>1
  <2>2. CASE ~ Good(arrived[Count + 1])
    BY <1>2, <1>5, <1>6, <2>2
  <2> QED
    BY <2>1, <2>2
<1>8. Len(inbox') <= Len(arrived')
  BY <1>2, <1>3 DEF ReadInv
<1> QED
  BY <1>5, <1>7, <1>8 DEF NoneSkipped, Count, GoodPlaces

\* The receive loop.
LEMMA ReceiveKeepsRead == ASSUME InboxInv, ReadInv, ReceiveNext PROVE ReadInv'
<1>1. /\ receiving /\ reader = "socket"
      /\ inbox' = AfterRecv(inbox)
      /\ receiving' = ~ RecvIsNone(inbox)
      /\ taken' = IF ~ RecvIsNone(inbox) /\ Head(inbox).crate
                  THEN Append(taken, Head(inbox)) ELSE taken
      /\ reader' = reader /\ arrived' = arrived
  BY DEF ReceiveNext, ReadInv
<1>2. CASE inbox = <<>>
  <2>1. inbox' = inbox /\ taken' = taken
    BY <1>1, <1>2 DEF AfterRecv, RecvIsNone
  <2> QED
    BY <1>1, <2>1 DEF ReadInv, NoneSkipped, Good
<1>3. CASE inbox # <<>>
  <2>1. inbox' = Tail(inbox)
    BY <1>1, <1>3 DEF AfterRecv
  <2>2. ~ RecvIsNone(inbox) /\ Head(inbox).crate <=> Good(Head(inbox))
    BY <1>1, <1>3 DEF RecvIsNone, Validated, Good
  <2>3. NoneSkipped' /\ Len(inbox') <= Len(arrived')
    BY <1>1, <1>3, <2>1, <2>2, NextIsRead
  <2> QED
    BY <1>1, <2>3 DEF ReadInv
<1> QED
  BY <1>2, <1>3

\* The listener.
LEMMA ListenerKeepsRead == ASSUME InboxInv, ReadInv, ListenerRecv PROVE ReadInv'
<1>1. /\ reader = "listener"
      /\ inbox' = AfterRecv(inbox)
      /\ taken' = IF RecvIsNone(inbox) THEN taken ELSE Append(taken, Head(inbox))
      /\ reader' = reader /\ receiving' = receiving /\ arrived' = arrived
  BY DEF ListenerRecv
<1>2. CASE inbox = <<>>
  <2>1. inbox' = inbox /\ taken' = taken
    BY <1>1, <1>2 DEF AfterRecv, RecvIsNone
  <2> QED
    BY <1>1, <2>1 DEF ReadInv, NoneSkipped, Good
<1>3. CASE inbox # <<>>
  <2>1. inbox' = Tail(inbox)
    BY <1>1, <1>3 DEF AfterRecv
  <2>2. ~ RecvIsNone(inbox) <=> Good(Head(inbox))
    BY <1>1, <1>3 DEF RecvIsNone, Validated, Good
  <2>3. NoneSkipped' /\ Len(inbox') <= Len(arrived')
    BY <1>1, <1>3, <2>1, <2>2, NextIsRead
  <2> QED
    BY <1>1, <2>3 DEF ReadInv
<1> QED
  BY <1>2, <1>3

\* The invariant holds always.
THEOREM ReadInductive == Spec => []ReadInv
<1>1. Init => ReadInv
  <2> SUFFICES ASSUME Init PROVE ReadInv
    OBVIOUS
  <2>1. /\ reader \in {"socket", "listener"} /\ ~ receiving
        /\ inbox = <<>> /\ arrived = <<>> /\ taken = <<>>
    BY DEF Init
  <2>2. Len(inbox) = 0 /\ Len(arrived) = 0 /\ 1 .. 0 = {}
    BY <2>1
  <2>3. SubSeq(<<>>, 1, 0) = <<>>
    OBVIOUS
  <2>4. Subsequence(<<>>, {}) = <<>>
    BY FS_EmptySet DEF Subsequence
  <2>5. NoneSkipped
    BY <2>1, <2>2, <2>3, <2>4 DEF NoneSkipped
  <2> QED
    BY <2>1, <2>2, <2>5 DEF ReadInv
<1>2. InboxInv /\ ReadInv /\ [Next]_vars => ReadInv'
  <2> SUFFICES ASSUME InboxInv, ReadInv, [Next]_vars PROVE ReadInv'
    OBVIOUS
  <2>1. CASE SendTo \/ VirtPoll \/ UNCHANGED vars
    <3>1. UNCHANGED reading
      BY <2>1 DEF SendTo, VirtPoll, vars, reading
    <3> QED
      BY <3>1 DEF reading, ReadInv, NoneSkipped, Good
  <2>2. CASE Arrives
    BY <2>2, ArrivalKeepsRead
  <2>3. CASE BeginReceive
    BY <2>3 DEF BeginReceive, ReadInv, NoneSkipped, Good
  <2>4. CASE ReceiveNext
    BY <2>4, ReceiveKeepsRead
  <2>5. CASE ListenerRecv
    BY <2>5, ListenerKeepsRead
  <2> QED
    BY <2>1, <2>2, <2>3, <2>4, <2>5 DEF Next
<1> QED
  BY <1>1, <1>2, InboxInductive, PTL DEF Spec

\* Of what was read all that is good was taken, once each and in order.
THEOREM GoodOnesAreTaken == Spec => []NoneSkipped
<1>1. ReadInv => NoneSkipped
  BY DEF ReadInv
<1> QED
  BY <1>1, ReadInductive, PTL

-----------------------------------------------------------------------------
(* The virtual socket removes by index, from the last *)

\* What removes the places of due, going down from the last.
Removes(f, ps, due) ==
    /\ f[0] = ps
    /\ \A k \in 1 .. Len(ps) :
         Len(ps) - k + 1 \in DOMAIN f[k - 1] =>
            f[k] = IF Len(ps) - k + 1 \in due
                   THEN RemoveAt(f[k - 1], Len(ps) - k + 1) ELSE f[k - 1]

\* After k steps the places below are as they were, so that their indices are
\* still right, and what is left above is not due.
AfterSteps(f, S, ps, due, k) ==
    /\ f[k] \in Seq(S) /\ Len(f[k]) >= Len(ps) - k
    /\ \A j \in 1 .. (Len(ps) - k) : f[k][j] = ps[j]
    /\ \A j \in DOMAIN f[k] :
         j > Len(ps) - k => \E i \in DOMAIN ps \ due : f[k][j] = ps[i]

\* One step.
LEMMA RemovalStep ==
    ASSUME NEW S, NEW ps \in Seq(S), NEW due, NEW f, Removes(f, ps, due),
           NEW k \in 1 .. Len(ps), AfterSteps(f, S, ps, due, k - 1)
    PROVE  AfterSteps(f, S, ps, due, k)
<1> DEFINE i == Len(ps) - k + 1
           q == f[k - 1]
<1>1. /\ i \in 1 .. Len(ps) /\ Len(ps) \in Nat /\ Len(ps) - (k - 1) = i
      /\ Len(ps) - k = i - 1
  OBVIOUS
<1>2. /\ q \in Seq(S) /\ Len(q) >= i
      /\ \A j \in 1 .. i : q[j] = ps[j]
      /\ \A j \in DOMAIN q : j > i => \E m \in DOMAIN ps \ due : q[j] = ps[m]
  BY <1>1 DEF AfterSteps
<1>3. Len(q) \in Nat /\ DOMAIN q = 1 .. Len(q) /\ i \in DOMAIN q
  BY <1>1, <1>2
<1>4. f[k] = IF i \in due THEN RemoveAt(q, i) ELSE q
  BY <1>3 DEF Removes
<1> HIDE DEF q, i
<1>5. CASE i \in due
  <2> DEFINE r == RemoveAt(q, i)
  <2>1. /\ r \in Seq(S) /\ Len(r) = Len(q) - 1
        /\ \A j \in 1 .. (i - 1) : r[j] = q[j]
        /\ \A j \in i .. (Len(q) - 1) : r[j] = q[j + 1]
    BY <1>2, <1>3, RemoveAtFacts
  <2> HIDE DEF r
  <2>2. Len(r) >= i - 1
    BY <1>1, <1>2, <1>3, <2>1
  <2>3. \A j \in 1 .. (i - 1) : r[j] = ps[j]
    <3>1. \A j \in 1 .. (i - 1) : j \in 1 .. i
      BY <1>1
    <3> QED
      BY <1>2, <2>1, <3>1
  <2>4. ASSUME NEW j \in DOMAIN r, j > i - 1
        PROVE  \E m \in DOMAIN ps \ due : r[j] = ps[m]
    <3>1. j \in i .. (Len(q) - 1) /\ j + 1 \in DOMAIN q /\ j + 1 > i
      BY <1>1, <1>3, <2>1, <2>4
    <3>2. r[j] = q[j + 1]
      BY <2>1, <3>1
    <3> QED
      BY <1>2, <3>1, <3>2
  <2>5. f[k] = r
    BY <1>4, <1>5 DEF r
  <2> QED
    BY <1>1, <2>1, <2>2, <2>3, <2>4, <2>5 DEF AfterSteps
<1>6. CASE i \notin due
  <2>1. f[k] = q
    BY <1>4, <1>6
  <2>2. \A j \in 1 .. (i - 1) : q[j] = ps[j]
    <3>1. \A j \in 1 .. (i - 1) : j \in 1 .. i
      BY <1>1
    <3> QED
      BY <1>2, <3>1
  <2>3. ASSUME NEW j \in DOMAIN q, j > i - 1
        PROVE  \E m \in DOMAIN ps \ due : q[j] = ps[m]
    <3>1. CASE j = i
      <4>1. q[j] = ps[i] /\ i \in DOMAIN ps \ due
        BY <1>1, <1>2, <1>6, <3>1
      <4> QED
        BY <4>1
    <3>2. CASE j # i
      <4>1. j > i
        BY <1>1, <1>3, <2>3, <3>2
      <4> QED
        BY <1>2, <4>1
    <3> QED
      BY <3>1, <3>2
  <2>4. Len(q) >= i - 1
    BY <1>1, <1>2, <1>3
  <2> QED
    BY <1>1, <1>2, <2>1, <2>2, <2>3, <2>4 DEF AfterSteps
<1> QED
  BY <1>5, <1>6

\* And so after all of them.
LEMMA RemovalSteps ==
    ASSUME NEW S, NEW ps \in Seq(S), NEW due, NEW f, Removes(f, ps, due)
    PROVE  \A k \in 0 .. Len(ps) : AfterSteps(f, S, ps, due, k)
<1> DEFINE Bad == {k \in 0 .. Len(ps) : ~ AfterSteps(f, S, ps, due, k)}
<1> SUFFICES ASSUME Bad # {} PROVE FALSE
  OBVIOUS
<1>1. Len(ps) \in Nat /\ Bad \subseteq Nat
  OBVIOUS
<1>2. PICK k \in Bad : \A y \in Bad : k <= y
  <2> HIDE DEF Bad
  <2> QED
    BY <1>1, NatLeast
<1>3. k \in 0 .. Len(ps) /\ ~ AfterSteps(f, S, ps, due, k)
  OBVIOUS
<1>4. k # 0
  <2>1. f[0] = ps /\ Len(ps) - 0 = Len(ps) /\ DOMAIN ps = 1 .. Len(ps)
    BY <1>1 DEF Removes
  <2>2. \A j \in DOMAIN ps : ~ (j > Len(ps))
    BY <1>1
  <2>3. Len(f[0]) >= Len(ps) - 0
    BY <1>1, <2>1
  <2>4. AfterSteps(f, S, ps, due, 0)
    BY <2>1, <2>2, <2>3 DEF AfterSteps
  <2> QED
    BY <1>3, <2>4
<1>5. k \in 1 .. Len(ps) /\ k - 1 \in 0 .. Len(ps) /\ ~ (k <= k - 1)
  BY <1>1, <1>3, <1>4
<1>6. k - 1 \notin Bad
  <2> HIDE DEF Bad
  <2> QED
    BY <1>2, <1>5
<1>7. AfterSteps(f, S, ps, due, k - 1)
  BY <1>5, <1>6
<1> QED
  BY <1>3, <1>5, <1>7, RemovalStep

\* There are such steps,
LEMMA RemovalExists ==
    ASSUME NEW S, NEW ps \in Seq(S), NEW due
    PROVE  \E f \in [0 .. Len(ps) -> Seq(S)] : Removes(f, ps, due)
<1> DEFINE n == Len(ps)
           C == Seq(S)
           step == [p \in (1 .. n) \X C |->
                      IF n - p[1] + 1 \in DOMAIN p[2] /\ n - p[1] + 1 \in due
                      THEN RemoveAt(p[2], n - p[1] + 1) ELSE p[2]]
<1>1. n \in Nat /\ ps \in C /\ n \in 0 .. n
  OBVIOUS
<1>2. \A q \in C : \A i \in DOMAIN q : RemoveAt(q, i) \in C
  BY RemoveAtFacts
<1>3. step \in [(1 .. n) \X C -> C]
  BY <1>2
<1>4. \A k \in 1 .. n, q \in C :
         n - k + 1 \in DOMAIN q =>
            step[<<k, q>>] = IF n - k + 1 \in due
                             THEN RemoveAt(q, n - k + 1) ELSE q
  OBVIOUS
<1> HIDE DEF n, C, step
<1>5. PICK f \in [0 .. n -> C] : Iterates(f, ps, step, n)
  BY <1>1, <1>3, RecursionExists
<1>6. ASSUME NEW k \in 1 .. n, n - k + 1 \in DOMAIN f[k - 1]
      PROVE  f[k] = IF n - k + 1 \in due
                    THEN RemoveAt(f[k - 1], n - k + 1) ELSE f[k - 1]
  <2>1. f[k] = step[<<k, f[k - 1]>>] /\ f[k - 1] \in C
    BY <1>1, <1>5 DEF Iterates
  <2> QED
    BY <1>4, <1>6, <2>1
<1>7. Removes(f, ps, due)
  BY <1>5, <1>6 DEF Removes, Iterates, n
<1> QED
  BY <1>5, <1>7 DEF n, C

\* and the recursive function of Left is such.
LEMMA LeftRemoves ==
    ASSUME NEW S, NEW ps \in Seq(S), NEW due
    PROVE  Removes(Left(ps, due), ps, due)
<1> DEFINE n == Len(ps)
           Body(g) == [k \in 0 .. n |->
                IF k = 0 THEN ps
                ELSE LET i == n - k + 1
                     IN  IF i \in due THEN RemoveAt(g[k - 1], i) ELSE g[k - 1]]
           h == CHOOSE g : g = Body(g)
<1>1. n \in Nat
  OBVIOUS
<1>2. PICK f \in [0 .. n -> Seq(S)] : Removes(f, ps, due)
  BY RemovalExists
<1>3. ASSUME NEW k \in 1 .. n
      PROVE  f[k] = IF n - k + 1 \in due
                    THEN RemoveAt(f[k - 1], n - k + 1) ELSE f[k - 1]
  <2>1. AfterSteps(f, S, ps, due, k - 1)
    <3>1. k - 1 \in 0 .. Len(ps)
      BY <1>1
    <3> QED
      BY <1>2, <3>1, RemovalSteps
  <2>2. Len(f[k - 1]) >= n - k + 1 /\ f[k - 1] \in Seq(S)
    BY <1>1, <2>1 DEF AfterSteps
  <2>3. n - k + 1 \in 1 .. Len(f[k - 1])
    BY <1>1, <2>2
  <2>4. n - k + 1 \in DOMAIN f[k - 1]
    BY <2>2, <2>3
  <2> QED
    BY <1>2, <2>4 DEF Removes
<1>4. f = Body(f)
  <2>1. \A k \in 0 .. n : k = 0 \/ k \in 1 .. n
    BY <1>1
  <2>2. f[0] = ps
    BY <1>2 DEF Removes
  <2>3. \A k \in 0 .. n : f[k] = IF k = 0 THEN ps
                                 ELSE IF n - k + 1 \in due
                                      THEN RemoveAt(f[k - 1], n - k + 1)
                                      ELSE f[k - 1]
    BY <1>3, <2>1, <2>2
  <2> QED
    BY <1>2, <2>3
<1>5. h = Body(h)
  BY <1>4
<1>6. Left(ps, due) = h
  BY DEF Left
<1> HIDE DEF h
<1>7. \A k \in 0 .. n : h[k] = IF k = 0 THEN ps
                               ELSE IF n - k + 1 \in due
                                    THEN RemoveAt(h[k - 1], n - k + 1)
                                    ELSE h[k - 1]
  BY <1>5, Zenon
<1>8. 0 \in 0 .. n /\ \A k \in 1 .. n : k \in 0 .. n /\ k # 0
  BY <1>1
<1>9. Removes(h, ps, due)
  BY <1>7, <1>8 DEF Removes
<1> QED
  BY <1>6, <1>9

\* So nothing that is due is left, and what is removed is what was due.
LEMMA LeftFacts ==
    ASSUME NEW S, NEW ps \in Seq(S), NEW due \in SUBSET DOMAIN ps
    PROVE  LET left == Left(ps, due) IN
           /\ left[Len(ps)] \in Seq(S)
           /\ \A j \in DOMAIN left[Len(ps)] :
                \E i \in DOMAIN ps \ due : left[Len(ps)][j] = ps[i]
           /\ \A i \in due : left[Len(ps) - i][i] = ps[i]
<1> DEFINE left == Left(ps, due)
           n == Len(ps)
<1>1. n \in Nat /\ n \in 0 .. n /\ n - n = 0
  OBVIOUS
<1>2. \A k \in 0 .. n : AfterSteps(left, S, ps, due, k)
  <2>1. Removes(left, ps, due)
    BY LeftRemoves
  <2> HIDE DEF left
  <2> QED
    BY <2>1, RemovalSteps
<1> HIDE DEF left
<1>3. /\ left[n] \in Seq(S)
      /\ \A j \in DOMAIN left[n] :
            j > 0 => \E i \in DOMAIN ps \ due : left[n][j] = ps[i]
  BY <1>1, <1>2 DEF AfterSteps
<1>4. \A j \in DOMAIN left[n] : j > 0
  BY <1>3
<1>5. ASSUME NEW i \in due PROVE left[n - i][i] = ps[i]
  <2>1. n - i \in 0 .. n /\ i \in 1 .. (n - (n - i))
    BY <1>1
  <2>2. AfterSteps(left, S, ps, due, n - i)
    BY <1>2, <2>1
  <2> QED
    BY <2>1, <2>2 DEF AfterSteps
<1> QED
  BY <1>3, <1>4, <1>5 DEF left

-----------------------------------------------------------------------------
(* Nothing leaves the virtual socket early or late *)

Delayed == [call : Nat, size : Sizes, crate : BOOLEAN, at : Nat]

DelayInv ==
    /\ now \in Nat /\ calls \in Nat
    /\ packets \in Seq(Delayed)
    /\ \A d \in wire : d.at \in Nat
    /\ OnTime

\* A release at a time that is not in the past makes it so.
LEMMA ReleaseIsOnTime ==
    ASSUME DelayInv, NEW ps \in Seq(Delayed), NEW time \in Nat, now <= time,
           Release(ps, time)
    PROVE  /\ now' = time /\ packets' \in Seq(Delayed)
           /\ \A d \in wire' : d.at \in Nat
           /\ OnTime'
<1> DEFINE due == Due(ps, time)
           left == Left(ps, due)
           out == {left[Len(ps) - i][i] : i \in due}
<1>1. /\ packets' = left[Len(ps)]
      /\ wire' = wire \cup {Signed(data) : data \in {d \in out : Signs(d)}}
      /\ now' = time
  BY DEF Release
<1>2. due \in SUBSET DOMAIN ps
  BY DEF Due
<1>3. \A i \in DOMAIN ps : ps[i].at \in Nat /\ (i \in due <=> ps[i].at <= time)
  <2>1. \A i \in DOMAIN ps : ps[i] \in Delayed
    OBVIOUS
  <2> QED
    BY <2>1 DEF Due, Delayed
<1> HIDE DEF due
<1>4. /\ left[Len(ps)] \in Seq(Delayed)
      /\ \A j \in DOMAIN left[Len(ps)] :
            \E i \in DOMAIN ps \ due : left[Len(ps)][j] = ps[i]
      /\ \A i \in due : left[Len(ps) - i][i] = ps[i]
  BY <1>2, LeftFacts
<1> HIDE DEF left
<1>5. \A j \in DOMAIN packets' : packets'[j].at > now'
  <2> SUFFICES ASSUME NEW j \in DOMAIN packets'
               PROVE  packets'[j].at > now'
    OBVIOUS
  <2>1. PICK i \in DOMAIN ps \ due : packets'[j] = ps[i]
    BY <1>1, <1>4
  <2> QED
    BY <1>1, <1>3, <2>1
<1>6. \A d \in out : d.at \in Nat /\ d.at <= time
  <2> SUFFICES ASSUME NEW i \in due
               PROVE  /\ left[Len(ps) - i][i].at \in Nat
                      /\ left[Len(ps) - i][i].at <= time
    OBVIOUS
  <2> QED
    BY <1>2, <1>3, <1>4
<1> HIDE DEF out
<1>7. \A d \in wire' : d.at \in Nat /\ d.at <= now'
  <2> SUFFICES ASSUME NEW d \in wire' PROVE d.at \in Nat /\ d.at <= now'
    OBVIOUS
  <2>1. CASE d \in wire
    BY <1>1, <2>1 DEF DelayInv, OnTime
  <2>2. CASE d \notin wire
    <3>1. PICK data \in out : d = Signed(data)
      BY <1>1, <2>2
    <3>2. d.at = data.at
      BY <3>1 DEF Signed
    <3> QED
      BY <1>1, <1>6, <3>2
  <2> QED
    BY <2>1, <2>2
<1> QED
  BY <1>1, <1>4, <1>5, <1>7 DEF OnTime

\* To send is to add copies that are due now or later.
LEMMA SendToIsOnTime == ASSUME DelayInv, SendTo PROVE DelayInv'
<1>1. calls' = calls + 1
  BY DEF SendTo
<1>2. CASE UNCHANGED <<now, packets, wire>>
  BY <1>1, <1>2 DEF DelayInv, OnTime
<1>3. CASE \E size \in Sizes, crate \in BOOLEAN, times \in 1 .. 2 :
            \E delays \in [1 .. times -> Delays] :
                LET copies == [k \in 1 .. times |->
                        [call |-> calls, size |-> size, crate |-> crate,
                         at |-> now + delays[k]]]
                IN  Release(packets \o copies, now)
  <2>1. PICK size \in Sizes, crate \in BOOLEAN, times \in 1 .. 2 :
            \E delays \in [1 .. times -> Delays] :
                LET copies == [k \in 1 .. times |->
                        [call |-> calls, size |-> size, crate |-> crate,
                         at |-> now + delays[k]]]
                IN  Release(packets \o copies, now)
    BY <1>3
  <2>2. PICK delays \in [1 .. times -> Delays] :
                LET copies == [k \in 1 .. times |->
                        [call |-> calls, size |-> size, crate |-> crate,
                         at |-> now + delays[k]]]
                IN  Release(packets \o copies, now)
    BY <2>1
  <2> DEFINE copies == [k \in 1 .. times |->
                         [call |-> calls, size |-> size, crate |-> crate,
                          at |-> now + delays[k]]]
  <2>3. Release(packets \o copies, now)
    BY <2>2
  <2>4. \A k \in 1 .. times : delays[k] \in Nat
    <3>1. \A d \in Delays : d \in Nat
      BY BackendAssumption DEF Delays
    <3> QED
      BY <3>1
  <2>5. now \in Nat /\ calls \in Nat /\ packets \in Seq(Delayed)
    BY DEF DelayInv
  <2>6. \A k \in 1 .. times : copies[k] \in Delayed
    BY <2>4, <2>5 DEF Delayed
  <2>7. copies \in Seq(Delayed)
    <3>1. times \in Nat /\ DOMAIN copies = 1 .. times
      OBVIOUS
    <3>2. copies \in [1 .. times -> Delayed]
      BY <2>6
    <3> QED
      BY <3>1, <3>2
  <2> HIDE DEF copies
  <2>8. packets \o copies \in Seq(Delayed) /\ now <= now
    BY <2>5, <2>7
  <2> HIDE DEF Delayed
  <2>9. /\ now' = now /\ packets' \in Seq(Delayed)
        /\ (\A d \in wire' : d.at \in Nat) /\ OnTime'
    BY <2>3, <2>5, <2>8, ReleaseIsOnTime
  <2>10. calls' \in Nat
    BY <1>1, <2>5
  <2> QED
    BY <2>5, <2>9, <2>10 DEF DelayInv
<1> QED
  BY <1>2, <1>3 DEF SendTo

\* So does a poll, some time later.
LEMMA PollIsOnTime == ASSUME DelayInv, VirtPoll PROVE DelayInv'
<1>1. PICK dt \in Deltas : Release(packets, now + dt)
  BY DEF VirtPoll
<1>2. calls' = calls
  BY DEF VirtPoll
<1>3. now \in Nat /\ dt \in Nat /\ now + dt \in Nat /\ now <= now + dt
  BY BackendAssumption DEF DelayInv
<1> QED
  BY <1>1, <1>2, <1>3, ReleaseIsOnTime DEF DelayInv

\* The invariant holds always.
THEOREM DelayInductive == Spec => []DelayInv
<1>1. Init => DelayInv
  BY DEF Init, DelayInv, OnTime
<1>2. DelayInv /\ [Next]_vars => DelayInv'
  <2> SUFFICES ASSUME DelayInv, [Next]_vars PROVE DelayInv'
    OBVIOUS
  <2>1. CASE SendTo
    BY <2>1, SendToIsOnTime
  <2>2. CASE VirtPoll
    BY <2>2, PollIsOnTime
  <2>3. CASE Arrives \/ BeginReceive \/ ReceiveNext \/ ListenerRecv \/ UNCHANGED vars
    <3>1. UNCHANGED sending
      BY <2>3 DEF Arrives, BeginReceive, ReceiveNext, ListenerRecv, vars
    <3> QED
      BY <3>1 DEF sending, DelayInv, OnTime
  <2> QED
    BY <2>1, <2>2, <2>3 DEF Next
<1> QED
  BY <1>1, <1>2, PTL DEF Spec

\* Nothing that is due is held back, nothing leaves before its time.
THEOREM DelaysAreKept == Spec => []OnTime
<1>1. DelayInv => OnTime
  BY DEF DelayInv
<1> QED
  BY <1>1, DelayInductive, PTL
=============================================================================

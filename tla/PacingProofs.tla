----------------------------- MODULE PacingProofs -----------------------------
(***************************************************************************)
(* Proofs about the score a peer grants: with ids of eight bits, as in     *)
(* src/socket/sender/pscore.rs, the keeper follows the newest reply and    *)
(* spends every grant once, for every length of the windows, every round   *)
(* trip time, any number of losses and copies, and replies that are        *)
(* overtaken by up to half of the ids.                                     *)
(***************************************************************************)
EXTENDS Pacing, FiniteSetTheorems, TLAPS

ScoreIdRange == 0 .. (ScoreIds - 1)

Reply == [id : ScoreIdRange, score : Nat, acks : SUBSET Int]

PacingTypeOK ==
    /\ phase \in {"send", "peer", "arrive"}
    /\ latency \in Nat
    /\ keeper \in [id : ScoreIdRange, score : Nat]
    /\ peer \in [window : [pos : Int, marked : SUBSET Int],
                 scoreId : ScoreIdRange, taken : SUBSET Nat]
    /\ granted \in [score : Nat, age : Nat \cup {-1}, spent : Nat]
    /\ replies \in Seq(Reply)
    /\ DOMAIN queue \subseteq Nat /\ queued \in Nat
    /\ counter \in Int

\* The replies carry consecutive ids, modulo their number, the newest first.
RepliesAreInOrder ==
    /\ Len(replies) <= latency + MaxSkew + 1
    /\ \A k \in 1 .. Len(replies) : replies[k].id = (peer.scoreId - k) % ScoreIds

\* The newest reply received is as old as one that is due, or no reply that is
\* kept is older: what comes is never older than it by more than MaxSkew.
NewestIsDue ==
    granted.age >= latency \/ Len(replies) <= granted.age + 1

IInv ==
    /\ PacingTypeOK
    /\ RepliesAreInOrder
    /\ NewestIsDue
    /\ KeeperIsNewest
    /\ ScoreGrantedOnce

-----------------------------------------------------------------------------
(* Arithmetic of the ids *)

\* The ids of two replies tell which one is newer as long as their ages are
\* close enough: push_score's test compares a with b.
LEMMA NewerByAge ==
    ASSUME ScoreIds = 256,
           NEW s \in ScoreIdRange, NEW a \in Nat, NEW b \in Nat,
           b - a <= 127, a - b <= 128,
           NEW x, NEW y, x = (s - 1 - a) % ScoreIds, y = (s - 1 - b) % ScoreIds
    PROVE  x # y /\ (x - y) % ScoreIds <= 127 <=> a < b
BY DEF ScoreIdRange

\* Counting on one id keeps the id of a reply that is one round older.
LEMMA NextId ==
    ASSUME ScoreIds = 256, NEW s \in ScoreIdRange, NEW a \in Int
    PROVE  /\ (s + 1) % ScoreIds \in ScoreIdRange
           /\ (((s + 1) % ScoreIds) - (a + 1)) % ScoreIds = (s - a) % ScoreIds
           /\ s = (((s + 1) % ScoreIds) - 1) % ScoreIds
BY DEF ScoreIdRange

\* The ids are those of a byte.
LEMMA ScoreIdsAreInts == ASSUME ScoreIds = 256, NEW s \in ScoreIdRange PROVE s \in 0 .. 255
BY DEF ScoreIdRange

\* push_score compares the difference with i8::MAX.
LEMMA HalfIs == ASSUME ScoreIds = 256 PROVE Half = 127
BY DEF Half

\* A score is a number of packets of the window.
LEMMA PacketScoreType ==
    ASSUME NEW w PROVE PacketScore(w) \in Nat
<1> DEFINE missing == {i \in 0 .. (PacketWindowLen - 1) :
                          i <= LeadingBase(w) /\ LeadingBase(w) + i \notin w.marked}
<1>1. PacketWindowLen \in Nat
  BY WindowAssumption
<1>2. /\ IsFiniteSet(0 .. (PacketWindowLen - 1))
      /\ Cardinality(0 .. (PacketWindowLen - 1)) = PacketWindowLen
  BY <1>1, FS_Interval
<1>3. missing \in SUBSET (0 .. (PacketWindowLen - 1))
  OBVIOUS
<1>4. /\ Cardinality(missing) \in Nat
      /\ Cardinality(missing) <= PacketWindowLen
  <2> HIDE DEF missing
  <2> QED
    BY <1>2, <1>3, FS_Subset, FS_CardinalityType
<1>5. PacketScore(w) = PacketWindowLen - Cardinality(missing)
  BY DEF PacketScore
<1> QED
  BY <1>1, <1>4, <1>5

-----------------------------------------------------------------------------
(* Every step keeps the invariant *)

\* The invariant holds at first.
LEMMA InitIInv == ASSUME ScoreIds = 256, Init PROVE IInv
<1>1. PacingTypeOK
  BY WindowAssumption, PacingAssumption DEF Init, PacingTypeOK, ScoreIdRange, Reply, NewLeadingWindow
<1>2. RepliesAreInOrder /\ NewestIsDue
  BY PacingAssumption DEF Init, RepliesAreInOrder, NewestIsDue
<1>3. KeeperIsNewest /\ ScoreGrantedOnce
  BY WindowAssumption DEF Init, KeeperIsNewest, ScoreGrantedOnce, MaxOf
<1> QED
  BY <1>1, <1>2, <1>3 DEF Init, IInv

\* Queueing a message concerns neither side.
LEMMA QueueKeepsIInv ==
    ASSUME ScoreIds = 256, IInv, QueueMessage PROVE IInv'
<1>1. PacingTypeOK'
  BY DEF IInv, PacingTypeOK, QueueMessage
<1>2. RepliesAreInOrder' /\ NewestIsDue' /\ KeeperIsNewest' /\ ScoreGrantedOnce'
  BY DEF IInv, RepliesAreInOrder, NewestIsDue, KeeperIsNewest, ScoreGrantedOnce,
         QueueMessage
<1> QED
  BY <1>1, <1>2 DEF IInv

\* A packet spends one of the score on both sides of ScoreGrantedOnce.
LEMMA SenderPollKeepsIInv ==
    ASSUME ScoreIds = 256, IInv, SenderPoll PROVE IInv'
<1>0. /\ PacingTypeOK /\ RepliesAreInOrder /\ NewestIsDue
      /\ KeeperIsNewest /\ ScoreGrantedOnce
  BY DEF IInv
<1>1. /\ phase' = "peer"
      /\ UNCHANGED <<latency, queued, replies, silent>>
      /\ DOMAIN queue' = DOMAIN queue
  BY DEF SenderPoll
<1>2. /\ \/ keeper' = keeper /\ granted' = granted
         \/ /\ keeper' = [keeper EXCEPT !.score = MaxOf(0, @ - 1)]
            /\ granted' = [granted EXCEPT !.spent = @ + 1]
      /\ counter' \in {counter, counter + 1}
  BY DEF SenderPoll
<1>3. \/ peer' = peer
      \/ \E ids \in SUBSET DOMAIN queue :
            peer' = [peer EXCEPT !.window = LeadingMark(@, counter),
                                 !.taken = @ \cup ids]
  <2>1. (IF HasScore THEN ReadyMessages ELSE {}) \in SUBSET DOMAIN queue
    BY DEF ReadyMessages
  <2> QED
    BY <2>1 DEF SenderPoll
<1>4. LeadingMark(peer.window, counter) \in [pos : Int, marked : SUBSET Int]
  BY <1>0, WindowAssumption DEF PacingTypeOK, LeadingMark
<1>5. peer' \in [window : [pos : Int, marked : SUBSET Int],
                 scoreId : ScoreIdRange, taken : SUBSET Nat]
      /\ peer'.scoreId = peer.scoreId
  <2>1. peer \in [window : [pos : Int, marked : SUBSET Int],
                  scoreId : ScoreIdRange, taken : SUBSET Nat]
    BY <1>0 DEF PacingTypeOK
  <2>2. CASE peer' = peer
    BY <2>1, <2>2
  <2>3. CASE peer' # peer
    <3>1. PICK ids \in SUBSET DOMAIN queue :
            peer' = [peer EXCEPT !.window = LeadingMark(@, counter),
                                 !.taken = @ \cup ids]
      BY <1>3, <2>3
    <3>2. peer.taken \cup ids \in SUBSET Nat
      BY <1>0, <2>1 DEF PacingTypeOK
    <3> QED
      BY <1>4, <2>1, <3>1, <3>2
  <2> QED
    BY <2>2, <2>3
<1>6. /\ keeper' \in [id : ScoreIdRange, score : Nat]
      /\ granted' \in [score : Nat, age : Nat \cup {-1}, spent : Nat]
      /\ keeper'.id = keeper.id /\ granted'.age = granted.age
      /\ \/ keeper'.score = keeper.score /\ granted' = granted
         \/ /\ keeper'.score = MaxOf(0, keeper.score - 1)
            /\ granted'.score = granted.score
            /\ granted'.spent = granted.spent + 1
  <2>1. /\ keeper \in [id : ScoreIdRange, score : Nat]
        /\ granted \in [score : Nat, age : Nat \cup {-1}, spent : Nat]
    BY <1>0 DEF PacingTypeOK
  <2>2. CASE keeper' = keeper /\ granted' = granted
    BY <2>1, <2>2
  <2>3. CASE /\ keeper' = [keeper EXCEPT !.score = MaxOf(0, @ - 1)]
             /\ granted' = [granted EXCEPT !.spent = @ + 1]
    <3>1. MaxOf(0, keeper.score - 1) \in Nat /\ granted.spent + 1 \in Nat
      BY <2>1 DEF MaxOf
    <3>2. /\ keeper' \in [id : ScoreIdRange, score : Nat]
          /\ keeper'.id = keeper.id
          /\ keeper'.score = MaxOf(0, keeper.score - 1)
      BY <2>1, <2>3, <3>1
    <3>3. /\ granted' \in [score : Nat, age : Nat \cup {-1}, spent : Nat]
          /\ granted'.age = granted.age /\ granted'.score = granted.score
          /\ granted'.spent = granted.spent + 1
      BY <2>1, <2>3, <3>1
    <3> QED
      BY <3>2, <3>3
  <2> QED
    BY <1>2, <2>2, <2>3
<1>7. PacingTypeOK'
  <2>1. /\ phase' \in {"send", "peer", "arrive"} /\ latency' \in Nat
        /\ DOMAIN queue' \subseteq Nat /\ queued' \in Nat
        /\ replies' \in Seq(Reply)
    BY <1>0, <1>1 DEF PacingTypeOK
  <2>2. counter' \in Int
    BY <1>0, <1>2 DEF PacingTypeOK
  <2> QED
    BY <1>5, <1>6, <2>1, <2>2 DEF PacingTypeOK
<1>8. RepliesAreInOrder' /\ NewestIsDue'
  BY <1>0, <1>1, <1>5, <1>6 DEF RepliesAreInOrder, NewestIsDue
<1>9. KeeperIsNewest'
  BY <1>0, <1>1, <1>5, <1>6 DEF KeeperIsNewest
<1>10. ScoreGrantedOnce'
  <2>1. /\ granted.score \in Nat /\ granted.spent \in Nat /\ keeper.score \in Nat
    BY <1>0 DEF PacingTypeOK
  <2> QED
    BY <1>0, <1>1, <1>6, <2>1 DEF ScoreGrantedOnce, MaxOf
<1> QED
  BY <1>1, <1>7, <1>8, <1>9, <1>10 DEF IInv

\* A new reply takes the next id, and every other is a round older.
LEMMA PeerPollKeepsIInv ==
    ASSUME ScoreIds = 256, IInv, PeerPoll PROVE IInv'
<1> DEFINE by     == ShiftBy(peer.window)
           window == [pos |-> peer.window.pos - by,
                      marked |-> Shifted(peer.window.marked, by)]
           new    == [id |-> peer.scoreId, score |-> PacketScore(window),
                      acks |-> window.marked]
           older  == [k \in DOMAIN replies |->
                        [replies[k] EXCEPT !.acks = Shifted(@, by)]]
           all    == <<new>> \o older
           kept   == MinOf(Len(all), latency + MaxSkew + 1)
<1>1. by \in Nat
  BY WindowAssumption DEF ShiftBy
<1>2. \A ids \in SUBSET Int : Shifted(ids, by) \in SUBSET Int
  <2> HIDE DEF by
  <2> SUFFICES ASSUME NEW ids \in SUBSET Int, NEW i \in ids
               PROVE  i - by \in Int
    BY DEF Shifted
  <2> QED
    BY <1>1
<1>3. window \in [pos : Int, marked : SUBSET Int]
  BY <1>1, <1>2 DEF IInv, PacingTypeOK
<1>4. new \in Reply
  BY <1>3, PacketScoreType DEF IInv, PacingTypeOK, Reply
<1>5. /\ older \in Seq(Reply) /\ Len(older) = Len(replies)
      /\ \A k \in 1 .. Len(replies) : older[k].id = replies[k].id
  <2>1. replies \in Seq(Reply) /\ DOMAIN replies = 1 .. Len(replies)
    BY DEF IInv, PacingTypeOK
  <2>2. ASSUME NEW r \in Reply
        PROVE  LET old == [r EXCEPT !.acks = Shifted(@, by)]
               IN  old \in Reply /\ old.id = r.id
    BY <1>2 DEF Reply
  <2>3. \A k \in 1 .. Len(replies) :
           older[k] \in Reply /\ older[k].id = replies[k].id
    <3> SUFFICES ASSUME NEW k \in 1 .. Len(replies)
                 PROVE  older[k] \in Reply /\ older[k].id = replies[k].id
      OBVIOUS
    <3>1. replies[k] \in Reply
      BY <2>1
    <3>2. older[k] = [replies[k] EXCEPT !.acks = Shifted(@, by)]
      BY <2>1
    <3> QED
      BY <2>2, <3>1, <3>2
  <2>4. older \in [1 .. Len(replies) -> Reply]
    BY <2>1, <2>3
  <2> HIDE DEF older
  <2> QED
    BY <2>1, <2>3, <2>4
<1>6. /\ all \in Seq(Reply) /\ Len(all) = Len(replies) + 1
      /\ all[1] = new
      /\ \A k \in 2 .. Len(all) : all[k] = older[k - 1]
  <2> HIDE DEF new, older
  <2> QED
    BY <1>4, <1>5
<1>7. /\ kept \in Nat /\ kept <= Len(all) /\ kept <= latency + MaxSkew + 1
      /\ latency \in Nat
  <2>1. latency \in Nat
    BY DEF IInv, PacingTypeOK
  <2> HIDE DEF all
  <2> QED
    BY <1>6, <2>1, PacingAssumption DEF MinOf
<1>8. /\ phase' = "arrive"
      /\ peer' = [peer EXCEPT !.window = window, !.scoreId = (@ + 1) % ScoreIds]
      /\ replies' = SubSeq(all, 1, kept)
      /\ counter' = counter - by
      /\ granted' = [granted EXCEPT !.age = @ + 1]
      /\ UNCHANGED <<latency, queue, queued, keeper, silent>>
  BY DEF PeerPoll
<1>9. /\ replies' \in Seq(Reply) /\ Len(replies') = kept
      /\ \A k \in 1 .. kept : replies'[k] = all[k]
  <2> HIDE DEF all, kept
  <2> QED
    BY <1>6, <1>7, <1>8
<1>10. /\ peer' \in [window : [pos : Int, marked : SUBSET Int],
                     scoreId : ScoreIdRange, taken : SUBSET Nat]
       /\ peer'.scoreId = (peer.scoreId + 1) % ScoreIds
       /\ peer.scoreId \in ScoreIdRange
  <2> DEFINE next == (peer.scoreId + 1) % ScoreIds
  <2>1. /\ peer \in [window : [pos : Int, marked : SUBSET Int],
                     scoreId : ScoreIdRange, taken : SUBSET Nat]
        /\ peer.scoreId \in ScoreIdRange
    BY DEF IInv, PacingTypeOK
  <2>2. next \in ScoreIdRange
    BY <2>1, NextId
  <2>3. peer' = [peer EXCEPT !.window = window, !.scoreId = next]
    BY <1>8
  <2> HIDE DEF window, next
  <2>4. /\ peer' \in [window : [pos : Int, marked : SUBSET Int],
                      scoreId : ScoreIdRange, taken : SUBSET Nat]
        /\ peer'.scoreId = next
    BY <1>3, <2>1, <2>2, <2>3
  <2> QED
    BY <2>1, <2>4 DEF next
<1>11. /\ granted' \in [score : Nat, age : Nat, spent : Nat]
       /\ granted'.age = granted.age + 1 /\ granted.age \in Int
       /\ granted'.score = granted.score /\ granted'.spent = granted.spent
  <2>1. /\ granted \in [score : Nat, age : Nat \cup {-1}, spent : Nat]
        /\ granted' = [granted EXCEPT !.age = @ + 1]
    BY <1>8 DEF IInv, PacingTypeOK
  <2>2. granted.age \in Int /\ granted.age + 1 \in Nat
    BY <2>1
  <2> QED
    BY <2>1, <2>2
<1>12. PacingTypeOK'
  <2>1. counter' \in Int /\ granted' \in [score : Nat, age : Nat \cup {-1}, spent : Nat]
    <3> HIDE DEF by
    <3> QED
      BY <1>1, <1>8, <1>11 DEF IInv, PacingTypeOK
  <2>2. /\ phase' \in {"send", "peer", "arrive"} /\ replies' \in Seq(Reply)
        /\ latency' \in Nat
    BY <1>7, <1>8, <1>9
  <2> HIDE DEF window, all, kept, by
  <2> QED
    BY <1>8, <1>10, <2>1, <2>2 DEF IInv, PacingTypeOK
<1>13. RepliesAreInOrder'
  <2> SUFFICES ASSUME NEW k \in 1 .. kept
               PROVE  all[k].id = (peer'.scoreId - k) % ScoreIds
    <3>1. latency' = latency
      BY <1>8
    <3> HIDE DEF all, kept
    <3> QED
      BY <1>7, <1>9, <3>1 DEF RepliesAreInOrder
  <2>1. CASE k = 1
    <3>1. all[1].id = peer.scoreId
      BY <1>6
    <3>2. peer.scoreId = (peer'.scoreId - 1) % ScoreIds
      BY <1>10, NextId
    <3> HIDE DEF all
    <3> QED
      BY <2>1, <3>1, <3>2
  <2>2. CASE k # 1
    <3>1. k \in 2 .. Len(all) /\ k - 1 \in 1 .. Len(replies)
      <4> HIDE DEF all, kept
      <4> QED
        BY <1>6, <1>7, <2>2
    <3>2. all[k].id = replies[k - 1].id
      <4> HIDE DEF older, new, all
      <4> QED
        BY <1>5, <1>6, <3>1
    <3>3. replies[k - 1].id = (peer.scoreId - (k - 1)) % ScoreIds
      BY <3>1 DEF IInv, RepliesAreInOrder
    <3>4. (peer'.scoreId - ((k - 1) + 1)) % ScoreIds
                = (peer.scoreId - (k - 1)) % ScoreIds
      <4> HIDE DEF kept
      <4> QED
        BY <1>7, <1>10, NextId
    <3> HIDE DEF all
    <3> QED
      BY <1>7, <3>2, <3>3, <3>4
  <2> QED
    BY <2>1, <2>2
<1>14. KeeperIsNewest'
  <2>1. (peer'.scoreId - (granted.age + 2)) % ScoreIds
            = (peer.scoreId - (granted.age + 1)) % ScoreIds
    BY <1>10, <1>11, NextId
  <2>2. /\ peer'.scoreId \in Int /\ peer.scoreId \in Int
    BY <1>10 DEF ScoreIdRange
  <2>3. /\ peer'.scoreId - 1 - granted'.age = peer'.scoreId - (granted.age + 2)
        /\ peer.scoreId - 1 - granted.age = peer.scoreId - (granted.age + 1)
    BY <1>11, <2>2
  <2> QED
    BY <1>8, <2>1, <2>3 DEF IInv, KeeperIsNewest
<1>15. ScoreGrantedOnce'
  BY <1>8, <1>11 DEF IInv, ScoreGrantedOnce
<1>16. NewestIsDue'
  <2>1. Len(replies) \in Nat /\ latency' = latency
    BY <1>8 DEF IInv, PacingTypeOK
  <2> HIDE DEF all, kept
  <2> QED
    BY <1>6, <1>7, <1>9, <1>11, <2>1 DEF IInv, NewestIsDue
<1> QED
  BY <1>12, <1>13, <1>14, <1>15, <1>16 DEF IInv

\* The id of a reply that is so many rounds old.
LEMMA ReplyIdByAge ==
    ASSUME ScoreIds = 256, IInv, NEW k \in 1 .. Len(replies)
    PROVE  /\ replies[k] \in Reply
           /\ replies[k].id = (peer.scoreId - 1 - (k - 1)) % ScoreIds
           /\ k - 1 \in Nat /\ k - 1 <= latency + MaxSkew
           /\ peer.scoreId \in ScoreIdRange
<1>1. /\ replies[k] \in Reply
      /\ replies[k].id = (peer.scoreId - k) % ScoreIds
      /\ Len(replies) \in Nat /\ Len(replies) <= latency + MaxSkew + 1
      /\ peer.scoreId \in ScoreIdRange /\ latency \in Nat
  BY DEF IInv, PacingTypeOK, RepliesAreInOrder
<1>2. k - 1 \in Nat /\ k - 1 <= latency + MaxSkew
  BY <1>1, PacingAssumption
<1>3. \A s \in 0 .. 255 : s - 1 - (k - 1) = s - k
  BY <1>1
<1>4. peer.scoreId \in 0 .. 255
  BY <1>1, ScoreIdsAreInts, Zenon
<1>5. peer.scoreId - 1 - (k - 1) = peer.scoreId - k
  BY <1>3, <1>4
<1> QED
  BY <1>1, <1>2, <1>5

\* A reply that is newer than all before it is taken with its score, and one
\* that is not leaves the keeper alone: their ages decide, not their ids.
LEMMA ProcessKeepsIInv ==
    ASSUME ScoreIds = 256, MaxSkew <= 128, IInv,
           phase' \in {"arrive", "send"},
           NEW k \in 1 .. Len(replies), k > latency, Process(replies[k], k - 1),
           UNCHANGED <<latency, queued, counter, peer, replies>>
    PROVE  IInv'
<1> DEFINE age == k - 1
<1>1. /\ replies[k] \in Reply
      /\ replies[k].id = (peer.scoreId - 1 - age) % ScoreIds
      /\ age \in Nat /\ age >= latency /\ age - granted.age <= 128
      /\ granted.age \in Nat /\ latency \in Nat /\ peer.scoreId \in ScoreIdRange
  <2>1. /\ granted.age \in Int /\ latency \in Nat /\ Len(replies) \in Nat
        /\ granted.age >= latency \/ Len(replies) <= granted.age + 1
        /\ granted.age >= -1
    BY DEF IInv, PacingTypeOK, NewestIsDue
  <2>2. /\ age \in Nat /\ age <= latency + MaxSkew
    BY ReplyIdByAge
  <2>3. age >= latency /\ age <= Len(replies) - 1
    BY <2>1
  <2>4. granted.age \in Nat /\ age - granted.age <= 128
    <3> HIDE DEF age
    <3> QED
      BY <2>1, <2>2, <2>3, PacingAssumption
  <2> QED
    BY <2>1, <2>3, <2>4, ReplyIdByAge
<1>2. /\ keeper \in [id : ScoreIdRange, score : Nat]
      /\ granted \in [score : Nat, age : Nat \cup {-1}, spent : Nat]
      /\ replies[k].id \in ScoreIdRange /\ replies[k].score \in Nat
  BY <1>1 DEF IInv, PacingTypeOK, Reply
<1>3. /\ keeper' = IF Newer(replies[k].id)
                   THEN [id |-> replies[k].id, score |-> replies[k].score]
                   ELSE keeper
      /\ granted' = IF age < granted.age
                    THEN [score |-> replies[k].score, age |-> age, spent |-> 0]
                    ELSE granted
      /\ silent' = (silent \/ granted.age - age > Half)
      /\ DOMAIN queue' \subseteq DOMAIN queue
  BY DEF Process, Restrict
<1>4. PacingTypeOK'
  <2>1. keeper' \in [id : ScoreIdRange, score : Nat]
    BY <1>2, <1>3
  <2>2. granted' \in [score : Nat, age : Nat \cup {-1}, spent : Nat]
    BY <1>1, <1>2, <1>3
  <2> HIDE DEF age
  <2> QED
    BY <1>3, <2>1, <2>2 DEF IInv, PacingTypeOK
<1>5. RepliesAreInOrder'
  BY DEF IInv, RepliesAreInOrder
<1>6. NewestIsDue'
  <2>1. granted'.age = granted.age \/ granted'.age = age
    BY <1>2, <1>3
  <2> HIDE DEF age
  <2> QED
    BY <1>1, <2>1 DEF IInv, NewestIsDue
<1>7. CASE silent'
  BY <1>4, <1>5, <1>6, <1>7 DEF IInv, KeeperIsNewest, ScoreGrantedOnce
<1>8. CASE ~ silent'
  <2>1. /\ ~ silent /\ granted.age - age <= 127
        /\ keeper.id = (peer.scoreId - 1 - granted.age) % ScoreIds
        /\ keeper.score = MaxOf(0, granted.score - granted.spent)
    <3>1. ~ silent /\ ~ (granted.age - age > Half)
      BY <1>3, <1>8, Zenon
    <3> HIDE DEF age
    <3>2. granted.age - age <= 127
      BY <1>1, <3>1, HalfIs
    <3> QED
      BY <3>1, <3>2 DEF IInv, KeeperIsNewest, ScoreGrantedOnce
  <2> DEFINE Follows == Newer(replies[k].id) <=> age < granted.age
  <2>2. Follows
    <3> HIDE DEF age
    <3>1. granted.age - age <= 127 /\ age - granted.age <= 128
      BY <1>1, <2>1
    <3>2. replies[k].id # keeper.id /\ (replies[k].id - keeper.id) % ScoreIds <= 127
            <=> age < granted.age
      BY <1>1, <2>1, <3>1, NewerByAge
    <3> QED
      BY <3>2, HalfIs DEF Newer
  <2> HIDE DEF age
  <2>3. KeeperIsNewest'
    BY <1>1, <1>3, <2>1, <2>2 DEF KeeperIsNewest
  <2>4. ScoreGrantedOnce'
    BY <1>2, <1>3, <2>1, <2>2 DEF ScoreGrantedOnce, MaxOf
  <2> QED
    BY <1>4, <1>5, <1>6, <2>3, <2>4 DEF IInv
<1> QED
  BY <1>7, <1>8

\* The reply that is due is latency rounds old.
LEMMA ArrivalKeepsIInv ==
    ASSUME ScoreIds = 256, MaxSkew <= 128, IInv, ReplyArrives
    PROVE  IInv'
<1>1. /\ phase' = "send" /\ UNCHANGED <<latency, queued, counter, peer, replies>>
      /\ latency \in Nat /\ Len(replies) \in Nat
  BY DEF ReplyArrives, IInv, PacingTypeOK
<1>2. CASE Len(replies) > latency
  <2>1. latency + 1 \in 1 .. Len(replies) /\ latency + 1 > latency
    BY <1>1, <1>2
  <2>2. Process(replies[latency + 1], (latency + 1) - 1)
    BY <1>1, <1>2 DEF ReplyArrives
  <2> QED
    BY <1>1, <2>1, <2>2, ProcessKeepsIInv
<1>3. CASE ~ (Len(replies) > latency)
  <2>1. UNCHANGED <<keeper, queue, granted, silent>>
    BY <1>3 DEF ReplyArrives
  <2> QED
    BY <1>1, <2>1
    DEF IInv, PacingTypeOK, RepliesAreInOrder, NewestIsDue, KeeperIsNewest,
        ScoreGrantedOnce
<1> QED
  BY <1>2, <1>3

\* A reply that was overtaken or copied is older.
LEMMA LateArrivalKeepsIInv ==
    ASSUME ScoreIds = 256, MaxSkew <= 128, IInv, LateReplyArrives
    PROVE  IInv'
<1>1. PICK k \in (latency + 2) .. Len(replies) : Process(replies[k], k - 1)
  BY DEF LateReplyArrives
<1>2. k \in 1 .. Len(replies) /\ k > latency
  BY DEF IInv, PacingTypeOK
<1>3. phase' = "arrive" /\ UNCHANGED <<latency, queued, counter, peer, replies>>
  BY DEF LateReplyArrives
<1> QED
  BY <1>1, <1>2, <1>3, ProcessKeepsIInv

\* A lost reply changes nothing; those after it grow older with it.
LEMMA LossKeepsIInv == ASSUME IInv, ReplyLost PROVE IInv'
BY DEF ReplyLost, IInv, PacingTypeOK, RepliesAreInOrder, NewestIsDue,
       KeeperIsNewest, ScoreGrantedOnce

-----------------------------------------------------------------------------
(* Theorems *)

\* The invariant holds always, if no reply is overtaken by more than half of
\* the ids.
THEOREM PacingInductive ==
    ASSUME ScoreIds = 256, MaxSkew <= 128
    PROVE  Spec => []IInv
<1>1. Init => IInv
  BY InitIInv
<1>2. IInv /\ [Next]_vars => IInv'
  <2> SUFFICES ASSUME IInv, [Next]_vars PROVE IInv'
    OBVIOUS
  <2>1. CASE QueueMessage
    BY <2>1, QueueKeepsIInv
  <2>2. CASE SenderPoll
    BY <2>2, SenderPollKeepsIInv
  <2>3. CASE PeerPoll
    BY <2>3, PeerPollKeepsIInv
  <2>4. CASE ReplyArrives
    BY <2>4, ArrivalKeepsIInv
  <2>5. CASE ReplyLost
    BY <2>5, LossKeepsIInv
  <2>6. CASE LateReplyArrives
    BY <2>6, LateArrivalKeepsIInv
  <2>7. CASE UNCHANGED vars
    BY <2>7 DEF vars, IInv, PacingTypeOK, RepliesAreInOrder, NewestIsDue,
                KeeperIsNewest, ScoreGrantedOnce
  <2> QED
    BY <2>1, <2>2, <2>3, <2>4, <2>5, <2>6, <2>7 DEF Next
<1> QED
  BY <1>1, <1>2, PTL DEF Spec

\* push_score follows the newest reply over every wrap of the ids.
THEOREM KeeperFollowsNewest ==
    ASSUME ScoreIds = 256, MaxSkew <= 128
    PROVE  Spec => []KeeperIsNewest
<1>1. IInv => KeeperIsNewest
  BY DEF IInv
<1> QED
  BY <1>1, PacingInductive, PTL

\* No copy and no late reply grants a score again that consume_score has spent.
THEOREM ScoreIsGrantedOnce ==
    ASSUME ScoreIds = 256, MaxSkew <= 128
    PROVE  Spec => []ScoreGrantedOnce
<1>1. IInv => ScoreGrantedOnce
  BY DEF IInv
<1> QED
  BY <1>1, PacingInductive, PTL
=============================================================================

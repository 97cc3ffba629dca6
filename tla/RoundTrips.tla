------------------------------ MODULE RoundTrips ------------------------------
(***************************************************************************)
(* RTTMeasurements of src/socket/stats.rs over the Circular buffer of      *)
(* src/utils.rs: from time to time the smoothed round trip time is         *)
(* recorded, and the median of the last records is the base round trip     *)
(* time, by which compute_packet_budget judges the current one.            *)
(*                                                                         *)
(* The smoothing (Ema) is floating point: a new sample makes the smoothed  *)
(* time any of a few values.  Times are integers, and the median is kept   *)
(* twice as large, since that of an even number of records is an average.  *)
(***************************************************************************)
EXTENDS Integers, Sequences, Functions

CONSTANTS
    HistoryLen,     \* RTT_HISTORY_LEN, 30 records
    RecordFreq      \* RTT_RECORD_FREQ, 500 ms

ASSUME RoundTripAssumption ==
    /\ HistoryLen \in Nat \ {0}
    /\ RecordFreq \in Nat \ {0}

\* Circular::push.
CircularPush(buffer, value) ==
    Append(IF Len(buffer) = HistoryLen THEN Tail(buffer) ELSE buffer, value)

\* sort_by of the standard library: the same values, from the least up.
Sorted(values) ==
    CHOOSE t \in {[i \in DOMAIN values |-> values[order[i]]] :
                     order \in Bijection(DOMAIN values, DOMAIN values)} :
        \A i, j \in DOMAIN t : i < j => t[i] <= t[j]

NewRoundTrips(rtt) == [rtt |-> rtt, hist |-> <<>>, sorted |-> <<>>, next |-> 0]

\* Faulty form of RecordRtt: the scratch buffer is not cleared first.
RecordRttAppends(r) ==
    LET hist == CircularPush(r.hist, r.rtt)
    IN  [r EXCEPT !.hist = hist,
                  !.sorted = Sorted(@ \o hist)]

\* record_rtt: the scratch buffer is filled anew from the history and sorted.
RecordRtt(r) ==
    LET hist == CircularPush(r.hist, r.rtt)
    IN  [r EXCEPT !.hist = hist,
                  !.sorted = Sorted(hist)]

\* update, once per poll: it records when its timer has run out.
Update(r, delta) ==
    IF r.next <= delta
    THEN [RecordRtt(r) EXCEPT !.next = RecordFreq]
    ELSE [r EXCEPT !.next = @ - delta]

\* median, doubled.
Median2(r) ==
    LET n == Len(r.sorted)
    IN  IF n = 0 THEN 2 * r.rtt
        ELSE IF n % 2 = 1 THEN 2 * r.sorted[n \div 2 + 1]
        ELSE r.sorted[(n - 1) \div 2 + 1] + r.sorted[n \div 2 + 1]
=============================================================================

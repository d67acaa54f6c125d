---------------------------- MODULE FlowRecords ----------------------------
(***************************************************************************)
(* What one NetFlow v9 / IPFIX datagram becomes in the flows table         *)
(* (flowingest/decode.go: produce, normalise, plausible, scale,            *)
(* recordSamplingRates).  A datagram is a sequence of sets; goflow2's      *)
(* producer (external) emits one message for each record of its data sets, *)
(* in order, with the sampling rate of the options template or 0.  All     *)
(* messages of a datagram share their counters and times here: what        *)
(* matters is which rate each one gets and what the arithmetic does.       *)
(* Integers are 64 bits wide in the code; MaxInt is their largest here.    *)
(***************************************************************************)
EXTENDS Naturals, Sequences, SequencesExt

CONSTANTS MaxInt,       \* MaxInt64; a uint64 counts modulo 2 * (MaxInt + 1)
          MaxRate,      \* math.MaxInt32
          RecordRates,  \* sampling rates found in records (0: none)
          OptionRates,  \* rate known from an options template (0: none)
          Counters,     \* byte counts of the messages
          FlowTimes,    \* start and end times (0: not sent)
          Received, MaxAge, MaxFutureSkew,
          MaxSets       \* bound: sets of a datagram, records of a set

ASSUME FlowRecordBounds ==
    /\ MaxInt \in Nat /\ MaxRate \in 1..MaxInt
    /\ Counters \subseteq 0..(2 * MaxInt + 1)
    /\ RecordRates \cup OptionRates \subseteq 0..(2 * MaxInt + 1)
    /\ {Received, MaxAge, MaxFutureSkew, MaxSets} \subseteq Nat /\ FlowTimes \subseteq Nat
    /\ MaxAge < Received

Uint(n) == n % (2 * (MaxInt + 1))

VARIABLES datagram, \* [sets, option, bytes, start, end]
          flows     \* the records stored for it, <<>> before it is decoded

flowRecordVars == <<datagram, flows>>

\* A set is a data set (its records, by their rates) or a template or options set.
DataSets == {[data |-> TRUE, rates |-> r] : r \in SeqOf(RecordRates, MaxSets)}
OtherSet == [data |-> FALSE, rates |-> <<>>]

Datagrams == [sets: SeqOf(DataSets \cup {OtherSet}, MaxSets), option: OptionRates,
              bytes: Counters, start: FlowTimes, end: FlowTimes]

\* Records of the data sets of d, in order: the rates they carry.
Records(d) == FlattenSeq([i \in 1..Len(d.sets) |-> d.sets[i].rates])

-----------------------------------------------------------------------------
\* plausible: an exporter's time is used unless it is ahead of us, or too old.
Plausible(t) == t > 0 /\ t <= Received + MaxFutureSkew /\ t >= Received - MaxAge

\* scale: saturates, where v * rate would not fit.
Scale(v, rate) == IF v > MaxInt \div rate THEN MaxInt ELSE Uint(v * rate)

\* normalise: the rate of the options template, else of the record, else 1.
Rate(option, recordRate) ==
    LET r == IF option # 0 THEN option ELSE IF recordRate # 0 THEN recordRate ELSE 1
    IN  IF r > MaxRate THEN MaxRate ELSE r

Duration(d) ==
    IF Plausible(d.start) /\ Plausible(d.end) /\ d.end >= d.start THEN d.end - d.start ELSE 0

Normalise(d, recordRate) ==
    LET rate == Rate(d.option, recordRate) IN
    [bytes |-> Scale(d.bytes, rate), rate |-> rate,
     at |-> IF Plausible(d.end) THEN d.end ELSE Received, duration |-> Duration(d)]

\* Seeded fault: records without a rate add nothing to the list.
SamplingRatesFound(d) == SelectSeq(Records(d), LAMBDA r : r # 0)

\* recordSamplingRates: one entry per record of a data set, 0 where it has none.
RecordSamplingRates(d) == Records(d)

\* produce: the list of rates is used only when it has an entry per message.
Produce ==
    LET perRecord == RecordSamplingRates(datagram)
        messages == Len(Records(datagram))
    IN  /\ flows = <<>>
        /\ flows' = [i \in 1..messages |->
              Normalise(datagram, IF Len(perRecord) = messages THEN perRecord[i] ELSE 0)]
        /\ UNCHANGED datagram

FlowRecordsInit == datagram \in Datagrams /\ flows = <<>>

FlowRecordsNext == Produce

FlowRecordsSpec == FlowRecordsInit /\ [][FlowRecordsNext]_flowRecordVars

-----------------------------------------------------------------------------
\* Type correctness of the stored flows.
FlowRecordsTypeOK ==
    \A i \in 1..Len(flows) : flows[i] \in [bytes: 0..MaxInt, rate: 1..MaxRate, at: Nat, duration: Nat]

\* What is stored counts every sampled byte once per unit of the rate of the
\* flow's own record (or of the options template), as far as the integers
\* go: it never wraps to a small or negative number (scale), and no record
\* is scaled by its neighbour's rate (produce, recordSamplingRates).
ScaledByOwnRate ==
    \A i \in 1..Len(flows) :
        LET own == Records(datagram)[i]
            rate == IF datagram.option # 0 THEN datagram.option ELSE IF own # 0 THEN own ELSE 1
            used == IF rate < MaxRate THEN rate ELSE MaxRate
            exact == datagram.bytes * used
        IN  flows[i].rate = used /\ flows[i].bytes = IF exact < MaxInt THEN exact ELSE MaxInt

\* A stored flow lies within the retention: its end and, by its duration, its
\* start are neither older than the retention nor further ahead than the
\* allowed skew, whatever clock the exporter has (normalise).
FlowsWithinRetention ==
    \A i \in 1..Len(flows) :
        /\ flows[i].at <= Received + MaxFutureSkew
        /\ flows[i].at - flows[i].duration >= Received - MaxAge

\* The stored figures of a flow: scaled by its own rate without wrapping, and
\* dated within the retention (flowingest, scale and normalise).
FlowRecordsSafe ==
    /\ FlowRecordsTypeOK
    /\ ScaledByOwnRate
    /\ FlowsWithinRetention
=============================================================================

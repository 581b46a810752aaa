----------------------------- MODULE SampleReport -----------------------------
(***************************************************************************)
(* kafka_metrics_report.py, what a report says of the records KafkaReport  *)
(* has counted: which samples and nodes of a record are kept, the timeline *)
(* on each of the two clocks, the rates and the exit status.  The          *)
(* behaviour is the body of the loop of consume(), one record at a time,   *)
(* in whatever order the partitions hand them over; summarise() is an      *)
(* operator of its state.                                                  *)
(***************************************************************************)
EXTENDS Integers, FiniteSets, Sequences, FiniteSetsExt, Series

CONSTANTS
    Messages,           \* what a record of the topic may hold
    Width,              \* --bucket-seconds
    MAX_DENSE_BUCKETS,
    MaxRecords          \* bound: records of a slice

\* A record that decodes has a collection time, 0 when it is unset, and resources,
\* each with a shape, a node and a number of numeric attributes; the broker's time
\* of any record is NoTime when there is none.
NoTime == -1
Shapes == {"node", "interface", "generic", "response", "unset"}

ASSUME ReportAssumption ==
    /\ Width \in Nat \ {0} /\ MAX_DENSE_BUCKETS \in Nat \ {0} /\ MaxRecords \in Nat
    /\ \A m \in Messages :
         /\ m.decodes \in BOOLEAN /\ m.collection \in Nat /\ m.accepted \in Nat \cup {NoTime}
         /\ m.resource \in Seq([shape: Shapes, node: Nat, numeric: Nat])

VARIABLES
    read,             \* history: the records, in order; `records` of the code is their number
    samples,          \* the records that count, with both times and their number of samples
    resources_total,
    nodes,
    errors            \* the warnings that were counted at least once

readVars == <<read, samples, resources_total, nodes, errors>>

ReadInit == read = <<>> /\ samples = <<>> /\ resources_total = 0 /\ nodes = {} /\ errors = {}

-----------------------------------------------------------------------------
(* consume(), for a record within the slice. *)

\* A metric is one numeric attribute, of whatever resource.
Numeric(m) == SumOver([i \in DOMAIN m.resource |-> m.resource[i].numeric], DOMAIN m.resource)

Resources(m) == {m.resource[i] : i \in DOMAIN m.resource}

\* Mutant: a node that is polled counts as collected.
CollectedOrPolled(r) == r.shape # "unset"

\* resource_node: response times are not collected from a node.
Collected(r) == r.shape \in {"node", "interface", "generic"}

NodesOf(m) == {r.node : r \in {s \in Resources(m) : Collected(s)}}

Reads(m) == Len(read) < MaxRecords /\ read' = Append(read, m)

Undecodable(m) ==
    /\ ~m.decodes /\ Reads(m)
    /\ errors' = errors \cup {"undecodable"}
    /\ UNCHANGED <<samples, resources_total, nodes>>

Decodes(m) == m.decodes /\ Reads(m) /\ resources_total' = resources_total + Len(m.resource)

NothingNumeric(m) ==
    /\ Decodes(m) /\ Numeric(m) = 0
    /\ UNCHANGED <<samples, nodes, errors>>

\* Mutant: a missing time is no reason to leave a record out.
NeverExcluded(m) == "none"

\* Why a record is left out: a time that is missing would put it in 1970.
Excluded(m) ==
    IF m.accepted = NoTime THEN "no_record_timestamp"
    ELSE IF m.collection = 0 THEN "no_collection_timestamp"
    ELSE "none"

LeftOut(m) ==
    /\ Decodes(m) /\ Numeric(m) > 0 /\ Excluded(m) # "none"
    /\ errors' = errors \cup {Excluded(m)}
    /\ UNCHANGED <<samples, nodes>>

Counted(m) ==
    /\ Decodes(m) /\ Numeric(m) > 0 /\ Excluded(m) = "none"
    /\ samples' = Append(samples, [collection |-> m.collection, accepted |-> m.accepted, count |-> Numeric(m)])
    /\ nodes' = nodes \cup NodesOf(m)
    /\ errors' = errors \cup {"unknown_resource_shape" : r \in {s \in Resources(m) : s.shape = "unset"}}

ReadNext == \E m \in Messages : Undecodable(m) \/ NothingNumeric(m) \/ LeftOut(m) \/ Counted(m)
ReadSpec == ReadInit /\ [][ReadNext]_readVars

-----------------------------------------------------------------------------
(* timeline() and summarise().                                                *)

Clocks == {"collection", "accepted"}
Stamps(clock) == {samples[i][clock] : i \in DOMAIN samples}

\* Mutant: buckets are rounded to the nearest.
BucketNearest(t) == ((2 * t + Width) \div (2 * Width)) * Width

Bucket(t) == (t \div Width) * Width

Buckets(clock) == {Bucket(t) : t \in Stamps(clock)}

\* range(lo, stop, width)
Steps(lo, stop) == [i \in 1..((stop - lo + Width - 1) \div Width) |-> lo + (i - 1) * Width]

\* Mutant: the range ends before the last bucket.
DenseShort(lo, hi) == Steps(lo, hi)

Dense(lo, hi) == Steps(lo, hi + Width)

Sparse(clock) ==
    /\ samples # <<>>
    /\ (Max(Buckets(clock)) - Min(Buckets(clock))) \div Width + 1 > MAX_DENSE_BUCKETS

Keys(clock) ==
    IF samples = <<>> THEN <<>>
    ELSE IF Sparse(clock) THEN Ascending(Buckets(clock))
    ELSE Dense(Min(Buckets(clock)), Max(Buckets(clock)))

InBucket(clock, k) == {i \in DOMAIN samples : Bucket(samples[i][clock]) = k}
CountOf(S) == SumOver([i \in DOMAIN samples |-> samples[i].count], S)

\* The rate of a bucket is its count over the width.
Timeline(clock) == [i \in DOMAIN Keys(clock) |-> [t |-> Keys(clock)[i], count |-> CountOf(InBucket(clock, Keys(clock)[i]))]]

Span(clock) == IF samples = <<>> THEN 0 ELSE Max(Stamps(clock)) - Min(Stamps(clock))

\* The mean rate, total over span, on the broker's clock; none without a span.
NoRate == <<>>
MeanRate == IF Span("accepted") > 0 THEN <<CountOf(DOMAIN samples), Span("accepted")>> ELSE NoRate

\* Mutant: a timeline with holes is no warning.
WarningsOfTheRead == errors

Warnings == errors \cup {"sparse_timeline" : c \in {d \in Clocks : Sparse(d)}}

\* EXIT_OK or EXIT_WARNINGS
ExitStatus == IF Warnings = {} THEN 0 ELSE 1

-----------------------------------------------------------------------------
(* What a report is worth. *)

\* The records read that hold samples, and those of them that can be placed.
WithSamples == {i \in DOMAIN read : read[i].decodes /\ \E r \in Resources(read[i]) : r.numeric > 0}
Placed == {i \in WithSamples : read[i].accepted # NoTime /\ read[i].collection > 0}
SamplesOf(S) == SumOver([i \in DOMAIN read |-> Numeric(read[i])], S)

\* On both clocks the timeline shows each sample once, in the bucket its time falls
\* in, and, unless it says that it is sparse, no bucket between the first and the
\* last is left out: a stall is a trough ("what makes a stall visible"), and a
\* single absurd time costs no more than MAX_DENSE_BUCKETS of them.
TimelineIsTheSamples ==
    \A clock \in Clocks : LET line == Timeline(clock) IN
        /\ \A i \in DOMAIN line :
             line[i].count = SamplesOf({j \in Placed : read[j][clock] \in line[i].t..(line[i].t + Width - 1)})
        /\ \A j \in Placed : \E i \in DOMAIN line : read[j][clock] \in line[i].t..(line[i].t + Width - 1)
        /\ \A i \in 2..Len(line) :
             IF "sparse_timeline" \in Warnings THEN line[i].t > line[i - 1].t
             ELSE line[i].t = line[i - 1].t + Width
        /\ Len(line) <= MAX_DENSE_BUCKETS \/ Len(line) <= Cardinality(Placed)

\* The numerator and the denominator of a rate per node are of the same records: a
\* node is seen only with a counted sample of a record collected from it, never for
\* being polled ("polled but never collected"); and a report that ends with 0 counts
\* all samples of the slice and sees every node it holds samples of.
CoverageIsOfTheCounted ==
    /\ \A n \in nodes : \E i \in Placed : \E r \in Resources(read[i]) :
         r.node = n /\ r.shape \notin {"response", "unset"}
    /\ ExitStatus = 0 =>
         /\ CountOf(DOMAIN samples) = SamplesOf(WithSamples)
         /\ \A i \in WithSamples : \A r \in Resources(read[i]) : r.shape # "response" => r.node \in nodes
         /\ MeanRate # NoRate <=> \E i, j \in WithSamples : read[i].accepted # read[j].accepted
===============================================================================

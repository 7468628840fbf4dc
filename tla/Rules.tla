--------------------------------- MODULE Rules ---------------------------------
(***************************************************************************)
(* The rule engine (pkg/diagnose) and its rules with their default         *)
(* thresholds, over the facts of Projection.  A rule is a predicate; the   *)
(* stage or the scans its finding is about are operators of their own      *)
(* where a property speaks of them.  Sizes of scans are in GiB.            *)
(* An optimizer rule or a connector stands for every name that contains    *)
(* it, or starts with it.                                                  *)
(***************************************************************************)
EXTENDS Projection

MaxOf(seq, Of(_)) == Max({0} \union {Of(seq[k]) : k \in DOMAIN seq})

SumOf(seq, Of(_)) == SumFunction([k \in DOMAIN seq |-> Of(seq[k])])

Operators(facts) == FlattenSeq([k \in DOMAIN facts.stages |-> facts.stages[k].operators])

(***************************************************************************)
(* Rules on the statistics of the query.                                   *)
(***************************************************************************)
Failed(facts) == facts.state = "FAILED"

CPUBound(facts) ==
    /\ facts.stats.scheduled > 0
    /\ 10 * facts.stats.cpu >= 8 * facts.stats.scheduled

MemoryPressure(facts) == facts.stats.peakTaskUserMem >= 1073741824

\* Faulty variant: what counts is the share of the query's input that was spilled.
DiskSpillByShare(facts) == 10 * facts.stats.spilled > facts.stats.processed

DiskSpill(facts) == facts.stats.spilled > 0

QueuedTooLong(facts) ==
    /\ facts.stats.elapsed > 0 /\ facts.stats.queued > 0
    /\ 100 * facts.stats.queued >= 30 * facts.stats.elapsed

ScanTooLarge(facts) == facts.stats.physicalRows >= 1000000000 \/ facts.stats.physicalGiB >= 100

isSummaryAggregation(facts) ==
    \E op \in Range(Operators(facts)) :
        op.type \in {"AggregationOperator", "HashAggregationOperator", "StreamingAggregationOperator"}
            /\ op.out \in 1 .. 100

PoorSelectivity(facts) ==
    /\ facts.stats.processed > 1000
    /\ 10000 * facts.stats.output < facts.stats.processed
    /\ ~isSummaryAggregation(facts)

UnderParallelised(facts) == facts.stats.elapsed >= 30000 /\ facts.stats.drivers < 4

LongBlocked(facts) ==
    /\ facts.stats.scheduled > 0
    /\ facts.stats.blocked >= 2000
    /\ 100 * facts.stats.blocked >= 40 * facts.stats.scheduled

importantPushdownRules ==
    {"PushPredicateIntoTableScan", "PushProjectionIntoTableScan", "PushAggregationIntoTableScan",
     "PushTopNIntoTableScan", "PushLimitIntoTableScan", "PushFilterIntoTableScan",
     "PushDownPredicate", "PruneTableScanColumns"}

MissedPushdown(facts) ==
    \E r \in Range(facts.rules) :
        r.invocations >= 1 /\ r.applied <= 0 /\ r.rule \in importantPushdownRules

(***************************************************************************)
(* Rules on stages and their operators.                                    *)
(***************************************************************************)
TotalCPU(stages) == SumOf(stages, LAMBDA s : s.cpu)
MaxCPU(stages) == MaxOf(stages, LAMBDA s : s.cpu)

\* evalTaskSkew: the slowest task takes three times the median.  The median is
\* positive, so the ratio needs no division.
TaskSkewed(s) == s.tasks.count > 1 /\ s.tasks.p50 > 0 /\ s.tasks.max >= 3 * s.tasks.p50

\* Faulty variant: the average is taken over the other stages.
StageFallbackOverOthers(stages) ==
    LET avg == (TotalCPU(stages) - MaxCPU(stages)) \div Len(stages)
    IN  avg > 0 /\ MaxCPU(stages) >= 5 * avg

\* evalStageFallback: the average is a whole number of milliseconds, rounded down.
StageFallback(stages) ==
    LET avg == TotalCPU(stages) \div Len(stages)
    IN  avg > 0 /\ MaxCPU(stages) >= 5 * avg

StageSkew(facts) ==
    /\ Len(facts.stages) >= 2
    /\ (\E s \in Range(facts.stages) : TaskSkewed(s)) \/ StageFallback(facts.stages)

HotspotStage(facts) ==
    /\ Len(facts.stages) >= 2
    /\ TotalCPU(facts.stages) > 0
    /\ 100 * MaxCPU(facts.stages) >= 60 * TotalCPU(facts.stages)

\* Amplification is in hundredths.
RowExplosion(facts) ==
    \E op \in Range(Operators(facts)) : op.in >= 10000 /\ op.amplification >= 1000

(***************************************************************************)
(* Rules on scans.                                                         *)
(***************************************************************************)
\* Selectivity is in millionths; one that rounds to nothing is below the threshold.
LocalFilterHits(scans) ==
    {s \in Range(scans) : s.filter # {} /\ s.physical >= 100 /\ s.selectivity <= 50000}

LocalFilterDominates(facts) == LocalFilterHits(facts.scans) # {}

\* remoteConnectorPrefixes; a connector is known by the prefix it starts with.
remoteConnectorPrefixes ==
    {"mongo", "mysql", "postgresql", "redshift", "sqlserver", "oracle", "clickhouse", "cassandra",
     "bigquery", "snowflake", "hive", "iceberg", "delta", "elasticsearch", "kafka"}

isRemoteConnector(connector) == connector \in remoteConnectorPrefixes

\* The scans of a table, in order.
ScansOf(table, scans) ==
    LET own == InOrder({k \in DOMAIN scans : scans[k].table = table}, <)
    IN  [r \in DOMAIN own |-> scans[own[r]]]

\* groupScansByTable: the tables with a name.
ScannedTables(scans) == {s.table : s \in {s \in Range(scans) : s.table.name # ""}}

DuplicatelyScanned(scans) ==
    {t \in ScannedTables(scans) :
        Len(ScansOf(t, scans)) >= 2 /\ isRemoteConnector(ScansOf(t, scans)[1].connector)}

DuplicateFederatedScans(facts) == DuplicatelyScanned(facts.scans) # {}

\* Scans that have read nothing do not count.
DivergentlyScanned(scans) ==
    LET read == SelectSeq(scans, LAMBDA s : s.physical # 0)
        rows(t) == {s.physical : s \in Range(ScansOf(t, read))}
    IN  {t \in ScannedTables(read) :
            /\ Len(ScansOf(t, read)) >= 2
            /\ Max(rows(t)) >= 100
            /\ Max(rows(t)) >= 10 * Min(rows(t))}

DivergentScanRowcounts(facts) == DivergentlyScanned(facts.scans) # {}

\* Iceberg's metadata tables; "$data@" with whatever snapshot follows it.
metadataForms ==
    {"$data@", "$data", "$files", "$partitions", "$snapshots", "$history", "$manifests", "$refs",
     "$properties", "$entries"}

detectIcebergMetadataForm(table) == table.name # "" /\ table.form \in metadataForms

IcebergMetadataTable(facts) == \E s \in Range(facts.scans) : detectIcebergMetadataForm(s.table)

\* The patterns of a filter's text, and the connectors each is about; none stands for any.
unpushableCatalogue ==
    LET jdbc == {"mysql", "postgresql", "postgres"}
        about(p) == CASE p \in {"mongo.cardinality", "mongo.element-at"} -> {"mongo"}
                      [] p = "jdbc.coalesce" -> jdbc
                      [] p = "json-extract" -> {"mongo"} \union jdbc
                      [] OTHER -> {}
    IN  [p \in {"wrap.function", "wrap.cast", "wrap.arithmetic", "wrap.case", "mongo.cardinality",
                "mongo.element-at", "jdbc.coalesce", "json-extract"} |-> about(p)]

patternAppliesToConnector(pattern, connector) ==
    unpushableCatalogue[pattern] = {} \/ connector \in unpushableCatalogue[pattern]

\* Faulty variant: every pattern is applied to every connector.
matchPatternsForScanAnywhere(s) == s.filter \intersect DOMAIN unpushableCatalogue

\* filter holds the shapes that occur in the text, catalogued or not.
matchPatternsForScan(s) ==
    {p \in s.filter \intersect DOMAIN unpushableCatalogue : patternAppliesToConnector(p, s.connector)}

UnpushableExpression(facts) == \E s \in Range(facts.scans) : matchPatternsForScan(s) # {}

\* buildStageWaitIndex: the derived wait, or what scheduling took beyond the CPU.
StageWait(id, stages) ==
    LET at == {k \in DOMAIN stages : stages[k].id = id}
        sf == stages[Max(at)]
    IN  IF at = {} THEN 0
        ELSE IF sf.wait.ms > 0 THEN sf.wait.ms ELSE Max({sf.scheduled - sf.cpu, 0})

SlowEmptyHits(facts) ==
    {s \in Range(facts.scans) :
        s.output = 0 /\ s.physical = 0 /\ StageWait(s.stage, facts.stages) >= 500}

SlowEmptyScan(facts) == SlowEmptyHits(facts) # {}

(***************************************************************************)
(* The engine.                                                             *)
(***************************************************************************)
Rule(id, severity, fires) == [id |-> id, severity |-> severity, fires |-> fires]

DefaultEngine(facts) ==
    <<Rule("failed", "critical", Failed(facts)),
      Rule("cpu-bound", "warn", CPUBound(facts)),
      Rule("memory-pressure", "warn", MemoryPressure(facts)),
      Rule("disk-spill", "warn", DiskSpill(facts)),
      Rule("queued-too-long", "warn", QueuedTooLong(facts)),
      Rule("stage-skew", "warn", StageSkew(facts)),
      Rule("hotspot-stage", "warn", HotspotStage(facts)),
      Rule("scan-too-large", "warn", ScanTooLarge(facts)),
      Rule("poor-selectivity", "info", PoorSelectivity(facts)),
      Rule("under-parallelised", "info", UnderParallelised(facts)),
      Rule("long-blocked", "warn", LongBlocked(facts)),
      Rule("row-explosion", "warn", RowExplosion(facts)),
      Rule("missed-pushdown", "info", MissedPushdown(facts)),
      Rule("local-filter-dominates", "warn", LocalFilterDominates(facts)),
      Rule("duplicate-federated-scans", "warn", DuplicateFederatedScans(facts)),
      Rule("divergent-scan-rowcounts", "info", DivergentScanRowcounts(facts)),
      Rule("iceberg-metadata-table", "warn", IcebergMetadataTable(facts)),
      Rule("unpushable-expression", "info", UnpushableExpression(facts)),
      Rule("slow-empty-scan", "info", SlowEmptyScan(facts))>>

Order(severity) ==
    CASE severity = "critical" -> 3
      [] severity = "warn" -> 2
      [] severity = "info" -> 1
      [] OTHER -> 0

\* Faulty variant: the comparison is the wrong way round.
LessSevere(a, b) == Order(a.severity) < Order(b.severity)

Less(a, b) == Order(a.severity) > Order(b.severity)

\* sort.Sort keeps the order of the rules among equals up to twelve findings.
WorstFirst(findings, some) ==
    LET worst == Sorted(findings, some, Less) IN [r \in DOMAIN worst |-> findings[worst[r]]]

Run(facts) ==
    LET rules == DefaultEngine(facts) IN WorstFirst(rules, {k \in DOMAIN rules : rules[k].fires})
================================================================================

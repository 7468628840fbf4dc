------------------------------ MODULE Projection ------------------------------
(***************************************************************************)
(* Project (pkg/queryinfo/facts.go, io_wait.go, scan_pushdown.go): the     *)
(* facts an agent gets to see of a QueryInfo.                              *)
(*                                                                         *)
(* A stage is known by its number, a table by its catalog, its name (with  *)
(* the schema) and the form behind a $, a local filter by the shapes of    *)
(* expressions in it, the details of a plan node by their kinds.  Names    *)
(* are in lower case, as Trino writes them.  Durations of a QueryInfo are  *)
(* in microseconds, of the facts in whole milliseconds.                    *)
(* A tree, such as a plan, maps paths to nodes: the root is at << >>, the   *)
(* k-th child of a node at p is at Append(p, k).  One that is not there has *)
(* no paths.                                                               *)
(***************************************************************************)
EXTENDS Integers, Sequences, FiniteSets, SequencesExt

CONSTANTS
    TopStagesLimit,  \* 5 in the code
    MaxScanDepth     \* depth walkScanNodes descends to, 20 in the code

ASSUME LimitsAssumption == TopStagesLimit \in Nat /\ MaxScanDepth \in Nat

\* Drops the fraction of a millisecond.  A float64 product that falls short of a
\* whole millisecond (2.01s becomes 2009) is left out.
ParseDurationMs(us) == us \div 1000

\* Num \div Den, rounded half up in units of 1 / scale.
Rounded(num, den, scale) == (2 * scale * num + den) \div (2 * den)

(***************************************************************************)
(* Order.  SortSeq of the standard modules has no value where elements tie. *)
(***************************************************************************)
\* The elements of a finite set, each behind as many as come before it.
InOrder(S, Before(_, _)) ==
    [r \in 1 .. Cardinality(S) |-> CHOOSE x \in S : Cardinality({y \in S : Before(y, x)}) = r - 1]

\* Positions of a sequence, sorted by what stands there; those that tie stay as they are.
Sorted(seq, positions, Before(_, _)) ==
    InOrder(positions, LAMBDA k, l :
                Before(seq[k], seq[l]) \/ (k < l /\ ~Before(seq[l], seq[k])))

\* A node comes before its children, and with all below it before the next child.
Preorder(p, q) ==
    \E n \in 0 .. Len(p) :
        /\ n < Len(q) /\ \A m \in 1 .. n : p[m] = q[m]
        /\ n = Len(p) \/ p[n + 1] < q[n + 1]

(***************************************************************************)
(* Operators.                                                              *)
(***************************************************************************)
infrastructureOps ==
    {"TaskOutputOperator", "LocalExchangeSinkOperator", "ExchangeOperator",
     "OutputSpoolingOperator", "LocalMergeSourceOperator"}

groupOperatorsByStage(ops, stage) ==
    LET own == InOrder({k \in DOMAIN ops : ops[k].stage = stage}, <)
    IN  [r \in DOMAIN own |-> ops[own[r]]]

\* In hundredths; 0 when nothing came in.
computeAmplification(in, out) == IF in <= 0 THEN 0 ELSE Rounded(out, in, 100)

OperatorFact(op) ==
    [type |-> op.type,
     cpu |-> ParseDurationMs(op.addInput) + ParseDurationMs(op.getOutput),
     in |-> op.in, out |-> op.out,
     amplification |-> computeAmplification(op.in, op.out),
     spilled |-> op.spilled]

UpstreamFirst(a, b) == a.pipeline < b.pipeline \/ (a.pipeline = b.pipeline /\ a.operator < b.operator)

ProjectedOperators(ops) ==
    LET work == Sorted(ops, {k \in DOMAIN ops : ops[k].type \notin infrastructureOps}, UpstreamFirst)
    IN  [r \in DOMAIN work |-> OperatorFact(ops[work[r]])]

\* The first operator with the most CPU; without any CPU, whichever comes first,
\* plumbing included.
PrimaryOperator(ops) ==
    LET facts == ProjectedOperators(ops)
        busiest == {k \in DOMAIN facts :
                       facts[k].cpu > 0 /\ \A l \in DOMAIN facts : facts[l].cpu <= facts[k].cpu}
    IN  IF busiest # {} THEN facts[Min(busiest)].type
        ELSE IF ops = << >> THEN "" ELSE ops[1].type

\* The operators of a stage are those of the query-level list, or of the stage's
\* own list when the former leaves nothing but plumbing.
OperatorsFor(info, ops) ==
    LET listed == groupOperatorsByStage(ops, info.id)
    IN  IF ProjectedOperators(listed) = << >> /\ info.ops # << >> THEN info.ops ELSE listed

(***************************************************************************)
(* Stages.                                                                 *)
(***************************************************************************)
\* The stages that feed the one at p.
UpstreamIds(tree, p) ==
    LET children == {k \in 1 .. Cardinality(DOMAIN tree) : Append(p, k) \in DOMAIN tree}
    IN  [k \in children |-> tree[Append(p, k)].id]

\* Faulty variant: only the first of several upstream stages is descended into.
collectStagesFirstOnly(tree) ==
    LET paths == InOrder({p \in DOMAIN tree : \A m \in DOMAIN p : p[m] = 1}, Preorder)
    IN  [k \in DOMAIN paths |-> [tree[paths[k]] EXCEPT !.subs = UpstreamIds(tree, paths[k])]]

collectStages(tree) ==
    LET paths == InOrder(DOMAIN tree, Preorder)
    IN  [k \in DOMAIN paths |-> [tree[paths[k]] EXCEPT !.subs = UpstreamIds(tree, paths[k])]]

resolveStageInfos(qi) == IF qi.stages # << >> THEN qi.stages ELSE collectStages(qi.outputStage)

\* tasks is the CPU time of each task.
projectTaskStats(tasks) ==
    LET cpus == [k \in DOMAIN tasks |-> ParseDurationMs(tasks[k])]
        fastest == Sorted(cpus, DOMAIN cpus, <)
        count == Len(tasks)
    IN  IF count = 0 THEN [count |-> 0, min |-> 0, p50 |-> 0, max |-> 0]
        ELSE [count |-> count, min |-> cpus[fastest[1]], p50 |-> cpus[fastest[count \div 2 + 1]],
              max |-> cpus[fastest[count]]]

\* Faulty variants: a negative proxy is not cut; the larger of two readings wins.
deriveIOWaitUncut(sf) ==
    IF sf.read > 0 THEN [ms |-> sf.read, kind |-> "physical_read"]
    ELSE IF sf.positions > 0 THEN [ms |-> sf.scheduled - sf.cpu, kind |-> "scheduled_minus_cpu"]
    ELSE [ms |-> sf.blocked, kind |-> "blocked"]

deriveIOWaitLargest(sf) ==
    IF sf.read > sf.blocked THEN [ms |-> sf.read, kind |-> "physical_read"]
    ELSE [ms |-> sf.blocked, kind |-> "blocked"]

deriveIOWait(sf) ==
    IF sf.read > 0 THEN [ms |-> sf.read, kind |-> "physical_read"]
    ELSE IF sf.positions > 0
         THEN [ms |-> Max({sf.scheduled - sf.cpu, 0}), kind |-> "scheduled_minus_cpu"]
    ELSE [ms |-> sf.blocked, kind |-> "blocked"]

(***************************************************************************)
(* Connectors.  A stage's tables maps plan nodes to the connector and the  *)
(* table behind them.                                                      *)
(***************************************************************************)
NoTable == [catalog |-> "", name |-> "", form |-> ""]

NamedEntries(infos) ==
    {e \in UNION {{[stage |-> k, node |-> n, connector |-> infos[k].tables[n].connector,
                    table |-> infos[k].tables[n].table] : n \in DOMAIN infos[k].tables} :
                     k \in DOMAIN infos} : e.connector # ""}

\* A node named by several stages takes its connector from the last of them, a
\* table from the first.  Within one stage Go's order of map keys decides, and the
\* choice below stands for it: one table has one connector there.
connectorByPlanNode(infos) ==
    LET entries == NamedEntries(infos)
    IN  [n \in {e.node : e \in entries} |->
            (CHOOSE e \in entries : e.node = n /\ \A o \in entries : o.node = n => o.stage <= e.stage).connector]

connectorByFQN(infos) ==
    LET entries == {e \in NamedEntries(infos) : e.table.name # ""}
    IN  [t \in {e.table : e \in entries} |->
            (CHOOSE e \in entries : e.table = t /\ \A o \in entries : o.table = t => o.stage >= e.stage).connector]

\* Faulty variant: scans are known by their plan node only.
resolveConnectorTypeByNode(node, table, byNode, byFQN) ==
    IF node \in DOMAIN byNode THEN byNode[node] ELSE table.catalog

\* By plan node; for fused scans, whose node is not in tables, by table; else a
\* guess from the catalog's name.
resolveConnectorType(node, table, byNode, byFQN) ==
    IF node \in DOMAIN byNode THEN byNode[node]
    ELSE IF table.name # "" /\ table \in DOMAIN byFQN THEN byFQN[table]
    ELSE table.catalog

(***************************************************************************)
(* Scans.                                                                  *)
(***************************************************************************)
scanNodeNames == {"TableScan", "ScanFilter", "ScanProject", "ScanFilterProject"}

\* Faulty variant: the operator with the largest input of the whole stage.
ScanOperatorsOfStage(node, ops) ==
    LET largest == {k \in DOMAIN ops : \A l \in DOMAIN ops : ops[l].in <= ops[k].in}
    IN  IF node = "" \/ largest = {} THEN {} ELSE {ops[Min(largest)]}

\* The operator that stands for a plan node: the first of those with the largest input.
ScanOperators(node, ops) ==
    LET candidates == {k \in DOMAIN ops : ops[k].node = node}
        largest == {k \in candidates : \A l \in candidates : ops[l].in <= ops[k].in}
    IN  IF node = "" \/ largest = {} THEN {} ELSE {ops[Min(largest)]}

\* Rows and selectivity, in millionths, of the operator behind a scan, if any.
OperatorMetrics(node, ops) ==
    IF ScanOperators(node, ops) = {} THEN [physical |-> 0, output |-> 0, selectivity |-> 0]
    ELSE LET op == CHOOSE op \in ScanOperators(node, ops) : TRUE
         IN  [physical |-> op.in, output |-> op.out,
              selectivity |-> IF op.in > 0 THEN Rounded(op.out, op.in, 1000000) ELSE 0]

\* Estimates and statistics are Trino's own, not the connector's.
filterPushedDetails(details) == SelectSeq(details, LAMBDA line : line \notin {"estimates", "stats"})

buildScanPushdownFact(stage, node, ops, byNode, byFQN) ==
    LET read == OperatorMetrics(node.id, ops)
    IN  [stage |-> stage, node |-> node.id, table |-> node.table,
         connector |-> resolveConnectorType(node.id, node.table, byNode, byFQN),
         filter |-> node.filter, details |-> filterPushedDetails(node.details),
         physical |-> read.physical, output |-> read.output, selectivity |-> read.selectivity]

\* A scan nothing is known about is left out.
Telling(scan) == scan.table.catalog # "" \/ scan.filter # {} \/ scan.details # << >> \/ scan.physical # 0

\* The scans of a plan in preorder, down to a depth.
extractScanPushdowns(info, ops, byNode, byFQN) ==
    LET fact(p) == buildScanPushdownFact(info.id, info.plan[p], ops, byNode, byFQN)
        nodes == {p \in DOMAIN info.plan : Len(p) <= MaxScanDepth /\ info.plan[p].name \in scanNodeNames}
        paths == InOrder({p \in nodes : Telling(fact(p))}, Preorder)
    IN  [k \in DOMAIN paths |-> fact(paths[k])]

(***************************************************************************)
(* Stage facts.                                                            *)
(***************************************************************************)
StageFact(info, ops, byNode, byFQN) ==
    LET own == OperatorsFor(info, ops)
        fact == [id |-> info.id, subs |-> info.subs,
                 cpu |-> ParseDurationMs(info.cpu), scheduled |-> ParseDurationMs(info.scheduled),
                 blocked |-> ParseDurationMs(info.blocked), read |-> ParseDurationMs(info.read),
                 positions |-> info.positions, bytes |-> info.bytes,
                 operators |-> ProjectedOperators(own), primary |-> PrimaryOperator(own),
                 scans |-> extractScanPushdowns(info, own, byNode, byFQN),
                 tasks |-> projectTaskStats(info.tasks), wait |-> << >>]
    IN  [fact EXCEPT !.wait = deriveIOWait(fact)]

(***************************************************************************)
(* Tables.                                                                 *)
(***************************************************************************)
\* By table, from the first of its scans that has a connector.
connectorsByFQN(scans) ==
    LET known == {k \in DOMAIN scans : scans[k].connector # "" /\ scans[k].table.name # ""}
    IN  [t \in {scans[k].table : k \in known} |->
            scans[Min({k \in known : scans[k].table = t})].connector]

mergeFQNConnectorMaps(primary, secondary) ==
    [t \in DOMAIN primary \union DOMAIN secondary |->
        IF t \in DOMAIN primary THEN primary[t] ELSE secondary[t]]

inferConnectorType(catalog, shipped) == IF shipped # "" THEN shipped ELSE catalog

\* The connector of every table of inputs and of referencedTables, inputs first.
extractTableFacts(qi, connectors) ==
    LET named == {k \in DOMAIN qi.inputs : qi.inputs[k].table.name # ""}
        inputs == {qi.inputs[k].table : k \in named}
        referenced == {t \in Range(qi.referencedTables) : t.name # ""}
        shipped(t) == IF t \in inputs
                      THEN qi.inputs[Min({k \in named : qi.inputs[k].table = t})].connector ELSE ""
    IN  [t \in inputs \union referenced |->
            IF t \in DOMAIN connectors THEN connectors[t] ELSE inferConnectorType(t.catalog, shipped(t))]

(***************************************************************************)
(* Roll-ups.                                                               *)
(***************************************************************************)
NothingRead == [scans |-> 0, wait |-> 0, rowsIn |-> 0, rowsOut |-> 0, bytes |-> 0]

Charged(rec, stage) == [rec EXCEPT !.wait = @ + stage.wait.ms, !.bytes = @ + stage.bytes]

Counted(rec, scan) ==
    [rec EXCEPT !.scans = @ + 1, !.rowsIn = @ + scan.physical, !.rowsOut = @ + scan.output]

RecordOf(recs, connector) == IF connector \in DOMAIN recs THEN recs[connector] ELSE NothingRead

WithRecord(recs, connector, rec) ==
    [c \in DOMAIN recs \union {connector} |-> IF c = connector THEN rec ELSE recs[c]]

StageOf(scan, stages) == stages[CHOOSE k \in DOMAIN stages : stages[k].id = scan.stage]

\* Faulty variant: a stage is charged for each of its scans.
WithScanAlways(acc, scan, stages) ==
    LET rec == Charged(Counted(RecordOf(acc.recs, scan.connector), scan), StageOf(scan, stages))
    IN  IF scan.connector = "" THEN acc ELSE [acc EXCEPT !.recs = WithRecord(@, scan.connector, rec)]

\* acc holds the connectors' records and what has been charged for already.
WithScan(acc, scan, stages) ==
    LET key == <<scan.stage, scan.connector>>
        counted == Counted(RecordOf(acc.recs, scan.connector), scan)
        rec == IF key \in acc.charged THEN counted ELSE Charged(counted, StageOf(scan, stages))
    IN  IF scan.connector = "" THEN acc
        ELSE [recs |-> WithRecord(acc.recs, scan.connector, rec), charged |-> acc.charged \union {key}]

buildConnectorIORollup(stages, scans) ==
    LET after[k \in 0 .. Len(scans)] ==
            IF k = 0 THEN [recs |-> << >>, charged |-> {}]
            ELSE WithScan(after[k - 1], scans[k], stages)
    IN  after[Len(scans)].recs

\* The scan of a stage that read the most, the first of several.
primaryScanByStage(scans, stage) ==
    LET own == SelectSeq(scans, LAMBDA scan : scan.stage = stage)
        largest == {k \in DOMAIN own : \A l \in DOMAIN own : own[l].physical <= own[k].physical}
    IN  IF own = << >> THEN << >> ELSE <<own[Min(largest)]>>

buildTopStageFact(sf, scans) ==
    LET scan == primaryScanByStage(scans, sf.id)
    IN  [stage |-> sf.id, wait |-> sf.wait.ms, cpu |-> sf.cpu,
         connector |-> IF scan = << >> THEN "" ELSE scan[1].connector,
         table |-> IF scan = << >> THEN NoTable ELSE scan[1].table]

\* Faulty variant: the list is cut before it is ranked.
TopStagesUnranked(stages, scans, amount) ==
    LET some == InOrder({k \in DOMAIN amount : amount[k] # 0}, <)
    IN  [k \in 1 .. Min({TopStagesLimit, Len(some)}) |-> buildTopStageFact(stages[some[k]], scans)]

\* The stages with the largest amounts, in order, none without any.
TopStages(stages, scans, amount) ==
    LET ranked == Sorted(amount, {k \in DOMAIN amount : amount[k] # 0}, >)
    IN  [k \in 1 .. Min({TopStagesLimit, Len(ranked)}) |-> buildTopStageFact(stages[ranked[k]], scans)]

buildTopIOStages(stages, scans) ==
    TopStages(stages, scans, [k \in DOMAIN stages |-> stages[k].wait.ms])

buildTopCPUStages(stages, scans) == TopStages(stages, scans, [k \in DOMAIN stages |-> stages[k].cpu])

\* Rules that were never invoked are left out.
projectOptimizerRules(rules) == SelectSeq(rules, LAMBDA r : r.invocations # 0)

(***************************************************************************)
(* The projection.  Query-level statistics keep their names; times become  *)
(* milliseconds.                                                           *)
(***************************************************************************)
Times == {"elapsed", "queued", "cpu", "scheduled", "blocked"}

Stats(qs) == [m \in DOMAIN qs |-> IF m \in Times THEN ParseDurationMs(qs[m]) ELSE qs[m]]

StagesOf(qi) ==
    LET infos == resolveStageInfos(qi)
        byNode == connectorByPlanNode(infos)
        byFQN == connectorByFQN(infos)
    IN  [k \in DOMAIN infos |-> StageFact(infos[k], qi.ops, byNode, byFQN)]

\* All facts, given those of the stages.
Project(qi, stages) ==
    LET byFQN == connectorByFQN(resolveStageInfos(qi))
        scans == FlattenSeq([k \in DOMAIN stages |-> stages[k].scans])
    IN  [state |-> qi.state, stats |-> Stats(qi.stats),
         rules |-> projectOptimizerRules(qi.rules),
         stages |-> stages, scans |-> scans,
         tables |-> extractTableFacts(qi, mergeFQNConnectorMaps(byFQN, connectorsByFQN(scans))),
         connectorIO |-> buildConnectorIORollup(stages, scans),
         topIO |-> buildTopIOStages(stages, scans),
         topCPU |-> buildTopCPUStages(stages, scans)]
===============================================================================

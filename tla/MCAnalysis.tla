------------------------------ MODULE MCAnalysis ------------------------------
(***************************************************************************)
(* Queries for Analysis.  Federated ones, nested and listed, whose scans   *)
(* share stages, tables and connectors, report in several steps; others    *)
(* differ only in how the CPU time is spread over stages and tasks, and    *)
(* make both modes of the skew rule fire.                                  *)
(***************************************************************************)
EXTENDS Analysis

Quiet == [cpu |-> 0, scheduled |-> 0, blocked |-> 0, read |-> 0, positions |-> 0, bytes |-> 0,
          ops |-> << >>, tasks |-> << >>]
NoStats == [elapsed |-> 0, queued |-> 0, cpu |-> 0, scheduled |-> 0, blocked |-> 0,
            peakTaskUserMem |-> 0, spilled |-> 0, physicalRows |-> 0, physicalGiB |-> 0,
            processed |-> 0, output |-> 0, drivers |-> 8]

Table(catalog, name) == [catalog |-> catalog, name |-> name, form |-> ""]
\* A MySQL source in a catalog that is called mongo.
Users == Table("mongo", "users")
Events == Table("docs", "events")
Orders == [catalog |-> "lake", name |-> "orders", form |-> "$data@"]
Entry(connector, table) == [connector |-> connector, table |-> table]
Node(id, name, table) ==
    [id |-> id, name |-> name, table |-> table, details |-> <<"estimates">>,
     filter |-> IF name # "ScanFilterProject" THEN {}
                ELSE IF table = Users THEN {"jdbc.coalesce", "mongo.cardinality"}
                ELSE {"comparison", "wrap.cast"}]
Op(stage, node, type, in, out) ==
    [stage |-> stage, pipeline |-> 0, operator |-> 0, node |-> node, type |-> type,
     addInput |-> 1000 * in, getOutput |-> 0, in |-> in, out |-> out, spilled |-> 0]
Bare == [plan |-> << >>, tables |-> << >>]

(***************************************************************************)
(* A join of two tables over three scans.  The scans of users are fused    *)
(* (node 37, known to Trino as 19) and plain (20); events is scanned in    *)
(* the same stage as the fused one.                                        *)
(***************************************************************************)
Root == << >>
Join2 ==
    Root :> Node("9", "InnerJoin", NoTable)
    @@ <<1>> :> Node("37", "ScanFilterProject", Users) @@ <<2>> :> Node("21", "TableScan", Events)
Join3 == Root :> Node("8", "Filter", NoTable) @@ <<1>> :> Node("20", "TableScan", Users)

JoinPlans ==
    1 :> Bare
    @@ 2 :> [plan |-> Join2, tables |-> "19" :> Entry("mysql", Users) @@ "21" :> Entry("mongo", Events)]
    @@ 3 :> [plan |-> Join3, tables |-> "20" :> Entry("mysql", Users)]

JoinReports ==
    1 :> <<Quiet, [Quiet EXCEPT !.blocked = 900000]>>
    @@ 2 :> <<Quiet, [Quiet EXCEPT !.blocked = 700000, !.scheduled = 700000, !.cpu = 1500],
              [Quiet EXCEPT !.blocked = 700000, !.scheduled = 900000, !.cpu = 1900,
                            !.positions = 90, !.bytes = 7],
              [Quiet EXCEPT !.blocked = 800000, !.scheduled = 900000, !.cpu = 3000,
                            !.positions = 190, !.bytes = 8, !.read = 300000]>>
    @@ 3 :> <<Quiet,
              [Quiet EXCEPT !.cpu = 50000, !.scheduled = 20000, !.positions = 3],
              [Quiet EXCEPT !.read = 40000, !.cpu = 50000, !.scheduled = 20000, !.positions = 3],
              [Quiet EXCEPT !.read = 40000, !.cpu = 50000, !.scheduled = 20000, !.positions = 3,
                            !.blocked = 60000]>>

JoinOps(users, events) ==
    <<Op(1, "1", "TaskOutputOperator", 5, 5),
      Op(2, "37", "ScanFilterAndProjectOperator", users, users \div 50),
      Op(2, "37", "FilterAndProjectOperator", 1, 1),
      Op(2, "21", "TableScanOperator", events, events),
      Op(3, "20", "TableScanOperator", users \div 12, users \div 12)>>

JoinStats ==
    <<NoStats,
      [NoStats EXCEPT !.elapsed = 9000000, !.queued = 2800000, !.cpu = 50000, !.scheduled = 60000,
                      !.spilled = 300, !.processed = 1500],
      [NoStats EXCEPT !.elapsed = 31000000, !.queued = 2800000, !.cpu = 60000, !.scheduled = 4000000,
                      !.blocked = 2000000, !.spilled = 300, !.processed = 90000, !.output = 5,
                      !.peakTaskUserMem = 1073741824, !.physicalRows = 1000000000]>>

Join ==
    [plans |-> JoinPlans, reports |-> JoinReports, stats |-> JoinStats,
     ops |-> <<JoinOps(0, 0), JoinOps(1200, 0), JoinOps(2400, 600)>>,
     rules |-> <<[rule |-> "PushPredicateIntoTableScan", invocations |-> 2, applied |-> 0],
                 [rule |-> "PruneTableScanColumns", invocations |-> 0, applied |-> 0]>>,
     inputs |-> <<[table |-> Users, connector |-> ""], [table |-> Table("app", "audit"), connector |-> "hive"]>>,
     referencedTables |-> <<Events, Users>>,
     listed |-> << >>,
     shape |-> Root :> 1 @@ <<1>> :> 2 @@ <<2>> :> 3]

\* Its stages in a list, the upstream ones first, and no optimizer rules.
JoinListed ==
    [Join EXCEPT !.shape = << >>, !.rules = << >>,
                 !.listed = <<[id |-> 2, subs |-> << >>], [id |-> 3, subs |-> << >>],
                              [id |-> 1, subs |-> <<2, 3>>]>>]

\* The same users table twice in one stage, beside a scan below the depth that is
\* looked at; a snapshot of a table without a known connector; stages three levels deep.
SelfJoin ==
    [Join EXCEPT
        !.plans = [JoinPlans EXCEPT
            ![2].plan = Root :> Node("9", "InnerJoin", NoTable)
                        @@ <<1>> :> Node("37", "ScanFilterProject", Users)
                        @@ <<2>> :> Node("38", "ScanFilterProject", Users)
                        @@ <<3>> :> Node("39", "ScanProject", NoTable)
                        @@ <<3, 1>> :> Node("40", "TableScan", Events),
            ![3].plan = Root :> Node("20", "ScanFilterProject", Orders),
            ![3].tables = << >>],
        !.shape = Root :> 1 @@ <<1>> :> 2 @@ <<1, 1>> :> 3]

(***************************************************************************)
(* How CPU time is spread over stages and tasks.                           *)
(***************************************************************************)
Spread(cpus, tasks) ==
    LET ids == DOMAIN cpus
    IN  [plans |-> [id \in ids |-> Bare],
         reports |-> [id \in ids |-> <<[Quiet EXCEPT !.cpu = cpus[id], !.blocked = 1000 * id,
                                                     !.tasks = IF id = 1 THEN tasks ELSE << >>,
                                                     !.ops = <<Op(id, "", "HashAggregationOperator", 20000, 200100)>>]>>],
         stats |-> <<NoStats>>, ops |-> << << >> >>, rules |-> << >>, inputs |-> << >>,
         referencedTables |-> << >>, shape |-> << >>,
         listed |-> [id \in ids |-> [id |-> id, subs |-> << >>]]]

\* Four stages of 5, 1, 1 and 0 ms, or of 5, 0, 0 and 0 ms, have an average of 1 ms:
\* the hottest is at five times it, and at less of the exact one.  Of 10 stages it is
\* at ten times the exact average.
Spreads ==
    {Spread(cpus, <<2000, 1999>>) :
        cpus \in UNION {[1 .. n -> {0, 1500, 3999, 5999}] : n \in {1, 2, 4}}}
    \union {Spread([id \in 1 .. 10 |-> IF id = hot THEN 39999 ELSE 0], << >>) : hot \in {1, 10}}
    \union {Spread(<<9000, 9000>>, tasks) :
        tasks \in UNION {[1 .. n -> {999, 1000, 2999, 3000}] : n \in 1 .. 3}}

MCWorkloads == {Join, JoinListed, SelfJoin} \union Spreads
===============================================================================

------------------------- MODULE DashboardTemplates -------------------------
(***************************************************************************)
(* The layouts that operator/internal/dynatrace/dashboard_templates.go     *)
(* computes from a template and the resolved IDs of spec.sloRefs, as the   *)
(* spec is edited.  A dashboard is the set of its tiles: no two tiles of a *)
(* dashboard are equal, and nothing depends on the order they are sent in. *)
(* Texts, metric selectors, colours and the metadata are left out.         *)
(***************************************************************************)
EXTENDS Integers, Sequences

CONSTANTS
    SLOIds,   \* the Dynatrace IDs of SLOs
    NoSLO,    \* what a tile or query has that shows no SLO
    MaxRefs   \* bound: entries of spec.sloRefs (the CRD sets none)

ASSUME TemplatesAssumption ==
    /\ NoSLO \notin SLOIds
    /\ MaxRefs \in Nat

VARIABLES
    template,  \* spec.template
    slos       \* TemplateData.SLOIDs, in the order of spec.sloRefs

vars == <<template, slos>>

Templates == {"service-overview", "slo-report", "endpoint-detail"}

-----------------------------------------------------------------------------
(* Tiles.                                                                  *)

Column == 304      \* one grid unit
FullWidth == 1216  \* four of them

bounds(top, left, width, height) ==
    [top |-> top, left |-> left, width |-> width, height |-> height]

sloTile(id, b) == [type |-> "SLO", bounds |-> b, slo |-> id, queries |-> {}]

dataExplorerTile(b, queries) ==
    [type |-> "DATA_EXPLORER", bounds |-> b, slo |-> NoSLO, queries |-> queries]

markdownTile(b) ==
    [type |-> "MARKDOWN", bounds |-> b, slo |-> NoSLO, queries |-> {}]

PerSLO_SameID(ids) == {[id |-> 65, slo |-> ids[i]] : i \in 1..Len(ids)} \* mutant

\* Queries are known by a letter: one for each SLO, from "A" on.
PerSLO(ids) == {[id |-> 64 + i, slo |-> ids[i]] : i \in 1..Len(ids)}

\* A chart that the management zone scopes has the one query "A".
ZoneQuery == {[id |-> 65, slo |-> NoSLO]}

ZoneChart(top, left, width) ==
    dataExplorerTile(bounds(top, left, width, Column), ZoneQuery)

SLOChart(top, left, width, ids) ==
    dataExplorerTile(bounds(top, left, width, Column), PerSLO(ids))

Header == markdownTile(bounds(0, 0, FullWidth, 152))

SLOTiles_NoStep(ids) ==                     \* mutant: left is not advanced
    {sloTile(ids[i], bounds(152, 0, Column, Column)) : i \in 1..Len(ids)}

\* Row 1 starts with a tile for each SLO, one column wide.
SLOTiles(ids) ==
    {sloTile(ids[i], bounds(152, Column * (i - 1), Column, Column)) :
        i \in 1..Len(ids)}

RestOfRow_TwoSLOs(ids) == [left |-> 608, width |-> 608] \* mutant: as documented

RestOfRow_FullWidth(ids) ==                 \* mutant: reqWidth not reduced
    [left |-> Column * Len(ids), width |-> FullWidth]

\* What the SLO tiles leave of row 1; a chart gets it when it is not empty.
RestOfRow(ids) ==
    [left |-> Column * Len(ids), width |-> FullWidth - Column * Len(ids)]

serviceOverviewTemplate(ids) ==
    LET rest == RestOfRow(ids)
    IN {Header} \cup SLOTiles(ids)
       \cup (IF rest.width > 0 THEN {ZoneChart(152, rest.left, rest.width)}
                               ELSE {})
       \cup {ZoneChart(456, 0, 608), ZoneChart(456, 608, 608),
             SLOChart(760, 0, FullWidth, ids)}
       \cup {ZoneChart(1064, Column * i, Column) : i \in 0..3}

sloReportTemplate(ids) ==
    LET rest == RestOfRow(ids)
    IN {Header} \cup SLOTiles(ids)
       \cup (IF rest.width > 0 /\ Len(ids) > 0
             THEN {SLOChart(152, rest.left, rest.width, ids)} ELSE {})
       \cup {SLOChart(456, 0, 608, ids), SLOChart(456, 608, 608, ids),
             SLOChart(760, 0, 608, ids), ZoneChart(760, 608, 608)}

endpointDetailTemplate ==
    {Header,
     ZoneChart(152, 0, 608), ZoneChart(152, 608, 608),
     ZoneChart(456, 0, 608), ZoneChart(456, 608, 608),
     ZoneChart(760, 0, FullWidth)}

BuildDashboard(t, ids) ==
    CASE t = "service-overview" -> serviceOverviewTemplate(ids)
      [] t = "slo-report"       -> sloReportTemplate(ids)
      [] t = "endpoint-detail"  -> endpointDetailTemplate

-----------------------------------------------------------------------------
(* Edits of a DynatraceDashboard.                                          *)

Init ==
    /\ template \in Templates
    /\ slos = <<>>

AddRef ==
    /\ Len(slos) < MaxRefs
    /\ \E id \in SLOIds : slos' = Append(slos, id)
    /\ UNCHANGED template

DropRef ==
    /\ slos # <<>>
    /\ slos' = Tail(slos)
    /\ UNCHANGED template

ChooseTemplate ==
    /\ template' \in Templates
    /\ UNCHANGED slos

Next == AddRef \/ DropRef \/ ChooseTemplate

Spec == Init /\ [][Next]_vars

-----------------------------------------------------------------------------
(* Properties.                                                             *)

Tiles == BuildDashboard(template, slos)

TypeOK ==
    /\ template \in Templates
    /\ slos \in Seq(SLOIds)
    /\ Len(slos) <= MaxRefs

Right(t) == t.bounds.left + t.bounds.width
Bottom(t) == t.bounds.top + t.bounds.height

Apart(a, b) ==
    \/ Right(a) <= b.bounds.left \/ Right(b) <= a.bounds.left
    \/ Bottom(a) <= b.bounds.top \/ Bottom(b) <= a.bounds.top

\* No tile lies on another, however many SLOs the first row has to hold (the
\* left and reqWidth arithmetic of lines 70-98 and 181-199).
NoOverlap == \A a, b \in Tiles : a = b \/ Apart(a, b)

\* "Layout (each row = 304px tall, grid = 1216px wide)" (line 51): no tile reaches
\* beyond the grid.  From the fifth SLO on, which neither the CRD nor left's
\* arithmetic (lines 70-77) keeps out, one does.
WithinGrid == \A t \in Tiles : Right(t) <= FullWidth

\* Nothing leaves the grid but the tiles of the fifth and later SLOs, each wholly
\* beyond its edge: no chart is pushed out or cut, and the first four SLOs stay
\* where they would be without the others (lines 70-98 and 181-199).
OnlyTheFifthLeaves ==
    \A t \in Tiles :
        \/ Right(t) <= FullWidth
        \/ \E i \in 5..Len(slos) :
              t.slo = slos[i] /\ t.bounds.left = Column * (i - 1)

\* The grid has no hole: in every row that has a tile each of the four columns
\* is covered, the first row of an SLO report without SLOs excepted.
NoHoles ==
    \A t \in Tiles, column \in 0..3 :
        \E u \in Tiles :
            /\ u.bounds.top = t.bounds.top
            /\ u.bounds.left <= Column * column
            /\ Right(u) >= Column * (column + 1)

\* Every chart tells its queries apart, and one that shows SLOs shows exactly
\* those of the dashboard; every SLO also has its tile (lines 397-447).
EverySLOShown ==
    LET ids == {slos[i] : i \in 1..Len(slos)}
        shown(S) == {x.slo : x \in S} \ {NoSLO}
    IN /\ \A t \in Tiles :
            /\ \A p, q \in t.queries : p.id = q.id => p = q
            /\ shown(t.queries) \in {{}, ids}
       /\ template # "endpoint-detail" => shown(Tiles) = ids

=============================================================================

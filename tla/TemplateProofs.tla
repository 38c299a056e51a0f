--------------------------- MODULE TemplateProofs ---------------------------
(***************************************************************************)
(* What holds of the layouts of DashboardTemplates for every list of SLOs. *)
(***************************************************************************)
EXTENDS DashboardTemplates, TLAPS

USE TemplatesAssumption

\* Where a tile lies, and that its edges are numbers.
Placed(t, top, left, width, height) ==
    /\ t.bounds.top = top
    /\ t.bounds.left = left
    /\ t.bounds.width = width
    /\ t.bounds.height = height

\* The header strip.
LEMMA HeaderPlace == Placed(Header, 0, 0, 1216, 152)
  BY DEF Placed, Header, markdownTile, bounds, FullWidth

\* A chart scoped by the management zone.
LEMMA ZonePlace ==
  ASSUME NEW top, NEW left, NEW width
  PROVE  Placed(ZoneChart(top, left, width), top, left, width, 304)
  BY DEF Placed, ZoneChart, dataExplorerTile, bounds, Column

\* A chart with a query per SLO.
LEMMA SLOPlace ==
  ASSUME NEW top, NEW left, NEW width, NEW ids
  PROVE  Placed(SLOChart(top, left, width, ids), top, left, width, 304)
  BY DEF Placed, SLOChart, dataExplorerTile, bounds, Column

\* A tile of the lower rows.
Lower(t) == t.bounds.top \in Nat /\ t.bounds.top >= 456

\* The SLO tiles and what follows them in the first row.
RowOne(t) == t.bounds.top = 152 /\ t.bounds.height = 304

\* The tiles of the rows below the first one.
OverviewLower(ids) ==
    {ZoneChart(456, 0, 608), ZoneChart(456, 608, 608),
     SLOChart(760, 0, FullWidth, ids)}
    \cup {ZoneChart(1064, Column * i, Column) : i \in 0..3}

ReportLower(ids) ==
    {SLOChart(456, 0, 608, ids), SLOChart(456, 608, 608, ids),
     SLOChart(760, 0, 608, ids), ZoneChart(760, 608, 608)}

\* The tiles of the first row, the rest of it being filled by one chart or not.
RowOneTiles(ids, chart) ==
    SLOTiles(ids) \cup (IF RestOfRow(ids).width > 0 THEN {chart} ELSE {})

\* Where the tile of an SLO lies.
LEMMA SLOTilePlace ==
  ASSUME NEW ids \in Seq(SLOIds), NEW t \in SLOTiles(ids)
  PROVE  \E i \in 1..Len(ids) :
            /\ t = sloTile(ids[i], bounds(152, 304 * (i - 1), 304, 304))
            /\ Placed(t, 152, 304 * (i - 1), 304, 304)
  BY DEF SLOTiles, Placed, sloTile, bounds, Column

\* No tile of the first row lies on another.
LEMMA RowOneApart ==
  ASSUME NEW ids \in Seq(SLOIds), NEW chart,
         Placed(chart, 152, RestOfRow(ids).left, RestOfRow(ids).width, 304),
         NEW a \in RowOneTiles(ids, chart), NEW b \in RowOneTiles(ids, chart)
  PROVE  a = b \/ Apart(a, b)
<1>1. Len(ids) \in Nat
  OBVIOUS
<1>2. /\ RestOfRow(ids).left = 304 * Len(ids)
      /\ RestOfRow(ids).width = 1216 - 304 * Len(ids)
  BY DEF RestOfRow, Column, FullWidth
<1>3. CASE a \in SLOTiles(ids) /\ b \in SLOTiles(ids)
  <2>1. PICK i \in 1..Len(ids) :
           /\ a = sloTile(ids[i], bounds(152, 304 * (i - 1), 304, 304))
           /\ Placed(a, 152, 304 * (i - 1), 304, 304)
    BY <1>3, SLOTilePlace
  <2>2. PICK j \in 1..Len(ids) :
           /\ b = sloTile(ids[j], bounds(152, 304 * (j - 1), 304, 304))
           /\ Placed(b, 152, 304 * (j - 1), 304, 304)
    BY <1>3, SLOTilePlace
  <2>3. CASE i = j
    BY <2>1, <2>2, <2>3
  <2>4. CASE i < j
    BY <1>1, <2>1, <2>2, <2>4 DEF Placed, Apart, Right, Bottom
  <2>5. CASE j < i
    BY <1>1, <2>1, <2>2, <2>5 DEF Placed, Apart, Right, Bottom
  <2>6. QED
    BY <1>1, <2>3, <2>4, <2>5
<1>4. CASE a \in SLOTiles(ids) /\ b = chart
  <2>1. PICK i \in 1..Len(ids) : Placed(a, 152, 304 * (i - 1), 304, 304)
    BY <1>4, SLOTilePlace
  <2>2. QED
    BY <1>1, <1>2, <1>4, <2>1 DEF Placed, Apart, Right, Bottom
<1>5. CASE b \in SLOTiles(ids) /\ a = chart
  <2>1. PICK i \in 1..Len(ids) : Placed(b, 152, 304 * (i - 1), 304, 304)
    BY <1>5, SLOTilePlace
  <2>2. QED
    BY <1>1, <1>2, <1>5, <2>1 DEF Placed, Apart, Right, Bottom
<1>6. CASE a = chart /\ b = chart
  BY <1>6
<1>7. QED
  BY <1>3, <1>4, <1>5, <1>6 DEF RowOneTiles

\* Tiles of the first row lie in it.
LEMMA RowOneIn ==
  ASSUME NEW ids \in Seq(SLOIds), NEW chart,
         Placed(chart, 152, RestOfRow(ids).left, RestOfRow(ids).width, 304),
         NEW a \in RowOneTiles(ids, chart)
  PROVE  RowOne(a)
<1>1. CASE a \in SLOTiles(ids)
  BY <1>1, SLOTilePlace DEF Placed, RowOne
<1>2. CASE a = chart
  BY <1>2 DEF Placed, RowOne
<1>3. QED
  BY <1>1, <1>2 DEF RowOneTiles

\* Where the lower tiles of a service overview lie.
LEMMA OverviewLowerPlace ==
  ASSUME NEW ids, NEW a \in OverviewLower(ids)
  PROVE  \/ Placed(a, 456, 0, 608, 304) /\ a = ZoneChart(456, 0, 608)
         \/ Placed(a, 456, 608, 608, 304) /\ a = ZoneChart(456, 608, 608)
         \/ Placed(a, 760, 0, 1216, 304) /\ a = SLOChart(760, 0, 1216, ids)
         \/ \E i \in 0..3 : /\ Placed(a, 1064, 304 * i, 304, 304)
                            /\ a = ZoneChart(1064, 304 * i, 304)
<1>1. CASE a \in {ZoneChart(456, 0, 608), ZoneChart(456, 608, 608),
                  SLOChart(760, 0, FullWidth, ids)}
  BY <1>1, ZonePlace, SLOPlace DEF FullWidth
<1>2. CASE a \in {ZoneChart(1064, Column * i, Column) : i \in 0..3}
  <2>1. PICK i \in 0..3 : a = ZoneChart(1064, 304 * i, 304)
    BY <1>2 DEF Column
  <2>2. Placed(a, 1064, 304 * i, 304, 304)
    BY <2>1, ZonePlace
  <2>3. QED
    BY <2>1, <2>2
<1>3. QED
  BY <1>1, <1>2 DEF OverviewLower

\* Where the lower tiles of an SLO report lie.
LEMMA ReportLowerPlace ==
  ASSUME NEW ids, NEW a \in ReportLower(ids)
  PROVE  \/ Placed(a, 456, 0, 608, 304) /\ a = SLOChart(456, 0, 608, ids)
         \/ Placed(a, 456, 608, 608, 304) /\ a = SLOChart(456, 608, 608, ids)
         \/ Placed(a, 760, 0, 608, 304) /\ a = SLOChart(760, 0, 608, ids)
         \/ Placed(a, 760, 608, 608, 304) /\ a = ZoneChart(760, 608, 608)
  BY ZonePlace, SLOPlace DEF ReportLower

\* Two places that do not overlap.
LEMMA ApartPlaces ==
  ASSUME NEW a, NEW b,
         NEW at \in Nat, NEW al \in Nat, NEW aw \in Nat, NEW ah \in Nat,
         NEW bt \in Nat, NEW bl \in Nat, NEW bw \in Nat, NEW bh \in Nat,
         Placed(a, at, al, aw, ah), Placed(b, bt, bl, bw, bh),
         \/ al + aw <= bl \/ bl + bw <= al
         \/ at + ah <= bt \/ bt + bh <= at
  PROVE  Apart(a, b)
  BY DEF Placed, Apart, Right, Bottom

\* None of a service overview's lower tiles lies on another.
LEMMA OverviewLowerApart ==
  ASSUME NEW ids, NEW a \in OverviewLower(ids), NEW b \in OverviewLower(ids)
  PROVE  (a = b \/ Apart(a, b)) /\ Lower(a)
<1>1. CASE \E i \in 0..3 : /\ Placed(a, 1064, 304 * i, 304, 304)
                          /\ a = ZoneChart(1064, 304 * i, 304)
  <2>1. PICK i \in 0..3 : /\ Placed(a, 1064, 304 * i, 304, 304)
                          /\ a = ZoneChart(1064, 304 * i, 304)
    BY <1>1
  <2>2. Lower(a)
    BY <2>1 DEF Lower, Placed
  <2>3. CASE \E j \in 0..3 : /\ Placed(b, 1064, 304 * j, 304, 304)
                            /\ b = ZoneChart(1064, 304 * j, 304)
    <3>1. PICK j \in 0..3 : /\ Placed(b, 1064, 304 * j, 304, 304)
                            /\ b = ZoneChart(1064, 304 * j, 304)
      BY <2>3
    <3>2. CASE i = j
      BY <2>1, <2>2, <3>1, <3>2
    <3>3. CASE i # j
      BY <2>1, <2>2, <3>1, <3>3 DEF Placed, Apart, Right, Bottom
    <3>4. QED
      BY <3>2, <3>3
  <2>4. CASE ~\E j \in 0..3 : /\ Placed(b, 1064, 304 * j, 304, 304)
                             /\ b = ZoneChart(1064, 304 * j, 304)
    <3>1. \/ Placed(b, 456, 0, 608, 304)
          \/ Placed(b, 456, 608, 608, 304)
          \/ Placed(b, 760, 0, 1216, 304)
      BY <2>4, OverviewLowerPlace
    <3>2. QED
      BY <2>1, <2>2, <3>1 DEF Placed, Apart, Right, Bottom
  <2>5. QED
    BY <2>3, <2>4
<1>2. CASE ~\E i \in 0..3 : /\ Placed(a, 1064, 304 * i, 304, 304)
                           /\ a = ZoneChart(1064, 304 * i, 304)
  <2>1. \/ Placed(a, 456, 0, 608, 304) /\ a = ZoneChart(456, 0, 608)
        \/ Placed(a, 456, 608, 608, 304) /\ a = ZoneChart(456, 608, 608)
        \/ Placed(a, 760, 0, 1216, 304) /\ a = SLOChart(760, 0, 1216, ids)
    BY <1>2, OverviewLowerPlace
  <2>2. \/ Placed(b, 456, 0, 608, 304) /\ b = ZoneChart(456, 0, 608)
        \/ Placed(b, 456, 608, 608, 304) /\ b = ZoneChart(456, 608, 608)
        \/ Placed(b, 760, 0, 1216, 304) /\ b = SLOChart(760, 0, 1216, ids)
        \/ \E i \in 0..3 : Placed(b, 1064, 304 * i, 304, 304)
    BY OverviewLowerPlace
  <2>3. Lower(a)
    BY <2>1 DEF Lower, Placed
  <2>4. QED
    BY <2>1, <2>2, <2>3 DEF Placed, Apart, Right, Bottom
<1>3. QED
  BY <1>1, <1>2

\* None of an SLO report's lower tiles lies on another.
LEMMA ReportLowerApart ==
  ASSUME NEW ids, NEW a \in ReportLower(ids), NEW b \in ReportLower(ids)
  PROVE  (a = b \/ Apart(a, b)) /\ Lower(a)
<1>1. /\ \/ Placed(a, 456, 0, 608, 304) /\ a = SLOChart(456, 0, 608, ids)
         \/ Placed(a, 456, 608, 608, 304) /\ a = SLOChart(456, 608, 608, ids)
         \/ Placed(a, 760, 0, 608, 304) /\ a = SLOChart(760, 0, 608, ids)
         \/ Placed(a, 760, 608, 608, 304) /\ a = ZoneChart(760, 608, 608)
      /\ \/ Placed(b, 456, 0, 608, 304) /\ b = SLOChart(456, 0, 608, ids)
         \/ Placed(b, 456, 608, 608, 304) /\ b = SLOChart(456, 608, 608, ids)
         \/ Placed(b, 760, 0, 608, 304) /\ b = SLOChart(760, 0, 608, ids)
         \/ Placed(b, 760, 608, 608, 304) /\ b = ZoneChart(760, 608, 608)
  BY ReportLowerPlace
<1>2. QED
  BY <1>1 DEF Placed, Apart, Right, Bottom, Lower

\* The layout common to the two templates that show SLOs: the header, the first
\* row, and lower rows in which no tile lies on another.
LEMMA LayoutApart ==
  ASSUME NEW ids \in Seq(SLOIds), NEW chart, NEW lower,
         Placed(chart, 152, RestOfRow(ids).left, RestOfRow(ids).width, 304),
         \A a, b \in lower : (a = b \/ Apart(a, b)) /\ Lower(a),
         NEW a \in {Header} \cup RowOneTiles(ids, chart) \cup lower,
         NEW b \in {Header} \cup RowOneTiles(ids, chart) \cup lower
  PROVE  a = b \/ Apart(a, b)
<1> DEFINE Row == RowOneTiles(ids, chart)
<1>1. \A t \in Row : RowOne(t)
  BY RowOneIn
<1>2. \A t \in lower : Lower(t)
  OBVIOUS
<1>3. \A s, t \in Row : s = t \/ Apart(s, t)
  BY RowOneApart
<1>4. Header.bounds.top = 0 /\ Header.bounds.height = 152
  BY HeaderPlace DEF Placed
<1> HIDE DEF Row
<1>5. \A t : RowOne(t) => Apart(Header, t) /\ Apart(t, Header)
  BY <1>4 DEF RowOne, Apart, Bottom
<1>6. \A t : Lower(t) => Apart(Header, t) /\ Apart(t, Header)
  BY <1>4 DEF Lower, Apart, Bottom
<1>7. \A s, t : RowOne(s) /\ Lower(t) => Apart(s, t) /\ Apart(t, s)
  BY DEF RowOne, Lower, Apart, Bottom
<1>8. a \in {Header} \cup Row \cup lower /\ b \in {Header} \cup Row \cup lower
  BY DEF Row
<1>9. QED
  BY <1>1, <1>2, <1>3, <1>5, <1>6, <1>7, <1>8

\* A service overview is a header, a first row and its lower rows.
LEMMA OverviewParts ==
  ASSUME NEW ids \in Seq(SLOIds)
  PROVE  serviceOverviewTemplate(ids) =
           {Header}
           \cup RowOneTiles(ids, ZoneChart(152, RestOfRow(ids).left,
                                                RestOfRow(ids).width))
           \cup OverviewLower(ids)
  BY DEF serviceOverviewTemplate, RowOneTiles, OverviewLower

\* An SLO report without SLOs has no chart in its first row.
LEMMA ReportParts ==
  ASSUME NEW ids \in Seq(SLOIds)
  PROVE  sloReportTemplate(ids) \subseteq
           {Header}
           \cup RowOneTiles(ids, SLOChart(152, RestOfRow(ids).left,
                                               RestOfRow(ids).width, ids))
           \cup ReportLower(ids)
  BY DEF sloReportTemplate, RowOneTiles, ReportLower

\* The endpoint detail is the same for every list of SLOs.
LEMMA DetailApart ==
  ASSUME NEW a \in endpointDetailTemplate, NEW b \in endpointDetailTemplate
  PROVE  a = b \/ Apart(a, b)
<1> DEFINE Places(t) ==
      \/ Placed(t, 0, 0, 1216, 152) /\ t = Header
      \/ Placed(t, 152, 0, 608, 304) /\ t = ZoneChart(152, 0, 608)
      \/ Placed(t, 152, 608, 608, 304) /\ t = ZoneChart(152, 608, 608)
      \/ Placed(t, 456, 0, 608, 304) /\ t = ZoneChart(456, 0, 608)
      \/ Placed(t, 456, 608, 608, 304) /\ t = ZoneChart(456, 608, 608)
      \/ Placed(t, 760, 0, 1216, 304) /\ t = ZoneChart(760, 0, 1216)
<1>1. Places(a) /\ Places(b)
  BY HeaderPlace, ZonePlace DEF endpointDetailTemplate, FullWidth
<1>2. QED
  BY <1>1 DEF Placed, Apart, Right, Bottom

\* Two tiles of a dashboard never overlap, whatever the template and however
\* many SLOs it lists.
LEMMA DashboardApart ==
  ASSUME NEW ids \in Seq(SLOIds), NEW t \in Templates,
         NEW a \in BuildDashboard(t, ids), NEW b \in BuildDashboard(t, ids)
  PROVE  a = b \/ Apart(a, b)
<1>1. CASE t = "service-overview"
  <2> DEFINE chart == ZoneChart(152, RestOfRow(ids).left, RestOfRow(ids).width)
  <2>1. Placed(chart, 152, RestOfRow(ids).left, RestOfRow(ids).width, 304)
    BY ZonePlace
  <2>2. \A x, y \in OverviewLower(ids) : (x = y \/ Apart(x, y)) /\ Lower(x)
    BY OverviewLowerApart
  <2>3. /\ a \in {Header} \cup RowOneTiles(ids, chart) \cup OverviewLower(ids)
        /\ b \in {Header} \cup RowOneTiles(ids, chart) \cup OverviewLower(ids)
    BY <1>1, OverviewParts DEF BuildDashboard
  <2> HIDE DEF chart
  <2>4. QED
    BY <2>1, <2>2, <2>3, LayoutApart
<1>2. CASE t = "slo-report"
  <2> DEFINE chart == SLOChart(152, RestOfRow(ids).left,
                               RestOfRow(ids).width, ids)
  <2>1. Placed(chart, 152, RestOfRow(ids).left, RestOfRow(ids).width, 304)
    BY SLOPlace
  <2>2. \A x, y \in ReportLower(ids) : (x = y \/ Apart(x, y)) /\ Lower(x)
    BY ReportLowerApart
  <2>3. /\ a \in {Header} \cup RowOneTiles(ids, chart) \cup ReportLower(ids)
        /\ b \in {Header} \cup RowOneTiles(ids, chart) \cup ReportLower(ids)
    BY <1>2, ReportParts DEF BuildDashboard
  <2> HIDE DEF chart
  <2>4. QED
    BY <2>1, <2>2, <2>3, LayoutApart
<1>3. CASE t = "endpoint-detail"
  BY <1>3, DetailApart DEF BuildDashboard
<1>4. QED
  BY <1>1, <1>2, <1>3 DEF Templates

\* A tile within the grid, or that of an SLO the row has no column for.
Fits(a, ids) ==
    \/ Right(a) <= FullWidth
    \/ \E i \in 5..Len(ids) : a.slo = ids[i] /\ a.bounds.left = 304 * (i - 1)

\* Nothing but the tiles of the fifth and later SLOs leaves the grid.
LEMMA DashboardWithin ==
  ASSUME NEW ids \in Seq(SLOIds), NEW t \in Templates,
         NEW a \in BuildDashboard(t, ids)
  PROVE  Fits(a, ids)
<1>1. Len(ids) \in Nat
  OBVIOUS
<1>2. ASSUME NEW chart, a \in RowOneTiles(ids, chart),
             Placed(chart, 152, RestOfRow(ids).left, RestOfRow(ids).width, 304)
      PROVE  Fits(a, ids)
  <2>1. CASE a \in SLOTiles(ids)
    <3>1. PICK i \in 1..Len(ids) :
             /\ a = sloTile(ids[i], bounds(152, 304 * (i - 1), 304, 304))
             /\ Placed(a, 152, 304 * (i - 1), 304, 304)
      BY <2>1, SLOTilePlace
    <3>2. a.slo = ids[i] /\ a.bounds.left = 304 * (i - 1)
      BY <3>1 DEF sloTile, Placed
    <3>3. CASE i <= 4
      BY <1>1, <3>1, <3>3 DEF Fits, Placed, Right, FullWidth
    <3>4. CASE i > 4
      BY <1>1, <3>2, <3>4 DEF Fits
    <3>5. QED
      BY <1>1, <3>3, <3>4
  <2>2. CASE a = chart
    <3>1. Right(a) <= FullWidth
      BY <1>1, <1>2, <2>2 DEF Placed, Right, FullWidth, Column, RestOfRow
    <3>2. QED
      BY <3>1 DEF Fits
  <2>3. QED
    BY <1>2, <2>1, <2>2 DEF RowOneTiles
<1>3. Fits(Header, ids)
  BY HeaderPlace DEF Fits, Placed, Right, FullWidth
<1>4. CASE t = "service-overview"
  <2>1. ASSUME a \in OverviewLower(ids) PROVE Fits(a, ids)
    BY <2>1, OverviewLowerPlace DEF Fits, Placed, Right, FullWidth
  <2>2. QED
    BY <1>2, <1>3, <1>4, <2>1, OverviewParts, ZonePlace DEF BuildDashboard
<1>5. CASE t = "slo-report"
  <2>1. ASSUME a \in ReportLower(ids) PROVE Fits(a, ids)
    BY <2>1, ReportLowerPlace DEF Fits, Placed, Right, FullWidth
  <2>2. QED
    BY <1>2, <1>3, <1>5, <2>1, ReportParts, SLOPlace DEF BuildDashboard
<1>6. CASE t = "endpoint-detail"
  BY <1>3, <1>6, ZonePlace
     DEF BuildDashboard, endpointDetailTemplate, Fits, Placed, Right, FullWidth
<1>7. QED
  BY <1>4, <1>5, <1>6 DEF Templates

-----------------------------------------------------------------------------
(* No holes: each row that a dashboard has is covered from edge to edge.   *)

\* The tiles of S cover all four columns of the row that starts at top.
Filled(S, top) ==
    \A column \in 0..3 :
        \E u \in S : /\ u.bounds.top = top
                     /\ u.bounds.left <= Column * column
                     /\ Right(u) >= Column * (column + 1)

LEMMA FilledByMore ==
  ASSUME NEW S, NEW R, S \subseteq R, NEW top, Filled(S, top)
  PROVE  Filled(R, top)
  BY DEF Filled

\* One tile over the whole row, or two over half of it each.
LEMMA FilledByOne ==
  ASSUME NEW S, NEW top, NEW a \in S, NEW h, Placed(a, top, 0, 1216, h)
  PROVE  Filled(S, top)
  BY DEF Placed, Filled, Right, Column

LEMMA FilledByTwo ==
  ASSUME NEW S, NEW top, NEW a \in S, NEW b \in S,
         Placed(a, top, 0, 608, 304), Placed(b, top, 608, 608, 304)
  PROVE  Filled(S, top)
<1>1. ASSUME NEW column \in 0..3
      PROVE  \/ 0 <= 304 * column /\ 608 >= 304 * (column + 1)
             \/ 608 <= 304 * column /\ 1216 >= 304 * (column + 1)
  OBVIOUS
<1>2. QED
  BY <1>1 DEF Placed, Filled, Right, Column

\* The SLO tiles cover the first columns, and the chart the ones they leave.
LEMMA RowOneFilled ==
  ASSUME NEW ids \in Seq(SLOIds), NEW chart,
         Placed(chart, 152, RestOfRow(ids).left, RestOfRow(ids).width, 304)
  PROVE  Filled(RowOneTiles(ids, chart), 152)
<1> SUFFICES ASSUME NEW column \in 0..3
             PROVE  \E u \in RowOneTiles(ids, chart) :
                       /\ u.bounds.top = 152
                       /\ u.bounds.left <= 304 * column
                       /\ Right(u) >= 304 * (column + 1)
  BY DEF Filled, Column
<1>1. Len(ids) \in Nat
  OBVIOUS
<1>2. CASE column < Len(ids)
  <2> DEFINE u == sloTile(ids[column + 1],
                          bounds(152, 304 * column, 304, 304))
  <2>1. column + 1 \in 1..Len(ids) /\ (column + 1) - 1 = column
    BY <1>1, <1>2
  <2>2. u \in SLOTiles(ids)
    BY <2>1 DEF SLOTiles, Column
  <2>3. /\ u.bounds.top = 152 /\ u.bounds.left = 304 * column
        /\ u.bounds.width = 304
    BY DEF sloTile, bounds
  <2> HIDE DEF u
  <2>4. QED
    BY <2>2, <2>3 DEF RowOneTiles, Right
<1>3. CASE ~(column < Len(ids))
  <2>1. /\ RestOfRow(ids).left = 304 * Len(ids)
        /\ RestOfRow(ids).width = 1216 - 304 * Len(ids)
    BY DEF RestOfRow, Column, FullWidth
  <2>2. Len(ids) <= column /\ RestOfRow(ids).width > 0
    BY <1>1, <1>3, <2>1
  <2>3. chart \in RowOneTiles(ids, chart)
    BY <2>2 DEF RowOneTiles
  <2>4. /\ chart.bounds.top = 152 /\ chart.bounds.left <= 304 * column
        /\ Right(chart) >= 304 * (column + 1)
    BY <1>1, <2>1, <2>2 DEF Placed, Right
  <2>5. QED
    BY <2>3, <2>4
<1>4. QED
  BY <1>2, <1>3

\* The lower rows of a service overview.
LEMMA OverviewLowerFilled ==
  ASSUME NEW ids, NEW a \in OverviewLower(ids)
  PROVE  Filled(OverviewLower(ids), a.bounds.top)
<1>1. Filled(OverviewLower(ids), 456)
  <2>1. /\ ZoneChart(456, 0, 608) \in OverviewLower(ids)
        /\ ZoneChart(456, 608, 608) \in OverviewLower(ids)
    BY DEF OverviewLower
  <2>2. QED
    BY <2>1, FilledByTwo, ZonePlace
<1>2. Filled(OverviewLower(ids), 760)
  <2>1. SLOChart(760, 0, 1216, ids) \in OverviewLower(ids)
    BY DEF OverviewLower, FullWidth
  <2>2. QED
    BY <2>1, FilledByOne, SLOPlace
<1>3. Filled(OverviewLower(ids), 1064)
  <2>1. \A i \in 0..3 : ZoneChart(1064, 304 * i, 304) \in OverviewLower(ids)
    BY DEF OverviewLower, Column
  <2>2. \A i \in 0..3 : Placed(ZoneChart(1064, 304 * i, 304), 1064, 304 * i, 304, 304)
    BY ZonePlace
  <2>3. QED
    BY <2>1, <2>2 DEF Filled, Placed, Right, Column
<1>4. a.bounds.top \in {456, 760, 1064}
  BY OverviewLowerPlace DEF Placed
<1>5. QED
  BY <1>1, <1>2, <1>3, <1>4

\* The lower rows of an SLO report.
LEMMA ReportLowerFilled ==
  ASSUME NEW ids, NEW a \in ReportLower(ids)
  PROVE  Filled(ReportLower(ids), a.bounds.top)
<1>1. /\ SLOChart(456, 0, 608, ids) \in ReportLower(ids)
      /\ SLOChart(456, 608, 608, ids) \in ReportLower(ids)
      /\ SLOChart(760, 0, 608, ids) \in ReportLower(ids)
      /\ ZoneChart(760, 608, 608) \in ReportLower(ids)
  BY DEF ReportLower
<1>2. Filled(ReportLower(ids), 456)
  BY <1>1, FilledByTwo, SLOPlace
<1>3. Filled(ReportLower(ids), 760)
  BY <1>1, FilledByTwo, SLOPlace, ZonePlace
<1>4. a.bounds.top \in {456, 760}
  BY ReportLowerPlace DEF Placed
<1>5. QED
  BY <1>2, <1>3, <1>4

\* The rows of an endpoint detail.
LEMMA DetailFilled ==
  ASSUME NEW a \in endpointDetailTemplate
  PROVE  Filled(endpointDetailTemplate, a.bounds.top)
<1>1. /\ Header \in endpointDetailTemplate
      /\ ZoneChart(152, 0, 608) \in endpointDetailTemplate
      /\ ZoneChart(152, 608, 608) \in endpointDetailTemplate
      /\ ZoneChart(456, 0, 608) \in endpointDetailTemplate
      /\ ZoneChart(456, 608, 608) \in endpointDetailTemplate
      /\ ZoneChart(760, 0, 1216) \in endpointDetailTemplate
  BY DEF endpointDetailTemplate, FullWidth
<1>2. /\ Filled(endpointDetailTemplate, 0)
      /\ Filled(endpointDetailTemplate, 760)
  BY <1>1, FilledByOne, HeaderPlace, ZonePlace
<1>3. /\ Filled(endpointDetailTemplate, 152)
      /\ Filled(endpointDetailTemplate, 456)
  BY <1>1, FilledByTwo, ZonePlace
<1>4. a.bounds.top \in {0, 152, 456, 760}
  BY HeaderPlace, ZonePlace DEF endpointDetailTemplate, Placed
<1>5. QED
  BY <1>2, <1>3, <1>4

\* An SLO report without SLOs has no first row at all.
LEMMA EmptyReport ==
  sloReportTemplate(<<>>) = {Header} \cup ReportLower(<<>>)
<1>1. SLOTiles(<<>>) = {}
  BY DEF SLOTiles
<1>2. QED
  BY <1>1 DEF sloReportTemplate, ReportLower

\* With SLOs it has all the parts that ReportParts names.
LEMMA FullReport ==
  ASSUME NEW ids \in Seq(SLOIds), ids # <<>>
  PROVE  sloReportTemplate(ids) =
           {Header}
           \cup RowOneTiles(ids, SLOChart(152, RestOfRow(ids).left,
                                               RestOfRow(ids).width, ids))
           \cup ReportLower(ids)
<1>1. Len(ids) > 0
  OBVIOUS
<1>2. QED
  BY <1>1 DEF sloReportTemplate, RowOneTiles, ReportLower

\* Every row of a dashboard is covered, whatever the template and however many
\* SLOs it lists.
LEMMA DashboardFilled ==
  ASSUME NEW ids \in Seq(SLOIds), NEW t \in Templates,
         NEW a \in BuildDashboard(t, ids)
  PROVE  Filled(BuildDashboard(t, ids), a.bounds.top)
<1>h. ASSUME NEW S, Header \in S
      PROVE  Filled(S, Header.bounds.top)
  BY <1>h, HeaderPlace, FilledByOne DEF Placed
<1>1. CASE t = "service-overview"
  <2> DEFINE chart == ZoneChart(152, RestOfRow(ids).left, RestOfRow(ids).width)
             R1 == RowOneTiles(ids, chart)
             L == OverviewLower(ids)
  <2>1. Placed(chart, 152, RestOfRow(ids).left, RestOfRow(ids).width, 304)
    BY ZonePlace
  <2>2. BuildDashboard(t, ids) = {Header} \cup R1 \cup L
    BY <1>1, OverviewParts DEF BuildDashboard
  <2> HIDE DEF chart
  <2>3. CASE a \in R1
    <3>1. a.bounds.top = 152
      BY <2>1, <2>3, RowOneIn DEF RowOne
    <3>2. QED
      BY <2>1, <2>2, <3>1, RowOneFilled, FilledByMore
  <2>4. CASE a \in L
    BY <2>2, <2>4, OverviewLowerFilled, FilledByMore
  <2>5. CASE a = Header
    BY <1>h, <2>2, <2>5
  <2>6. QED
    BY <2>2, <2>3, <2>4, <2>5
<1>2. CASE t = "slo-report" /\ ids # <<>>
  <2> DEFINE chart == SLOChart(152, RestOfRow(ids).left,
                               RestOfRow(ids).width, ids)
             R1 == RowOneTiles(ids, chart)
             L == ReportLower(ids)
  <2>1. Placed(chart, 152, RestOfRow(ids).left, RestOfRow(ids).width, 304)
    BY SLOPlace
  <2>2. BuildDashboard(t, ids) = {Header} \cup R1 \cup L
    BY <1>2, FullReport DEF BuildDashboard
  <2> HIDE DEF chart
  <2>3. CASE a \in R1
    <3>1. a.bounds.top = 152
      BY <2>1, <2>3, RowOneIn DEF RowOne
    <3>2. QED
      BY <2>1, <2>2, <3>1, RowOneFilled, FilledByMore
  <2>4. CASE a \in L
    BY <2>2, <2>4, ReportLowerFilled, FilledByMore
  <2>5. CASE a = Header
    BY <1>h, <2>2, <2>5
  <2>6. QED
    BY <2>2, <2>3, <2>4, <2>5
<1>3. CASE t = "slo-report" /\ ids = <<>>
  <2> DEFINE L == ReportLower(<<>>)
  <2>1. BuildDashboard(t, ids) = {Header} \cup L
    BY <1>3, EmptyReport DEF BuildDashboard
  <2>2. CASE a \in L
    BY <2>1, <2>2, ReportLowerFilled, FilledByMore
  <2>3. CASE a = Header
    BY <1>h, <2>1, <2>3
  <2>4. QED
    BY <2>1, <2>2, <2>3
<1>4. CASE t = "endpoint-detail"
  <2>1. BuildDashboard(t, ids) = endpointDetailTemplate
    BY <1>4 DEF BuildDashboard
  <2>2. QED
    BY <2>1, DetailFilled
<1>5. QED
  BY <1>1, <1>2, <1>3, <1>4 DEF Templates

-----------------------------------------------------------------------------
(* What the tiles and their queries show.                                  *)

\* The SLOs of a list, and those that some tiles or queries show.
Listed(ids) == {ids[i] : i \in 1..Len(ids)}
Shown(S) == {x.slo : x \in S} \ {NoSLO}

\* A tile made for ids: the header, the tile of one of them, a chart scoped by
\* the management zone or a chart of them all.
Made(a, ids) ==
    \/ a = Header
    \/ \E id \in Listed(ids) : \E b : a = sloTile(id, b)
    \/ \E top, left, width : a = ZoneChart(top, left, width)
    \/ \E top, left, width : a = SLOChart(top, left, width, ids)

LEMMA DashboardMade ==
  ASSUME NEW ids \in Seq(SLOIds), NEW t \in Templates,
         NEW a \in BuildDashboard(t, ids)
  PROVE  Made(a, ids)
<1>1. ASSUME a \in SLOTiles(ids) PROVE Made(a, ids)
  <2>1. PICK i \in 1..Len(ids) :
           a = sloTile(ids[i], bounds(152, 304 * (i - 1), 304, 304))
    BY <1>1, SLOTilePlace
  <2>2. ids[i] \in Listed(ids)
    BY DEF Listed
  <2>3. QED
    BY <2>1, <2>2 DEF Made
<1>2. CASE t = "service-overview"
  <2>1. a = ZoneChart(152, RestOfRow(ids).left, RestOfRow(ids).width)
          \/ a \in SLOTiles(ids) \/ a = Header \/ a \in OverviewLower(ids)
    BY <1>2, OverviewParts DEF BuildDashboard, RowOneTiles
  <2>2. CASE a \in OverviewLower(ids)
    BY <2>2, OverviewLowerPlace DEF Made
  <2>3. QED
    BY <1>1, <2>1, <2>2 DEF Made
<1>3. CASE t = "slo-report"
  <2>1. a = SLOChart(152, RestOfRow(ids).left, RestOfRow(ids).width, ids)
          \/ a \in SLOTiles(ids) \/ a = Header \/ a \in ReportLower(ids)
    BY <1>3, ReportParts DEF BuildDashboard, RowOneTiles
  <2>2. CASE a \in ReportLower(ids)
    BY <2>2, ReportLowerPlace DEF Made
  <2>3. QED
    BY <1>1, <2>1, <2>2 DEF Made
<1>4. CASE t = "endpoint-detail"
  <2>1. a \in endpointDetailTemplate
    BY <1>4 DEF BuildDashboard
  <2>2. QED
    BY <2>1 DEF endpointDetailTemplate, Made
<1>5. QED
  BY <1>2, <1>3, <1>4 DEF Templates

\* The queries of a chart of SLOs carry distinct letters and show them all.
LEMMA PerSLOFacts ==
  ASSUME NEW ids \in Seq(SLOIds)
  PROVE  /\ \A p, q \in PerSLO(ids) : p.id = q.id => p = q
         /\ Shown(PerSLO(ids)) = Listed(ids)
<1>1. \A p \in PerSLO(ids) : \E i \in 1..Len(ids) :
         p = [id |-> 64 + i, slo |-> ids[i]] /\ p.id = 64 + i /\ p.slo = ids[i]
  BY DEF PerSLO
<1>2. ASSUME NEW p \in PerSLO(ids), NEW q \in PerSLO(ids), p.id = q.id
      PROVE  p = q
  <2>1. PICK i \in 1..Len(ids) :
           p = [id |-> 64 + i, slo |-> ids[i]] /\ p.id = 64 + i
    BY <1>1
  <2>2. PICK j \in 1..Len(ids) :
           q = [id |-> 64 + j, slo |-> ids[j]] /\ q.id = 64 + j
    BY <1>1
  <2>3. i = j
    BY <1>2, <2>1, <2>2
  <2>4. QED
    BY <2>1, <2>2, <2>3
<1>3. \A i \in 1..Len(ids) : ids[i] # NoSLO
  OBVIOUS
<1>4. ASSUME NEW x \in Shown(PerSLO(ids)) PROVE x \in Listed(ids)
  <2>1. PICK p \in PerSLO(ids) : x = p.slo
    BY <1>4 DEF Shown
  <2>2. QED
    BY <1>1, <2>1 DEF Listed
<1>5. ASSUME NEW x \in Listed(ids) PROVE x \in Shown(PerSLO(ids))
  <2>1. PICK i \in 1..Len(ids) : x = ids[i]
    BY <1>5 DEF Listed
  <2>2. [id |-> 64 + i, slo |-> ids[i]] \in PerSLO(ids)
    BY DEF PerSLO
  <2>3. PICK p \in PerSLO(ids) : p.slo = x
    BY <2>1, <2>2
  <2>4. QED
    BY <1>3, <2>1, <2>3 DEF Shown
<1>6. QED
  BY <1>2, <1>4, <1>5

\* What one tile shows.
LEMMA MadeFacts ==
  ASSUME NEW ids \in Seq(SLOIds), NEW a, Made(a, ids)
  PROVE  /\ \A p, q \in a.queries : p.id = q.id => p = q
         /\ Shown(a.queries) \in {{}, Listed(ids)}
         /\ a.slo \in Listed(ids) \cup {NoSLO}
<1>n. Shown({}) = {}
  BY DEF Shown
<1>1. CASE a = Header
  <2>1. a.queries = {} /\ a.slo = NoSLO
    BY <1>1 DEF Header, markdownTile
  <2>2. QED
    BY <1>n, <2>1
<1>2. CASE \E id \in Listed(ids) : \E b : a = sloTile(id, b)
  <2>1. a.queries = {} /\ a.slo \in Listed(ids)
    BY <1>2 DEF sloTile
  <2>2. QED
    BY <1>n, <2>1
<1>3. CASE \E top, left, width : a = ZoneChart(top, left, width)
  <2>1. a.queries = ZoneQuery /\ a.slo = NoSLO
    BY <1>3 DEF ZoneChart, dataExplorerTile
  <2>2. Shown(ZoneQuery) = {}
    BY DEF Shown, ZoneQuery
  <2>3. \A p, q \in ZoneQuery : p = q
    BY DEF ZoneQuery
  <2>4. QED
    BY <2>1, <2>2, <2>3
<1>4. CASE \E top, left, width : a = SLOChart(top, left, width, ids)
  <2>1. a.queries = PerSLO(ids) /\ a.slo = NoSLO
    BY <1>4 DEF SLOChart, dataExplorerTile
  <2>2. QED
    BY <2>1, PerSLOFacts
<1>5. QED
  BY <1>1, <1>2, <1>3, <1>4 DEF Made

\* The dashboard shows the SLOs it lists, each on a tile of its own, except
\* that the endpoint detail shows none.
LEMMA DashboardShows ==
  ASSUME NEW ids \in Seq(SLOIds), NEW t \in Templates, t # "endpoint-detail"
  PROVE  Shown(BuildDashboard(t, ids)) = Listed(ids)
<1>1. SLOTiles(ids) \subseteq BuildDashboard(t, ids)
  BY DEF Templates, BuildDashboard, serviceOverviewTemplate, sloReportTemplate
<1>2. ASSUME NEW x \in Listed(ids) PROVE x \in Shown(BuildDashboard(t, ids))
  <2>1. PICK i \in 1..Len(ids) : x = ids[i]
    BY <1>2 DEF Listed
  <2>2. sloTile(x, bounds(152, Column * (i - 1), Column, Column)) \in SLOTiles(ids)
    BY <2>1 DEF SLOTiles
  <2>3. PICK a \in BuildDashboard(t, ids) : a.slo = x
    BY <1>1, <2>2 DEF sloTile
  <2>4. x # NoSLO
    BY <2>1
  <2>5. QED
    BY <2>3, <2>4 DEF Shown
<1>3. ASSUME NEW x \in Shown(BuildDashboard(t, ids)) PROVE x \in Listed(ids)
  <2>1. PICK a \in BuildDashboard(t, ids) : x = a.slo
    BY <1>3 DEF Shown
  <2>2. a.slo \in Listed(ids) \cup {NoSLO}
    BY DashboardMade, MadeFacts
  <2>3. QED
    BY <1>3, <2>1, <2>2 DEF Shown
<1>4. QED
  BY <1>2, <1>3

-----------------------------------------------------------------------------

\* Edits keep spec.template a template and spec.sloRefs a list of SLOs.
THEOREM TypeCorrect == Spec => []TypeOK
<1>1. Init => TypeOK
  BY DEF Init, TypeOK
<1>2. TypeOK /\ [Next]_vars => TypeOK'
  <2> SUFFICES ASSUME TypeOK, [Next]_vars PROVE TypeOK'
    OBVIOUS
  <2>1. CASE AddRef
    BY <2>1 DEF AddRef, TypeOK
  <2>2. CASE DropRef
    BY <2>2 DEF DropRef, TypeOK
  <2>3. CASE ChooseTemplate
    BY <2>3 DEF ChooseTemplate, TypeOK
  <2>4. CASE UNCHANGED vars
    BY <2>4 DEF vars, TypeOK
  <2>5. QED
    BY <2>1, <2>2, <2>3, <2>4 DEF Next
<1>3. QED
  BY <1>1, <1>2, PTL DEF Spec

\* No tile ever lies on another, for every MaxRefs: SLOs that do not fit into the
\* first row leave the grid, but cover nothing.
THEOREM TilesDisjoint == Spec => []NoOverlap
<1>1. TypeOK => NoOverlap
  BY DashboardApart DEF TypeOK, NoOverlap, Tiles
<1>2. QED
  BY <1>1, TypeCorrect, PTL

\* However many SLOs a dashboard lists, nothing leaves the grid but the tiles of
\* the fifth and later ones (lines 70-98 and 181-199), for every MaxRefs.
THEOREM FitsTheGrid == Spec => []OnlyTheFifthLeaves
<1>1. TypeOK => OnlyTheFifthLeaves
  BY DashboardWithin DEF TypeOK, OnlyTheFifthLeaves, Tiles, Fits, Column
<1>2. QED
  BY <1>1, TypeCorrect, PTL

\* Every row that a dashboard has reaches from edge to edge, for every MaxRefs
\* (the left and reqWidth arithmetic of lines 70-98 and 181-199).
THEOREM RowsFilled == Spec => []NoHoles
<1>1. TypeOK => NoHoles
  BY DashboardFilled DEF TypeOK, NoHoles, Tiles, Filled
<1>2. QED
  BY <1>1, TypeCorrect, PTL

\* Every listed SLO has its tile, and a chart of SLOs has one query, with a
\* letter of its own, for each of them (lines 397-447), for every MaxRefs.
THEOREM AllShown == Spec => []EverySLOShown
<1>1. TypeOK => EverySLOShown
  <2> SUFFICES ASSUME TypeOK PROVE EverySLOShown
    OBVIOUS
  <2>1. slos \in Seq(SLOIds) /\ template \in Templates
    BY DEF TypeOK
  <2>2. \A a \in Tiles : /\ \A p, q \in a.queries : p.id = q.id => p = q
                         /\ Shown(a.queries) \in {{}, Listed(slos)}
    BY <2>1, DashboardMade, MadeFacts DEF Tiles
  <2>3. template # "endpoint-detail" => Shown(Tiles) = Listed(slos)
    BY <2>1, DashboardShows DEF Tiles
  <2>4. QED
    BY <2>2, <2>3 DEF EverySLOShown, Shown, Listed
<1>2. QED
  BY <1>1, TypeCorrect, PTL

=============================================================================

----------------------------- MODULE SpendFigures -----------------------------
(***************************************************************************)
(* The figures of one procurement file, which five parts of the program    *)
(* work out each for itself: the analysis (analytics/kpis.py with          *)
(* anomalies.py), the audit of its figures (quality/reconcile.py), the     *)
(* overview (scaling/summary.py), the calculations for a question          *)
(* (agents/analyst_tools.py) and the risk screening (scaling/risk.py).     *)
(* The audit and the overview read the file row by row while others may    *)
(* write it, and look at its state before and after.                       *)
(*                                                                         *)
(* Amounts are in ten-thousandths, as the screening keeps them, and exact. *)
(* Suppliers stand for categories too, which are treated the same way.     *)
(* Columns have been resolved.  How the screening reads the file, and what *)
(* becomes of its job, is in module RiskScan.                              *)
(***************************************************************************)
EXTENDS Integers, Sequences, FiniteSets, Functions

CONSTANTS
    Sheets,         \* the files there may be at first
    Entries,        \* rows that an edit may write
    RowLimit,       \* of the audit: AEAI_AUDIT_MAX_ROWS
    MaxEdits        \* bound: edits of the file

VARIABLES
    file,           \* its rows
    stamp,          \* its size, time and inode: another one with every edit
    saved,          \* the analysis stored last
    scan,           \* the audit or overview that is reading
    report,         \* what each kind of scan reported last
    points          \* the groups a calculation answered with

figureVars == <<file, stamp, saved, scan, report, points>>

-----------------------------------------------------------------------------
(* Rows.                                                                   *)

\* A cell without an amount, one the parsers accept, and "inf", which float accepts.
NoMoney == [is |-> "none", n |-> 0]
Money(n) == [is |-> "number", n |-> n]
Boundless == [is |-> "infinite", n |-> 0]

\* Names are spelled with or without a capital letter; a blank cell has a key of its own.
Named(name, capital) == [name |-> name, capital |-> capital]
BlankName == Named("", FALSE)
MissingKey == Named("<missing>", FALSE)

\* Days, of different months; a time of day may follow, and blanks around it.
On(day, clock, padded) == [day |-> day, clock |-> clock, padded |-> padded]
NoDay == 0

Entry(amount, supplier, date, invoice) ==
    [amount |-> amount, supplier |-> supplier, date |-> date, invoice |-> invoice]

NameType == [name : STRING, capital : BOOLEAN]
RowType == [amount : [is : {"none", "number", "infinite"}, n : Int], supplier : NameType,
            date : [day : Nat, clock : BOOLEAN, padded : BOOLEAN], invoice : NameType]

ASSUME FiguresAssumption ==
    Sheets \subseteq Seq(RowType) /\ Entries \subseteq RowType /\ RowLimit \in Nat /\ MaxEdits \in Nat

Key(row) == IF row.supplier = BlankName THEN MissingKey ELSE row.supplier
Keys(rows) == [i \in DOMAIN rows |-> Key(rows[i])]
Lower(name) == name.name
Worth(row) == row.amount.n

\* The rows a parser counts: float's accepts an infinite amount, Decimal's is asked for finite ones.
FloatRows(rows) == {i \in DOMAIN rows : rows[i].amount.is # "none"}
DecimalRows(rows) == {i \in DOMAIN rows : rows[i].amount.is = "number"}

Sum(rows, S) ==
    IF \E i \in S : rows[i].amount.is = "infinite" THEN Boundless
    ELSE Money(SumFunctionOnSet([i \in DOMAIN rows |-> Worth(rows[i])], S))

\* Sums by a label of the rows.
By(rows, S, label) ==
    [k \in {label[i] : i \in S} |-> Sum(rows, {i \in S : label[i] = k})]

\* The month of a date as _parse_month finds it: not with blanks around it, which the adapter
\* of the analysis takes away first.
Stripped(rows) == [i \in DOMAIN rows |-> rows[i].date.day]
Unstripped(rows) ==
    [i \in DOMAIN rows |-> IF rows[i].date.padded THEN NoDay ELSE rows[i].date.day]
Dated(S, month) == {i \in S : month[i] # NoDay}

-----------------------------------------------------------------------------
(* The analysis: totals.                                                   *)

AnalysedFigures(rows) ==
    LET valid == FloatRows(rows)
    IN  [count |-> Len(rows), valid |-> Cardinality(valid), total |-> Sum(rows, valid),
         suppliers |-> By(rows, valid, Keys(rows)),
         months |-> By(rows, Dated(valid, Stripped(rows)), Stripped(rows))]

StreamedFigures(rows) ==
    LET valid == DecimalRows(rows)
    IN  [count |-> Len(rows), valid |-> Cardinality(valid), total |-> Sum(rows, valid),
         suppliers |-> By(rows, valid, Keys(rows)),
         months |-> By(rows, Dated(valid, Unstripped(rows)), Unstripped(rows))]

-----------------------------------------------------------------------------
(* The analysis: anomalies, among rows with finite amounts.                *)

\* The r-th smallest amount.
Ranked(rows, S, r) ==
    Worth(rows[CHOOSE i \in S :
        /\ Cardinality({j \in S : Worth(rows[j]) < Worth(rows[i])}) < r
        /\ Cardinality({j \in S : Worth(rows[j]) <= Worth(rows[i])}) >= r])

\* Four times the k-th quartile, with a linear step between two ranks; twice the median.
Quartile(rows, S, k) ==
    LET steps == (Cardinality(S) - 1) * k
        low == steps \div 4 + 1
    IN  IF steps % 4 = 0 THEN 4 * Ranked(rows, S, low)
        ELSE Ranked(rows, S, low) * (4 - (steps % 4)) + Ranked(rows, S, low + 1) * (steps % 4)

Median(rows, S) ==
    Ranked(rows, S, (Cardinality(S) + 1) \div 2) + Ranked(rows, S, Cardinality(S) \div 2 + 1)

Positive(rows, S) == {i \in S : Worth(rows[i]) > 0}
Similar(rows, S) == \A i, j \in S : Worth(rows[i]) * 100 <= Worth(rows[j]) * 115

\* The signals that the screening looks for as well; the others are left out.
AmountOutliers(rows) ==
    LET S == FloatRows(rows)
        q1 == Quartile(rows, S, 1)
        q3 == Quartile(rows, S, 3)
    IN  IF Cardinality(S) < 4 THEN {}
        ELSE {i \in S : 8 * Worth(rows[i]) > 2 * q3 + 3 * (q3 - q1)}

\* By the identifier in lower case, a missing marker like any other.
SharedInvoices(rows, S) ==
    {i \in S : /\ rows[i].invoice # BlankName
               /\ \E j \in S \ {i} : Lower(rows[j].invoice) = Lower(rows[i].invoice)}

DuplicateInvoices(rows) == SharedInvoices(rows, FloatRows(rows))

RepeatedTransactions(rows) ==
    LET S == FloatRows(rows)
        print == [i \in S |-> <<Lower(Key(rows[i])), rows[i].date.day, rows[i].date.clock, Worth(rows[i])>>]
    IN  {i \in S : rows[i].date.day # NoDay /\ \E j \in S \ {i} : print[j] = print[i]}

SplitPurchases(rows) ==
    LET S == FloatRows(rows)
        Group(i) == {j \in S : /\ Key(rows[j]) = Key(rows[i])
                               /\ rows[j].date.day = rows[i].date.day
                               /\ rows[j].date.clock = rows[i].date.clock}
        Looks(G) == LET P == Positive(rows, G)
                        sum == Sum(rows, P).n
                    IN  /\ Cardinality(P) >= 3 /\ Similar(rows, P)
                        /\ 2 * sum >= Quartile(rows, S, 3) /\ 2 * sum >= 3 * Median(rows, P)
    IN  {i \in S : rows[i].date.day # NoDay /\ Looks(Group(i))}

-----------------------------------------------------------------------------
(* The screening: _finalize on the rows it has spooled, with whole numbers. *)
(* (It takes an amount of more than ten million for invalid; none is here.)*)

\* Half of a step is rounded to the even neighbour.
Rounded(quarters) ==
    LET whole == quarters \div 4
        rest == quarters % 4
    IN  IF rest > 2 \/ (rest = 2 /\ whole % 2 = 1) THEN whole + 1 ELSE whole

\* int() of halves cuts towards zero.
Halved(n) == IF n >= 0 THEN n \div 2 ELSE -((-n) \div 2)

ScreenedHigh(rows) ==
    LET S == DecimalRows(rows)
        q1 == Rounded(Quartile(rows, S, 1))
        q3 == Rounded(Quartile(rows, S, 3))
    IN  IF Cardinality(S) < 4 THEN {}
        ELSE {i \in S : Worth(rows[i]) > Halved(2 * q3 + 3 * (q3 - q1))}

\* Names by a hash of them in lower case, the day by the first ten characters of the date.
SameDay(rows, i, j) ==
    /\ Lower(rows[i].supplier) = Lower(rows[j].supplier)
    /\ rows[i].date.day = rows[j].date.day

ScreenedRepeats(rows) ==
    LET S == {i \in DecimalRows(rows) : rows[i].date.day # NoDay}
    IN  {i \in S : \E j \in S \ {i} : SameDay(rows, i, j) /\ Worth(rows[i]) = Worth(rows[j])}

\* By a hash of the same.
ScreenedInvoices(rows) == SharedInvoices(rows, DecimalRows(rows))

ScreenedSplits(rows) ==
    LET S == DecimalRows(rows)
        dated == {i \in Positive(rows, S) : rows[i].date.day # NoDay}
        q3 == IF Cardinality(S) < 4 THEN 0 ELSE Rounded(Quartile(rows, S, 3))
        Group(i) == {j \in dated : SameDay(rows, i, j)}
    IN  {i \in dated : /\ Cardinality(Group(i)) >= 3 /\ Similar(rows, Group(i))
                       /\ Sum(rows, Group(i)).n >= 2 * q3}

-----------------------------------------------------------------------------
(* Steps.                                                                  *)

NotRun == [status |-> "none"]
NotScanning == [of |-> "none"]

\* The adapter reads the file as a whole; the analysis is stored as an artifact.
Analyse ==
    /\ saved # NotRun => saved.stamp # stamp
    /\ saved' = [status |-> "saved", figures |-> AnalysedFigures(file), rows |-> file, stamp |-> stamp]
    /\ UNCHANGED <<file, stamp, scan, report, points>>

\* verify_run reads the analysis that was stored last, then the file.
BeginScan(of) ==
    /\ scan = NotScanning
    /\ of = "audit" => saved # NotRun
    /\ scan' = [of |-> of, seen |-> stamp, rows |-> <<>>, against |-> saved]
    /\ UNCHANGED <<file, stamp, saved, report, points>>

ReadEntry ==
    /\ scan # NotScanning /\ Len(scan.rows) < Len(file)
    /\ scan.of = "audit" => Len(scan.rows) < RowLimit
    /\ scan' = [scan EXCEPT !.rows = Append(@, file[Len(@) + 1])]
    /\ UNCHANGED <<file, stamp, saved, report, points>>

\* The checks of stream_reconcile.
Fits(streamed, figures) ==
    /\ streamed.count = figures.count /\ streamed.valid = figures.valid
    /\ streamed.total = figures.total
    /\ streamed.suppliers = figures.suppliers

Reports(status) ==
    /\ report' = [report EXCEPT ![scan.of] =
           [status |-> status, stamp |-> stamp, rows |-> scan.rows, against |-> scan.against]]
    /\ scan' = NotScanning
    /\ UNCHANGED <<file, stamp, saved, points>>

\* Fault: the file is not looked at again.
Unchanged_Never(seen) == TRUE
Unchanged(seen) == seen = stamp

EndScan ==
    /\ scan # NotScanning /\ Len(scan.rows) >= Len(file)
    /\ IF ~Unchanged(scan.seen) THEN Reports("failed")
       ELSE IF scan.of = "overview" THEN Reports("completed")
       ELSE Reports(IF Fits(StreamedFigures(scan.rows), scan.against.figures)
                    THEN "verified" ELSE "mismatch")

\* More rows than an audit takes.
LimitReached ==
    /\ scan.of = "audit" /\ Len(scan.rows) = RowLimit /\ RowLimit < Len(file)
    /\ Reports("skipped")

\* run_approved_tool sums by supplier or by month and shows no group of one.
ToolGroups(rows, tool) ==
    LET label == [i \in DOMAIN rows |-> IF tool = "suppliers" THEN rows[i].supplier
                                        ELSE On(Unstripped(rows)[i], FALSE, FALSE)]
        shown == {i \in DecimalRows(rows) : label[i] \notin {BlankName, On(NoDay, FALSE, FALSE)}}
        Large(k) == Cardinality({i \in shown : label[i] = k}) >= 2
    IN  Restrict(By(rows, shown, label), {k \in {label[i] : i \in shown} : Large(k)})

\* load_run_aggregates compares the number of rows and the total with those of the analysis.
Calculate(tool) ==
    /\ saved # NotRun
    /\ Len(file) = saved.figures.count /\ Sum(file, DecimalRows(file)) = saved.figures.total
    /\ DOMAIN ToolGroups(file, tool) # {}
    /\ points' = [tool |-> tool, groups |-> ToolGroups(file, tool), stamp |-> stamp]
    /\ UNCHANGED <<file, stamp, saved, scan, report>>

\* Somebody writes the file: a row of it, or one more, or one less.
Edit ==
    /\ stamp < MaxEdits
    /\ \/ \E i \in DOMAIN file, e \in Entries : file' = [file EXCEPT ![i] = e]
       \/ \E e \in Entries : file' = Append(file, e)
       \/ file' = SubSeq(file, 1, Len(file) - 1)
    /\ file' # file
    /\ stamp' = stamp + 1
    /\ UNCHANGED <<saved, scan, report, points>>

FiguresInit ==
    /\ file \in Sheets /\ stamp = 0
    /\ saved = NotRun /\ scan = NotScanning
    /\ report = [of \in {"audit", "overview"} |-> NotRun]
    /\ points = [tool |-> "none"]

FiguresNext ==
    \/ Analyse \/ Edit
    \/ \E of \in {"audit", "overview"} : BeginScan(of)
    \/ ReadEntry \/ EndScan \/ LimitReached
    \/ \E tool \in {"suppliers", "months"} : Calculate(tool)

FiguresSpec == FiguresInit /\ [][FiguresNext]_figureVars

(***************************************************************************)
(* Properties                                                              *)
(***************************************************************************)

Finite(rows) == FloatRows(rows) = DecimalRows(rows)
Unpadded(rows) == \A i \in DOMAIN rows : ~rows[i].date.padded
Uniform(rows) == \A i \in DOMAIN rows : ~rows[i].date.clock /\ ~rows[i].supplier.capital
Hundredths(rows) == \A i \in DOMAIN rows : Worth(rows[i]) % 100 = 0
NoneMissing(rows) == \A i \in DOMAIN rows : Lower(rows[i].supplier) # Lower(MissingKey)

\* An audit that says "verified" is right for as long as the file is not written again: an
\* analysis of the file would come to the counts, the total and the breakdown of the saved
\* one, whatever was written while the audit read (quality/reconcile.py).  With infinite
\* amounts in the file it may not; and the audit does not look at months and anomalies.
VerifiedIsTrue ==
    LET audit == report["audit"]
    IN  (audit.status = "verified" /\ audit.stamp = stamp /\ Finite(file)) =>
            Fits(AnalysedFigures(file), audit.against.figures)

\* What is worked out of the file the saved analysis was made from agrees with the analysis:
\* an audit verifies it, an overview has the same counts, total and breakdown, a calculation
\* the same sum for each group it shows, and both the same months unless a date has blanks
\* around it.  The parsers differ over infinite amounts, and the analysis takes a supplier
\* called "<missing>" for a blank cell.
FiguresAgree ==
    LET figures == saved.figures
        Current(r) == r # NotRun /\ saved # NotRun /\ r.stamp = saved.stamp /\ Finite(saved.rows)
        audit == report["audit"]
        overview == report["overview"]
        streamed == StreamedFigures(overview.rows)
    IN  /\ (Current(audit) /\ audit.against = saved) => audit.status # "mismatch"
        /\ (Current(overview) /\ overview.status = "completed") =>
              /\ Fits(streamed, figures)
              /\ Unpadded(saved.rows) => streamed.months = figures.months
        /\ (points.tool # "none" /\ points.stamp = saved.stamp /\ Finite(saved.rows)) =>
              \A k \in DOMAIN points.groups :
                 IF points.tool = "suppliers"
                 THEN NoneMissing(saved.rows) => points.groups[k] = figures.suppliers[k]
                 ELSE Unpadded(saved.rows) => points.groups[k] = figures.months[k.day]

\* The screening finds in a file what the analysis finds: the same unusual amounts among four
\* rows or more with whole hundredths, the same repeated invoices, every repeated
\* transaction, and as many unless names differ in capitals or dates in the time of day; every
\* split purchase of whole hundredths, unless they do, where it groups more rows than the
\* analysis does.  A supplier called "<missing>" is a blank cell to the analysis alone.
ScreeningAgrees ==
    Finite(file) =>
        /\ Hundredths(file) => ScreenedHigh(file) = AmountOutliers(file)
        /\ ScreenedInvoices(file) = DuplicateInvoices(file)
        /\ NoneMissing(file) => RepeatedTransactions(file) \subseteq ScreenedRepeats(file)
        /\ (NoneMissing(file) /\ Uniform(file)) =>
              /\ ScreenedRepeats(file) = RepeatedTransactions(file)
              /\ Hundredths(file) =>
                    Positive(file, SplitPurchases(file)) \subseteq ScreenedSplits(file)

\* What the platform says of a file in one place is so, and is what it says in the others.
FiguresReliable == VerifiedIsTrue /\ FiguresAgree /\ ScreeningAgrees
=============================================================================

-------------------------------- MODULE Queue --------------------------------
(***************************************************************************)
(* The line of unconfirmed transactions as a reader sees it: the queue the *)
(* server computes from a snapshot of the mempool (explorer/queue.go), the *)
(* place of one transaction in it (explorer/tx.go, derivePending), and     *)
(* what the page makes of both (MempoolQueue.tsx, QueueBar.tsx).  Two      *)
(* programs bin the same rates and count the same vbytes; the properties   *)
(* say that they tell one story.                                           *)
(*                                                                         *)
(* Feerates are counted in units of 1/Unit sat/vB, and fractions of the    *)
(* line are compared by cross-multiplication.  The variable is a snapshot, *)
(* a map; transactions join and leave it in any order.                     *)
(***************************************************************************)
EXTENDS Integers, Sequences, FiniteSets, FiniteSetsExt

CONSTANTS
    Tx,             \* transactions
    Rate,           \* feerates, in units
    Size,           \* virtual sizes
    Unit,           \* units of rate per sat/vB
    BandMins,       \* queueBandMins, front first, in sat/vB
    VbytesPerBlock, \* vbytesPerBlock
    Interval        \* avgBlockInterval, in seconds

ASSUME QueueAssumption ==
    /\ Rate \subseteq Nat /\ Size \subseteq Nat \ {0}
    /\ Unit \in Nat \ {0} /\ VbytesPerBlock \in Nat \ {0}
    /\ Interval \in Nat \ {0}
    /\ BandMins \in Seq(Nat) /\ BandMins # <<>>
    /\ \A i, j \in 1 .. Len(BandMins) : i < j => BandMins[i] > BandMins[j]

VARIABLE entries    \* the snapshot: the rate and size of every transaction

\* The sum of f[x] for the x in S, as the number of the units it counts: a
\* fold would give the same (MCQueue), but nothing could be proved of it.
Total(f, S) == Cardinality(UNION {{x} \X (1 .. f[x]) : x \in S})

Waiting == DOMAIN entries

Vbytes(T) == Total([t \in T |-> entries[t].size], T)

TotalVbytes == Vbytes(Waiting)

Last == Len(BandMins)

-----------------------------------------------------------------------------
(* The server's queue *)

\* queueFromSnapshot's band of a rate: the walk advances past every band the
\* rate falls short of, up to the last.
ServerBand(rate) ==
    1 + Cardinality({i \in 1 .. Last - 1 : rate < Unit * BandMins[i]})

BandVbytes(i) == Vbytes({t \in Waiting : ServerBand(entries[t].rate) = i})

\* Seeded fault: the cutoff is the first rate behind a full block.
NextBlockRateBehind ==
    IF Waiting = {} THEN Unit
    ELSE LET rates  == {entries[t].rate : t \in Waiting}
             behind == {r \in rates :
                          Vbytes({t \in Waiting : entries[t].rate > r})
                              >= VbytesPerBlock}
         IN IF behind = {} THEN Min(rates) ELSE Max(behind)

\* The rate at which a walk from the front has filled a block; that of the
\* last transaction when the line is shorter.
NextBlockRate ==
    IF Waiting = {} THEN Unit
    ELSE LET rates == {entries[t].rate : t \in Waiting}
             full  == {r \in rates :
                         Vbytes({t \in Waiting : entries[t].rate >= r})
                             >= VbytesPerBlock}
         IN IF full = {} THEN Min(rates) ELSE Max(full)

\* min(vbytesPerBlock / total, 1), as a numerator and a denominator
CutoffFraction ==
    IF TotalVbytes <= VbytesPerBlock THEN <<1, 1>>
    ELSE <<VbytesPerBlock, TotalVbytes>>

-----------------------------------------------------------------------------
(* One transaction's place: derivePending *)

\* Seeded fault: equal rates count as ahead, the transaction itself included.
VbytesAheadOrEqual(t) ==
    Vbytes({u \in Waiting : entries[u].rate >= entries[t].rate})

VbytesAhead(t) ==
    Vbytes({u \in Waiting \ {t} : entries[u].rate > entries[t].rate})

EtaBlocks(t) == VbytesAhead(t) \div VbytesPerBlock + 1

EtaSeconds(t) == EtaBlocks(t) * Interval

QueueVbytesFraction(t) == <<VbytesAhead(t), TotalVbytes>>

-----------------------------------------------------------------------------
(* The page *)

\* Math.round(a / b)
Round(a, b) == (2 * a + b) \div (2 * b)

\* A span of time as it is worded: so many minutes, hours or days.
Span(n, unit) == [n |-> n, unit |-> unit]

FormatEta(s) ==
    CASE s < 90 -> Span(1, "minutes")
      [] s >= 90 /\ s < 5400 -> Span(Round(s, 60), "minutes")
      [] s >= 5400 /\ s < 172800 -> Span(Round(s, 3600), "hours")
      [] OTHER -> Span(Round(s, 86400), "days")

FormatEtaShort(s) ==
    CASE s < 90 -> Span(1, "minutes")
      [] s >= 90 /\ s < 5400 -> Span(Round(s, 60), "minutes")
      [] OTHER -> Span(Round(s, 3600), "hours")

\* Seeded fault: a rate at a band's minimum falls into the band behind.
BandIndexStrict(rate) ==
    Min({i \in 1 .. Last - 1 : rate > Unit * BandMins[i]} \cup {Last})

BandIndex(rate) ==
    Min({i \in 1 .. Last - 1 : rate >= Unit * BandMins[i]} \cup {Last})

\* The vbytes in the bands in front of band k
FrontVbytes(k) == Total([i \in 1 .. k - 1 |-> BandVbytes(i)], 1 .. k - 1)

\* The chip of an arrival: blocks a rate waits behind the bands ahead of its
\* own.  The page multiplies cutoffFraction out again for the block size.
BandEtaBlocks(rate) ==
    IF CutoffFraction[1] >= CutoffFraction[2] THEN 1
    ELSE LET ahead == FrontVbytes(BandIndex(rate))
             block == (TotalVbytes * CutoffFraction[1]) \div CutoffFraction[2]
         IN ahead \div block + 1

\* "next block" is a word of its own.
EtaChip(rate) ==
    LET b == BandEtaBlocks(rate)
    IN  IF b = 1 THEN Span(1, "block") ELSE FormatEtaShort(b * Interval)

\* "Whole line clears in N blocks", N in tenths
ClearTenths == Max({10, Round(10 * CutoffFraction[2], CutoffFraction[1])})

\* The bar of a line that is not empty: the segment of every band, from one
\* end to the other, in vbytes
QueueSegments ==
    [i \in 1 .. Last |->
        <<FrontVbytes(i), FrontVbytes(i) + BandVbytes(i)>>]

\* Where a marker stands on the bar: never beyond its ends
Marker(f) == IF f[1] > f[2] THEN <<1, 1>> ELSE f

\* "Your place in line" on the page of a pending transaction
PlaceInLine(t) ==
    [eta |-> FormatEta(EtaSeconds(t)),
     you |-> Marker(QueueVbytesFraction(t)),
     nextInLine |-> \A u \in Waiting : entries[u].rate <= entries[t].rate]

\* "Pay N+ sat/vB and you'll likely make the next block", in sat/vB
Threshold == Max({1, (NextBlockRate + Unit - 1) \div Unit})

-----------------------------------------------------------------------------
Join(t) ==
    /\ t \notin Waiting
    /\ \E r \in Rate, s \in Size :
        entries' = [u \in Waiting \cup {t} |->
                       IF u = t THEN [rate |-> r, size |-> s] ELSE entries[u]]

\* Mined, replaced or expired
Leave(t) ==
    /\ t \in Waiting
    /\ entries' = [u \in Waiting \ {t} |-> entries[u]]

EmptyLine == entries = [t \in {} |-> {}]

Change == \E t \in Tx : Join(t) \/ Leave(t)

QueueSpec == EmptyLine /\ [][Change]_entries

-----------------------------------------------------------------------------
(* Properties *)

\* The advice under the bar and the chips in the feed agree
\* (MempoolQueue.tsx:260): a transaction that pays the rate the page advises
\* is labelled "next block" when it joins the line, whatever the line, the
\* bands and the rounding of the advice.
AdviceIsNextBlock ==
    \A r \in Rate : r >= Unit * Threshold => BandEtaBlocks(r) = 1

Less(f, g) == f[1] * g[2] < g[1] * f[2]

\* A waiting transaction's page agrees with the feed, the caption and its own
\* bar: it promises no earlier block than the chip it was opened from, in
\* blocks and as both are worded, no later one to a higher rate, none more
\* than a block after the whole line is said to have cleared, and the next
\* block exactly when the "you are here" marker stands in front of the cutoff
\* marker; and that marker stands in the segment of the transaction's own
\* band, at the front of the bar when it is "next in line".
PlacesAgree ==
    \A t \in Waiting :
        LET rate    == entries[t].rate
            chip    == EtaChip(rate)
            place   == PlaceInLine(t)
            segment == QueueSegments[BandIndex(rate)]
        IN  /\ BandEtaBlocks(rate) <= EtaBlocks(t)
            /\ chip.unit = place.eta.unit => chip.n <= place.eta.n
            /\ \A u \in Waiting :
                   rate <= entries[u].rate => EtaBlocks(u) <= EtaBlocks(t)
            /\ 10 * EtaBlocks(t) <= ClearTenths + 10
            /\ EtaBlocks(t) = 1 <=> Less(place.you, Marker(CutoffFraction))
            /\ ~ Less(place.you, <<segment[1], TotalVbytes>>)
            /\ Less(place.you, <<segment[2], TotalVbytes>>)
            /\ place.nextInLine => place.you[1] = 0
=============================================================================

----------------------------- MODULE FeedPrograms -----------------------------
(***************************************************************************)
(* The programs that read a session of the feed and keep the book of one   *)
(* stock: itch_replay, which checks it as it goes; bench_book, which       *)
(* records the stock's operations and applies them to fresh books; and     *)
(* itch_histogram, which measures it.  A behaviour is a run of one of      *)
(* them; what belongs to the others is NotRun.                             *)
(***************************************************************************)
EXTENDS Replay

CONSTANTS
    Recordable, RecordedMessages, Passes,           \* of bench_book
    kPennyUnits, kMaxTracked, MaxSamples,           \* of itch_histogram
    NotRun          \* the state of a program that does not run

VARIABLES
    program,                                    \* the program that runs
    workload, resolved, pass, applied, digests, \* of bench_book
    collector                                   \* of itch_histogram

feedVars == <<market, announced, issued, sent>>
replayVars == <<builder, stats, observer>>
workloadVars == <<workload, resolved, pass, applied, digests>>
allVars ==
    <<program, feedVars, bookVars, aborted, replayVars, workloadVars, collector>>

Benching == INSTANCE Workload WITH Wanted <- Recordable, MaxMessages <- RecordedMessages

Measuring == INSTANCE Histogram

\* A book holds the orders the builder adds, which have no owner, at the prices
\* of the feed; the empty symbol is nobody's.
ASSUME FeedProgramsAssumption ==
    /\ Feed!FeedAssumption
    /\ Measuring!HistogramAssumption
    /\ FeedPrices \subseteq Prices
    /\ 0 \in Owners
    /\ NoSymbol \notin Symbols

NoBuilder == builder = NotRun /\ stats = NotRun /\ observer = NotRun

NoWorkload ==
    /\ workload = NotRun /\ resolved = NotRun /\ digests = NotRun
    /\ pass = NotRun /\ applied = NotRun

ReplayInit ==
    /\ program = "itch_replay"
    /\ Init
    /\ NoWorkload
    /\ collector = NotRun

BenchInit ==
    /\ program = "bench_book"
    /\ Benching!Init
    /\ NoBuilder
    /\ collector = NotRun

\* itch_histogram's messages are those of one stock alone, as applied.
HistogramInit ==
    /\ program = "itch_histogram"
    /\ Measuring!Init
    /\ Feed!FeedInit
    /\ aborted = FALSE
    /\ NoBuilder
    /\ NoWorkload

ProgramInit == ReplayInit \/ BenchInit \/ HistogramInit

ReplayStep ==
    /\ program = "itch_replay"
    /\ Next
    /\ UNCHANGED <<program, workloadVars, collector>>

BenchStep ==
    /\ program = "bench_book"
    /\ Benching!Next
    /\ UNCHANGED <<program, replayVars, collector>>

HistogramStep ==
    /\ program = "itch_histogram"
    /\ Measuring!Next
    /\ UNCHANGED <<program, feedVars, aborted, replayVars, workloadVars>>

ProgramNext == ReplayStep \/ BenchStep \/ HistogramStep

ProgramSpec == ProgramInit /\ [][ProgramNext]_allVars

------------------------------------------------------------------------------
(* Properties. *)

\* itch_replay's book holds the exchange's orders of the wanted stock, however
\* the messages of several stocks interleave and whenever it is resolved.
BookIsTheMarkets == program = "itch_replay" => HoldsTheMarket

\* No assertion of the builder, the book or the observer fails, and the counts
\* each of them keeps are one another's.
CountsAgree == program = "itch_replay" => CountsBalance

\* Every pass of bench_book rebuilds the exchange's book from what was recorded.
RebuildsTheMarket == program = "bench_book" => Benching!RebuildsTheMarket

\* itch_histogram's table and the totals reported beside it tell one story.
TableMatchesTotals == program = "itch_histogram" => Measuring!TableMatchesTotals

\* The ranges and peaks it reports cover the book that was measured.
RangesCoverTheBook == program = "itch_histogram" => Measuring!RangesCoverTheBook
==============================================================================

------------------------------ MODULE FeedStats ------------------------------
(***************************************************************************)
(* apps/itch_stats.cpp: counts of the messages of a stream, which reaches  *)
(* it either whole, as a mapped file, or through a FrameReader, as a gzip  *)
(* stream does.  The streamed run is the behaviour here; what a run over   *)
(* the mapped file reports is computed from the same stream.               *)
(*                                                                         *)
(* A body starts with a byte of type, one of stock locate and one of       *)
(* timestamp; a directory message goes on with the symbol.                 *)
(***************************************************************************)
EXTENDS FrameReader, Functions

CONSTANTS
    MovesBook,      \* moves_book(): the types of the messages that change a book
    Directory,      \* the type of the stock directory message
    NoName          \* a locate without a symbol

ASSUME StatsAssumption == MovesBook \subseteq Byte /\ Directory \in Byte \ MovesBook

\* The buffer of itch_stats is longer than any prefix can promise, and a message
\* of a known type has all of what observe() loads from it.
StatsOfItch ==
    /\ LengthPrefix(<<MaxByte, MaxByte>>) <= Capacity - kLengthPrefixSize
    /\ \A type \in Byte : Declared[type] # 0 =>
          Declared[type] >= (IF type = Directory THEN 4 ELSE 3)

VARIABLES
    stats,      \* Stats
    report      \* Outcome, once the run has ended

statVars == <<vars, stats, report>>

Stats ==
    [messages |-> 0, payload_bytes |-> 0, framed_bytes |-> 0, saw_timestamp |-> FALSE,
     first_timestamp |-> 0, last_timestamp |-> 0, by_type |-> [type \in Byte |-> 0],
     name |-> [locate \in Byte |-> NoName],
     book_messages |-> [locate \in Byte |-> 0], all_messages |-> [locate \in Byte |-> 0]]

Running == [status |-> "Running"]

StatsInit == Init /\ stats = Stats /\ report = Running

\* observe(): with the table by symbol.
Observe(s, frame) ==
    LET type == frame[1]  locate == frame[2]  ts == frame[3]
    IN  [s EXCEPT
            !.messages = @ + 1,
            !.by_type[type] = @ + 1,
            !.payload_bytes = @ + Len(frame),
            !.framed_bytes = @ + Len(frame) + kLengthPrefixSize,
            !.first_timestamp = IF s.saw_timestamp THEN @ ELSE ts,
            !.saw_timestamp = TRUE,
            !.last_timestamp = ts,
            !.all_messages[locate] = @ + 1,
            !.book_messages[locate] = IF type \in MovesBook THEN @ + 1 ELSE @,
            !.name[locate] = IF type = Directory THEN frame[4] ELSE @]

Outcome(verdict, offset, trailing) ==
    [status |-> verdict.status, error |-> verdict.error, offset |-> offset, trailing |-> trailing]

\* run_mapped(), with a cursor over the whole file: after a look the cursor is past
\* a frame, which is observed, or where it was.
Looked(run) ==
    LET st == Scan(SubSeq(input, run.at + 1, Len(input)))
    IN  IF st.status = "Ok"
        THEN [at |-> run.at + Consumed(st), stats |-> Observe(run.stats, st.frame)]
        ELSE run

Mapped[looks \in 0 .. Len(input)] ==
    IF looks = 0 THEN [at |-> 0, stats |-> Stats] ELSE Looked(Mapped[looks - 1])

\* No file has more frames than bytes: after so many looks it has ended.
RunMapped ==
    LET run  == Mapped[Len(input)]
        rest == SubSeq(input, run.at + 1, Len(input))
    IN  [stats |-> run.stats, report |-> Outcome(Scan(rest), run.at, Len(rest))]

\* run_streamed(): ask for a frame; observe it, or end with what the reader says.
AskNext ==
    /\ report = Running
    /\ Call
    /\ UNCHANGED <<stats, report>>

\* A mutant: the offset of the cursor, not of the stream.
AnsweredInBuffer ==
    IF calling' THEN UNCHANGED <<stats, report>>
    ELSE IF outcome'.status = "Ok"
    THEN stats' = Observe(stats, outcome'.frame) /\ UNCHANGED report
    ELSE report' = Outcome(outcome', pos', trailing_bytes') /\ UNCHANGED stats

\* A mutant: a truncated stream is asked again.
AnsweredAgain ==
    IF calling' THEN UNCHANGED <<stats, report>>
    ELSE IF outcome'.status = "Ok"
    THEN stats' = Observe(stats, outcome'.frame) /\ UNCHANGED report
    ELSE IF outcome'.status = "NeedMore" THEN UNCHANGED <<stats, report>>
    ELSE report' = Outcome(outcome', bytes_consumed', trailing_bytes') /\ UNCHANGED stats

Answered ==
    IF calling' THEN UNCHANGED <<stats, report>>
    ELSE IF outcome'.status = "Ok"
    THEN stats' = Observe(stats, outcome'.frame) /\ UNCHANGED report
    ELSE report' = Outcome(outcome', bytes_consumed', trailing_bytes') /\ UNCHANGED stats

ReaderRuns == Pass /\ Answered

\* main() catches what the source throws and reports nothing.
Caught ==
    /\ SourceThrows
    /\ report' = Threw
    /\ UNCHANGED stats

StatsNext == AskNext \/ ReaderRuns \/ Caught

\* The program runs until it has something to report.
StatsSpec == StatsInit /\ [][StatsNext]_statVars /\ WF_statVars(AskNext \/ ReaderRuns)

\* The exit status of main().
ExitStatus == IF report.status \in {"Malformed", "Threw"} THEN 1 ELSE 0

------------------------------------------------------------------------------
(* Properties. *)

Reported == report \notin {Running, Threw}

\* However the stream is cut into reads, the streamed run reports what a run over
\* the mapped file does: counts, symbols, timestamps, the verdict and where it
\* was reached.  Only the trailing bytes after a malformed frame differ: they are
\* then what the reader's buffer happens to hold, observed frames included.
PathsAgree ==
    Reported =>
        /\ stats = RunMapped.stats
        /\ [report EXCEPT !.trailing = 0] = [RunMapped.report EXCEPT !.trailing = 0]
        /\ report.status # "Malformed" => report.trailing = RunMapped.report.trailing

\* The totals are kept apart and must balance: the framed bytes are those the
\* reader has consumed, the messages are those of all types and of all locates.
TotalsBalance ==
    /\ Reported => stats.framed_bytes = report.offset
    /\ stats.framed_bytes = stats.payload_bytes + kLengthPrefixSize * stats.messages
    /\ stats.messages = SumFunctionOnSet(stats.by_type, Byte)
    /\ stats.messages = SumFunctionOnSet(stats.all_messages, Byte)
    /\ SumFunctionOnSet(stats.by_type, MovesBook) = SumFunctionOnSet(stats.book_messages, Byte)

\* The report is the same for both paths, and adds up.
ReportsAgree == PathsAgree /\ TotalsBalance
==============================================================================

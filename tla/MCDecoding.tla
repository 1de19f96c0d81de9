------------------------------ MODULE MCDecoding ------------------------------
(***************************************************************************)
(* What is read out of frames, by the views of each message and by         *)
(* itch_stats, which loads what it needs without asking for a view; a      *)
(* behaviour is one message on its way, or one run of itch_stats.          *)
(*                                                                         *)
(* Messages: numbers whose bytes differ, at both ends of their range;      *)
(* symbols with a blank inside and as long as the field; two fields        *)
(* written in one message; one message of each kind the builder handles,   *)
(* for references and prices on both sides of a byte.                      *)
(*                                                                         *)
(* Statistics: streams of up to two messages, an add for one of two stocks *)
(* and a directory message, ended cleanly, in a prefix, in a body, by a    *)
(* zero length, by an unknown type or by a length that is not the type's.  *)
(***************************************************************************)
EXTENDS FeedStats, SequencesExt, TLC

CONSTANT MaxPuts

VARIABLES
    subject,                                \* what the behaviour is about
    name, body, stored, puts, sent, framed  \* the message, a Wire

wireVars == <<name, body, stored, puts, sent, framed>>

MCDeclared == [type \in 0 .. 4 |-> IF type = 1 THEN 3 ELSE IF type = 2 THEN 4 ELSE 0]

\* The small layout and buffer are such as itch_stats has.
ASSUME LayoutAssumption == StatsOfItch

Framed(bytes) == <<0, Len(bytes)>> \o bytes

AddFrames == {Framed(<<1, locate, ts>>) : locate \in {0, 1}, ts \in {1, 2}}
DirectoryFrames == {Framed(<<2, 1, 3, 2>>)}

Ends == {<<>>, <<0>>, <<0, 3>>, <<1, 0, 1>>, <<0, 3, 1, 0>>, <<0, 0>>, <<0, 1, 3>>,
         <<0, 1, 1, 0>>, <<3, 3, 2>>}

MCInputs ==
    {FlattenSeq(whole) \o end :
        whole \in BoundedSeq(AddFrames \cup DirectoryFrames, 2), end \in Ends}

MCTexts == {<<>>, <<65>>, <<65, 32, 66>>, <<65, 66, 67, 68, 69, 70, 71, 72>>}

Named(names, records) == {[name |-> n] @@ r : n \in names, r \in records}

MCSent ==
    LET locates == {1, 513}
        refs    == {1, 258}
        prices  == {70000}
        shares  == {300, 65537}
    IN  Named({"StockDirectory"}, [locate : locates, symbol : MCTexts])
        \cup Named({"AddOrder", "AddOrderWithMpid"},
                   [locate : locates, ref : refs, side : {"Buy", "Sell"}, price : prices,
                    shares : shares])
        \cup Named({"OrderExecuted", "OrderExecutedWithPrice", "OrderCancel"},
                   [locate : locates, ref : refs, shares : shares])
        \cup Named({"OrderDelete"}, [locate : locates, ref : refs])
        \cup Named({"OrderReplace"},
                   [locate : locates, ref : refs, new : refs, price : prices, shares : shares])
        \cup Named({"TradeNonCross", "CrossTrade", "BrokenTrade"}, [locate : locates])

MCGarbage == {<<>>, <<0, 1, 83>>}

Layouts == INSTANCE Messages

Message == INSTANCE Wire WITH
    MaxByte <- 255, Declared <- Layouts!MessageLength, input <- framed,
    Texts <- MCTexts, Sent <- MCSent, Garbage <- MCGarbage

MessageInit ==
    /\ subject = "message"
    /\ Message!Init
    /\ StatsInit /\ input = <<>>

StatisticsInit ==
    /\ subject = "statistics"
    /\ StatsInit
    /\ Message!Init

MessageStep == subject = "message" /\ Message!Next /\ UNCHANGED <<subject, statVars>>

StatisticsStep == subject = "statistics" /\ StatsNext /\ UNCHANGED <<subject, wireVars>>

MCNext == MessageStep \/ StatisticsStep

\* itch_stats runs until it has something to report.
MCSpec ==
    /\ MessageInit \/ StatisticsInit
    /\ [][MCNext]_<<subject, statVars, wireVars>>
    /\ WF_statVars(StatisticsStep /\ (AskNext \/ ReaderRuns))

------------------------------------------------------------------------------

\* Field by field and message by message, what is read is what was written.
DecodedAsSent == Message!DecodedAsSent

\* No frame the cursor lets through is read beyond its end.
ReadInsideTheFrame == Message!ReadInsideTheFrame

\* A run of itch_stats over any stream ends with a report or with the error of
\* the source.
RunEnds == subject = "statistics" ~> report # Running
==============================================================================

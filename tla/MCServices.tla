----------------------------- MODULE MCServices -----------------------------
(***************************************************************************)
(* Small instances, for TLC, of the procedures and services that share no  *)
(* state: `part' chooses one of them in the initial state, and the others  *)
(* stay as they start.  A property of each is therefore checked over the   *)
(* behaviours of its own part, and holds of the start of the others.       *)
(***************************************************************************)
EXTENDS EntryConfirmation, FiniteSets

CONSTANTS
    Runs, Cleaning, Root, Hubs, Targets, HubOf, Legacy, Start,  \* OutlineSync
    topic, page, unmapped,                                     \* titles of a start
    Requests, KeyOne, KeyOf, Interval, MaxDelay, MaxClock,    \* BacktestAccess
    Readers, Backfills, Limit, BackfillLimit, ApiLimit,     \* MarketData
    Needed, MaxListed,
    MaxSent                                                 \* PriceStream

VARIABLES
    part,
    place, hasAlgo, usedAlgo, refs, rows, book, strayed,
    docs, updated, run, quiet,
    closed, controller, aborted, woken, loop, sent, misuse,
    clock, now, last, accepted,
    listed, candles, snapshot, ingestion, reader

placementVars == <<place, hasAlgo, usedAlgo, refs, rows, book, strayed>>
outlineVars   == <<docs, updated, run, quiet>>
streamVars    == <<closed, controller, aborted, woken, loop, sent, misuse>>
accessVars    == <<clock, now, last, accepted>>
marketVars    == <<listed, candles, snapshot, ingestion, reader>>
allVars == <<part, vars, placementVars, outlineVars, streamVars, accessVars,
             marketVars>>

Placement == INSTANCE ProtectionPlacement WITH step <- place

Titles == {Root, topic, page, unmapped}

\* Two documents, of one title or of two, under the index or not, or three
\* of one title, last updated in any order; or none.  The last updated one of
\* a title holds its new text.
Collection(titles, places, parent) ==
    LET Last(d) == \A e \in DOMAIN titles : titles[e] = titles[d] => places[e] <= places[d]
    IN [docs |-> [d \in DOMAIN titles |->
                    [title |-> titles[d], parent |-> IF d = 1 THEN 0 ELSE parent,
                     text |-> IF Last(d) THEN "new" ELSE "old",
                     lists |-> {}, active |-> TRUE]],
        updated |-> places]

Collections ==
    {Collection(<<>>, <<>>, 0)}
    \cup {Collection(<<s, t>>, u, IF s = Root THEN 1 ELSE 0) :
            s \in Titles, t \in Titles, u \in {<<1, 2>>, <<2, 1>>}}
    \cup {Collection(<<t, t, t>>, u, 0) :
            t \in {page, unmapped}, u \in {<<2, 3, 1>>, <<1, 3, 2>>}}

UnderTopic == [t \in {page} |-> topic]

Outline == INSTANCE OutlineSync

\* Titles are apart, and a file's hub is one of the hubs.  What a run may find
\* are documents, each last updated at a moment of its own, below and listing
\* documents of the collection, and "new" is the text of the last updated one
\* of a title.
ASSUME OutlineAssumption ==
    /\ Legacy \cap Outline!Desired = {} /\ Hubs \cap Targets = {}
    /\ Root \notin Hubs \cup Targets /\ HubOf \in [Targets -> Hubs]
    /\ \A c \in Start :
         /\ c.docs \in Seq([title : Outline!Titles, parent : Nat, text : Outline!Texts,
                            lists : SUBSET Nat, active : BOOLEAN])
         /\ c.updated \in Seq(Nat) /\ Len(c.updated) = Len(c.docs)
         /\ \A d, e \in DOMAIN c.docs : /\ c.updated[d] <= Len(c.docs)
                                        /\ c.updated[d] = c.updated[e] => d = e
         /\ {c.updated[d] : d \in DOMAIN c.updated} = DOMAIN c.docs
         /\ \A d \in DOMAIN c.docs : /\ c.docs[d].parent <= Len(c.docs)
                                     /\ c.docs[d].lists \subseteq DOMAIN c.docs
         /\ \A t \in Legacy :
              LET held == {d \in DOMAIN c.docs : c.docs[d].title = t /\ c.docs[d].active}
              IN  \A d \in held : (\A e \in held : c.updated[e] <= c.updated[d])
                                    => c.docs[d].text = "new"

Stream == INSTANCE PriceStream

\* Two keys, one of them presented by the requests of KeyOne.
TwoKeys == [q \in Requests |-> IF q \in KeyOne THEN 1 ELSE 2]

Access == INSTANCE BacktestAccess

Market == INSTANCE MarketData

\* What bounds the model lets each part start.
ASSUME BoundsAssumption ==
    MaxSent \in Nat /\ MaxClock \in Nat /\ MaxListed \in Nat \ {0}

-----------------------------------------------------------------------------
\* The parts as they start; of several ways, one.
EntryRests     == lagging = FALSE /\ Init
PlacementRests == hasAlgo = TRUE /\ Placement!Init
OutlineRests   == docs = <<>> /\ Outline!Init
StreamRests    == aborted = FALSE /\ Stream!Init

ServicesInit ==
    /\ Access!Init /\ Market!Init
    /\ \/ /\ part \in {"access", "market"}
          /\ EntryRests /\ PlacementRests /\ OutlineRests /\ StreamRests
       \/ /\ part = "entry" /\ Init
          /\ PlacementRests /\ OutlineRests /\ StreamRests
       \/ /\ part = "placement" /\ Placement!Init
          /\ EntryRests /\ OutlineRests /\ StreamRests
       \/ /\ part = "outline" /\ Outline!Init
          /\ EntryRests /\ PlacementRests /\ StreamRests
       \/ /\ part = "stream" /\ Stream!Init
          /\ EntryRests /\ PlacementRests /\ OutlineRests

StreamLoop ==
    /\ part = "stream" /\ Stream!LoopStep
    /\ UNCHANGED <<part, vars, placementVars, outlineVars, accessVars, marketVars>>

ServicesNext ==
    \/ /\ part = "entry" /\ Next
       /\ UNCHANGED <<part, placementVars, outlineVars, streamVars, accessVars, marketVars>>
    \/ /\ part = "placement" /\ Placement!Next
       /\ UNCHANGED <<part, vars, outlineVars, streamVars, accessVars, marketVars>>
    \/ /\ part = "outline" /\ Outline!Next
       /\ UNCHANGED <<part, vars, placementVars, streamVars, accessVars, marketVars>>
    \/ /\ part = "stream" /\ Stream!Next
       /\ UNCHANGED <<part, vars, placementVars, outlineVars, accessVars, marketVars>>
    \/ /\ part = "access" /\ Access!Next
       /\ UNCHANGED <<part, vars, placementVars, outlineVars, streamVars, marketVars>>
    \/ /\ part = "market" /\ Market!Next
       /\ UNCHANGED <<part, vars, placementVars, outlineVars, streamVars, accessVars>>

\* The loop of a stream goes on as the event loop schedules it: fetches and
\* sleeps end.
ServicesSpec == ServicesInit /\ [][ServicesNext]_allVars /\ WF_allVars(StreamLoop)

-----------------------------------------------------------------------------
\* The types of every part.
EveryTypeOK ==
    /\ part \in {"entry", "placement", "outline", "stream", "access", "market"}
    /\ TypeOK /\ Placement!TypeOK /\ Outline!TypeOK /\ Stream!TypeOK
    /\ Access!TypeOK /\ Market!TypeOK

\* Only lost answers or failed cancellations leave a live order that is not
\* stored (_place_protection_orders and its fallback).
OrphansNeedLostAnswers == Placement!OrphansNeedLostAnswers

\* Runs of the documentation sync that interleave or fail never lose the last
\* document of a title the repository maps (main of sync_outline_docs.py).
TitleNeverLost == Outline!TitleNeverLost

\* Merging duplicates keeps the text last written under a title in an active
\* document at every point (main, step 1).
NewestTextSurvives == Outline!NewestTextSurvives

\* A run nobody overlapped repairs whatever earlier runs left (main).
QuietSyncConverges == Outline!QuietSyncConverges

\* The controller of a price stream is closed once and never used afterwards,
\* and the loop leaves no stream open behind it (safeClose, cancel).
ClosedOnce == Stream!ClosedOnce

\* The loop of a price stream whose client went away ends.
StreamEnds == Stream!StreamEnds

\* Accepted backtests of one key are an interval apart by the clock they read,
\* in whatever order they reach the lock (require_backtesting_access).
AcceptedApart == Access!AcceptedApart

\* Signals are computed over candles without a hole, whatever ingestions
\* overlap (ingest_symbol, build_signal_pack).
SignalsSeeNoHole == Market!SignalsSeeNoHole

\* Demo signals stand in only when a call failed or the exchange lists too
\* few candles (build_signal_pack).
DemoOnlyWithoutData == Market!DemoOnlyWithoutData
=============================================================================

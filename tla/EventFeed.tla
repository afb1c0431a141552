------------------------------- MODULE EventFeed -------------------------------
(***************************************************************************)
(* The feeds of MCP events (internal/mcp/events/manager.go).  Readers of   *)
(* one subscription key share a feed: a source that is set up by the first *)
(* reader, a ring of the newest events and a channel that wakes streams.   *)
(* A feed ends when its source fails, its last stream leaves, it is swept  *)
(* or the manager closes; the next reader makes a new one, whose cursors   *)
(* have another epoch.  What m.mu guards is one step; sources are set up   *)
(* and stopped, and notifications sent, outside it.                        *)
(*                                                                         *)
(* Left out: webhook subscriptions, the limits per principal, and maxAge.  *)
(***************************************************************************)
EXTENDS Naturals, FiniteSets

CONSTANTS Readers,  \* clients of one subscription key, by stream or by poll
          MaxFeeds, \* bound on the feeds made
          MaxSeq,   \* bound on the events of a feed
          RingSize  \* ringSize

ASSUME FeedAssumption == MaxFeeds \in Nat /\ MaxSeq \in Nat /\ RingSize \in Nat \ {0}

VARIABLES
  feeds,      \* the feeds ever made
  registered, \* m.feeds of the key: a feed, or 0
  feedCount,  \* feeds made
  reader,     \* readers
  shut        \* m.closed

feedVars == <<feeds, registered, feedCount, reader, shut>>

Feeds == 1 .. MaxFeeds
NoFeed == 0
\* The ring holds the events first .. seq.  started, stops: whether the source was
\* set up, and the calls of stop that somebody has taken on (history).
FeedRecords == [ready : BOOLEAN, dead : BOOLEAN, stop : BOOLEAN, polled : BOOLEAN, started : BOOLEAN,
                stops : 0 .. 3, seq : 0 .. MaxSeq, first : 1 .. MaxSeq + 1, wake : 0 .. MaxSeq + 2]
NewFeed == [ready |-> FALSE, dead |-> FALSE, stop |-> FALSE, polled |-> FALSE,
            started |-> FALSE, stops |-> 0, seq |-> 0, first |-> 1, wake |-> 0]

\* epoch and got: the cursor the client has.  next .. pos: the batch in hand.
Streaming == {"active", "send", "loop", "gap", "wait", "leave"}
ReaderRecords == [at : {"idle", "setup", "ready", "attach", "polled"} \cup Streaming,
                  feed : 0 .. MaxFeeds, epoch : 0 .. MaxFeeds, got : 0 .. MaxSeq,
                  next : 1 .. MaxSeq + 1, pos : 0 .. MaxSeq, truncated : BOOLEAN,
                  wake : 0 .. MaxSeq + 2, first : BOOLEAN]
NewReader == [at |-> "idle", feed |-> NoFeed, epoch |-> NoFeed, got |-> 0, next |-> 1, pos |-> 0,
              truncated |-> FALSE, wake |-> 0, first |-> FALSE]

FeedTypeOK ==
  /\ feeds \in [Feeds -> FeedRecords]
  /\ registered \in 0 .. MaxFeeds /\ feedCount \in 0 .. MaxFeeds
  /\ reader \in [Readers -> ReaderRecords]
  /\ shut \in BOOLEAN

FeedInit ==
  /\ feeds = [f \in Feeds |-> NewFeed] /\ registered = NoFeed /\ feedCount = 0
  /\ reader = [r \in Readers |-> NewReader]
  /\ shut = FALSE

Refs(f) == {r \in Readers : reader[r].feed = f /\ reader[r].at \in Streaming}
ReaderAt(r, l) == reader' = [reader EXCEPT ![r].at = l]
\* The client keeps its cursor.
Gone(r) == [NewReader EXCEPT !.epoch = reader[r].epoch, !.got = reader[r].got]
Leaving(r) == [Gone(r) EXCEPT !.at = "leave", !.feed = reader[r].feed]
ReaderGone(r) == reader' = [reader EXCEPT ![r] = Gone(r)]

\* Detaching a feed clears its ring and wakes its streams.
Detached(f) == [f EXCEPT !.dead = TRUE, !.first = f.seq + 1, !.wake = @ + 1]
\* Who detaches a feed calls its stop function after the unlock.
OweStop(f) == [f EXCEPT !.stops = IF f.stop THEN @ + 1 ELSE @]
TakeStop(f) == [OweStop(f) EXCEPT !.stop = FALSE]

-----------------------------------------------------------------------------
(* Making a feed                                                             *)

GetFeed(r) ==
  /\ reader[r].at = "idle" /\ ~ shut
  /\ IF registered # NoFeed
       THEN /\ reader' = [reader EXCEPT ![r].at = "ready", ![r].feed = registered]
            /\ UNCHANGED <<registered, feedCount>>
       ELSE /\ feedCount < MaxFeeds /\ feedCount' = feedCount + 1
            /\ registered' = feedCount + 1
            /\ reader' = [reader EXCEPT ![r].at = "setup", ![r].feed = feedCount + 1]
  /\ UNCHANGED <<feeds, shut>>

\* A source that was detached in the meantime is stopped by who set it up.
SetupReturns(f) == [f EXCEPT !.ready = TRUE, !.stop = TRUE, !.started = TRUE,
                             !.stops = IF f.dead \/ shut THEN @ + 1 ELSE @]

SetupOk(r) ==
  LET f == reader[r].feed IN
  /\ reader[r].at = "setup"
  /\ feeds' = [feeds EXCEPT ![f] = SetupReturns(@)]
  /\ IF feeds[f].dead \/ shut THEN ReaderGone(r) ELSE ReaderAt(r, "attach")
  /\ UNCHANGED <<registered, feedCount, shut>>

SetupFails(r) ==
  LET f == reader[r].feed IN
  /\ reader[r].at = "setup"
  /\ feeds' = [feeds EXCEPT ![f].ready = TRUE, ![f].dead = TRUE, ![f].first = feeds[f].seq + 1]
  /\ registered' = IF registered = f THEN NoFeed ELSE registered
  /\ ReaderGone(r)
  /\ UNCHANGED <<feedCount, shut>>

FeedReady(r) ==
  /\ reader[r].at = "ready"
  /\ feeds[reader[r].feed].ready
  /\ IF feeds[reader[r].feed].dead THEN ReaderGone(r) ELSE ReaderAt(r, "attach")
  /\ UNCHANGED <<feeds, registered, feedCount, shut>>

\* The caller gives up while it waits.
StopWaiting(r) ==
  /\ reader[r].at \in {"ready", "attach"}
  /\ ReaderGone(r)
  /\ UNCHANGED <<feeds, registered, feedCount, shut>>

-----------------------------------------------------------------------------
(* The ring                                                                  *)

\* trimLocked: the ring loses the events above its size, and any number of old
\* ones to their age and to the limits on bytes.
Trims(f) == {n \in f.first .. f.seq + 1 : f.seq + 1 - n <= RingSize}

\* The last event lost is not noticed (to test the checks).
BehindByTwo(p, first) == p + 2 < first

Behind(p, first) == p + 1 < first

\* readLocked from position p, or from a token of another epoch: the events
\* from next on, and whether the reader has missed some.
From(f, first, p, known) ==
  IF ~ known
    THEN [next |-> f.seq + 1, truncated |-> TRUE]
  ELSE IF Behind(p, first)
    THEN [next |-> first, truncated |-> TRUE]
  ELSE [next |-> IF p < first THEN first ELSE p + 1, truncated |-> FALSE]

\* A stream is not woken (to test the checks).
PublishedQuietly(f, n) == [f EXCEPT !.seq = @ + 1, !.first = n]

Published(f, n) == [f EXCEPT !.seq = @ + 1, !.first = n, !.wake = @ + 1]

PublishEvent(f) ==
  /\ f <= feedCount /\ ~ feeds[f].dead /\ ~ shut /\ feeds[f].seq < MaxSeq
  /\ \E n \in Trims([feeds[f] EXCEPT !.seq = @ + 1]) : feeds' = [feeds EXCEPT ![f] = Published(@, n)]
  /\ UNCHANGED <<registered, feedCount, reader, shut>>

\* The first read of a poll or a stream: with the cursor of the client, or
\* without one from now on.
FirstRead(r, f, n, resume) ==
  IF resume THEN From(feeds[f], n, reader[r].got, reader[r].epoch = f)
            ELSE [next |-> feeds[f].seq + 1, truncated |-> FALSE]
CursorOf(r, resume) == IF resume THEN reader[r].epoch ELSE NoFeed

-----------------------------------------------------------------------------
(* Polls                                                                     *)

\* A poll returns a part of what it may return.
PollRead(r) ==
  LET f == reader[r].feed IN
  /\ reader[r].at = "attach" /\ ~ feeds[f].dead
  /\ \E n \in Trims(feeds[f]), resume \in BOOLEAN :
       LET read == FirstRead(r, f, n, resume) IN
       /\ feeds' = [feeds EXCEPT ![f].first = n, ![f].polled = TRUE]
       /\ \E p \in (read.next .. feeds[f].seq) \cup {feeds[f].seq} :
            reader' = [reader EXCEPT ![r].at = "polled", ![r].pos = p, ![r].next = read.next,
                         ![r].truncated = read.truncated, ![r].epoch = CursorOf(r, resume)]
  /\ UNCHANGED <<registered, feedCount, shut>>

\* Without an error the client takes over the returned cursor.
PollReturn(r) ==
  /\ reader[r].at = "polled"
  /\ \/ reader' = [reader EXCEPT ![r] = [NewReader EXCEPT !.epoch = reader[r].feed, !.got = reader[r].pos]]
     \/ ReaderGone(r)
  /\ UNCHANGED <<feeds, registered, feedCount, shut>>

-----------------------------------------------------------------------------
(* Streams                                                                   *)

\* The stream counts in refs from the lock that does its first read on.
Listen(r) ==
  LET f == reader[r].feed IN
  /\ reader[r].at = "attach" /\ ~ feeds[f].dead /\ ~ shut
  /\ \E n \in Trims(feeds[f]), resume \in BOOLEAN :
       LET read == FirstRead(r, f, n, resume) IN
       /\ feeds' = [feeds EXCEPT ![f].first = n]
       /\ reader' = [reader EXCEPT ![r].at = "active", ![r].first = TRUE, ![r].pos = feeds[f].seq,
                       ![r].next = read.next, ![r].truncated = read.truncated, ![r].epoch = CursorOf(r, resume)]
  /\ UNCHANGED <<registered, feedCount, shut>>

AttachLate(r) ==
  /\ reader[r].at = "attach" /\ (feeds[reader[r].feed].dead \/ shut)
  /\ ReaderGone(r)
  /\ UNCHANGED <<feeds, registered, feedCount, shut>>

\* "active" names the position before the first event of the batch.
SendActive(r) ==
  /\ reader[r].at \in {"active", "gap"}
  /\ reader' = [reader EXCEPT ![r].at = "send", ![r].epoch = reader[r].feed,
                             ![r].got = reader[r].next - 1, ![r].truncated = FALSE]
  /\ UNCHANGED <<feeds, registered, feedCount, shut>>

\* checkFeedEvent ends the stream of a feed that was detached.
SendEvent(r) ==
  /\ reader[r].at = "send" /\ reader[r].next <= reader[r].pos
  /\ reader' = IF feeds[reader[r].feed].dead \/ shut
                 THEN [reader EXCEPT ![r] = Leaving(r)]
                 ELSE [reader EXCEPT ![r].got = reader[r].next, ![r].next = @ + 1]
  /\ UNCHANGED <<feeds, registered, feedCount, shut>>

BatchSent(r) ==
  /\ reader[r].at = "send" /\ reader[r].next > reader[r].pos
  /\ reader' = [reader EXCEPT ![r].at = IF reader[r].first THEN "loop" ELSE "wait", ![r].first = FALSE]
  /\ UNCHANGED <<feeds, registered, feedCount, shut>>

\* The events and the channel to wait on are read under one lock.
StreamRead(r) ==
  LET f == reader[r].feed IN
  /\ reader[r].at = "loop"
  /\ \E n \in Trims(feeds[f]) :
       LET read == From(feeds[f], n, reader[r].pos, TRUE) IN
       /\ feeds' = [feeds EXCEPT ![f].first = n]
       /\ reader' =
            IF feeds[f].dead THEN [reader EXCEPT ![r] = Leaving(r)]
            ELSE [reader EXCEPT ![r].at = IF read.truncated THEN "gap" ELSE "send",
                    ![r].next = read.next, ![r].truncated = read.truncated,
                    ![r].pos = feeds[f].seq, ![r].wake = feeds[f].wake]
  /\ UNCHANGED <<registered, feedCount, shut>>

\* Another event, or the heartbeat.
Wake(r) ==
  /\ reader[r].at = "wait"
  /\ reader' = [reader EXCEPT ![r].at = "loop", ![r].wake = 0]
  /\ UNCHANGED <<feeds, registered, feedCount, shut>>

\* The client leaves, its check fails, or the manager closes: at any send.
StreamEnds(r) ==
  /\ reader[r].at \in Streaming \ {"leave"}
  /\ reader' = [reader EXCEPT ![r] = Leaving(r)]
  /\ UNCHANGED <<feeds, registered, feedCount, shut>>

\* The deferred function, with releaseFeedLocked: the last stream takes the feed
\* down unless somebody has polled it of late.
LeaveFeed(r) ==
  LET f == reader[r].feed IN
  /\ reader[r].at = "leave"
  /\ ReaderGone(r)
  /\ \/ /\ feeds[f].dead \/ Refs(f) # {r} \/ feeds[f].polled \/ registered # f
        /\ UNCHANGED <<feeds, registered>>
     \/ /\ ~ feeds[f].dead /\ Refs(f) = {r} /\ registered = f
        /\ feeds' = [feeds EXCEPT ![f] = TakeStop(Detached(@))]
        /\ registered' = NoFeed
  /\ UNCHANGED <<feedCount, shut>>

-----------------------------------------------------------------------------
(* The end of a feed                                                         *)

\* failFeed: the source reports that it is broken.
FailFeed(f) ==
  /\ ~ shut /\ registered = f /\ ~ feeds[f].dead
  /\ feeds' = [feeds EXCEPT ![f] = TakeStop(Detached(@))]
  /\ registered' = NoFeed
  /\ UNCHANGED <<feedCount, reader, shut>>

\* The sweeper takes feeds that nobody streams or has used for the time-to-live.
SweepFeed(f) ==
  /\ registered = f /\ Refs(f) = {}
  /\ feeds' = [feeds EXCEPT ![f] = OweStop(Detached(@))]
  /\ registered' = NoFeed
  /\ UNCHANGED <<feedCount, reader, shut>>

Close ==
  /\ ~ shut /\ shut' = TRUE
  /\ feeds' = [f \in Feeds |-> IF registered = f THEN OweStop([feeds[f] EXCEPT !.dead = TRUE]) ELSE feeds[f]]
  /\ registered' = NoFeed
  /\ UNCHANGED <<feedCount, reader>>

FeedNext ==
  \/ \E r \in Readers :
       \/ GetFeed(r) \/ SetupOk(r) \/ SetupFails(r) \/ FeedReady(r) \/ StopWaiting(r)
       \/ PollRead(r) \/ PollReturn(r)
       \/ Listen(r) \/ AttachLate(r) \/ SendActive(r) \/ SendEvent(r) \/ BatchSent(r)
       \/ StreamRead(r) \/ Wake(r) \/ StreamEnds(r) \/ LeaveFeed(r)
  \/ \E f \in Feeds :
       \/ PublishEvent(f)
       \/ f <= feedCount /\ (FailFeed(f) \/ SweepFeed(f))
  \/ Close

FeedSpec == FeedInit /\ [][FeedNext]_feedVars

-----------------------------------------------------------------------------
(* Properties                                                                *)

\* A client never misses an event without being told: the notification or the
\* answer that changes its position without an event says truncated, events
\* follow each other without a hole, and a stream that waits has sent all it
\* has read (readLocked, Stream).
NoSilentGap ==
  \A r \in Readers :
    LET c == reader[r] IN
    /\ c.at \in {"active", "polled"} /\ c.epoch = c.feed /\ ~ c.truncated => c.next = c.got + 1
    /\ c.at = "send" => c.next = c.got + 1 /\ c.epoch = c.feed
    /\ c.at = "gap" => c.truncated
    /\ c.at = "wait" => c.got = c.pos

\* A stream that waits on the channel of the feed has read all of its events, so
\* it does not sleep over one until the next heartbeat.
NoLostWake ==
  \A r \in Readers :
    LET f == feeds[reader[r].feed] IN
    reader[r].at = "wait" /\ reader[r].wake = f.wake => reader[r].pos = f.seq /\ (f.dead => shut)

\* Every source that was set up is stopped exactly once, whoever detached its
\* feed and whenever: never while it is registered, and never twice.
SourceStoppedOnce ==
  \A f \in Feeds :
    /\ feeds[f].stops <= 1
    /\ registered = f => feeds[f].stops = 0
    /\ feeds[f].started /\ registered # f => feeds[f].stops = 1
===============================================================================

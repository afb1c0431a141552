------------------------------ MODULE EventProofs ------------------------------
(***************************************************************************)
(* Machine-checked proofs about EventFeed, for any number of readers,      *)
(* feeds and events and any size of the ring, and about Catalog, for any   *)
(* number of connections, changes and failures.                            *)
(***************************************************************************)
EXTENDS EventFeed, Catalog, TLAPS

-----------------------------------------------------------------------------
(* The feeds of a key: what their safety properties need to be inductive.   *)

\* A feed that was made and has not ended is the registered one, its wake counter
\* tells its events apart, and its source is stopped by the one who ends it.
FeedFine(f) ==
  /\ f > feedCount => feeds[f] = NewFeed
  /\ f <= feedCount => (feeds[f].dead <=> registered # f)
  /\ feeds[f].started => feeds[f].ready
  /\ feeds[f].wake <= feeds[f].seq + 1 /\ (~ feeds[f].dead => feeds[f].wake <= feeds[f].seq)
  /\ feeds[f].first <= feeds[f].seq + 1
  /\ ~ feeds[f].started => ~ feeds[f].stop /\ feeds[f].stops = 0
  /\ feeds[f].started /\ ~ feeds[f].dead => feeds[f].stop /\ feeds[f].stops = 0
  /\ feeds[f].started /\ feeds[f].dead => feeds[f].stops = 1

\* Since the reader last read, nothing has happened to the feed, or its channel
\* has been closed.
Caught(x) ==
  /\ x.wake <= feeds[x.feed].wake
  /\ x.wake = feeds[x.feed].wake =>
       x.pos = feeds[x.feed].seq /\ (feeds[x.feed].dead => shut)

\* A reader that is past the set-up: its batch lies within the feed, and what it
\* has in hand follows the cursor of its client.
ReaderFine(x) ==
  /\ x.at # "idle" => x.feed \in Feeds /\ x.feed <= feedCount
  /\ x.epoch # NoFeed => x.epoch <= feedCount /\ x.got <= feeds[x.epoch].seq
  /\ x.at \in {"attach", "polled"} \cup Streaming => feeds[x.feed].ready
  /\ x.at \in {"polled", "active", "send", "loop", "gap", "wait"} => x.pos <= feeds[x.feed].seq
  /\ x.at \in {"active", "send", "gap"} => x.next <= x.pos + 1
  /\ x.at \in {"active", "polled"} /\ x.epoch = x.feed /\ ~ x.truncated => x.next = x.got + 1
  /\ x.at = "send" => x.next = x.got + 1
  /\ x.at = "gap" => x.truncated
  /\ x.at \in {"send", "loop", "gap", "wait"} => x.epoch = x.feed
  /\ x.at \in {"loop", "wait"} => x.got = x.pos
  /\ x.at \in {"loop", "gap", "wait"} => ~ x.first
  /\ x.at = "active" => x.first
  /\ x.at \in {"send", "gap", "wait"} /\ ~ x.first => Caught(x)

\* The source of a feed is set up by one reader.
SetupAlone ==
  \A r \in Readers : reader[r].at = "setup" =>
    /\ ~ feeds[reader[r].feed].ready
    /\ \A q \in Readers : reader[q].at = "setup" /\ reader[q].feed = reader[r].feed => q = r

FeedInv == /\ FeedTypeOK
           /\ registered <= feedCount /\ (shut => registered = NoFeed)
           /\ \A f \in Feeds : FeedFine(f)
           /\ \A r \in Readers : ReaderFine(reader[r])
           /\ SetupAlone

-----------------------------------------------------------------------------
(* Lemmas about the records of feeds and readers.                           *)

\* What no step undoes: events are appended, and whatever happens to a feed that
\* is set up closes its channel, unless the manager closes.
FeedKept(g, h) ==
  /\ g.seq <= h.seq /\ g.wake <= h.wake /\ (g.ready => h.ready)
  /\ h.wake = g.wake /\ g.ready => h.seq = g.seq /\ (h.dead => g.dead \/ shut')

\* Feed h is feed g with a shorter ring, polled or not.
Alike(g, h) ==
  /\ h \in FeedRecords /\ h.ready = g.ready /\ h.dead = g.dead /\ h.stop = g.stop
  /\ h.started = g.started /\ h.stops = g.stops /\ h.seq = g.seq /\ h.wake = g.wake
  /\ h.first <= h.seq + 1

\* Feed h is feed g after it was detached; the stop function is somebody's to call.
Ended(g, h) ==
  /\ h \in FeedRecords /\ h.ready = g.ready /\ h.dead = TRUE /\ h.started = g.started
  /\ h.seq = g.seq /\ h.first <= h.seq + 1
  /\ g.wake <= h.wake /\ h.wake <= g.wake + 1 /\ (h.wake = g.wake => shut')
  /\ (g.stop = FALSE => h.stop = FALSE)
  /\ h.stops = IF g.stop THEN g.stops + 1 ELSE g.stops

\* The ring of a feed may be trimmed at any read.
LEMMA Trimming ==
  ASSUME NEW g \in FeedRecords, NEW n \in Trims(g)
  PROVE  /\ Alike(g, [g EXCEPT !.first = n])
         /\ Alike(g, [g EXCEPT !.first = n, !.polled = TRUE])
         /\ n \in 1 .. MaxSeq + 1 /\ n <= g.seq + 1
<1>1. n \in Nat /\ g.first <= n /\ n <= g.seq + 1 /\ g.first \in Nat \ {0}
      /\ g.seq \in 0 .. MaxSeq
  BY FeedAssumption DEF Trims, FeedRecords
<1>2. n \in 1 .. MaxSeq + 1
  BY <1>1, FeedAssumption
<1>3. Alike(g, [g EXCEPT !.first = n])
  BY <1>1, <1>2 DEF Alike, FeedRecords
<1>4. Alike(g, [g EXCEPT !.first = n, !.polled = TRUE])
  BY <1>1, <1>2 DEF Alike, FeedRecords
<1> QED
  BY <1>1, <1>2, <1>3, <1>4

\* A reader that keeps its record keeps its place, whatever happens to feeds.
LEMMA ReaderKept ==
  ASSUME NEW x \in ReaderRecords, ReaderFine(x), FeedTypeOK,
         feeds' \in [Feeds -> FeedRecords], \A f \in Feeds : FeedKept(feeds[f], feeds'[f]),
         feedCount' \in 0 .. MaxFeeds, feedCount <= feedCount', shut => shut'
  PROVE  ReaderFine(x)'
<1>1. x.feed \in 0 .. MaxFeeds /\ x.epoch \in 0 .. MaxFeeds /\ x.got \in 0 .. MaxSeq
      /\ x.pos \in 0 .. MaxSeq /\ x.next \in 1 .. MaxSeq + 1 /\ x.wake \in 0 .. MaxSeq + 2
  BY DEF ReaderRecords
<1>2. feedCount \in 0 .. MaxFeeds /\ MaxFeeds \in Nat /\ MaxSeq \in Nat
  BY FeedAssumption DEF FeedTypeOK
<1>3. ASSUME NEW f \in Feeds
      PROVE  /\ feeds[f].seq \in Nat /\ feeds'[f].seq \in Nat /\ feeds[f].seq <= feeds'[f].seq
             /\ feeds[f].wake \in Nat /\ feeds'[f].wake \in Nat /\ feeds[f].wake <= feeds'[f].wake
             /\ feeds[f].ready => feeds'[f].ready
             /\ feeds'[f].wake = feeds[f].wake /\ feeds[f].ready =>
                  feeds'[f].seq = feeds[f].seq /\ (feeds'[f].dead => feeds[f].dead \/ shut')
  <2>1. feeds[f] \in FeedRecords /\ feeds'[f] \in FeedRecords
    BY DEF FeedTypeOK
  <2> QED
    BY <2>1, <1>2 DEF FeedKept, FeedRecords
<1>4. x.at # "idle" => x.feed \in Feeds /\ x.feed <= feedCount'
  BY <1>1, <1>2 DEF ReaderFine
<1>5. x.epoch # NoFeed => x.epoch <= feedCount' /\ x.got <= feeds'[x.epoch].seq
  <2> SUFFICES ASSUME x.epoch # NoFeed PROVE x.epoch <= feedCount' /\ x.got <= feeds'[x.epoch].seq
    OBVIOUS
  <2>1. x.epoch \in Feeds
    BY <1>1, <1>2 DEF Feeds, NoFeed
  <2>2. x.epoch <= feedCount /\ x.got <= feeds[x.epoch].seq
    BY DEF ReaderFine
  <2> QED
    BY <1>1, <1>2, <1>3, <2>1, <2>2
<1>6. x.at \in {"attach", "polled"} \cup Streaming => feeds'[x.feed].ready
  BY <1>3 DEF ReaderFine, Streaming
<1>7. x.at \in {"polled", "active", "send", "loop", "gap", "wait"} => x.pos <= feeds'[x.feed].seq
  <2> SUFFICES ASSUME x.at \in {"polled", "active", "send", "loop", "gap", "wait"}
               PROVE  x.pos <= feeds'[x.feed].seq
    OBVIOUS
  <2>1. x.feed \in Feeds /\ x.pos <= feeds[x.feed].seq
    BY DEF ReaderFine
  <2> QED
    BY <1>1, <1>3, <2>1
<1>8. x.at \in {"send", "gap", "wait"} /\ ~ x.first => Caught(x)'
  <2> SUFFICES ASSUME x.at \in {"send", "gap", "wait"}, ~ x.first PROVE Caught(x)'
    OBVIOUS
  <2>1. x.feed \in Feeds /\ feeds[x.feed].ready /\ Caught(x)
    BY DEF ReaderFine, Streaming
  <2> DEFINE w == feeds[x.feed].wake
             v == feeds'[x.feed].wake
  <2>2. x.wake <= w /\ (x.wake = w => x.pos = feeds[x.feed].seq /\ (feeds[x.feed].dead => shut))
    BY <2>1 DEF Caught
  <2>3. w \in Nat /\ v \in Nat /\ w <= v
        /\ (v = w => feeds'[x.feed].seq = feeds[x.feed].seq
                       /\ (feeds'[x.feed].dead => feeds[x.feed].dead \/ shut'))
    BY <1>3, <2>1
  <2> HIDE DEF w, v
  <2>4. x.wake <= v /\ (x.wake = v => x.wake = w /\ v = w)
    BY <1>1, <2>2, <2>3
  <2>5. x.wake <= v /\ (x.wake = v => x.pos = feeds'[x.feed].seq /\ (feeds'[x.feed].dead => shut'))
    BY <2>2, <2>3, <2>4
  <2> QED
    BY <2>5 DEF Caught, v
<1>9. /\ x.at \in {"active", "send", "gap"} => x.next <= x.pos + 1
      /\ x.at \in {"active", "polled"} /\ x.epoch = x.feed /\ ~ x.truncated => x.next = x.got + 1
      /\ x.at = "send" => x.next = x.got + 1
      /\ x.at = "gap" => x.truncated
      /\ x.at \in {"send", "loop", "gap", "wait"} => x.epoch = x.feed
      /\ x.at \in {"loop", "wait"} => x.got = x.pos
      /\ x.at \in {"loop", "gap", "wait"} => ~ x.first
      /\ x.at = "active" => x.first
  BY DEF ReaderFine
<1> QED
  BY <1>4, <1>5, <1>6, <1>7, <1>8, <1>9 DEF ReaderFine

\* Who leaves keeps the cursor of its client.
LEMMA GoneFine ==
  ASSUME FeedInv, NEW r \in Readers
  PROVE  /\ Gone(r) \in ReaderRecords /\ ReaderFine(Gone(r)) /\ Gone(r).at = "idle"
         /\ reader[r].at \in Streaming =>
              Leaving(r) \in ReaderRecords /\ ReaderFine(Leaving(r)) /\ Leaving(r).at = "leave"
<1> DEFINE x == reader[r]
<1>1. x \in ReaderRecords /\ ReaderFine(x)
  BY DEF FeedInv, FeedTypeOK
<1>2. /\ x.epoch \in 0 .. MaxFeeds /\ x.got \in 0 .. MaxSeq /\ x.feed \in 0 .. MaxFeeds
      /\ MaxSeq \in Nat /\ MaxFeeds \in Nat
  BY <1>1, FeedAssumption DEF ReaderRecords
<1>3. /\ Gone(r) \in ReaderRecords /\ Gone(r).at = "idle"
      /\ Gone(r).epoch = x.epoch /\ Gone(r).got = x.got
  <2>1. NewReader \in ReaderRecords /\ NewReader.at = "idle"
    <3>1. 0 \in 0 .. MaxFeeds /\ 0 \in 0 .. MaxSeq /\ 1 \in 1 .. MaxSeq + 1 /\ 0 \in 0 .. MaxSeq + 2
      BY <1>2
    <3> QED
      BY <3>1 DEF NewReader, ReaderRecords, NoFeed
  <2> QED
    BY <1>2, <2>1 DEF Gone, ReaderRecords
<1>4. /\ Leaving(r) \in ReaderRecords /\ Leaving(r).at = "leave" /\ Leaving(r).feed = x.feed
      /\ Leaving(r).epoch = x.epoch /\ Leaving(r).got = x.got
  BY <1>2, <1>3 DEF Leaving, ReaderRecords, Streaming
<1>5. ReaderFine(Gone(r))
  BY <1>1, <1>3 DEF ReaderFine, Streaming
<1>6. x.at \in Streaming => ReaderFine(Leaving(r))
  BY <1>1, <1>4 DEF ReaderFine, Streaming
<1> QED
  BY <1>3, <1>4, <1>5, <1>6

-----------------------------------------------------------------------------
(* What a step has to show: the invariant for what it changes.              *)

\* A step that changes one reader only.
LEMMA OneReader ==
  ASSUME FeedInv, NEW r \in Readers, NEW y \in ReaderRecords, y.at # "setup", ReaderFine(y),
         reader' = [reader EXCEPT ![r] = y], UNCHANGED <<feeds, registered, feedCount, shut>>
  PROVE  FeedInv'
<1>1. reader \in [Readers -> ReaderRecords]
  BY DEF FeedInv, FeedTypeOK
<1>2. /\ reader' \in [Readers -> ReaderRecords] /\ reader'[r] = y
      /\ \A q \in Readers : reader'[q] = reader[q] \/ reader'[q] = y
  BY <1>1
<1>3. FeedTypeOK'
  BY <1>2 DEF FeedInv, FeedTypeOK
<1>4. \A f \in Feeds : FeedFine(f)'
  BY DEF FeedInv, FeedFine
<1>5. ASSUME NEW x PROVE ReaderFine(x)' <=> ReaderFine(x)
  BY DEF ReaderFine, Caught
<1>6. \A q \in Readers : ReaderFine(reader'[q])
  BY <1>2 DEF FeedInv
<1>7. \A q \in Readers : ReaderFine(reader[q])'
  BY <1>5, <1>6
<1>8. SetupAlone'
  BY <1>2 DEF FeedInv, SetupAlone
<1> QED
  BY <1>3, <1>4, <1>7, <1>8 DEF FeedInv

\* A step that changes feeds, and perhaps who sets up which.
LEMMA FeedsMove ==
  ASSUME FeedInv, feeds' \in [Feeds -> FeedRecords], shut' \in BOOLEAN, shut => shut',
         feedCount' \in 0 .. MaxFeeds, feedCount <= feedCount',
         registered' \in 0 .. MaxFeeds, registered' <= feedCount', shut' => registered' = NoFeed,
         \A f \in Feeds : FeedFine(f)' /\ FeedKept(feeds[f], feeds'[f]),
         reader' \in [Readers -> ReaderRecords],
         \A q \in Readers : reader'[q] = reader[q] \/ ReaderFine(reader[q])',
         SetupAlone'
  PROVE  FeedInv'
<1>1. FeedTypeOK'
  BY DEF FeedInv, FeedTypeOK
<1>2. ASSUME NEW q \in Readers PROVE ReaderFine(reader[q])'
  <2>1. reader[q] \in ReaderRecords /\ ReaderFine(reader[q]) /\ FeedTypeOK
    BY DEF FeedInv, FeedTypeOK
  <2>2. PICK x \in ReaderRecords : x = reader[q]
    BY <2>1
  <2>3. ReaderFine(x)
    BY <2>1, <2>2
  <2>4. ReaderFine(x)'
    BY <2>1, <2>3, ReaderKept
  <2>5. CASE reader'[q] = reader[q]
    <3>1. reader'[q] = x
      BY <2>2, <2>5
    <3> QED
      BY <2>4, <3>1
  <2> QED
    BY <2>5
<1> QED
  BY <1>1, <1>2 DEF FeedInv

\* Who sets up which feed does not change when nobody starts, and feeds become
\* ready by the one who leaves.
LEMMA StillAlone ==
  ASSUME FeedInv, NEW r \in Readers, NEW y \in ReaderRecords, y.at # "setup",
         reader' = [reader EXCEPT ![r] = y],
         \A f \in Feeds : feeds'[f].ready => feeds[f].ready \/ (reader[r].at = "setup" /\ reader[r].feed = f)
  PROVE  SetupAlone'
<1> SUFFICES ASSUME NEW q \in Readers, reader'[q].at = "setup"
             PROVE  /\ ~ feeds'[reader'[q].feed].ready
                    /\ \A p \in Readers : reader'[p].at = "setup" /\ reader'[p].feed = reader'[q].feed => p = q
  BY DEF SetupAlone
<1>1. reader \in [Readers -> ReaderRecords]
  BY DEF FeedInv, FeedTypeOK
<1>2. q # r /\ reader'[q] = reader[q]
  BY <1>1
<1>3. \A p \in Readers : reader'[p].at = "setup" => reader'[p] = reader[p]
  BY <1>1
<1>4. ~ feeds[reader[q].feed].ready
      /\ \A p \in Readers : reader[p].at = "setup" /\ reader[p].feed = reader[q].feed => p = q
  BY <1>2 DEF FeedInv, SetupAlone
<1>5. reader[q].feed \in Feeds
  BY <1>2 DEF FeedInv, ReaderFine
<1> QED
  BY <1>2, <1>3, <1>4, <1>5

\* Feeds that are alike can stand for each other.
LEMMA AlikeFine ==
  ASSUME FeedInv, NEW f \in Feeds, NEW g, Alike(feeds[f], g),
         feeds' = [feeds EXCEPT ![f] = g], UNCHANGED <<registered, feedCount, shut>>, f <= feedCount
  PROVE  /\ feeds' \in [Feeds -> FeedRecords]
         /\ \A h \in Feeds : FeedFine(h)' /\ FeedKept(feeds[h], feeds'[h])
         /\ \A h \in Feeds : feeds'[h].ready => feeds[h].ready
<1>1. feeds \in [Feeds -> FeedRecords] /\ g \in FeedRecords /\ registered \in 0 .. MaxFeeds
      /\ feedCount \in 0 .. MaxFeeds
  BY DEF FeedInv, FeedTypeOK, Alike
<1>2. /\ feeds' \in [Feeds -> FeedRecords] /\ feeds'[f] = g
      /\ \A h \in Feeds \ {f} : feeds'[h] = feeds[h]
  BY <1>1
<1>3. \A h \in FeedRecords : h.seq \in Nat /\ h.wake \in Nat
  BY FeedAssumption DEF FeedRecords
<1>4. f <= feedCount /\ ~ (f > feedCount)
  BY <1>1, FeedAssumption DEF Feeds
<1>5. FeedFine(f)'
  BY <1>1, <1>2, <1>4 DEF FeedInv, FeedFine, Alike
<1>6. FeedKept(feeds[f], g)
  BY <1>1, <1>3 DEF FeedKept, Alike
<1>7. ASSUME NEW h \in Feeds \ {f} PROVE FeedFine(h)' /\ FeedKept(feeds[h], feeds'[h])
  <2>1. feeds[h] \in FeedRecords
    BY <1>1
  <2> QED
    BY <1>2, <1>3, <2>1 DEF FeedInv, FeedFine, FeedKept
<1>8. g.ready = feeds[f].ready
  BY DEF Alike
<1> QED
  BY <1>2, <1>5, <1>6, <1>7, <1>8

\* A step that reads: it trims the ring of the feed and moves one reader.
LEMMA ReadStep ==
  ASSUME FeedInv, NEW r \in Readers, NEW f \in Feeds, f <= feedCount, NEW g, Alike(feeds[f], g),
         feeds' = [feeds EXCEPT ![f] = g], UNCHANGED <<registered, feedCount, shut>>,
         NEW y \in ReaderRecords, y.at # "setup", ReaderFine(y), reader' = [reader EXCEPT ![r] = y]
  PROVE  FeedInv'
<1>1. /\ feeds' \in [Feeds -> FeedRecords]
      /\ \A h \in Feeds : FeedFine(h)' /\ FeedKept(feeds[h], feeds'[h])
      /\ \A h \in Feeds : feeds'[h].ready => feeds[h].ready
  BY AlikeFine
<1>2. SetupAlone'
  BY <1>1, StillAlone
<1>3. FeedTypeOK /\ registered <= feedCount /\ (shut => registered = NoFeed)
  BY DEF FeedInv
<1>4. feedCount' \in 0 .. MaxFeeds /\ feedCount <= feedCount'
  BY <1>3, FeedAssumption DEF FeedTypeOK
<1>5. ReaderFine(y)'
  BY <1>1, <1>3, <1>4, ReaderKept
<1>6. reader' \in [Readers -> ReaderRecords] /\ \A q \in Readers : reader'[q] = reader[q] \/ reader'[q] = y
  BY <1>3 DEF FeedTypeOK
<1>7. \A q \in Readers : reader'[q] = reader[q] \/ ReaderFine(reader[q])'
  BY <1>5, <1>6
<1> QED
  BY <1>1, <1>2, <1>3, <1>4, <1>6, <1>7, FeedsMove DEF FeedTypeOK

\* The registered feed ends.
LEMMA FeedEnds ==
  ASSUME FeedInv, NEW f \in Feeds, registered = f, NEW g, Ended(feeds[f], g),
         feeds' = [feeds EXCEPT ![f] = g], registered' = NoFeed, UNCHANGED feedCount,
         shut' \in BOOLEAN, shut => shut'
  PROVE  /\ feeds' \in [Feeds -> FeedRecords] /\ f <= feedCount
         /\ \A h \in Feeds : FeedFine(h)' /\ FeedKept(feeds[h], feeds'[h])
         /\ \A h \in Feeds : feeds'[h].ready => feeds[h].ready
<1>1. feeds \in [Feeds -> FeedRecords] /\ g \in FeedRecords /\ feedCount \in 0 .. MaxFeeds
      /\ FeedFine(f) /\ registered <= feedCount /\ feeds[f] \in FeedRecords
  BY DEF FeedInv, FeedTypeOK, Ended
<1>2. /\ feeds' \in [Feeds -> FeedRecords] /\ feeds'[f] = g
      /\ \A h \in Feeds \ {f} : feeds'[h] = feeds[h]
  BY <1>1
<1>3. \A h \in FeedRecords : h.seq \in Nat /\ h.wake \in Nat /\ h.stop \in BOOLEAN /\ h.ready \in BOOLEAN
  BY FeedAssumption DEF FeedRecords
<1>4. f <= feedCount /\ ~ (f > feedCount) /\ f # NoFeed /\ \A h \in Feeds : h # NoFeed
  BY <1>1, FeedAssumption DEF Feeds, NoFeed
<1>5. /\ g.ready = feeds[f].ready /\ g.dead = TRUE /\ g.started = feeds[f].started
      /\ g.seq = feeds[f].seq /\ g.first <= g.seq + 1 /\ feeds[f].wake <= g.wake
      /\ g.wake <= feeds[f].wake + 1 /\ (g.wake = feeds[f].wake => shut')
      /\ (feeds[f].stop = FALSE => g.stop = FALSE)
      /\ g.stops = IF feeds[f].stop THEN feeds[f].stops + 1 ELSE feeds[f].stops
  BY DEF Ended
<1>6. ~ feeds[f].dead /\ feeds[f].wake <= feeds[f].seq
  BY <1>1, <1>4 DEF FeedFine
<1>7. /\ g.started => g.ready
      /\ ~ g.started => g.stop = FALSE /\ g.stops = 0
      /\ g.started => g.stops = 1
  BY <1>1, <1>3, <1>5, <1>6 DEF FeedFine
<1>8. g.wake <= g.seq + 1
  BY <1>1, <1>3, <1>5, <1>6
<1>9. FeedFine(f)'
  BY <1>2, <1>4, <1>5, <1>7, <1>8 DEF FeedFine
<1>10. FeedKept(feeds[f], g)
  BY <1>1, <1>3, <1>5 DEF FeedKept
<1>11. ASSUME NEW h \in Feeds \ {f} PROVE FeedFine(h)' /\ FeedKept(feeds[h], feeds'[h])
  <2>1. feeds[h] \in FeedRecords /\ h # NoFeed /\ h # registered
    BY <1>1, <1>4
  <2> QED
    BY <1>2, <1>3, <2>1 DEF FeedInv, FeedFine, FeedKept
<1> QED
  BY <1>2, <1>4, <1>5, <1>9, <1>10, <1>11

-----------------------------------------------------------------------------
(* Readers, one action after the other.                                     *)

\* What a reader has in hand, for the steps below.
LEMMA Held ==
  ASSUME FeedInv, NEW r \in Readers
  PROVE  /\ reader[r] \in ReaderRecords /\ ReaderFine(reader[r])
         /\ reader[r].feed \in Nat /\ reader[r].epoch \in Nat /\ reader[r].got \in 0 .. MaxSeq
         /\ reader[r].next \in 1 .. MaxSeq + 1 /\ reader[r].pos \in 0 .. MaxSeq
         /\ reader[r].wake \in Nat /\ MaxSeq \in Nat /\ feedCount \in Nat
         /\ reader[r].truncated \in BOOLEAN /\ reader[r].first \in BOOLEAN
         /\ reader[r].at # "idle" => /\ reader[r].feed \in Feeds /\ reader[r].feed <= feedCount
                                     /\ feeds[reader[r].feed] \in FeedRecords
<1>1. reader[r] \in ReaderRecords /\ ReaderFine(reader[r]) /\ FeedTypeOK
  BY DEF FeedInv, FeedTypeOK
<1>2. MaxSeq \in Nat /\ MaxFeeds \in Nat
  BY FeedAssumption
<1>3. /\ reader[r].feed \in Nat /\ reader[r].epoch \in Nat /\ reader[r].got \in 0 .. MaxSeq
      /\ reader[r].next \in 1 .. MaxSeq + 1 /\ reader[r].pos \in 0 .. MaxSeq
      /\ reader[r].wake \in Nat
      /\ reader[r].truncated \in BOOLEAN /\ reader[r].first \in BOOLEAN
  BY <1>1, <1>2 DEF ReaderRecords
<1>4. reader[r].at # "idle" => reader[r].feed \in Feeds /\ reader[r].feed <= feedCount
  BY <1>1 DEF ReaderFine
<1>5. feedCount \in Nat
  BY <1>1, <1>2 DEF FeedTypeOK
<1> QED
  BY <1>1, <1>2, <1>3, <1>4, <1>5 DEF FeedTypeOK

\* A reader leaves without its feed.
LEMMA ReaderLeaves ==
  ASSUME FeedInv, NEW r \in Readers, UNCHANGED <<feeds, registered, feedCount, shut>>,
         \/ ReaderGone(r)
         \/ reader[r].at \in Streaming /\ reader' = [reader EXCEPT ![r] = Leaving(r)]
  PROVE  FeedInv'
<1>1. CASE ReaderGone(r)
  BY <1>1, GoneFine, OneReader DEF ReaderGone
<1>2. CASE reader[r].at \in Streaming /\ reader' = [reader EXCEPT ![r] = Leaving(r)]
  BY <1>2, GoneFine, OneReader
<1> QED
  BY <1>1, <1>2

\* A reader of a feed that is set up attaches to it.
LEMMA ReaderAttaches ==
  ASSUME FeedInv, NEW r \in Readers, FeedReady(r)
  PROVE  FeedInv'
<1>1. CASE feeds[reader[r].feed].dead
  BY <1>1, ReaderLeaves DEF FeedReady
<1>2. CASE ~ feeds[reader[r].feed].dead
  <2> DEFINE y == [reader[r] EXCEPT !.at = "attach"]
  <2>1. /\ reader' = [reader EXCEPT ![r] = y] /\ reader[r].at = "ready"
        /\ feeds[reader[r].feed].ready /\ UNCHANGED <<feeds, registered, feedCount, shut>>
    BY <1>2 DEF FeedReady, ReaderAt
  <2>2. /\ y \in ReaderRecords /\ y.at = "attach" /\ y.feed = reader[r].feed
        /\ y.epoch = reader[r].epoch /\ y.got = reader[r].got
    BY Held DEF ReaderRecords
  <2> HIDE DEF y
  <2>3. ReaderFine(y)
    BY <2>1, <2>2, Held DEF ReaderFine, Streaming
  <2> QED
    BY <2>1, <2>2, <2>3, OneReader
<1> QED
  BY <1>1, <1>2

\* The client of a poll takes over the cursor, or has lost the answer.
LEMMA PollReturns ==
  ASSUME FeedInv, NEW r \in Readers, PollReturn(r)
  PROVE  FeedInv'
<1>1. CASE ReaderGone(r)
  BY <1>1, ReaderLeaves DEF PollReturn
<1>2. CASE reader' = [reader EXCEPT ![r] = [NewReader EXCEPT !.epoch = reader[r].feed, !.got = reader[r].pos]]
  <2> DEFINE y == [NewReader EXCEPT !.epoch = reader[r].feed, !.got = reader[r].pos]
  <2>1. /\ reader' = [reader EXCEPT ![r] = y] /\ reader[r].at = "polled"
        /\ UNCHANGED <<feeds, registered, feedCount, shut>>
    BY <1>2 DEF PollReturn
  <2>2. reader[r].feed \in 0 .. MaxFeeds
    BY Held DEF ReaderRecords
  <2>3. 0 \in 0 .. MaxFeeds /\ 0 \in 0 .. MaxSeq /\ 1 \in 1 .. MaxSeq + 1 /\ 0 \in 0 .. MaxSeq + 2
    BY FeedAssumption
  <2>4. /\ y \in ReaderRecords /\ y.at = "idle" /\ y.epoch = reader[r].feed /\ y.got = reader[r].pos
    BY <2>2, <2>3, Held DEF NewReader, ReaderRecords, NoFeed
  <2> HIDE DEF y
  <2>5. ReaderFine(y)
    BY <2>1, <2>4, Held DEF ReaderFine, Streaming
  <2> QED
    BY <2>1, <2>4, <2>5, OneReader
<1> QED
  BY <1>1, <1>2 DEF PollReturn

\* A stream tells its client where it starts, and whether events are missing.
LEMMA StreamStarts ==
  ASSUME FeedInv, NEW r \in Readers, SendActive(r)
  PROVE  FeedInv'
<1> DEFINE x == reader[r]
           y == [reader[r] EXCEPT !.at = "send", !.epoch = reader[r].feed, !.got = reader[r].next - 1,
                                  !.truncated = FALSE]
<1>1. /\ reader' = [reader EXCEPT ![r] = y] /\ x.at \in {"active", "gap"}
      /\ UNCHANGED <<feeds, registered, feedCount, shut>>
  BY DEF SendActive
<1>2. x.feed \in 0 .. MaxFeeds /\ x.next - 1 \in 0 .. MaxSeq
  BY Held DEF ReaderRecords
<1>3. /\ y \in ReaderRecords /\ y.at = "send" /\ y.feed = x.feed /\ y.epoch = x.feed
      /\ y.got = x.next - 1 /\ y.next = x.next /\ y.pos = x.pos /\ y.wake = x.wake
      /\ y.first = x.first
  BY <1>2, Held DEF ReaderRecords, Streaming
<1>4. /\ x.feed <= feedCount /\ x.pos <= feeds[x.feed].seq /\ x.next <= x.pos + 1
      /\ feeds[x.feed].ready /\ (x.first = TRUE \/ Caught(x)) /\ feeds[x.feed].seq \in Nat
      /\ x.feed \in Feeds
  BY <1>1, Held DEF ReaderFine, Streaming, FeedRecords
<1>5. x.next = x.next - 1 + 1 /\ x.next - 1 <= feeds[x.feed].seq
  BY <1>4, Held
<1> HIDE DEF y
<1>6. y.first = TRUE \/ Caught(y)
  BY <1>3, <1>4 DEF Caught
<1>7. ReaderFine(y)
  BY <1>3, <1>4, <1>5, <1>6, Held DEF ReaderFine, Streaming
<1> QED
  BY <1>1, <1>3, <1>7, OneReader

\* The events of the batch go out one by one; a stream of an ended feed ends.
LEMMA StreamSends ==
  ASSUME FeedInv, NEW r \in Readers, SendEvent(r)
  PROVE  FeedInv'
<1> DEFINE x == reader[r]
           y == [reader[r] EXCEPT !.got = reader[r].next, !.next = reader[r].next + 1]
<1>1. CASE feeds[reader[r].feed].dead \/ shut
  BY <1>1, ReaderLeaves DEF SendEvent, Streaming
<1>2. CASE ~ (feeds[reader[r].feed].dead \/ shut)
  <2>1. /\ reader' = [reader EXCEPT ![r] = y] /\ x.at = "send" /\ x.next <= x.pos
        /\ UNCHANGED <<feeds, registered, feedCount, shut>>
    BY <1>2 DEF SendEvent
  <2>2. x.next \in 0 .. MaxSeq /\ x.next + 1 \in 1 .. MaxSeq + 1 /\ x.next + 1 <= x.pos + 1
    BY <2>1, Held
  <2>3. /\ y \in ReaderRecords /\ y.at = "send" /\ y.feed = x.feed /\ y.epoch = x.epoch
        /\ y.got = x.next /\ y.next = x.next + 1 /\ y.pos = x.pos /\ y.wake = x.wake
        /\ y.first = x.first
    BY <2>1, <2>2, Held DEF ReaderRecords
  <2>4. /\ x.feed <= feedCount /\ x.pos <= feeds[x.feed].seq /\ x.epoch = x.feed
        /\ feeds[x.feed].ready /\ (x.first = TRUE \/ Caught(x)) /\ feeds[x.feed].seq \in Nat
        /\ x.feed \in Feeds
    BY <2>1, Held DEF ReaderFine, Streaming, FeedRecords
  <2>5. x.next <= feeds[x.feed].seq
    BY <2>1, <2>4, Held
  <2> HIDE DEF y
  <2>6. y.first = TRUE \/ Caught(y)
    BY <2>3, <2>4 DEF Caught
  <2>7. ReaderFine(y)
    BY <2>2, <2>3, <2>4, <2>5, <2>6, Held DEF ReaderFine, Streaming
  <2> QED
    BY <2>1, <2>3, <2>7, OneReader
<1> QED
  BY <1>1, <1>2

\* After its batch a stream looks again, the first time, or waits.
LEMMA StreamWaits ==
  ASSUME FeedInv, NEW r \in Readers, BatchSent(r)
  PROVE  FeedInv'
<1> DEFINE x == reader[r]
           y == [reader[r] EXCEPT !.at = IF reader[r].first THEN "loop" ELSE "wait", !.first = FALSE]
<1>1. /\ reader' = [reader EXCEPT ![r] = y] /\ x.at = "send" /\ x.next > x.pos
      /\ UNCHANGED <<feeds, registered, feedCount, shut>>
  BY DEF BatchSent
<1>2. /\ y \in ReaderRecords /\ y.at = (IF x.first THEN "loop" ELSE "wait") /\ y.feed = x.feed
      /\ y.epoch = x.epoch /\ y.got = x.got /\ y.next = x.next /\ y.pos = x.pos
      /\ y.wake = x.wake /\ y.first = FALSE
  BY <1>1, Held DEF ReaderRecords, Streaming
<1>3. /\ x.feed <= feedCount /\ x.pos <= feeds[x.feed].seq /\ x.epoch = x.feed
      /\ feeds[x.feed].ready /\ (x.first = TRUE \/ Caught(x)) /\ x.feed \in Feeds
      /\ x.next = x.got + 1 /\ x.next <= x.pos + 1 /\ x.got <= feeds[x.epoch].seq
  BY <1>1, Held DEF ReaderFine, Streaming, Feeds, NoFeed
<1>4. x.got = x.pos
  BY <1>1, <1>3, Held
<1> HIDE DEF y
<1>5. y.at = "loop" \/ (y.at = "wait" /\ Caught(y))
  BY <1>2, <1>3 DEF Caught
<1>6. ReaderFine(y)
  BY <1>2, <1>3, <1>4, <1>5, Held DEF ReaderFine, Streaming
<1> QED
  BY <1>1, <1>2, <1>6, OneReader

\* A waiting stream looks again.
LEMMA StreamWakes ==
  ASSUME FeedInv, NEW r \in Readers, Wake(r)
  PROVE  FeedInv'
<1> DEFINE x == reader[r]
           y == [reader[r] EXCEPT !.at = "loop", !.wake = 0]
<1>1. /\ reader' = [reader EXCEPT ![r] = y] /\ x.at = "wait"
      /\ UNCHANGED <<feeds, registered, feedCount, shut>>
  BY DEF Wake
<1>2. /\ y \in ReaderRecords /\ y.at = "loop" /\ y.feed = x.feed
      /\ y.epoch = x.epoch /\ y.got = x.got /\ y.next = x.next /\ y.pos = x.pos
      /\ y.first = x.first
  <2>1. 0 \in 0 .. MaxSeq + 2
    BY FeedAssumption
  <2> QED
    BY <1>1, <2>1, Held DEF ReaderRecords, Streaming
<1> HIDE DEF y
<1>3. ReaderFine(y)
  BY <1>1, <1>2, Held DEF ReaderFine, Streaming
<1> QED
  BY <1>1, <1>2, <1>3, OneReader

\* What a read returns: without "truncated" it follows the position it was asked for.
LEMMA ReadFrom ==
  ASSUME NEW g \in FeedRecords, NEW n \in 1 .. g.seq + 1, NEW p \in Nat, NEW known \in BOOLEAN,
         known => p <= g.seq
  PROVE  LET read == From(g, n, p, known) IN
         /\ read.next \in 1 .. g.seq + 1 /\ read.truncated \in BOOLEAN
         /\ ~ read.truncated => known /\ read.next = p + 1
<1>1. g.seq \in Nat
  BY FeedAssumption DEF FeedRecords
<1>2. CASE ~ known
  BY <1>1, <1>2 DEF From
<1>3. CASE known /\ Behind(p, n)
  BY <1>1, <1>3 DEF From
<1>4. CASE known /\ ~ Behind(p, n)
  <2>1. n <= p + 1
    BY <1>1, <1>4 DEF Behind
  <2>2. (p < n => n = p + 1) /\ p + 1 \in 1 .. g.seq + 1
    BY <1>1, <1>4, <2>1
  <2> QED
    BY <1>1, <1>4, <2>2 DEF From
<1> QED
  BY <1>2, <1>3, <1>4

\* The first read of a poll or a stream, with or without the cursor of the client.
LEMMA ReadFirst ==
  ASSUME FeedInv, NEW r \in Readers, reader[r].at = "attach",
         NEW n \in Trims(feeds[reader[r].feed]), NEW resume \in BOOLEAN
  PROVE  LET read == FirstRead(r, reader[r].feed, n, resume) IN
         /\ read.next \in 1 .. feeds[reader[r].feed].seq + 1 /\ read.truncated \in BOOLEAN
         /\ CursorOf(r, resume) \in 0 .. MaxFeeds /\ CursorOf(r, resume) \in {reader[r].epoch, NoFeed}
         /\ CursorOf(r, resume) = reader[r].feed /\ ~ read.truncated => read.next = reader[r].got + 1
<1> DEFINE f == reader[r].feed
<1>1. /\ feeds[f] \in FeedRecords /\ f \in Feeds /\ f # NoFeed /\ feeds[f].seq \in Nat
      /\ reader[r].epoch \in 0 .. MaxFeeds /\ 0 \in 0 .. MaxFeeds /\ reader[r].got \in Nat
  BY Held, FeedAssumption DEF Feeds, NoFeed, FeedRecords, ReaderRecords
<1>2. n \in 1 .. feeds[f].seq + 1
  <2>1. n \in 1 .. MaxSeq + 1 /\ n <= feeds[f].seq + 1
    BY <1>1, Trimming
  <2> QED
    BY <1>1, <2>1, FeedAssumption
<1>3. CASE resume
  <2> DEFINE known == reader[r].epoch = f
  <2>1. known \in BOOLEAN /\ (known => reader[r].got <= feeds[f].seq)
    BY <1>1, Held DEF ReaderFine
  <2>2. LET read == From(feeds[f], n, reader[r].got, known) IN
        /\ read.next \in 1 .. feeds[f].seq + 1 /\ read.truncated \in BOOLEAN
        /\ ~ read.truncated => known /\ read.next = reader[r].got + 1
    <3> HIDE DEF known
    <3> QED
      BY <1>1, <1>2, <2>1, ReadFrom
  <2> QED
    BY <1>1, <1>3, <2>2 DEF FirstRead, CursorOf, NoFeed
<1>4. CASE ~ resume
  BY <1>1, <1>4 DEF FirstRead, CursorOf, NoFeed
<1> QED
  BY <1>3, <1>4

\* A poll reads: it may return a part of what there is.
LEMMA PollReads ==
  ASSUME FeedInv, NEW r \in Readers, PollRead(r)
  PROVE  FeedInv'
<1> DEFINE x == reader[r]
           f == reader[r].feed
<1>1. x.at = "attach" /\ UNCHANGED <<registered, feedCount, shut>>
  BY DEF PollRead
<1>2. PICK n \in Trims(feeds[f]), resume \in BOOLEAN :
        LET read == FirstRead(r, f, n, resume) IN
        /\ feeds' = [feeds EXCEPT ![f].first = n, ![f].polled = TRUE]
        /\ \E p \in (read.next .. feeds[f].seq) \cup {feeds[f].seq} :
             reader' = [reader EXCEPT ![r].at = "polled", ![r].pos = p, ![r].next = read.next,
                         ![r].truncated = read.truncated, ![r].epoch = CursorOf(r, resume)]
  BY DEF PollRead
<1> DEFINE read == FirstRead(r, f, n, resume)
           g == [feeds[f] EXCEPT !.first = n, !.polled = TRUE]
<1>3. /\ f \in Feeds /\ f <= feedCount /\ feeds[f] \in FeedRecords /\ feeds[f].ready
      /\ feeds \in [Feeds -> FeedRecords] /\ reader \in [Readers -> ReaderRecords]
  BY <1>1, Held DEF ReaderFine, FeedInv, FeedTypeOK
<1>4. Alike(feeds[f], g)
  BY <1>3, Trimming
<1>5. feeds' = [feeds EXCEPT ![f] = g]
  BY <1>2, <1>3
<1>6. /\ read.next \in 1 .. feeds[f].seq + 1 /\ read.truncated \in BOOLEAN
      /\ CursorOf(r, resume) \in 0 .. MaxFeeds /\ CursorOf(r, resume) \in {x.epoch, NoFeed}
      /\ CursorOf(r, resume) = f /\ ~ read.truncated => read.next = x.got + 1
  BY <1>1, ReadFirst
<1>7. feeds[f].seq \in 0 .. MaxSeq /\ MaxSeq \in Nat
  BY <1>3, FeedAssumption DEF FeedRecords
<1> HIDE DEF read, g
<1>8. PICK p \in (read.next .. feeds[f].seq) \cup {feeds[f].seq} :
        reader' = [reader EXCEPT ![r].at = "polled", ![r].pos = p, ![r].next = read.next,
                         ![r].truncated = read.truncated, ![r].epoch = CursorOf(r, resume)]
  BY <1>2 DEF read
<1>9. p \in 0 .. MaxSeq /\ p <= feeds[f].seq /\ read.next \in 1 .. MaxSeq + 1
  BY <1>6, <1>7, <1>8
<1> DEFINE y == [x EXCEPT !.at = "polled", !.pos = p, !.next = read.next,
                          !.truncated = read.truncated, !.epoch = CursorOf(r, resume)]
<1>10. reader' = [reader EXCEPT ![r] = y]
  BY <1>3, <1>8
<1>11. /\ y \in ReaderRecords /\ y.at = "polled" /\ y.feed = f /\ y.epoch = CursorOf(r, resume)
       /\ y.got = x.got /\ y.next = read.next /\ y.pos = p /\ y.truncated = read.truncated
  BY <1>6, <1>9, Held DEF ReaderRecords
<1> HIDE DEF y
<1>12. ReaderFine(y)
  BY <1>3, <1>6, <1>9, <1>11, Held DEF ReaderFine, Streaming, NoFeed
<1> QED
  BY <1>1, <1>3, <1>4, <1>5, <1>10, <1>11, <1>12, ReadStep

\* A stream reads first, and counts as one of the feed from then on.
LEMMA StreamListens ==
  ASSUME FeedInv, NEW r \in Readers, Listen(r)
  PROVE  FeedInv'
<1> DEFINE x == reader[r]
           f == reader[r].feed
<1>1. x.at = "attach" /\ UNCHANGED <<registered, feedCount, shut>>
  BY DEF Listen
<1>2. PICK n \in Trims(feeds[f]), resume \in BOOLEAN :
        LET read == FirstRead(r, f, n, resume) IN
        /\ feeds' = [feeds EXCEPT ![f].first = n]
        /\ reader' = [reader EXCEPT ![r].at = "active", ![r].first = TRUE, ![r].pos = feeds[f].seq,
                       ![r].next = read.next, ![r].truncated = read.truncated, ![r].epoch = CursorOf(r, resume)]
  BY DEF Listen
<1> DEFINE read == FirstRead(r, f, n, resume)
           g == [feeds[f] EXCEPT !.first = n]
           y == [x EXCEPT !.at = "active", !.first = TRUE, !.pos = feeds[f].seq,
                          !.next = read.next, !.truncated = read.truncated, !.epoch = CursorOf(r, resume)]
<1>3. /\ f \in Feeds /\ f <= feedCount /\ feeds[f] \in FeedRecords /\ feeds[f].ready
      /\ feeds \in [Feeds -> FeedRecords] /\ reader \in [Readers -> ReaderRecords]
  BY <1>1, Held DEF ReaderFine, FeedInv, FeedTypeOK
<1>4. Alike(feeds[f], g)
  BY <1>3, Trimming
<1>5. feeds' = [feeds EXCEPT ![f] = g] /\ reader' = [reader EXCEPT ![r] = y]
  BY <1>2, <1>3
<1>6. /\ read.next \in 1 .. feeds[f].seq + 1 /\ read.truncated \in BOOLEAN
      /\ CursorOf(r, resume) \in 0 .. MaxFeeds /\ CursorOf(r, resume) \in {x.epoch, NoFeed}
      /\ CursorOf(r, resume) = f /\ ~ read.truncated => read.next = x.got + 1
  BY <1>1, ReadFirst
<1>7. feeds[f].seq \in 0 .. MaxSeq /\ MaxSeq \in Nat
  BY <1>3, FeedAssumption DEF FeedRecords
<1> HIDE DEF read, g
<1>8. read.next \in 1 .. MaxSeq + 1 /\ read.next <= feeds[f].seq + 1
  BY <1>6, <1>7
<1>9. /\ y \in ReaderRecords /\ y.at = "active" /\ y.feed = f /\ y.epoch = CursorOf(r, resume)
      /\ y.got = x.got /\ y.next = read.next /\ y.pos = feeds[f].seq /\ y.truncated = read.truncated
      /\ y.first = TRUE
  BY <1>6, <1>7, <1>8, Held DEF ReaderRecords, Streaming
<1> HIDE DEF y
<1>10. ReaderFine(y)
  BY <1>3, <1>6, <1>7, <1>8, <1>9, Held DEF ReaderFine, Streaming, NoFeed
<1> QED
  BY <1>1, <1>3, <1>4, <1>5, <1>9, <1>10, ReadStep

\* A stream reads again, with the channel to wait on.
LEMMA StreamReads ==
  ASSUME FeedInv, NEW r \in Readers, StreamRead(r)
  PROVE  FeedInv'
<1> DEFINE x == reader[r]
           f == reader[r].feed
<1>1. x.at = "loop" /\ UNCHANGED <<registered, feedCount, shut>>
  BY DEF StreamRead
<1>2. PICK n \in Trims(feeds[f]) :
        LET read == From(feeds[f], n, reader[r].pos, TRUE) IN
        /\ feeds' = [feeds EXCEPT ![f].first = n]
        /\ reader' =
             IF feeds[f].dead THEN [reader EXCEPT ![r] = Leaving(r)]
             ELSE [reader EXCEPT ![r].at = IF read.truncated THEN "gap" ELSE "send",
                    ![r].next = read.next, ![r].truncated = read.truncated,
                    ![r].pos = feeds[f].seq, ![r].wake = feeds[f].wake]
  BY DEF StreamRead
<1> DEFINE read == From(feeds[f], n, x.pos, TRUE)
           g == [feeds[f] EXCEPT !.first = n]
           y == [x EXCEPT !.at = IF read.truncated THEN "gap" ELSE "send",
                    !.next = read.next, !.truncated = read.truncated,
                    !.pos = feeds[f].seq, !.wake = feeds[f].wake]
<1>3. /\ f \in Feeds /\ f <= feedCount /\ feeds[f] \in FeedRecords /\ feeds[f].ready
      /\ feeds \in [Feeds -> FeedRecords] /\ reader \in [Readers -> ReaderRecords]
      /\ x.pos <= feeds[f].seq /\ x.epoch = f /\ x.got = x.pos /\ ~ x.first
  BY <1>1, Held DEF ReaderFine, FeedInv, FeedTypeOK, Streaming
<1>4. Alike(feeds[f], g) /\ n \in 1 .. feeds[f].seq + 1
  <2>1. Alike(feeds[f], g) /\ n \in 1 .. MaxSeq + 1 /\ n <= feeds[f].seq + 1
    BY <1>3, Trimming
  <2>2. feeds[f].seq \in Nat /\ MaxSeq \in Nat
    BY <1>3, FeedAssumption DEF FeedRecords
  <2> HIDE DEF g
  <2> QED
    BY <2>1, <2>2
<1>5. feeds' = [feeds EXCEPT ![f] = g]
  BY <1>2, <1>3
<1>6. CASE feeds[f].dead
  <2>1. reader' = [reader EXCEPT ![r] = Leaving(r)] /\ x.at \in Streaming
    BY <1>1, <1>2, <1>6 DEF Streaming
  <2> HIDE DEF g
  <2> QED
    BY <1>1, <1>3, <1>4, <1>5, <2>1, GoneFine, ReadStep
<1>7. CASE ~ feeds[f].dead
  <2>1. reader' = [reader EXCEPT ![r] = y]
    BY <1>2, <1>3, <1>7
  <2>2. /\ read.next \in 1 .. feeds[f].seq + 1 /\ read.truncated \in BOOLEAN
        /\ ~ read.truncated => read.next = x.pos + 1
    <3>1. x.pos \in Nat
      BY Held
    <3> QED
      BY <1>3, <1>4, <3>1, ReadFrom
  <2>3. feeds[f].seq \in 0 .. MaxSeq /\ MaxSeq \in Nat /\ feeds[f].wake \in 0 .. MaxSeq + 2
    BY <1>3, FeedAssumption DEF FeedRecords
  <2> HIDE DEF read, g
  <2>4. read.next \in 1 .. MaxSeq + 1 /\ read.next <= feeds[f].seq + 1
    BY <2>2, <2>3
  <2>5. /\ y \in ReaderRecords /\ y.at = (IF read.truncated THEN "gap" ELSE "send") /\ y.feed = f
        /\ y.epoch = x.epoch /\ y.got = x.got /\ y.next = read.next /\ y.pos = feeds[f].seq
        /\ y.truncated = read.truncated /\ y.first = x.first /\ y.wake = feeds[f].wake
    BY <1>1, <2>2, <2>3, <2>4, Held DEF ReaderRecords, Streaming
  <2> HIDE DEF y
  <2>6. Caught(y)
    BY <1>7, <2>3, <2>5 DEF Caught
  <2>7. x.epoch # NoFeed => x.epoch <= feedCount /\ x.got <= feeds[x.epoch].seq
    BY Held DEF ReaderFine
  <2>8. ReaderFine(y)
    BY <1>3, <2>2, <2>3, <2>4, <2>5, <2>6, <2>7 DEF ReaderFine, Streaming
  <2> QED
    BY <1>1, <1>3, <1>4, <1>5, <2>1, <2>5, <2>8, ReadStep
<1> QED
  BY <1>6, <1>7

-----------------------------------------------------------------------------
(* Feeds, one action after the other.                                       *)

\* The facts about feeds the steps below begin with.
LEMMA FeedFacts ==
  ASSUME FeedInv
  PROVE  /\ FeedTypeOK /\ MaxFeeds \in Nat /\ MaxSeq \in Nat /\ feedCount \in Nat
         /\ \A f \in Feeds : /\ f \in Nat /\ f # NoFeed /\ feeds[f] \in FeedRecords /\ FeedFine(f)
                             /\ feeds[f].seq \in Nat /\ feeds[f].seq <= MaxSeq
                             /\ feeds[f].wake \in Nat /\ feeds[f].stops \in Nat
         /\ registered # NoFeed => registered \in Feeds
         /\ \A f \in Feeds : FeedKept(feeds[f], feeds[f]) /\ (registered = f => ~ feeds[f].dead /\ ~ shut)
<1>1. MaxFeeds \in Nat /\ MaxSeq \in Nat /\ FeedTypeOK
  BY FeedAssumption DEF FeedInv
<1>2. /\ feedCount \in Nat /\ (registered # NoFeed => registered \in Feeds)
      /\ \A f \in Feeds : f \in Nat /\ f # NoFeed
  BY <1>1 DEF FeedTypeOK, Feeds, NoFeed
<1>3. ASSUME NEW f \in Feeds
      PROVE  /\ feeds[f] \in FeedRecords /\ FeedFine(f)
             /\ feeds[f].seq \in Nat /\ feeds[f].seq <= MaxSeq
             /\ feeds[f].wake \in Nat /\ feeds[f].stops \in Nat
  <2>1. feeds[f] \in FeedRecords /\ FeedFine(f)
    BY <1>1 DEF FeedTypeOK, FeedInv
  <2> QED
    BY <1>1, <2>1 DEF FeedRecords
<1>4. ASSUME NEW f \in Feeds
      PROVE  FeedKept(feeds[f], feeds[f]) /\ (registered = f => ~ feeds[f].dead /\ ~ shut)
  BY <1>2, <1>3 DEF FeedKept, FeedFine, FeedInv
<1> QED
  BY <1>1, <1>2, <1>3, <1>4

\* A reader finds the registered feed, or makes one.
LEMMA FeedMade ==
  ASSUME FeedInv, NEW r \in Readers, GetFeed(r)
  PROVE  FeedInv'
<1> DEFINE x == reader[r]
<1>1. x.at = "idle" /\ ~ shut /\ UNCHANGED <<feeds, shut>>
  BY DEF GetFeed
<1>2. CASE registered # NoFeed
  <2> DEFINE y == [x EXCEPT !.at = "ready", !.feed = registered]
  <2>1. reader' = [reader EXCEPT ![r] = y] /\ UNCHANGED <<registered, feedCount>>
    BY <1>2 DEF GetFeed
  <2>2. registered \in 0 .. MaxFeeds /\ registered \in Feeds /\ registered <= feedCount
    BY <1>2, FeedFacts DEF FeedInv, FeedTypeOK
  <2>3. /\ y \in ReaderRecords /\ y.at = "ready" /\ y.feed = registered
        /\ y.epoch = x.epoch /\ y.got = x.got
    BY <2>2, Held DEF ReaderRecords
  <2> HIDE DEF y
  <2>4. ReaderFine(y)
    BY <2>2, <2>3, Held DEF ReaderFine, Streaming
  <2> QED
    BY <1>1, <2>1, <2>3, <2>4, OneReader
<1>3. CASE registered = NoFeed
  <2> DEFINE new == feedCount + 1
             y == [x EXCEPT !.at = "setup", !.feed = new]
  <2>1. /\ feedCount < MaxFeeds /\ feedCount' = new /\ registered' = new
        /\ reader' = [reader EXCEPT ![r] = y]
    BY <1>3 DEF GetFeed
  <2>2. feedCount \in Nat /\ new \in Feeds /\ new \in 0 .. MaxFeeds /\ new > feedCount /\ new # NoFeed
    BY <2>1, FeedFacts DEF Feeds, NoFeed
  <2>3. /\ y \in ReaderRecords /\ y.at = "setup" /\ y.feed = new
        /\ y.epoch = x.epoch /\ y.got = x.got
    BY <2>2, Held DEF ReaderRecords
  <2> HIDE DEF new, y
  <2>4. feeds[new] = NewFeed
    BY <2>2, FeedFacts DEF FeedFine
  <2>5. ASSUME NEW f \in Feeds PROVE FeedFine(f)' /\ FeedKept(feeds[f], feeds'[f])
    <3>1. f \in Nat /\ FeedFine(f) /\ FeedKept(feeds[f], feeds[f]) /\ f # NoFeed
      BY FeedFacts
    <3>2. feeds[f] = feeds'[f] /\ (f <= feedCount' <=> f <= feedCount \/ f = new)
      BY <1>1, <2>1, <2>2, <3>1 DEF new
    <3>3. FeedFine(f)'
      BY <1>3, <2>1, <2>2, <2>4, <3>1, <3>2 DEF FeedFine, NewFeed
    <3> QED
      BY <1>1, <3>1, <3>2, <3>3 DEF FeedKept
  <2>6. FeedTypeOK /\ reader \in [Readers -> ReaderRecords]
    BY FeedFacts DEF FeedTypeOK
  <2>7. /\ reader' \in [Readers -> ReaderRecords] /\ reader'[r] = y
        /\ \A q \in Readers \ {r} : reader'[q] = reader[q]
    BY <2>1, <2>3, <2>6
  <2>8. PICK z \in ReaderRecords : z = y /\ ReaderFine(z)'
    <3>1. x.epoch # NoFeed => x.epoch <= feedCount' /\ x.got <= feeds'[x.epoch].seq
      BY <1>1, <2>1, <2>2, Held DEF ReaderFine, new
    <3>2. feedCount' = new /\ new <= new
      BY <2>1, <2>2
    <3>3. PICK z \in ReaderRecords : z = y
      BY <2>3
    <3>4. z.at = "setup" /\ z.feed = new /\ z.epoch = x.epoch /\ z.got = x.got
      BY <2>3, <3>3
    <3>5. ReaderFine(z)'
      BY <2>2, <3>1, <3>2, <3>4 DEF ReaderFine, Streaming
    <3> QED
      BY <3>3, <3>5
  <2>9. SetupAlone'
    <3> SUFFICES ASSUME NEW q \in Readers, reader'[q].at = "setup"
                 PROVE  /\ ~ feeds'[reader'[q].feed].ready
                        /\ \A p \in Readers : reader'[p].at = "setup" /\ reader'[p].feed = reader'[q].feed
                                                => p = q
      BY DEF SetupAlone
    <3>1. \A p \in Readers \ {r} : reader[p].at = "setup" => reader[p].feed # new
      BY <2>2, Held
    <3>2. CASE q = r
      BY <1>1, <2>3, <2>4, <2>7, <3>1, <3>2 DEF NewFeed
    <3>3. CASE q # r
      <4>1. reader'[q] = reader[q] /\ reader[q].at = "setup" /\ reader[q].feed # new
        BY <2>7, <3>1, <3>3
      <4>2. ~ feeds[reader[q].feed].ready
            /\ \A p \in Readers : reader[p].at = "setup" /\ reader[p].feed = reader[q].feed => p = q
        BY <4>1 DEF FeedInv, SetupAlone
      <4> QED
        BY <1>1, <2>3, <2>7, <4>1, <4>2
    <3> QED
      BY <3>2, <3>3
  <2>10. \A q \in Readers : reader'[q] = reader[q] \/ ReaderFine(reader[q])'
    BY <2>7, <2>8
  <2>11. /\ feeds' \in [Feeds -> FeedRecords] /\ shut' \in BOOLEAN /\ feedCount' \in 0 .. MaxFeeds
         /\ feedCount <= feedCount' /\ registered' \in 0 .. MaxFeeds /\ registered' <= feedCount'
         /\ ~ shut'
    BY <1>1, <2>1, <2>2, <2>6 DEF FeedTypeOK
  <2> QED
    BY <1>1, <2>5, <2>7, <2>9, <2>10, <2>11, FeedsMove
<1> QED
  BY <1>2, <1>3

\* The source is set up, in time or not.
LEMMA FeedSetUp ==
  ASSUME FeedInv, NEW r \in Readers, SetupOk(r)
  PROVE  FeedInv'
<1> DEFINE x == reader[r]
<1>1. PICK f \in Feeds : f = reader[r].feed
  BY Held DEF SetupOk
<1> DEFINE g == SetupReturns(feeds[f])
<1>2. x.at = "setup" /\ feeds' = [feeds EXCEPT ![f] = g] /\ UNCHANGED <<registered, feedCount, shut>>
      /\ x.feed = f
  BY <1>1 DEF SetupOk
<1>3. /\ f \in Feeds /\ f <= feedCount /\ ~ (f > feedCount) /\ feeds[f] \in FeedRecords /\ FeedFine(f)
      /\ ~ feeds[f].ready /\ feeds \in [Feeds -> FeedRecords] /\ reader \in [Readers -> ReaderRecords]
  BY <1>2, Held, FeedFacts DEF FeedInv, FeedTypeOK, SetupAlone
<1>4. ~ feeds[f].started /\ feeds[f].stops = 0
  BY <1>3 DEF FeedFine
<1>5. ~ feeds[f].dead => registered = f /\ ~ shut
  BY <1>3, FeedFacts DEF FeedFine, FeedInv
<1>6. /\ g \in FeedRecords /\ g.ready = TRUE /\ g.dead = feeds[f].dead /\ g.started = TRUE
      /\ g.seq = feeds[f].seq /\ g.first = feeds[f].first /\ g.wake = feeds[f].wake
      /\ g.stop = TRUE /\ g.stops = (IF feeds[f].dead \/ shut THEN 1 ELSE 0)
  <2> DEFINE n == IF feeds[f].dead \/ shut THEN 1 ELSE 0
  <2>1. n \in 0 .. 3 /\ (IF feeds[f].dead \/ shut THEN feeds[f].stops + 1 ELSE feeds[f].stops) = n
    BY <1>4
  <2>2. g = [feeds[f] EXCEPT !.ready = TRUE, !.stop = TRUE, !.started = TRUE, !.stops = n]
    BY <2>1 DEF SetupReturns
  <2> HIDE DEF n
  <2>3. /\ g \in FeedRecords /\ g.ready = TRUE /\ g.dead = feeds[f].dead /\ g.started = TRUE
        /\ g.seq = feeds[f].seq /\ g.first = feeds[f].first /\ g.wake = feeds[f].wake
        /\ g.stop = TRUE /\ g.stops = n
    BY <1>3, <2>1, <2>2 DEF FeedRecords
  <2> QED
    BY <2>3 DEF n
<1> HIDE DEF g
<1>7. /\ feeds' \in [Feeds -> FeedRecords] /\ feeds'[f] = g /\ \A h \in Feeds \ {f} : feeds'[h] = feeds[h]
  BY <1>2, <1>3, <1>6
<1>8. FeedFine(f)' /\ FeedKept(feeds[f], g)
  <2>1. FeedFine(f)'
    BY <1>2, <1>3, <1>5, <1>6, <1>7 DEF FeedFine
  <2>2. feeds[f].seq \in Nat /\ feeds[f].wake \in Nat
    BY <1>3, FeedFacts
  <2> QED
    BY <1>3, <1>6, <2>1, <2>2 DEF FeedKept
<1>9. ASSUME NEW h \in Feeds \ {f} PROVE FeedFine(h)' /\ FeedKept(feeds[h], feeds'[h])
  <2>1. FeedFine(h) /\ FeedKept(feeds[h], feeds[h])
    BY FeedFacts
  <2> QED
    BY <1>2, <1>7, <2>1 DEF FeedFine, FeedKept
<1>10. PICK y \in ReaderRecords :
         /\ reader' = [reader EXCEPT ![r] = y] /\ y.at # "setup" /\ ReaderFine(y)'
  <2>1. CASE ReaderGone(r)
    <3>1. /\ Gone(r) \in ReaderRecords /\ ReaderFine(Gone(r)) /\ Gone(r).at = "idle"
      BY GoneFine
    <3>2. PICK y \in ReaderRecords : y = Gone(r)
      BY <3>1
    <3>3. ReaderFine(y) /\ y.at # "setup"
      BY <3>1, <3>2
    <3>4. feedCount' \in 0 .. MaxFeeds /\ feedCount <= feedCount' /\ (shut => shut') /\ FeedTypeOK
      BY <1>2, FeedFacts DEF FeedTypeOK
    <3>5. \A h \in Feeds : FeedKept(feeds[h], feeds'[h])
      BY <1>7, <1>8, <1>9
    <3>6. ReaderFine(y)'
      BY <1>7, <3>3, <3>4, <3>5, ReaderKept
    <3> QED
      BY <2>1, <3>2, <3>3, <3>6 DEF ReaderGone
  <2>2. CASE ReaderAt(r, "attach")
    <3> DEFINE y == [x EXCEPT !.at = "attach"]
    <3>1. reader' = [reader EXCEPT ![r] = y]
      BY <2>2 DEF ReaderAt
    <3>2. /\ y \in ReaderRecords /\ y.at = "attach" /\ y.feed = f
          /\ y.epoch = x.epoch /\ y.got = x.got
      BY <1>2, Held DEF ReaderRecords
    <3>3. x.epoch # NoFeed => x.epoch <= feedCount /\ x.got <= feeds'[x.epoch].seq
      <4>1. x.epoch # NoFeed => x.epoch <= feedCount /\ x.got <= feeds[x.epoch].seq
        BY Held DEF ReaderFine
      <4>2. x.epoch \in 0 .. MaxFeeds
        BY Held DEF ReaderRecords
      <4>3. x.epoch # NoFeed => x.epoch \in Feeds
        BY <4>2, FeedFacts DEF Feeds, NoFeed
      <4> QED
        BY <1>6, <1>7, <4>1, <4>3
    <3> HIDE DEF y
    <3>4. PICK z \in ReaderRecords : z = y
      BY <3>2
    <3>5. /\ z.at = "attach" /\ z.feed = f /\ z.epoch = x.epoch /\ z.got = x.got
          /\ feeds'[f].ready /\ feedCount' = feedCount
      BY <1>2, <1>6, <1>7, <3>2, <3>4
    <3>6. ReaderFine(z)'
      BY <1>3, <3>3, <3>5 DEF ReaderFine, Streaming
    <3> QED
      BY <3>1, <3>4, <3>5, <3>6
  <2> QED
    BY <2>1, <2>2 DEF SetupOk
<1>11. SetupAlone'
  <2>1. \A h \in Feeds : feeds'[h].ready => feeds[h].ready \/ (reader[r].at = "setup" /\ reader[r].feed = h)
    BY <1>2, <1>7
  <2> QED
    BY <1>10, <2>1, StillAlone
<1>12. reader' \in [Readers -> ReaderRecords] /\ \A q \in Readers : reader'[q] = reader[q] \/ reader'[q] = y
  BY <1>3, <1>10
<1>13. \A q \in Readers : reader'[q] = reader[q] \/ ReaderFine(reader[q])'
  BY <1>10, <1>12
<1>14. /\ feedCount' \in 0 .. MaxFeeds /\ feedCount <= feedCount' /\ registered' \in 0 .. MaxFeeds
       /\ registered' <= feedCount' /\ shut' \in BOOLEAN /\ (shut' => registered' = NoFeed)
  BY <1>2, FeedFacts DEF FeedTypeOK, FeedInv
<1> QED
  BY <1>2, <1>7, <1>8, <1>9, <1>11, <1>12, <1>13, <1>14, FeedsMove

\* The source cannot be set up: the feed has ended before anybody streams from it.
LEMMA FeedUnmade ==
  ASSUME FeedInv, NEW r \in Readers, SetupFails(r)
  PROVE  FeedInv'
<1>1. PICK f \in Feeds : f = reader[r].feed
  BY Held DEF SetupFails
<1> DEFINE g == [feeds[f] EXCEPT !.ready = TRUE, !.dead = TRUE, !.first = feeds[f].seq + 1]
<1>2. feeds \in [Feeds -> FeedRecords] /\ reader \in [Readers -> ReaderRecords] /\ feeds[f] \in FeedRecords
  BY FeedFacts DEF FeedTypeOK
<1>3. /\ reader[r].at = "setup" /\ feeds' = [feeds EXCEPT ![f] = g] /\ reader[r].feed = f
      /\ registered' = (IF registered = f THEN NoFeed ELSE registered)
      /\ ReaderGone(r) /\ UNCHANGED <<feedCount, shut>>
  BY <1>1, <1>2 DEF SetupFails
<1>4. /\ f <= feedCount /\ ~ (f > feedCount) /\ FeedFine(f) /\ ~ feeds[f].ready /\ f # NoFeed
      /\ feeds[f].seq \in Nat /\ feeds[f].wake \in Nat /\ feeds[f].seq + 1 \in 1 .. MaxSeq + 1
  BY <1>1, <1>3, Held, FeedFacts DEF FeedInv, SetupAlone
<1>5. /\ g \in FeedRecords /\ g.ready = TRUE /\ g.dead = TRUE /\ g.started = feeds[f].started
      /\ g.seq = feeds[f].seq /\ g.first = feeds[f].seq + 1 /\ g.wake = feeds[f].wake
      /\ g.stop = feeds[f].stop /\ g.stops = feeds[f].stops
  BY <1>2, <1>4 DEF FeedRecords
<1> HIDE DEF g
<1>6. /\ feeds' \in [Feeds -> FeedRecords] /\ feeds'[f] = g /\ \A h \in Feeds \ {f} : feeds'[h] = feeds[h]
  BY <1>2, <1>3, <1>5
<1>7. FeedFine(f)' /\ FeedKept(feeds[f], g)
  <2>1. ~ feeds[f].started /\ feeds[f].wake <= feeds[f].seq + 1 /\ feeds[f].seq + 1 <= feeds[f].seq + 1
    BY <1>4 DEF FeedFine
  <2>2. registered' # f
    BY <1>3, <1>4
  <2>3. FeedFine(f)'
    BY <1>3, <1>4, <1>5, <1>6, <2>1, <2>2 DEF FeedFine
  <2> QED
    BY <1>4, <1>5, <2>3 DEF FeedKept
<1>8. ASSUME NEW h \in Feeds \ {f} PROVE FeedFine(h)' /\ FeedKept(feeds[h], feeds'[h])
  <2>1. FeedFine(h) /\ FeedKept(feeds[h], feeds[h]) /\ h # NoFeed /\ (registered' = h <=> registered = h)
    BY <1>3, FeedFacts
  <2> QED
    BY <1>3, <1>6, <2>1 DEF FeedFine, FeedKept
<1>9. PICK y \in ReaderRecords : y = Gone(r) /\ ReaderFine(y) /\ y.at # "setup"
  BY GoneFine
<1>10. /\ feedCount' \in 0 .. MaxFeeds /\ feedCount <= feedCount' /\ registered' \in 0 .. MaxFeeds
       /\ registered' <= feedCount' /\ shut' \in BOOLEAN /\ (shut' => registered' = NoFeed)
       /\ FeedTypeOK
  BY <1>3, FeedFacts DEF FeedTypeOK, FeedInv, NoFeed
<1>11. ReaderFine(y)'
  <2>1. \A h \in Feeds : FeedKept(feeds[h], feeds'[h])
    BY <1>6, <1>7, <1>8
  <2> QED
    BY <1>3, <1>6, <1>9, <1>10, <2>1, ReaderKept
<1>12. reader' = [reader EXCEPT ![r] = y]
  BY <1>3, <1>9 DEF ReaderGone
<1>13. SetupAlone'
  <2>1. \A h \in Feeds : feeds'[h].ready => feeds[h].ready \/ (reader[r].at = "setup" /\ reader[r].feed = h)
    BY <1>3, <1>6
  <2> QED
    BY <1>9, <1>12, <2>1, StillAlone
<1>14. reader' \in [Readers -> ReaderRecords] /\ \A q \in Readers : reader'[q] = reader[q] \/ reader'[q] = y
  BY <1>2, <1>12
<1>15. \A q \in Readers : reader'[q] = reader[q] \/ ReaderFine(reader[q])'
  BY <1>11, <1>14
<1> QED
  BY <1>3, <1>6, <1>7, <1>8, <1>10, <1>13, <1>14, <1>15, FeedsMove

\* Readers stay where they are while a feed grows or ends.
LEMMA ReadersStay ==
  ASSUME FeedInv, feeds' \in [Feeds -> FeedRecords], UNCHANGED <<reader, feedCount>>,
         shut' \in BOOLEAN, shut => shut',
         registered' \in {registered, NoFeed}, shut' => registered' = NoFeed,
         \A f \in Feeds : FeedFine(f)' /\ FeedKept(feeds[f], feeds'[f]),
         \A f \in Feeds : feeds'[f].ready => feeds[f].ready
  PROVE  FeedInv'
<1>1. /\ feedCount' \in 0 .. MaxFeeds /\ feedCount <= feedCount' /\ registered' \in 0 .. MaxFeeds
      /\ registered' <= feedCount' /\ reader' \in [Readers -> ReaderRecords]
  BY FeedFacts DEF FeedTypeOK, FeedInv, NoFeed
<1>2. SetupAlone'
  <2>1. \A r \in Readers : reader[r].at = "setup" => reader[r].feed \in Feeds
    BY Held
  <2> QED
    BY <2>1 DEF FeedInv, SetupAlone
<1> QED
  BY <1>1, <1>2, FeedsMove

\* An event is appended, the ring trimmed and the channel closed.
LEMMA EventPublished ==
  ASSUME FeedInv, NEW f \in Feeds, PublishEvent(f)
  PROVE  FeedInv'
<1>1. /\ f <= feedCount /\ ~ feeds[f].dead /\ ~ shut /\ feeds[f].seq < MaxSeq
      /\ UNCHANGED <<registered, feedCount, reader, shut>>
  BY DEF PublishEvent
<1> DEFINE longer == [feeds[f] EXCEPT !.seq = feeds[f].seq + 1]
<1>2. PICK n \in Trims(longer) : feeds' = [feeds EXCEPT ![f] = Published(feeds[f], n)]
  BY FeedFacts DEF PublishEvent, FeedTypeOK
<1>3. /\ feeds \in [Feeds -> FeedRecords] /\ feeds[f] \in FeedRecords /\ FeedFine(f) /\ ~ (f > feedCount)
      /\ feeds[f].seq \in Nat /\ feeds[f].wake \in Nat /\ MaxSeq \in Nat
  BY <1>1, FeedFacts DEF FeedTypeOK
<1>4. feeds[f].wake <= feeds[f].seq /\ feeds[f].first <= feeds[f].seq + 1
  BY <1>1, <1>3 DEF FeedFine
<1>5. n \in 1 .. MaxSeq + 1 /\ n <= feeds[f].seq + 1 + 1
  <2>1. longer \in FeedRecords /\ longer.seq = feeds[f].seq + 1
    <3>1. feeds[f].seq + 1 \in 0 .. MaxSeq
      BY <1>1, <1>3
    <3> QED
      BY <1>3, <3>1 DEF FeedRecords
  <2> HIDE DEF longer
  <2> QED
    BY <2>1, Trimming
<1> DEFINE g == Published(feeds[f], n)
<1>6. /\ g \in FeedRecords /\ g.ready = feeds[f].ready /\ g.dead = feeds[f].dead /\ g.started = feeds[f].started
      /\ g.seq = feeds[f].seq + 1 /\ g.first = n /\ g.wake = feeds[f].wake + 1
      /\ g.stop = feeds[f].stop /\ g.stops = feeds[f].stops
  <2>1. feeds[f].seq + 1 \in 0 .. MaxSeq /\ feeds[f].wake + 1 \in 0 .. MaxSeq + 2
    BY <1>1, <1>3, <1>4
  <2> QED
    BY <1>3, <1>5, <2>1 DEF Published, FeedRecords
<1> HIDE DEF g
<1>7. /\ feeds' \in [Feeds -> FeedRecords] /\ feeds'[f] = g /\ \A h \in Feeds \ {f} : feeds'[h] = feeds[h]
  BY <1>2, <1>3, <1>6 DEF g
<1>8. FeedFine(f)' /\ FeedKept(feeds[f], g)
  <2>1. FeedFine(f)'
    <3>1. g.wake <= g.seq /\ g.wake <= g.seq + 1 /\ g.first <= g.seq + 1
      BY <1>3, <1>4, <1>5, <1>6
    <3>2. f <= feedCount' /\ ~ (f > feedCount')
      BY <1>1, <1>3
    <3> QED
      BY <1>1, <1>3, <1>6, <1>7, <3>1, <3>2 DEF FeedFine
  <2> QED
    BY <1>3, <1>6, <2>1 DEF FeedKept
<1>9. ASSUME NEW h \in Feeds \ {f} PROVE FeedFine(h)' /\ FeedKept(feeds[h], feeds'[h])
  <2>1. FeedFine(h) /\ FeedKept(feeds[h], feeds[h])
    BY FeedFacts
  <2> QED
    BY <1>1, <1>7, <2>1 DEF FeedFine, FeedKept
<1>10. \A h \in Feeds : feeds'[h].ready => feeds[h].ready
  BY <1>6, <1>7
<1>11. shut' = shut /\ shut \in BOOLEAN /\ registered' = registered /\ (shut => registered = NoFeed)
  BY <1>1, FeedFacts DEF FeedTypeOK, FeedInv
<1> QED
  BY <1>1, <1>7, <1>8, <1>9, <1>10, <1>11, ReadersStay

\* What ends a feed detaches it; the stop function is taken, or left for the others.
LEMMA Detaching ==
  ASSUME FeedInv, NEW f \in Feeds, registered = f
  PROVE  /\ Ended(feeds[f], TakeStop(Detached(feeds[f]))) /\ Ended(feeds[f], OweStop(Detached(feeds[f])))
         /\ shut' => Ended(feeds[f], OweStop([feeds[f] EXCEPT !.dead = TRUE]))
<1> DEFINE g == feeds[f]
           s == g.seq
           w == g.wake
           n == g.stops
           d == Detached(g)
           o == OweStop(d)
           t == TakeStop(d)
           e == OweStop([g EXCEPT !.dead = TRUE])
<1>1. /\ g \in FeedRecords /\ FeedFine(f) /\ ~ g.dead /\ s \in Nat /\ s <= MaxSeq /\ w \in Nat /\ n \in Nat
      /\ MaxSeq \in Nat /\ f <= feedCount
  BY FeedFacts DEF FeedInv
<1>2. w <= s /\ n = 0 /\ g.first <= s + 1 /\ g.stop \in BOOLEAN
  BY <1>1 DEF FeedFine, FeedRecords
<1>3. s + 1 \in 1 .. MaxSeq + 1 /\ w + 1 \in 0 .. MaxSeq + 2 /\ s + 1 <= s + 1 /\ w <= w + 1 /\ w + 1 # w
  BY <1>1, <1>2
<1>4. /\ d \in FeedRecords /\ d.ready = g.ready /\ d.dead = TRUE /\ d.started = g.started /\ d.seq = s
      /\ d.first = s + 1 /\ d.wake = w + 1 /\ d.stop = g.stop /\ d.stops = n
  BY <1>1, <1>3 DEF Detached, FeedRecords
<1> HIDE DEF d
<1>5. /\ o \in FeedRecords /\ o.ready = g.ready /\ o.dead = TRUE /\ o.started = g.started /\ o.seq = s
      /\ o.first = s + 1 /\ o.wake = w + 1 /\ o.stop = g.stop /\ o.stops = (IF g.stop THEN n + 1 ELSE n)
  BY <1>2, <1>4 DEF OweStop, FeedRecords
<1>6. /\ t \in FeedRecords /\ t.ready = g.ready /\ t.dead = TRUE /\ t.started = g.started /\ t.seq = s
      /\ t.first = s + 1 /\ t.wake = w + 1 /\ t.stop = FALSE /\ t.stops = (IF g.stop THEN n + 1 ELSE n)
  <2>1. t = [o EXCEPT !.stop = FALSE]
    BY DEF TakeStop
  <2> HIDE DEF o, t
  <2> QED
    BY <1>5, <2>1 DEF FeedRecords
<1>7. /\ e \in FeedRecords /\ e.ready = g.ready /\ e.dead = TRUE /\ e.started = g.started /\ e.seq = s
      /\ e.first = g.first /\ e.wake = w /\ e.stop = g.stop /\ e.stops = (IF g.stop THEN n + 1 ELSE n)
  <2> DEFINE c == [g EXCEPT !.dead = TRUE]
  <2>1. /\ c \in FeedRecords /\ c.ready = g.ready /\ c.dead = TRUE /\ c.started = g.started /\ c.seq = s
        /\ c.first = g.first /\ c.wake = w /\ c.stop = g.stop /\ c.stops = n
    BY <1>1 DEF FeedRecords
  <2> HIDE DEF c
  <2>2. e = OweStop(c)
    BY DEF c
  <2> HIDE DEF e
  <2> QED
    BY <1>2, <2>1, <2>2 DEF OweStop, FeedRecords
<1> HIDE DEF o, t, e
<1>8. Ended(g, t) /\ Ended(g, o)
  BY <1>3, <1>5, <1>6 DEF Ended
<1>9. shut' => Ended(g, e)
  BY <1>1, <1>2, <1>3, <1>7 DEF Ended
<1> QED
  BY <1>8, <1>9 DEF d, o, t, e

\* The source breaks, or the sweeper comes: readers learn it at their next read.
LEMMA FeedDropped ==
  ASSUME FeedInv, NEW f \in Feeds, FailFeed(f) \/ SweepFeed(f)
  PROVE  FeedInv'
<1>1. registered = f /\ registered' = NoFeed /\ UNCHANGED <<feedCount, reader, shut>>
  BY DEF FailFeed, SweepFeed
<1>2. PICK g : Ended(feeds[f], g) /\ feeds' = [feeds EXCEPT ![f] = g]
  BY <1>1, Detaching DEF FailFeed, SweepFeed
<1>3. shut' \in BOOLEAN /\ (shut => shut')
  BY <1>1, FeedFacts DEF FeedTypeOK
<1> QED
  BY <1>1, <1>2, <1>3, FeedEnds, ReadersStay

\* The manager closes: the registered feed ends, and nobody makes another.
LEMMA FeedsClosed ==
  ASSUME FeedInv, Close
  PROVE  FeedInv'
<1>1. /\ ~ shut /\ shut' = TRUE /\ registered' = NoFeed /\ UNCHANGED <<feedCount, reader>>
      /\ feeds' = [f \in Feeds |-> IF registered = f THEN OweStop([feeds[f] EXCEPT !.dead = TRUE]) ELSE feeds[f]]
  BY DEF Close
<1>2. feeds \in [Feeds -> FeedRecords]
  BY FeedFacts DEF FeedTypeOK
<1>3. CASE registered = NoFeed
  <2>1. \A f \in Feeds : feeds'[f] = feeds[f]
    BY <1>1, <1>3, FeedFacts
  <2>2. feeds' = feeds
    BY <1>1, <1>2, <2>1
  <2>3. \A f \in Feeds : FeedFine(f)' /\ FeedKept(feeds[f], feeds'[f])
    <3>1. \A f \in Feeds : FeedFine(f) /\ FeedKept(feeds[f], feeds[f])
      BY FeedFacts
    <3> QED
      BY <1>1, <1>3, <2>2, <3>1 DEF FeedFine, FeedKept
  <2> QED
    BY <1>1, <1>2, <1>3, <2>2, <2>3, ReadersStay
<1>4. CASE registered # NoFeed
  <2>1. PICK f \in Feeds : f = registered
    BY <1>4, FeedFacts
  <2> DEFINE g == OweStop([feeds[f] EXCEPT !.dead = TRUE])
  <2>2. Ended(feeds[f], g)
    BY <1>1, <2>1, Detaching
  <2>3. feeds' = [feeds EXCEPT ![f] = g]
    BY <1>1, <1>2, <2>1
  <2> HIDE DEF g
  <2>4. PICK h : Ended(feeds[f], h) /\ feeds' = [feeds EXCEPT ![f] = h]
    BY <2>2, <2>3
  <2> QED
    BY <1>1, <2>1, <2>4, FeedEnds, ReadersStay
<1> QED
  BY <1>3, <1>4

\* The last stream takes its feed down, or leaves it to others.
LEMMA FeedLeft ==
  ASSUME FeedInv, NEW r \in Readers, LeaveFeed(r)
  PROVE  FeedInv'
<1>1. PICK f \in Feeds : f = reader[r].feed
  BY Held DEF LeaveFeed
<1>2. CASE UNCHANGED <<feeds, registered>>
  BY <1>2, ReaderLeaves DEF LeaveFeed
<1>3. CASE /\ registered = f /\ feeds' = [feeds EXCEPT ![f] = TakeStop(Detached(feeds[f]))]
           /\ registered' = NoFeed
  <2>1. PICK g : Ended(feeds[f], g) /\ feeds' = [feeds EXCEPT ![f] = g]
    BY <1>3, Detaching
  <2>2. ReaderGone(r) /\ UNCHANGED <<feedCount, shut>> /\ shut' \in BOOLEAN /\ (shut => shut') /\ FeedTypeOK
    BY FeedFacts DEF LeaveFeed, FeedTypeOK
  <2>3. /\ feeds' \in [Feeds -> FeedRecords]
        /\ \A h \in Feeds : FeedFine(h)' /\ FeedKept(feeds[h], feeds'[h])
        /\ \A h \in Feeds : feeds'[h].ready => feeds[h].ready
    BY <1>3, <2>1, <2>2, FeedEnds
  <2>4. PICK y \in ReaderRecords : y = Gone(r) /\ ReaderFine(y) /\ y.at # "setup"
    BY GoneFine
  <2>5. /\ feedCount' \in 0 .. MaxFeeds /\ feedCount <= feedCount' /\ registered' \in 0 .. MaxFeeds
        /\ registered' <= feedCount'
    BY <1>3, <2>2, FeedFacts DEF FeedTypeOK, NoFeed
  <2>6. ReaderFine(y)'
    BY <2>2, <2>3, <2>4, <2>5, ReaderKept
  <2>7. reader' = [reader EXCEPT ![r] = y]
    BY <2>2, <2>4 DEF ReaderGone
  <2>8. SetupAlone'
    BY <2>3, <2>4, <2>7, StillAlone
  <2>9. reader' \in [Readers -> ReaderRecords] /\ \A q \in Readers : reader'[q] = reader[q] \/ reader'[q] = y
    BY <2>2, <2>7 DEF FeedTypeOK
  <2>10. \A q \in Readers : reader'[q] = reader[q] \/ ReaderFine(reader[q])'
    BY <2>6, <2>9
  <2> QED
    BY <1>3, <2>2, <2>3, <2>5, <2>8, <2>9, <2>10, FeedsMove
<1> QED
  BY <1>1, <1>2, <1>3, FeedFacts DEF LeaveFeed, FeedTypeOK

-----------------------------------------------------------------------------
(* The theorems                                                             *)

\* The invariant is inductive.
LEMMA FeedStep == FeedInv /\ [FeedNext]_feedVars => FeedInv'
<1> SUFFICES ASSUME FeedInv, [FeedNext]_feedVars PROVE FeedInv'
  OBVIOUS
<1>1. CASE UNCHANGED feedVars
  BY <1>1 DEF feedVars, FeedInv, FeedTypeOK, FeedFine, ReaderFine, Caught, SetupAlone
<1>2. ASSUME NEW r \in Readers,
             \/ GetFeed(r) \/ SetupOk(r) \/ SetupFails(r) \/ FeedReady(r) \/ StopWaiting(r)
             \/ PollRead(r) \/ PollReturn(r)
             \/ Listen(r) \/ AttachLate(r) \/ SendActive(r) \/ SendEvent(r) \/ BatchSent(r)
             \/ StreamRead(r) \/ Wake(r) \/ StreamEnds(r) \/ LeaveFeed(r)
      PROVE  FeedInv'
  <2>1. CASE GetFeed(r) \/ SetupOk(r) \/ SetupFails(r) \/ FeedReady(r)
    BY <2>1, FeedMade, FeedSetUp, FeedUnmade, ReaderAttaches
  <2>2. CASE StopWaiting(r) \/ AttachLate(r) \/ StreamEnds(r)
    BY <2>2, ReaderLeaves DEF StopWaiting, AttachLate, StreamEnds
  <2>3. CASE PollRead(r) \/ PollReturn(r) \/ Listen(r) \/ StreamRead(r) \/ LeaveFeed(r)
    BY <2>3, PollReads, PollReturns, StreamListens, StreamReads, FeedLeft
  <2>4. CASE SendActive(r) \/ SendEvent(r) \/ BatchSent(r) \/ Wake(r)
    BY <2>4, StreamStarts, StreamSends, StreamWaits, StreamWakes
  <2> QED
    BY <1>2, <2>1, <2>2, <2>3, <2>4
<1>3. ASSUME NEW f \in Feeds, PublishEvent(f) \/ FailFeed(f) \/ SweepFeed(f)
      PROVE  FeedInv'
  BY <1>3, EventPublished, FeedDropped
<1> QED
  BY <1>1, <1>2, <1>3, FeedsClosed DEF FeedNext

\* Before the first reader it holds.
LEMMA FeedStart == FeedInit => FeedInv
<1> SUFFICES ASSUME FeedInit PROVE FeedInv
  OBVIOUS
<1>1. /\ feeds = [f \in Feeds |-> NewFeed] /\ registered = NoFeed /\ feedCount = 0
      /\ reader = [r \in Readers |-> NewReader] /\ shut = FALSE
  BY DEF FeedInit
<1>2. 0 \in 0 .. MaxFeeds /\ 0 \in 0 .. MaxSeq /\ 1 \in 1 .. MaxSeq + 1 /\ 0 \in 0 .. MaxSeq + 2
  BY FeedAssumption
<1>3. NewFeed \in FeedRecords
  BY <1>2 DEF NewFeed, FeedRecords
<1>4. NewReader \in ReaderRecords
  BY <1>2 DEF NewReader, ReaderRecords, NoFeed
<1>5. FeedTypeOK
  BY <1>1, <1>2, <1>3, <1>4 DEF FeedTypeOK, NoFeed
<1>6. ASSUME NEW f \in Feeds PROVE FeedFine(f)
  <2>1. f \in Nat /\ f # 0 /\ feeds[f] = NewFeed
    BY <1>1, FeedAssumption DEF Feeds
  <2> QED
    BY <1>1, <2>1 DEF FeedFine, NewFeed
<1>7. ASSUME NEW r \in Readers PROVE ReaderFine(reader[r]) /\ reader[r].at # "setup"
  <2>1. reader[r] = NewReader
    BY <1>1
  <2> QED
    BY <2>1 DEF ReaderFine, NewReader, Streaming, NoFeed
<1> QED
  BY <1>1, <1>5, <1>6, <1>7 DEF FeedInv, SetupAlone, NoFeed

\* The feeds, their readers and the registry stay in their declared sets.
THEOREM FeedType == FeedSpec => []FeedTypeOK
<1>1. FeedInv => FeedTypeOK
  BY DEF FeedInv
<1> QED
  BY <1>1, FeedStart, FeedStep, PTL DEF FeedSpec

\* However feeds end and are made again, and however their rings are trimmed, no
\* client misses an event without being told.
THEOREM GapsTold == FeedSpec => []NoSilentGap
<1>1. FeedInv => NoSilentGap
  BY DEF FeedInv, ReaderFine, NoSilentGap
<1> QED
  BY <1>1, FeedStart, FeedStep, PTL DEF FeedSpec

\* A stream that waits on an open channel has read all there is.
THEOREM WakesSeen == FeedSpec => []NoLostWake
<1>1. FeedInv => NoLostWake
  BY DEF FeedInv, ReaderFine, Caught, NoLostWake
<1> QED
  BY <1>1, FeedStart, FeedStep, PTL DEF FeedSpec

\* A source that was set up is stopped exactly once, in time or late.
THEOREM SourcesStopped == FeedSpec => []SourceStoppedOnce
<1>1. ASSUME FeedInv PROVE SourceStoppedOnce
  <2> SUFFICES ASSUME NEW f \in Feeds
               PROVE  /\ feeds[f].stops <= 1
                      /\ registered = f => feeds[f].stops = 0
                      /\ feeds[f].started /\ registered # f => feeds[f].stops = 1
    BY DEF SourceStoppedOnce
  <2>1. FeedFine(f) /\ f \in Nat /\ feedCount \in Nat /\ (registered = f => ~ feeds[f].dead)
    BY <1>1, FeedFacts
  <2>2. f <= feedCount \/ feeds[f] = NewFeed
    BY <2>1 DEF FeedFine
  <2> QED
    BY <2>1, <2>2 DEF FeedFine, NewFeed
<1> QED
  BY <1>1, FeedStart, FeedStep, PTL DEF FeedSpec

-----------------------------------------------------------------------------
(* Catalog: the copies of the lists and what brings a change to the row.    *)

JobRows == [of : {"none", "worker", "user"}, at : {"none", "tools", "fetch", "write"},
            items : SUBSET Items, got : Versions, retry : SUBSET Items]

SesRows ==
  [at : {"free", "connected", "publish", "rows", "observe", "out"}, up : BOOLEAN, ended : BOOLEAN,
   notice : SUBSET Items, asked : BOOLEAN, loop : {"idle", "list", "tell"}, snap : Versions,
   handler : BOOLEAN, tools : Versions, watch : BOOLEAN, pending : SUBSET Items, job : JobRows]

CatType ==
  /\ passive \in BOOLEAN /\ upstream \in [Items -> Versions] /\ row \in [Items -> Versions]
  /\ current \in Sessions \cup {NoSession} /\ holder \in Sessions \cup {NoSession}
  /\ catFaults \in 0 .. MaxFailures
  /\ ses \in [Sessions -> SesRows]

\* Every copy of a list is one the upstream has had, and none that the current
\* session has is older than the row.
CopiesInv ==
  /\ \A i \in Items : row[i] <= upstream[i]
  /\ \A s \in Sessions :
       LET r == ses[s] IN
       /\ r.snap <= upstream["tools"] /\ r.tools <= r.snap /\ r.job.got <= upstream["lists"]
       /\ current = s => row["tools"] <= r.snap /\ ~ r.ended
       /\ current = s /\ r.job.at = "write" => row["lists"] <= r.job.got

\* A session that is not published has no work; an outbound one holds the connect
\* lock from its handshake to its rows, which nobody writes meanwhile.
EarlyInv ==
  \A s \in Sessions :
    LET r == ses[s] IN
    /\ r.at \in {"free", "connected", "publish"} => current # s /\ r.job = NoJob /\ ~ r.ended
    /\ r.at # "out" => ~ r.watch
    /\ passive => r.at # "rows"
    /\ ~ passive /\ r.at \in {"connected", "publish", "rows", "observe"} => holder = s
    /\ ~ passive /\ r.at \in {"connected", "publish", "rows"} => row["tools"] <= r.snap
    /\ ~ passive /\ r.at \in {"publish", "rows"} => row["tools"] <= r.tools

\* What brings a change of the lists to the row.
OnItsWay(r) ==
  \/ "lists" \in r.notice \cup r.pending
  \/ /\ r.job.of = "worker" /\ "lists" \in r.job.items
     /\ r.job.at \in {"tools", "fetch"} \/ (r.job.at = "write" /\ r.job.got = upstream["lists"])

NewsInv ==
  \A s \in Sessions :
    current = s /\ ses[s].up /\ ses[s].watch => row["lists"] = upstream["lists"] \/ OnItsWay(ses[s])

CatInv == CatType /\ CopiesInv /\ EarlyInv /\ NewsInv

\* The job that is none.
LEMMA NoJobRow == NoJob \in JobRows
<1>1. 0 \in Versions
  BY CatalogAssumption DEF Versions
<1> QED
  BY <1>1 DEF NoJob, JobRows

\* What the new state of one session must satisfy, where the row and the holder of
\* the lock may change under it.
Fits(y, s, w, h, c) ==
  /\ y.snap <= upstream["tools"] /\ y.tools <= y.snap /\ y.job.got <= upstream["lists"]
  /\ c = s => w["tools"] <= y.snap /\ ~ y.ended
  /\ c = s /\ y.job.at = "write" => w["lists"] <= y.job.got
  /\ y.at \in {"free", "connected", "publish"} => c # s /\ y.job = NoJob /\ ~ y.ended
  /\ y.at # "out" => ~ y.watch
  /\ passive => y.at # "rows"
  /\ ~ passive /\ y.at \in {"connected", "publish", "rows", "observe"} => h = s
  /\ ~ passive /\ y.at \in {"connected", "publish", "rows"} => w["tools"] <= y.snap
  /\ ~ passive /\ y.at \in {"publish", "rows"} => w["tools"] <= y.tools
  /\ c = s /\ y.up /\ y.watch => w["lists"] = upstream["lists"] \/ OnItsWay(y)

\* A step of one session.  The row is written by the current session, while no
\* other holds the lock; the lock changes hands at its holder or when it is free.
LEMMA OneSession ==
  ASSUME CatInv, NEW s \in Sessions, NEW y \in SesRows, NEW w \in [Items -> Versions],
         NEW h \in Sessions \cup {NoSession}, NEW c \in {current, NoSession},
         ses' = [ses EXCEPT ![s] = y], row' = w, holder' = h, current' = c,
         UNCHANGED <<passive, upstream>>, catFaults' \in 0 .. MaxFailures,
         w = row \/ (current = s /\ (passive \/ holder \in {s, NoSession})),
         passive \/ h = holder \/ holder \in {s, NoSession},
         \A i \in Items : w[i] <= upstream[i],
         Fits(y, s, w, h, c)
  PROVE  CatInv'
<1>1. /\ ses' \in [Sessions -> SesRows] /\ ses'[s] = y /\ \A t \in Sessions \ {s} : ses'[t] = ses[t]
  BY DEF CatInv, CatType
<1>2. CatType'
  BY <1>1 DEF CatInv, CatType
<1>3. \A t \in Sessions \ {s} : c = t => current = t /\ w = row
  BY CatalogAssumption
<1>4. CopiesInv'
  <2>1. ASSUME NEW t \in Sessions
        PROVE  /\ ses'[t].snap <= upstream["tools"] /\ ses'[t].tools <= ses'[t].snap
               /\ ses'[t].job.got <= upstream["lists"]
               /\ c = t => w["tools"] <= ses'[t].snap /\ ~ ses'[t].ended
               /\ c = t /\ ses'[t].job.at = "write" => w["lists"] <= ses'[t].job.got
    <3>1. CASE t = s
      BY <1>1, <3>1 DEF Fits
    <3>2. CASE t # s
      BY <1>1, <1>3, <3>2 DEF CatInv, CopiesInv
    <3> QED
      BY <3>1, <3>2
  <2> QED
    BY <2>1 DEF CopiesInv
<1>5. EarlyInv'
  <2>1. ASSUME NEW t \in Sessions \ {s}, ~ passive, ses[t].at \in {"connected", "publish", "rows", "observe"}
        PROVE  h = t /\ w = row
    BY <2>1, CatalogAssumption DEF CatInv, EarlyInv
  <2>2. ASSUME NEW t \in Sessions
        PROVE  /\ ses'[t].at \in {"free", "connected", "publish"} => c # t /\ ses'[t].job = NoJob /\ ~ ses'[t].ended
               /\ ses'[t].at # "out" => ~ ses'[t].watch
               /\ passive => ses'[t].at # "rows"
               /\ ~ passive /\ ses'[t].at \in {"connected", "publish", "rows", "observe"} => h = t
               /\ ~ passive /\ ses'[t].at \in {"connected", "publish", "rows"} => w["tools"] <= ses'[t].snap
               /\ ~ passive /\ ses'[t].at \in {"publish", "rows"} => w["tools"] <= ses'[t].tools
    <3>1. CASE t = s
      BY <1>1, <3>1 DEF Fits
    <3>2. CASE t # s
      BY <1>1, <1>3, <2>1, <3>2 DEF CatInv, EarlyInv
    <3> QED
      BY <3>1, <3>2
  <2> QED
    BY <2>2 DEF EarlyInv, NoJob
<1>6. NewsInv'
  <2>1. ASSUME NEW t \in Sessions, c = t, ses'[t].up, ses'[t].watch
        PROVE  w["lists"] = upstream["lists"] \/ OnItsWay(ses'[t])
    <3>1. CASE t = s
      BY <1>1, <2>1, <3>1 DEF Fits
    <3>2. CASE t # s
      BY <1>1, <1>3, <2>1, <3>2 DEF CatInv, NewsInv
    <3> QED
      BY <3>1, <3>2
  <2> QED
    BY <2>1 DEF NewsInv, OnItsWay
<1> QED
  BY <1>2, <1>4, <1>5, <1>6 DEF CatInv

\* Queueing adds to what is pending, unless the session has ended.
LEMMA QueuedRow ==
  ASSUME NEW r \in SesRows, NEW I \in SUBSET Items
  PROVE  /\ Queued(r, I) \in SesRows
         /\ Queued(r, I).pending = IF r.ended THEN r.pending ELSE r.pending \cup I
         /\ Queued(r, I) = [r EXCEPT !.pending = Queued(r, I).pending]
<1>1. CASE r.ended
  BY <1>1 DEF Queued, SesRows
<1>2. CASE ~ r.ended
  BY <1>2 DEF Queued, SesRows
<1> QED
  BY <1>1, <1>2

\* The end of a job keeps everything else, and queues again what the worker could
\* not do.
LEMMA JobDoneRow ==
  ASSUME NEW r \in SesRows, NEW F \in SUBSET Items
  PROVE  LET y == JobDone(r, F) IN
         /\ y \in SesRows /\ y.job = NoJob
         /\ y.at = r.at /\ y.up = r.up /\ y.ended = r.ended /\ y.notice = r.notice /\ y.snap = r.snap
         /\ y.tools = r.tools /\ y.watch = r.watch
         /\ r.pending \subseteq y.pending
         /\ r.job.of = "worker" /\ ~ r.ended => F \subseteq y.pending
<1> DEFINE q == [r EXCEPT !.job = NoJob]
           I == IF r.job.of = "worker" THEN r.job.retry \cup F ELSE {}
<1>1. q \in SesRows /\ q.job = NoJob /\ q.pending = r.pending /\ q.ended = r.ended
  BY NoJobRow DEF SesRows
<1>2. I \in SUBSET Items
  BY DEF SesRows, JobRows
<1>3. q.at = r.at /\ q.up = r.up /\ q.notice = r.notice /\ q.snap = r.snap /\ q.tools = r.tools /\ q.watch = r.watch
  BY DEF SesRows
<1>4. JobDone(r, F) = Queued(q, I)
  BY DEF JobDone
<1>5. F \subseteq I \/ r.job.of # "worker"
  OBVIOUS
<1> HIDE DEF q, I
<1>6. /\ Queued(q, I) \in SesRows
      /\ Queued(q, I).pending = IF q.ended THEN q.pending ELSE q.pending \cup I
      /\ Queued(q, I) = [q EXCEPT !.pending = Queued(q, I).pending]
  BY <1>1, <1>2, QueuedRow
<1>7. /\ Queued(q, I).at = q.at /\ Queued(q, I).up = q.up /\ Queued(q, I).ended = q.ended
      /\ Queued(q, I).notice = q.notice /\ Queued(q, I).snap = q.snap /\ Queued(q, I).tools = q.tools
      /\ Queued(q, I).watch = q.watch /\ Queued(q, I).job = q.job
  BY <1>1, <1>6 DEF SesRows
<1> QED
  BY <1>1, <1>3, <1>4, <1>5, <1>6, <1>7

\* A lost connection loses its notifications only, a closed one its work.
LEMMA DownRow ==
  ASSUME NEW r \in SesRows
  PROVE  /\ Down(r) \in SesRows /\ Down(r).at = r.at /\ Down(r).up = FALSE /\ Down(r).ended = r.ended
         /\ Down(r).snap = r.snap /\ Down(r).tools = r.tools /\ Down(r).watch = r.watch /\ Down(r).job = r.job
         /\ Closed(r) \in SesRows /\ Closed(r).at = r.at /\ Closed(r).up = FALSE /\ Closed(r).ended = TRUE
         /\ Closed(r).snap = r.snap /\ Closed(r).tools = r.tools /\ Closed(r).watch = r.watch
         /\ Closed(r).job = r.job
BY DEF Down, Closed, SesRows

\* What is known of a session before a step.
LEMMA SesNow ==
  ASSUME CatInv, NEW s \in Sessions
  PROVE  /\ ses[s] \in SesRows /\ ses[s].snap \in Versions /\ ses[s].tools \in Versions
         /\ ses[s].job \in JobRows /\ ses[s].job.got \in Versions
         /\ upstream["tools"] \in Versions /\ upstream["lists"] \in Versions
         /\ row["tools"] \in Versions /\ row["lists"] \in Versions
         /\ row["tools"] <= upstream["tools"] /\ row["lists"] <= upstream["lists"]
         /\ Fits(ses[s], s, row, holder, current)
<1>1. ses[s] \in SesRows
  BY DEF CatInv, CatType
<1>2. /\ ses[s].snap \in Versions /\ ses[s].tools \in Versions /\ ses[s].job \in JobRows /\ ses[s].job.got \in Versions
  BY <1>1 DEF SesRows, JobRows
<1>3. "tools" \in Items /\ "lists" \in Items
  BY DEF Items
<1>4. /\ upstream["tools"] \in Versions /\ upstream["lists"] \in Versions
      /\ row["tools"] \in Versions /\ row["lists"] \in Versions
      /\ row["tools"] <= upstream["tools"] /\ row["lists"] <= upstream["lists"]
  BY <1>3 DEF CatInv, CatType, CopiesInv
<1>5. Fits(ses[s], s, row, holder, current)
  BY DEF CatInv, CopiesInv, EarlyInv, NewsInv, Fits
<1> QED
  BY <1>1, <1>2, <1>4, <1>5

\* A step that leaves the row, the lock and the current session alone.
LEMMA SessionAlone ==
  ASSUME CatInv, NEW s \in Sessions, NEW y \in SesRows, ses' = [ses EXCEPT ![s] = y],
         UNCHANGED <<passive, upstream, row, holder, current>>, catFaults' \in 0 .. MaxFailures,
         Fits(y, s, row, holder, current)
  PROVE  CatInv'
<1>1. /\ row \in [Items -> Versions] /\ holder \in Sessions \cup {NoSession} /\ \A i \in Items : row[i] <= upstream[i]
  BY DEF CatInv, CatType, CopiesInv
<1> QED
  BY <1>1, OneSession

\* The connection, its notifications and the loop that lists the tools.
LEMMA ConnectionStep ==
  ASSUME CatInv, NEW s \in Sessions,
         \/ Lose(s) \/ (\E i \in Items : Receive(s, i)) \/ LoopTakes(s) \/ LoopLists(s) \/ LoopTells(s)
         \/ Watch(s)
  PROVE  CatInv'
<1> DEFINE r == ses[s]
<1>1. /\ r \in SesRows /\ r.snap \in Versions /\ r.tools \in Versions /\ upstream["tools"] \in Versions
      /\ row["tools"] \in Versions /\ row["tools"] <= upstream["tools"] /\ Fits(r, s, row, holder, current)
      /\ catFaults \in 0 .. MaxFailures /\ MaxFailures \in Nat
  BY SesNow, CatalogAssumption DEF CatInv, CatType
<1>2. ASSUME NEW y \in SesRows, ses' = [ses EXCEPT ![s] = y],
             UNCHANGED <<passive, upstream, row, holder, current>>, catFaults' \in 0 .. MaxFailures,
             y.at = r.at, y.ended = r.ended, y.tools = r.tools, y.job = r.job, y.up => r.up,
             y.snap \in {r.snap, upstream["tools"]}, y.watch => r.watch,
             y.up => r.notice \cup r.pending \subseteq y.notice \cup y.pending
                     \/ "lists" \in y.pending \/ ~ r.watch
      PROVE  CatInv'
  <2>1. r.tools <= upstream["tools"]
    BY <1>1 DEF Fits, Versions
  <2>2. OnItsWay(r) /\ y.up /\ r.watch => OnItsWay(y)
    BY <1>2 DEF OnItsWay
  <2>3. /\ y.snap <= upstream["tools"] /\ y.tools <= y.snap /\ y.job.got <= upstream["lists"]
        /\ current = s => row["tools"] <= y.snap /\ ~ y.ended
        /\ current = s /\ y.job.at = "write" => row["lists"] <= y.job.got
    BY <1>1, <1>2, <2>1, CatalogAssumption DEF Fits, Versions
  <2>4. /\ y.at \in {"free", "connected", "publish"} => current # s /\ y.job = NoJob /\ ~ y.ended
        /\ y.at # "out" => ~ y.watch
        /\ passive => y.at # "rows"
        /\ ~ passive /\ y.at \in {"connected", "publish", "rows", "observe"} => holder = s
    BY <1>1, <1>2 DEF Fits
  <2>5. /\ ~ passive /\ y.at \in {"connected", "publish", "rows"} => row["tools"] <= y.snap
        /\ ~ passive /\ y.at \in {"publish", "rows"} => row["tools"] <= y.tools
    BY <1>1, <1>2, CatalogAssumption DEF Fits, Versions
  <2>6. current = s /\ y.up /\ y.watch => row["lists"] = upstream["lists"] \/ OnItsWay(y)
    BY <1>1, <1>2, <2>2 DEF Fits
  <2>7. Fits(y, s, row, holder, current)
    BY <2>3, <2>4, <2>5, <2>6 DEF Fits
  <2> QED
    BY <1>2, <2>7, SessionAlone
<1>3. CASE Lose(s)
  <2>1. ses' = [ses EXCEPT ![s] = Down(r)] /\ UNCHANGED <<passive, upstream, row, holder, current, catFaults>>
    BY <1>3 DEF Lose
  <2> QED
    BY <1>1, <1>2, <2>1, DownRow
<1>4. ASSUME NEW i \in Items, Receive(s, i) PROVE CatInv'
  <2>1. UNCHANGED <<passive, upstream, row, holder, current, catFaults>>
    BY <1>4 DEF Receive
  <2> DEFINE q == [r EXCEPT !.notice = @ \ {i}]
  <2>2. q \in SesRows /\ q.pending = r.pending /\ q.notice = r.notice \ {i} /\ q.ended = r.ended /\ q.watch = r.watch
    BY <1>1 DEF SesRows
  <2>3. q.at = r.at /\ q.tools = r.tools /\ q.job = r.job /\ q.up = r.up /\ q.snap = r.snap
    BY <1>1 DEF SesRows
  <2>4. CASE i = "tools"
    <3> DEFINE y == [q EXCEPT !.asked = TRUE]
    <3>1. y \in SesRows /\ y.pending = q.pending /\ y.notice = q.notice /\ y.ended = q.ended /\ y.watch = q.watch
      BY <2>2 DEF SesRows
    <3>2. y.at = q.at /\ y.tools = q.tools /\ y.job = q.job /\ y.up = q.up /\ y.snap = q.snap
      BY <2>2 DEF SesRows
    <3>3. ses' = [ses EXCEPT ![s] = y]
      BY <1>4, <2>4 DEF Receive
    <3> HIDE DEF y, q
    <3>4. y.snap = r.snap /\ y.watch = r.watch /\ y.notice = r.notice \ {i} /\ y.pending = r.pending /\ y.up = r.up
      BY <2>2, <2>3, <3>1, <3>2
    <3>5. OnItsWay(r) => OnItsWay(y)
      BY <2>2, <2>3, <2>4, <3>1, <3>2 DEF OnItsWay
    <3>6. Fits(y, s, row, holder, current)
      BY <1>1, <2>2, <2>3, <3>1, <3>2, <3>5 DEF Fits
    <3> QED
      BY <1>1, <2>1, <3>1, <3>3, <3>6, SessionAlone
  <2>5. CASE i # "tools" /\ ~ r.watch
    <3>1. ses' = [ses EXCEPT ![s] = q]
      BY <1>4, <2>2, <2>5 DEF Receive
    <3> HIDE DEF q
    <3> QED
      BY <1>1, <1>2, <2>1, <2>2, <2>3, <2>5, <3>1
  <2>6. CASE i # "tools" /\ r.watch
    <3>1. ses' = [ses EXCEPT ![s] = Queued(q, {i})] /\ {i} \in SUBSET Items
      BY <1>4, <2>2, <2>6 DEF Receive
    <3> HIDE DEF q
    <3> DEFINE y == Queued(q, {i})
    <3>2. /\ y \in SesRows /\ y.pending = IF q.ended THEN q.pending ELSE q.pending \cup {i}
          /\ y = [q EXCEPT !.pending = y.pending]
      BY <2>2, <3>1, QueuedRow
    <3> HIDE DEF y
    <3>3. /\ y.at = q.at /\ y.tools = q.tools /\ y.job = q.job /\ y.up = q.up /\ y.snap = q.snap
          /\ y.notice = q.notice /\ y.ended = q.ended /\ y.watch = q.watch
      BY <2>2, <3>2 DEF SesRows
    <3>4. current = s => ~ r.ended
      BY <1>1 DEF Fits
    <3>5. current = s /\ OnItsWay(r) => OnItsWay(y)
      BY <2>2, <2>3, <3>2, <3>3, <3>4 DEF OnItsWay
    <3>6. Fits(y, s, row, holder, current)
      BY <1>1, <2>2, <2>3, <3>3, <3>5 DEF Fits
    <3>7. ses' = [ses EXCEPT ![s] = y]
      BY <3>1 DEF y
    <3> QED
      BY <1>1, <2>1, <3>2, <3>6, <3>7, SessionAlone
  <2> QED
    BY <2>4, <2>5, <2>6
<1>5. CASE LoopTakes(s)
  <2> DEFINE y == [r EXCEPT !.asked = FALSE, !.loop = "list"]
  <2>1. ses' = [ses EXCEPT ![s] = y] /\ UNCHANGED <<passive, upstream, row, holder, current, catFaults>>
    BY <1>5 DEF LoopTakes
  <2>2. y \in SesRows /\ y.pending = r.pending /\ y.notice = r.notice /\ y.ended = r.ended /\ y.watch = r.watch
    BY <1>1 DEF SesRows
  <2>3. y.at = r.at /\ y.tools = r.tools /\ y.job = r.job /\ y.up = r.up /\ y.snap = r.snap
    BY <1>1 DEF SesRows
  <2> HIDE DEF y
  <2> QED
    BY <1>1, <1>2, <2>1, <2>2, <2>3
<1>6. CASE LoopLists(s)
  <2>1. PICK v \in {r.snap, upstream["tools"]}, l \in {"tell", "idle"} :
          ses' = [ses EXCEPT ![s] = [r EXCEPT !.snap = v, !.loop = l]]
    <3>1. CASE ses' = [ses EXCEPT ![s].snap = upstream["tools"], ![s].loop = "tell"]
      BY <1>1, <3>1 DEF SesRows
    <3>2. CASE ses' = [ses EXCEPT ![s].loop = "idle"]
      <4>1. [r EXCEPT !.loop = "idle"] = [r EXCEPT !.snap = r.snap, !.loop = "idle"]
        BY <1>1 DEF SesRows
      <4>2. ses' = [ses EXCEPT ![s] = [r EXCEPT !.loop = "idle"]]
        BY <3>2
      <4> QED
        BY <4>1, <4>2
    <3> QED
      BY <1>6, <3>1, <3>2 DEF LoopLists
  <2> DEFINE y == [r EXCEPT !.snap = v, !.loop = l]
  <2>2. y \in SesRows /\ y.pending = r.pending /\ y.notice = r.notice /\ y.ended = r.ended /\ y.watch = r.watch
    BY <1>1 DEF SesRows
  <2>3. y.at = r.at /\ y.tools = r.tools /\ y.job = r.job /\ y.up = r.up /\ y.snap = v
    BY <1>1 DEF SesRows
  <2>4. UNCHANGED <<passive, upstream, row, holder, current>> /\ catFaults' \in 0 .. MaxFailures
    BY <1>1, <1>6 DEF LoopLists, Fault, NoFault
  <2>5. ses' = [ses EXCEPT ![s] = y]
    BY <2>1
  <2> HIDE DEF y
  <2> QED
    BY <1>1, <1>2, <2>2, <2>3, <2>4, <2>5
<1>7. CASE LoopTells(s)
  <2> DEFINE q == [r EXCEPT !.loop = "idle"]
  <2>1. q \in SesRows /\ q.pending = r.pending /\ q.notice = r.notice /\ q.ended = r.ended /\ q.watch = r.watch
    BY <1>1 DEF SesRows
  <2>2. q.at = r.at /\ q.tools = r.tools /\ q.job = r.job /\ q.up = r.up /\ q.snap = r.snap
    BY <1>1 DEF SesRows
  <2>3. UNCHANGED <<passive, upstream, row, holder, current, catFaults>>
        /\ ses' = [ses EXCEPT ![s] = IF q.handler THEN Queued(q, {"tools"}) ELSE q]
    BY <1>7 DEF LoopTells
  <2> HIDE DEF q
  <2>4. /\ Queued(q, {"tools"}) \in SesRows
        /\ Queued(q, {"tools"}).pending = IF q.ended THEN q.pending ELSE q.pending \cup {"tools"}
        /\ Queued(q, {"tools"}) = [q EXCEPT !.pending = Queued(q, {"tools"}).pending]
    BY <2>1, QueuedRow DEF Items
  <2> DEFINE y == Queued(q, {"tools"})
  <2>5. /\ y.at = q.at /\ y.tools = q.tools /\ y.job = q.job /\ y.up = q.up /\ y.snap = q.snap
        /\ y.notice = q.notice /\ y.ended = q.ended /\ y.watch = q.watch /\ q.pending \subseteq y.pending
    BY <2>1, <2>4 DEF SesRows
  <2> HIDE DEF y
  <2>6. CASE q.handler
    <3>1. ses' = [ses EXCEPT ![s] = y] /\ y \in SesRows
      BY <2>3, <2>4, <2>6 DEF y
    <3> QED
      BY <1>1, <1>2, <2>1, <2>2, <2>3, <2>5, <3>1
  <2>7. CASE ~ q.handler
    <3>1. ses' = [ses EXCEPT ![s] = q]
      BY <2>3, <2>7
    <3> QED
      BY <1>1, <1>2, <2>1, <2>2, <2>3, <3>1
  <2> QED
    BY <2>6, <2>7
<1>8. CASE Watch(s)
  <2> DEFINE q == [r EXCEPT !.watch = TRUE]
  <2>1. q \in SesRows /\ q.pending = r.pending /\ q.notice = r.notice /\ q.ended = r.ended /\ q.watch = TRUE
    BY <1>1 DEF SesRows
  <2>2. q.at = r.at /\ q.tools = r.tools /\ q.job = r.job /\ q.up = r.up /\ q.snap = r.snap
    BY <1>1 DEF SesRows
  <2>3. UNCHANGED <<passive, upstream, row, holder, current, catFaults>> /\ r.at = "out"
        /\ ses' = [ses EXCEPT ![s] = Queued(q, {"lists"})]
    BY <1>8 DEF Watch
  <2> HIDE DEF q
  <2>4. /\ Queued(q, {"lists"}) \in SesRows
        /\ Queued(q, {"lists"}).pending = IF q.ended THEN q.pending ELSE q.pending \cup {"lists"}
        /\ Queued(q, {"lists"}) = [q EXCEPT !.pending = Queued(q, {"lists"}).pending]
    BY <2>1, QueuedRow DEF Items
  <2> DEFINE y == Queued(q, {"lists"})
  <2>5. /\ y.at = q.at /\ y.tools = q.tools /\ y.job = q.job /\ y.up = q.up /\ y.snap = q.snap
        /\ y.notice = q.notice /\ y.ended = q.ended /\ y.watch = q.watch /\ (q.ended \/ "lists" \in y.pending)
    BY <2>1, <2>4 DEF SesRows
  <2>6. ses' = [ses EXCEPT ![s] = y] /\ y \in SesRows
    BY <2>3, <2>4
  <2> HIDE DEF y
  <2>7. current = s => OnItsWay(y)
    BY <1>1, <2>1, <2>5 DEF Fits, OnItsWay
  <2>8. Fits(y, s, row, holder, current)
    BY <1>1, <2>1, <2>2, <2>3, <2>5, <2>7 DEF Fits
  <2> QED
    BY <1>1, <2>3, <2>6, <2>8, SessionAlone
<1> QED
  BY <1>3, <1>4, <1>5, <1>6, <1>7, <1>8

\* The goroutine that connects, publishes, caches the row and starts the worker.
LEMMA AttachStep ==
  ASSUME CatInv, NEW s \in Sessions,
         Dial(s) \/ NewSession(s) \/ CatalogRefused(s) \/ CacheRow(s) \/ Observe(s) \/ Leave(s)
  PROVE  CatInv'
<1> DEFINE r == ses[s]
<1>1. /\ r \in SesRows /\ r.snap \in Versions /\ r.tools \in Versions
      /\ upstream["tools"] \in Versions /\ upstream["lists"] \in Versions
      /\ row["tools"] \in Versions /\ row["lists"] \in Versions
      /\ row["tools"] <= upstream["tools"] /\ row["lists"] <= upstream["lists"]
      /\ Fits(r, s, row, holder, current)
  BY SesNow
<1>2. /\ catFaults \in 0 .. MaxFailures /\ MaxFailures \in Nat /\ NoSession \notin Sessions /\ MaxChanges \in Nat
      /\ row \in [Items -> Versions] /\ holder \in Sessions \cup {NoSession} /\ current \in Sessions \cup {NoSession}
      /\ \A i \in Items : row[i] <= upstream[i]
  BY CatalogAssumption DEF CatInv, CatType, CopiesInv
<1>3. CASE Dial(s)
  <2> DEFINE y == [r EXCEPT !.at = "connected", !.up = TRUE, !.snap = upstream["tools"]]
             h == IF passive THEN holder ELSE s
  <2>1. ses' = [ses EXCEPT ![s] = y] /\ holder' = h /\ UNCHANGED <<passive, upstream, row, current, catFaults>>
    BY <1>3 DEF Dial
  <2>2. /\ y \in SesRows /\ y.at = "connected" /\ y.up /\ y.snap = upstream["tools"] /\ y.tools = r.tools
        /\ y.job = r.job /\ y.ended = r.ended /\ y.watch = r.watch
    BY <1>1 DEF SesRows
  <2>3. h \in Sessions \cup {NoSession} /\ (passive \/ (h = s /\ holder = NoSession)) /\ r.at = "free"
    BY <1>2, <1>3 DEF Dial
  <2> HIDE DEF y, h
  <2>4. Fits(y, s, row, h, current)
    BY <1>1, <1>2, <2>2, <2>3 DEF Fits, Versions
  <2> QED
    BY <1>2, <2>1, <2>2, <2>3, <2>4, OneSession
<1>4. CASE NewSession(s)
  <2> DEFINE y == [r EXCEPT !.at = "publish", !.tools = r.snap]
  <2>1. ses' = [ses EXCEPT ![s] = y] /\ holder' = s /\ UNCHANGED <<passive, upstream, row, current, catFaults>>
    BY <1>4 DEF NewSession
  <2>2. /\ y \in SesRows /\ y.at = "publish" /\ y.up = r.up /\ y.snap = r.snap /\ y.tools = r.snap
        /\ y.job = r.job /\ y.ended = r.ended /\ y.watch = r.watch
    BY <1>1 DEF SesRows
  <2>3. r.at = "connected" /\ holder \in {s, NoSession}
    BY <1>4 DEF NewSession
  <2> HIDE DEF y
  <2>4. Fits(y, s, row, s, current)
    BY <1>1, <1>2, <2>2, <2>3 DEF Fits, Versions
  <2> QED
    BY <1>2, <2>1, <2>2, <2>3, <2>4, OneSession
<1>5. CASE CatalogRefused(s)
  <2> DEFINE q == [r EXCEPT !.at = "out"]
             y == Closed(q)
  <2>1. ses' = [ses EXCEPT ![s] = y] /\ holder' = NoSession /\ UNCHANGED <<passive, upstream, row, current>>
    BY <1>5 DEF CatalogRefused
  <2>2. passive /\ r.at = "publish" /\ catFaults' \in 0 .. MaxFailures
    BY <1>2, <1>5 DEF CatalogRefused, Fault, NoFault
  <2>3. /\ q \in SesRows /\ q.at = "out" /\ q.up = r.up /\ q.snap = r.snap /\ q.tools = r.tools
        /\ q.job = r.job /\ q.watch = r.watch
    BY <1>1 DEF SesRows
  <2> HIDE DEF q
  <2>4. /\ y \in SesRows /\ y.at = q.at /\ y.up = FALSE /\ y.snap = q.snap /\ y.tools = q.tools
        /\ y.watch = q.watch /\ y.job = q.job
    BY <2>3, DownRow
  <2> HIDE DEF y
  <2>5. Fits(y, s, row, NoSession, current)
    BY <1>1, <1>2, <2>2, <2>3, <2>4 DEF Fits, Versions
  <2> QED
    BY <1>2, <2>1, <2>2, <2>4, <2>5, OneSession
<1>6. CASE CacheRow(s)
  <2> DEFINE y == [r EXCEPT !.at = "observe"]
  <2>1. ses' = [ses EXCEPT ![s] = y] /\ UNCHANGED <<passive, upstream, holder, current>>
        /\ catFaults' \in 0 .. MaxFailures /\ r.at = "rows"
    BY <1>2, <1>6 DEF CacheRow, Fault, NoFault
  <2>2. /\ y \in SesRows /\ y.at = "observe" /\ y.up = r.up /\ y.snap = r.snap /\ y.tools = r.tools
        /\ y.job = r.job /\ y.ended = r.ended /\ y.watch = r.watch
    BY <1>1 DEF SesRows
  <2>3. PICK w \in [Items -> Versions] : /\ row' = w /\ w["lists"] = row["lists"]
                                         /\ w = row \/ (current = s /\ w["tools"] = r.tools)
    <3>1. CASE row' = row
      BY <1>2, <3>1
    <3>2. CASE row' = [row EXCEPT !["tools"] = r.tools] /\ current = s
      BY <1>1, <1>2, <3>2 DEF Items
    <3> QED
      BY <1>6, <3>1, <3>2 DEF CacheRow, MayWrite
  <2>4. ~ passive /\ holder = s
    BY <1>1, <2>1, CatalogAssumption DEF Fits, CatInv, CatType
  <2>5. r.tools <= upstream["tools"] /\ r.tools <= r.snap
    BY <1>1, <1>2 DEF Fits, Versions
  <2>6. \A i \in Items : w[i] <= upstream[i]
    BY <1>1, <1>2, <2>3, <2>5 DEF Items
  <2> HIDE DEF y
  <2>7. w["tools"] <= r.snap
    BY <1>1, <2>1, <2>3, <2>4, <2>5 DEF Fits
  <2>8. Fits(y, s, w, holder, current)
    BY <1>1, <1>2, <2>1, <2>2, <2>3, <2>4, <2>5, <2>7 DEF Fits, OnItsWay
  <2> QED
    BY <1>2, <2>1, <2>2, <2>3, <2>4, <2>6, <2>8, OneSession
<1>7. CASE Observe(s)
  <2> DEFINE y == [r EXCEPT !.at = "out", !.handler = TRUE]
  <2>1. ses' = [ses EXCEPT ![s] = y] /\ holder' = NoSession /\ UNCHANGED <<passive, upstream, row, current, catFaults>>
        /\ r.at = "observe"
    BY <1>7 DEF Observe
  <2>2. /\ y \in SesRows /\ y.at = "out" /\ y.up = r.up /\ y.snap = r.snap /\ y.tools = r.tools
        /\ y.job = r.job /\ y.ended = r.ended /\ y.watch = r.watch
    BY <1>1 DEF SesRows
  <2>3. passive \/ holder = s
    BY <1>1, <2>1 DEF Fits, CatInv, CatType
  <2> HIDE DEF y
  <2>4. Fits(y, s, row, NoSession, current)
    BY <1>1, <1>2, <2>1, <2>2 DEF Fits, Versions
  <2> QED
    BY <1>2, <2>1, <2>2, <2>3, <2>4, OneSession
<1>8. CASE Leave(s)
  <2> DEFINE y == Closed(r)
  <2>1. ses' = [ses EXCEPT ![s] = y] /\ current' = NoSession /\ UNCHANGED <<passive, upstream, row, holder, catFaults>>
        /\ current = s
    BY <1>8 DEF Leave
  <2>2. /\ y \in SesRows /\ y.at = r.at /\ y.up = FALSE /\ y.snap = r.snap /\ y.tools = r.tools
        /\ y.watch = r.watch /\ y.job = r.job
    BY <1>1, DownRow
  <2> HIDE DEF y
  <2>3. Fits(y, s, row, holder, NoSession)
    BY <1>1, <1>2, <2>1, <2>2 DEF Fits, Versions
  <2> QED
    BY <1>2, <2>1, <2>2, <2>3, OneSession
<1> QED
  BY <1>3, <1>4, <1>5, <1>6, <1>7, <1>8

\* The worker takes what is pending, a user refreshes by hand, and both write the
\* tools and fetch the lists.
LEMMA RefreshStep ==
  ASSUME CatInv, NEW s \in Sessions, TakePending(s) \/ UserRefresh(s) \/ SyncTools(s) \/ Fetch(s)
  PROVE  CatInv'
<1> DEFINE r == ses[s]
<1>1. /\ r \in SesRows /\ r.snap \in Versions /\ r.tools \in Versions /\ r.job \in JobRows /\ r.job.got \in Versions
      /\ upstream["tools"] \in Versions /\ upstream["lists"] \in Versions
      /\ row["tools"] \in Versions /\ row["lists"] \in Versions
      /\ row["tools"] <= upstream["tools"] /\ row["lists"] <= upstream["lists"]
      /\ Fits(r, s, row, holder, current)
  BY SesNow
<1>2. /\ catFaults \in 0 .. MaxFailures /\ MaxFailures \in Nat /\ NoSession \notin Sessions /\ MaxChanges \in Nat
      /\ row \in [Items -> Versions] /\ holder \in Sessions \cup {NoSession} /\ current \in Sessions \cup {NoSession}
      /\ \A i \in Items : row[i] <= upstream[i]
  BY CatalogAssumption DEF CatInv, CatType, CopiesInv
<1>3. /\ NoJob \in JobRows /\ NoJob.at = "none" /\ NoJob.of = "none" /\ NoJob.got = 0 /\ 0 \in Versions
      /\ 0 <= upstream["lists"]
  BY <1>1, <1>2, NoJobRow DEF NoJob, Versions
\* A step that changes the job, what is pending and the adapter's tools only.
<1>4. ASSUME NEW y \in SesRows, ses' = [ses EXCEPT ![s] = y],
             UNCHANGED <<passive, upstream, row, holder, current>>, catFaults' \in 0 .. MaxFailures,
             y.at = r.at, y.ended = r.ended, y.tools = r.tools, y.up = r.up, y.watch = r.watch,
             y.snap \in {r.snap, upstream["tools"]},
             y.job.got \in {0, r.job.got, upstream["lists"]},
             y.job.at = "write" => y.job.got = upstream["lists"],
             y.job = NoJob \/ r.at \notin {"free", "connected", "publish"},
             current = s /\ r.up /\ r.watch /\ OnItsWay(r) => OnItsWay(y)
      PROVE  CatInv'
  <2>1. r.tools <= upstream["tools"]
    BY <1>1, <1>2 DEF Fits, Versions
  <2>2. /\ y.snap <= upstream["tools"] /\ y.tools <= y.snap /\ y.job.got <= upstream["lists"]
        /\ current = s => row["tools"] <= y.snap /\ ~ y.ended
        /\ current = s /\ y.job.at = "write" => row["lists"] <= y.job.got
    BY <1>1, <1>2, <1>3, <1>4, <2>1 DEF Fits, Versions
  <2>3. /\ y.at \in {"free", "connected", "publish"} => current # s /\ y.job = NoJob /\ ~ y.ended
        /\ y.at # "out" => ~ y.watch
        /\ passive => y.at # "rows"
        /\ ~ passive /\ y.at \in {"connected", "publish", "rows", "observe"} => holder = s
    BY <1>1, <1>4 DEF Fits
  <2>4. /\ ~ passive /\ y.at \in {"connected", "publish", "rows"} => row["tools"] <= y.snap
        /\ ~ passive /\ y.at \in {"publish", "rows"} => row["tools"] <= y.tools
        /\ current = s /\ y.up /\ y.watch => row["lists"] = upstream["lists"] \/ OnItsWay(y)
    BY <1>1, <1>2, <1>4 DEF Fits, Versions
  <2>5. Fits(y, s, row, holder, current)
    BY <2>2, <2>3, <2>4 DEF Fits
  <2> QED
    BY <1>4, <2>5, SessionAlone
<1>5. CASE TakePending(s)
  <2>1. /\ UNCHANGED <<passive, upstream, row, holder, current, catFaults>> /\ r.job = NoJob /\ r.watch
        /\ r.at = "out"
    BY <1>1, <1>5 DEF TakePending, Fits
  <2> DEFINE j == IF MayWrite(s) THEN [NoJob EXCEPT !.of = "worker", !.at = "tools", !.items = r.pending] ELSE NoJob
             y == [r EXCEPT !.pending = {}, !.job = j]
  <2>2. /\ j \in JobRows /\ j.got = 0 /\ j.at \in {"none", "tools"}
        /\ MayWrite(s) => j.of = "worker" /\ j.at = "tools" /\ j.items = r.pending
    BY <1>1, <1>3 DEF JobRows, SesRows, NoJob
  <2>3. ses' = [ses EXCEPT ![s] = y]
    BY <1>5 DEF TakePending
  <2> HIDE DEF j
  <2>4. /\ y \in SesRows /\ y.at = r.at /\ y.up = r.up /\ y.snap = r.snap /\ y.tools = r.tools
        /\ y.job = j /\ y.ended = r.ended /\ y.watch = r.watch /\ y.notice = r.notice
    BY <1>1, <2>2 DEF SesRows
  <2> HIDE DEF y
  <2>5. current = s /\ r.up /\ OnItsWay(r) => OnItsWay(y)
    BY <1>3, <2>1, <2>2, <2>4 DEF OnItsWay, MayWrite
  <2> QED
    BY <1>2, <1>4, <2>1, <2>2, <2>3, <2>4, <2>5
<1>6. CASE UserRefresh(s)
  <2>1. UNCHANGED <<passive, upstream, row, holder, current, catFaults>> /\ r.job = NoJob /\ current = s
    BY <1>6 DEF UserRefresh
  <2> DEFINE j == [NoJob EXCEPT !.of = "user", !.at = "tools", !.items = Items]
             y == [r EXCEPT !.snap = upstream["tools"], !.job = j]
  <2>2. j \in JobRows /\ j.got = 0 /\ j.at = "tools"
    BY <1>3 DEF JobRows, NoJob
  <2>3. ses' = [ses EXCEPT ![s] = y]
    BY <1>6 DEF UserRefresh
  <2> HIDE DEF j
  <2>4. /\ y \in SesRows /\ y.at = r.at /\ y.up = r.up /\ y.snap = upstream["tools"] /\ y.tools = r.tools
        /\ y.job = j /\ y.ended = r.ended /\ y.watch = r.watch /\ y.notice = r.notice /\ y.pending = r.pending
    BY <1>1, <2>2 DEF SesRows
  <2> HIDE DEF y
  <2>5. OnItsWay(r) => OnItsWay(y)
    BY <1>3, <2>1, <2>4 DEF OnItsWay
  <2>6. r.at \notin {"free", "connected", "publish"}
    BY <1>1, <2>1 DEF Fits
  <2> QED
    BY <1>2, <1>4, <2>1, <2>2, <2>3, <2>4, <2>5, <2>6
<1>7. CASE SyncTools(s)
  <2>1. /\ UNCHANGED <<passive, upstream, holder, current>> /\ r.job.at = "tools" /\ holder = NoSession
        /\ catFaults' \in 0 .. MaxFailures
    BY <1>2, <1>7 DEF SyncTools, Fault, NoFault
  <2>2. r.at \notin {"free", "connected", "publish"}
    BY <1>1, <1>3, <2>1 DEF Fits
  <2>3. CASE /\ current = s /\ row' = [row EXCEPT !["tools"] = r.snap]
             /\ ses' = [ses EXCEPT ![s].tools = r.snap, ![s].job.at = "fetch"]
    <3> DEFINE j == [r.job EXCEPT !.at = "fetch"]
               y == [r EXCEPT !.tools = r.snap, !.job = j]
    <3>1. j \in JobRows /\ j.got = r.job.got /\ j.at = "fetch" /\ j.of = r.job.of /\ j.items = r.job.items
      BY <1>1 DEF JobRows
    <3>2. ses' = [ses EXCEPT ![s] = y]
      BY <1>1, <2>3 DEF SesRows
    <3> HIDE DEF j
    <3>3. /\ y \in SesRows /\ y.at = r.at /\ y.up = r.up /\ y.snap = r.snap /\ y.tools = r.snap
          /\ y.job = j /\ y.ended = r.ended /\ y.watch = r.watch /\ y.notice = r.notice /\ y.pending = r.pending
      BY <1>1, <3>1 DEF SesRows
    <3> HIDE DEF y
    <3>4. OnItsWay(r) => OnItsWay(y)
      BY <2>1, <3>1, <3>3 DEF OnItsWay
    <3>5. PICK w \in [Items -> Versions] : row' = w /\ w["tools"] = r.snap /\ w["lists"] = row["lists"]
      BY <1>1, <1>2, <2>3 DEF Items
    <3>6. \A i \in Items : w[i] <= upstream[i]
      BY <1>1, <3>5 DEF Items, Fits
    <3>7. ~ passive => r.at \notin {"connected", "publish", "rows", "observe"}
      BY <1>1, <1>2, <2>1 DEF Fits
    <3>8. Fits(y, s, w, holder, current)
      BY <1>1, <1>2, <2>2, <2>3, <3>1, <3>3, <3>4, <3>5, <3>7 DEF Fits, Versions
    <3> QED
      BY <1>2, <2>1, <2>3, <3>2, <3>3, <3>5, <3>6, <3>8, OneSession
  <2>4. CASE UNCHANGED row /\ ses' = [ses EXCEPT ![s].job.at = "fetch", ![s].job.retry = {"tools"}]
             /\ r.job.of = "worker"
    <3> DEFINE j == [r.job EXCEPT !.at = "fetch", !.retry = {"tools"}]
               y == [r EXCEPT !.job = j]
    <3>1. j \in JobRows /\ j.got = r.job.got /\ j.at = "fetch" /\ j.of = r.job.of /\ j.items = r.job.items
      BY <1>1 DEF JobRows, Items
    <3>2. ses' = [ses EXCEPT ![s] = y]
      BY <1>1, <2>4 DEF SesRows
    <3> HIDE DEF j
    <3>3. /\ y \in SesRows /\ y.at = r.at /\ y.up = r.up /\ y.snap = r.snap /\ y.tools = r.tools
          /\ y.job = j /\ y.ended = r.ended /\ y.watch = r.watch /\ y.notice = r.notice /\ y.pending = r.pending
      BY <1>1, <3>1 DEF SesRows
    <3> HIDE DEF y
    <3>4. OnItsWay(r) => OnItsWay(y)
      BY <2>1, <3>1, <3>3 DEF OnItsWay
    <3> QED
      BY <1>4, <2>1, <2>2, <2>4, <3>1, <3>2, <3>3, <3>4
  <2>5. CASE UNCHANGED row /\ ses' = [ses EXCEPT ![s].job.at = "fetch"] /\ r.job.of = "worker"
    <3> DEFINE j == [r.job EXCEPT !.at = "fetch"]
               y == [r EXCEPT !.job = j]
    <3>1. j \in JobRows /\ j.got = r.job.got /\ j.at = "fetch" /\ j.of = r.job.of /\ j.items = r.job.items
      BY <1>1 DEF JobRows
    <3>2. ses' = [ses EXCEPT ![s] = y]
      BY <1>1, <2>5 DEF SesRows
    <3> HIDE DEF j
    <3>3. /\ y \in SesRows /\ y.at = r.at /\ y.up = r.up /\ y.snap = r.snap /\ y.tools = r.tools
          /\ y.job = j /\ y.ended = r.ended /\ y.watch = r.watch /\ y.notice = r.notice /\ y.pending = r.pending
      BY <1>1, <3>1 DEF SesRows
    <3> HIDE DEF y
    <3>4. OnItsWay(r) => OnItsWay(y)
      BY <2>1, <3>1, <3>3 DEF OnItsWay
    <3> QED
      BY <1>4, <2>1, <2>2, <2>5, <3>1, <3>2, <3>3, <3>4
  <2>6. CASE UNCHANGED row /\ ses' = [ses EXCEPT ![s].job = NoJob] /\ r.job.of # "worker"
    <3> DEFINE y == [r EXCEPT !.job = NoJob]
    <3>1. ses' = [ses EXCEPT ![s] = y]
      BY <1>1, <2>6 DEF SesRows
    <3>2. /\ y \in SesRows /\ y.at = r.at /\ y.up = r.up /\ y.snap = r.snap /\ y.tools = r.tools
          /\ y.job = NoJob /\ y.ended = r.ended /\ y.watch = r.watch /\ y.notice = r.notice /\ y.pending = r.pending
      BY <1>1, <1>3 DEF SesRows
    <3> HIDE DEF y
    <3>3. OnItsWay(r) => OnItsWay(y)
      BY <2>6, <3>2 DEF OnItsWay
    <3> QED
      BY <1>3, <1>4, <2>1, <2>2, <2>6, <3>1, <3>2, <3>3
  <2> QED
    BY <1>7, <2>3, <2>4, <2>5, <2>6 DEF SyncTools, MayWrite, ToolsFailed
<1>8. CASE Fetch(s)
  <2>1. /\ UNCHANGED <<passive, upstream, row, holder, current>> /\ r.job.at = "fetch"
        /\ catFaults' \in 0 .. MaxFailures
    BY <1>2, <1>8 DEF Fetch, Fault, NoFault
  <2>2. r.at \notin {"free", "connected", "publish"}
    BY <1>1, <1>3, <2>1 DEF Fits
  <2>3. CASE ses' = [ses EXCEPT ![s].job.got = upstream["lists"], ![s].job.at = "write"]
    <3> DEFINE j == [r.job EXCEPT !.got = upstream["lists"], !.at = "write"]
               y == [r EXCEPT !.job = j]
    <3>1. /\ j \in JobRows /\ j.got = upstream["lists"] /\ j.at = "write" /\ j.of = r.job.of
          /\ j.items = r.job.items
      BY <1>1 DEF JobRows
    <3>2. ses' = [ses EXCEPT ![s] = y]
      BY <1>1, <2>3 DEF SesRows
    <3> HIDE DEF j
    <3>3. /\ y \in SesRows /\ y.at = r.at /\ y.up = r.up /\ y.snap = r.snap /\ y.tools = r.tools
          /\ y.job = j /\ y.ended = r.ended /\ y.watch = r.watch /\ y.notice = r.notice /\ y.pending = r.pending
      BY <1>1, <3>1 DEF SesRows
    <3> HIDE DEF y
    <3>4. OnItsWay(r) => OnItsWay(y)
      BY <2>1, <3>1, <3>3 DEF OnItsWay
    <3> QED
      BY <1>4, <2>1, <2>2, <3>1, <3>2, <3>3, <3>4
  <2>4. ASSUME NEW F \in SUBSET Items, ses' = [ses EXCEPT ![s] = JobDone(r, F)],
               "lists" \in F \/ "lists" \notin r.job.items
        PROVE  CatInv'
    <3> DEFINE y == JobDone(r, F)
    <3>1. /\ y \in SesRows /\ y.job = NoJob
          /\ y.at = r.at /\ y.up = r.up /\ y.ended = r.ended /\ y.notice = r.notice /\ y.snap = r.snap
          /\ y.tools = r.tools /\ y.watch = r.watch
          /\ r.pending \subseteq y.pending
          /\ r.job.of = "worker" /\ ~ r.ended => F \subseteq y.pending
      BY <1>1, JobDoneRow
    <3>2. ses' = [ses EXCEPT ![s] = y]
      BY <2>4
    <3> HIDE DEF y
    <3>3. current = s => ~ r.ended
      BY <1>1 DEF Fits
    <3>4. current = s /\ OnItsWay(r) => OnItsWay(y)
      BY <2>4, <3>1, <3>3 DEF OnItsWay
    <3> QED
      BY <1>3, <1>4, <2>1, <3>1, <3>2, <3>4
  <2>5. {"lists"} \in SUBSET Items /\ r.job.items \in SUBSET Items
    BY <1>1 DEF JobRows, Items
  <2> QED
    BY <1>8, <2>3, <2>4, <2>5 DEF Fetch
<1> QED
  BY <1>5, <1>6, <1>7, <1>8

\* The fetched lists are written, or queued again.
LEMMA ListsWritten == ASSUME CatInv, NEW s \in Sessions, WriteLists(s) PROVE CatInv'
<1> DEFINE r == ses[s]
<1>1. /\ r \in SesRows /\ r.snap \in Versions /\ r.tools \in Versions /\ r.job.got \in Versions
      /\ upstream["tools"] \in Versions /\ upstream["lists"] \in Versions
      /\ row["tools"] \in Versions /\ row["lists"] \in Versions
      /\ row["tools"] <= upstream["tools"] /\ row["lists"] <= upstream["lists"]
      /\ Fits(r, s, row, holder, current)
  BY SesNow
<1>2. /\ catFaults \in 0 .. MaxFailures /\ MaxFailures \in Nat /\ MaxChanges \in Nat /\ NoSession \notin Sessions
      /\ row \in [Items -> Versions] /\ holder \in Sessions \cup {NoSession} /\ current \in Sessions \cup {NoSession}
      /\ \A i \in Items : row[i] <= upstream[i]
  BY CatalogAssumption DEF CatInv, CatType, CopiesInv
<1>3. /\ UNCHANGED <<passive, upstream, holder, current>> /\ r.job.at = "write" /\ holder = NoSession
      /\ catFaults' \in 0 .. MaxFailures
  BY <1>2 DEF WriteLists, Fault, NoFault
<1>4. ASSUME NEW F \in SUBSET Items, NEW w \in [Items -> Versions],
             ses' = [ses EXCEPT ![s] = JobDone(r, F)], row' = w, w["tools"] = row["tools"],
             (w = row /\ "lists" \in F) \/ (current = s /\ w["lists"] = r.job.got)
      PROVE  CatInv'
  <2> DEFINE y == JobDone(r, F)
  <2>1. /\ y \in SesRows /\ y.job = NoJob
        /\ y.at = r.at /\ y.up = r.up /\ y.ended = r.ended /\ y.notice = r.notice /\ y.snap = r.snap
        /\ y.tools = r.tools /\ y.watch = r.watch
        /\ r.pending \subseteq y.pending
        /\ r.job.of = "worker" /\ ~ r.ended => F \subseteq y.pending
    BY <1>1, JobDoneRow
  <2>2. ses' = [ses EXCEPT ![s] = y]
    BY <1>4
  <2> HIDE DEF y
  <2>3. NoJob.got = 0 /\ NoJob.at = "none" /\ 0 <= upstream["lists"]
    BY <1>1, <1>2 DEF NoJob, Versions
  <2>4. r.job.got <= upstream["lists"] /\ (current = s => ~ r.ended /\ row["lists"] <= r.job.got)
    BY <1>1, <1>3 DEF Fits
  <2>5. \A i \in Items : w[i] <= upstream[i]
    BY <1>1, <1>2, <1>4, <2>4 DEF Items
  <2>6. current = s /\ y.up /\ y.watch => w["lists"] = upstream["lists"] \/ OnItsWay(y)
    <3> SUFFICES ASSUME current = s, y.up, y.watch PROVE w["lists"] = upstream["lists"] \/ OnItsWay(y)
      OBVIOUS
    <3>1. CASE row["lists"] = upstream["lists"]
      BY <1>1, <1>2, <1>4, <2>4, <3>1 DEF Versions
    <3>2. CASE OnItsWay(r)
      BY <1>3, <1>4, <2>1, <2>4, <3>2 DEF OnItsWay
    <3> QED
      BY <1>1, <2>1, <3>1, <3>2 DEF Fits
  <2>7. /\ y.snap <= upstream["tools"] /\ y.tools <= y.snap /\ y.job.got <= upstream["lists"]
        /\ current = s => w["tools"] <= y.snap /\ ~ y.ended
        /\ current = s /\ y.job.at = "write" => w["lists"] <= y.job.got
    BY <1>1, <1>4, <2>1, <2>3 DEF Fits
  <2>8. /\ y.at \in {"free", "connected", "publish"} => current # s /\ y.job = NoJob /\ ~ y.ended
        /\ y.at # "out" => ~ y.watch
        /\ passive => y.at # "rows"
        /\ ~ passive /\ y.at \in {"connected", "publish", "rows", "observe"} => holder = s
        /\ ~ passive /\ y.at \in {"connected", "publish", "rows"} => w["tools"] <= y.snap
        /\ ~ passive /\ y.at \in {"publish", "rows"} => w["tools"] <= y.tools
    BY <1>1, <1>4, <2>1 DEF Fits
  <2>9. Fits(y, s, w, holder, current)
    BY <2>6, <2>7, <2>8 DEF Fits
  <2> QED
    BY <1>2, <1>3, <1>4, <2>1, <2>2, <2>5, <2>9, OneSession
<1>5. CASE row' = row /\ ses' = [ses EXCEPT ![s] = JobDone(r, {"lists"})]
  BY <1>2, <1>4, <1>5 DEF Items
<1>6. CASE current = s /\ row' = [row EXCEPT !["lists"] = r.job.got] /\ ses' = [ses EXCEPT ![s] = JobDone(r, {})]
  <2>1. PICK w \in [Items -> Versions] : row' = w /\ w["lists"] = r.job.got /\ w["tools"] = row["tools"]
    BY <1>1, <1>2, <1>6 DEF Items
  <2> QED
    BY <1>4, <1>6, <2>1
<1> QED
  BY <1>5, <1>6 DEF WriteLists, MayWrite

\* A publication: the new session takes the key and the old one is closed.
LEMMA PublicationStep == ASSUME CatInv, NEW s \in Sessions, PublishSession(s) PROVE CatInv'
<1> DEFINE r == ses[s]
<1>1. /\ r \in SesRows /\ r.snap \in Versions /\ r.tools \in Versions
      /\ upstream["tools"] \in Versions /\ row["tools"] \in Versions
      /\ row["tools"] <= upstream["tools"] /\ Fits(r, s, row, holder, current)
  BY SesNow
<1>2. /\ row \in [Items -> Versions] /\ ses \in [Sessions -> SesRows] /\ NoSession \notin Sessions /\ MaxChanges \in Nat
      /\ holder \in Sessions \cup {NoSession} /\ current \in Sessions \cup {NoSession}
      /\ \A i \in Items : row[i] <= upstream[i]
  BY CatalogAssumption DEF CatInv, CatType, CopiesInv
<1>3. /\ r.at = "publish" /\ current' = s /\ current # s /\ r.job = NoJob /\ ~ r.ended /\ ~ r.watch
      /\ UNCHANGED <<passive, upstream, holder, catFaults>>
  BY <1>1 DEF PublishSession, Fits
<1>4. PICK w \in [Items -> Versions] :
        row' = w /\ w["lists"] = row["lists"] /\ w["tools"] = IF passive THEN r.tools ELSE row["tools"]
  BY <1>1, <1>2 DEF PublishSession, Items
<1>5. r.tools <= r.snap /\ r.snap <= upstream["tools"] /\ w["tools"] <= r.snap /\ w["tools"] <= upstream["tools"]
  BY <1>1, <1>2, <1>3, <1>4 DEF Fits, Versions
<1>6. \A i \in Items : w[i] <= upstream[i]
  BY <1>2, <1>4, <1>5 DEF Items
<1>7. ~ passive => \A t \in Sessions \ {s} : ses[t].at \notin {"connected", "publish", "rows", "observe"}
  BY <1>1, <1>3 DEF Fits, CatInv, EarlyInv
<1> DEFINE at == IF passive THEN "observe" ELSE "rows"
           y == [r EXCEPT !.at = at]
           g == [t \in Sessions |-> IF t = s THEN y ELSE IF t = current THEN Closed(ses[t]) ELSE ses[t]]
<1>8. at \in {"observe", "rows"} /\ (passive => at # "rows") /\ ses' = g
  BY DEF PublishSession
<1> HIDE DEF at
<1>9. /\ y \in SesRows /\ y.at = at /\ y.up = r.up /\ y.snap = r.snap /\ y.tools = r.tools
      /\ y.job = r.job /\ y.ended = r.ended /\ y.watch = r.watch
  BY <1>1, <1>8 DEF SesRows
<1> HIDE DEF y
<1>10. ASSUME NEW t \in Sessions \ {s}
       PROVE  /\ g[t] \in SesRows /\ g[t].at = ses[t].at /\ g[t].snap = ses[t].snap /\ g[t].tools = ses[t].tools
              /\ g[t].job = ses[t].job /\ g[t].watch = ses[t].watch
              /\ (g[t].ended => ses[t].ended \/ t = current)
  <2>1. ses[t] \in SesRows
    BY <1>2
  <2> QED
    BY <2>1, DownRow
<1>11. g \in [Sessions -> SesRows] /\ g[s] = y
  BY <1>9, <1>10
<1> HIDE DEF g
<1>12. CatType'
  BY <1>2, <1>3, <1>4, <1>8, <1>11 DEF CatInv, CatType
<1>13. CopiesInv'
  <2>1. ASSUME NEW t \in Sessions
        PROVE  /\ g[t].snap <= upstream["tools"] /\ g[t].tools <= g[t].snap /\ g[t].job.got <= upstream["lists"]
               /\ s = t => w["tools"] <= g[t].snap /\ ~ g[t].ended
               /\ s = t /\ g[t].job.at = "write" => w["lists"] <= g[t].job.got
    <3>1. CASE t = s
      BY <1>1, <1>3, <1>5, <1>9, <1>11, <3>1 DEF Fits, NoJob
    <3>2. CASE t # s
      BY <1>10, <3>2 DEF CatInv, CopiesInv
    <3> QED
      BY <3>1, <3>2
  <2> QED
    BY <1>3, <1>4, <1>6, <1>8, <2>1 DEF CopiesInv
<1>14. EarlyInv'
  <2>1. ASSUME NEW t \in Sessions
        PROVE  /\ g[t].at \in {"free", "connected", "publish"} => s # t /\ g[t].job = NoJob /\ ~ g[t].ended
               /\ g[t].at # "out" => ~ g[t].watch
               /\ passive => g[t].at # "rows"
               /\ ~ passive /\ g[t].at \in {"connected", "publish", "rows", "observe"} => holder = t
               /\ ~ passive /\ g[t].at \in {"connected", "publish", "rows"} => w["tools"] <= g[t].snap
               /\ ~ passive /\ g[t].at \in {"publish", "rows"} => w["tools"] <= g[t].tools
    <3>1. CASE t = s
      <4>1. ~ passive => holder = s /\ w["tools"] <= r.tools
        BY <1>1, <1>3, <1>4 DEF Fits
      <4> QED
        BY <1>3, <1>5, <1>8, <1>9, <1>11, <3>1, <4>1
    <3>2. CASE t # s
      BY <1>7, <1>10, <3>2 DEF CatInv, EarlyInv
    <3> QED
      BY <3>1, <3>2
  <2> QED
    BY <1>3, <1>4, <1>8, <2>1 DEF EarlyInv, NoJob
<1>15. NewsInv'
  BY <1>3, <1>8, <1>9, <1>11 DEF NewsInv
<1> QED
  BY <1>12, <1>13, <1>14, <1>15 DEF CatInv

\* A change of a list is on its way as soon as it happens.
LEMMA ChangeStep == ASSUME CatInv, NEW i \in Items, Change(i) PROVE CatInv'
<1>1. /\ UNCHANGED <<passive, row, current, holder, catFaults>> /\ upstream[i] < MaxChanges
      /\ upstream' = [upstream EXCEPT ![i] = upstream[i] + 1]
      /\ ses' = [s \in Sessions |-> IF ses[s].up THEN [ses[s] EXCEPT !.notice = ses[s].notice \cup {i}] ELSE ses[s]]
  BY DEF Change
<1>2. upstream \in [Items -> Versions] /\ row \in [Items -> Versions] /\ ses \in [Sessions -> SesRows] /\ MaxChanges \in Nat
  BY CatalogAssumption DEF CatInv, CatType
<1>3. PICK u \in [Items -> Versions] :
        upstream' = u /\ u[i] = upstream[i] + 1 /\ \A j \in Items \ {i} : u[j] = upstream[j]
  <2> DEFINE v == [upstream EXCEPT ![i] = upstream[i] + 1]
  <2>1. upstream[i] \in Versions
    BY <1>2
  <2>2. upstream[i] + 1 \in Versions
    BY <1>1, <1>2, <2>1 DEF Versions
  <2>3. v \in [Items -> Versions] /\ v[i] = upstream[i] + 1 /\ \A j \in Items \ {i} : v[j] = upstream[j]
    BY <1>2, <2>2
  <2> QED
    BY <1>1, <2>3
<1>4. \A j \in Items : upstream[j] <= u[j]
  BY <1>2, <1>3 DEF Versions
<1>5. ASSUME NEW s \in Sessions
      PROVE  /\ ses'[s] \in SesRows /\ ses'[s].at = ses[s].at /\ ses'[s].up = ses[s].up /\ ses'[s].ended = ses[s].ended
             /\ ses'[s].snap = ses[s].snap /\ ses'[s].tools = ses[s].tools /\ ses'[s].watch = ses[s].watch
             /\ ses'[s].job = ses[s].job /\ ses'[s].pending = ses[s].pending
             /\ ses[s].notice \subseteq ses'[s].notice /\ (ses[s].up => i \in ses'[s].notice)
  BY <1>1, <1>2 DEF SesRows
<1>6. ses' \in [Sessions -> SesRows]
  BY <1>1, <1>5
<1>7. CatType'
  BY <1>1, <1>2, <1>3, <1>6 DEF CatInv, CatType
<1>8. CopiesInv'
  <2>1. ASSUME NEW j \in Items PROVE row[j] <= u[j]
    <3>1. row[j] \in Versions /\ upstream[j] \in Versions /\ u[j] \in Versions /\ row[j] <= upstream[j]
      BY <1>2 DEF CatInv, CopiesInv
    <3> QED
      BY <1>2, <1>4, <3>1 DEF Versions
  <2>2. ASSUME NEW s \in Sessions
        PROVE  /\ ses'[s].snap <= u["tools"] /\ ses'[s].tools <= ses'[s].snap /\ ses'[s].job.got <= u["lists"]
               /\ current = s => row["tools"] <= ses'[s].snap /\ ~ ses'[s].ended
               /\ current = s /\ ses'[s].job.at = "write" => row["lists"] <= ses'[s].job.got
    <3>1. ses[s].snap \in Versions /\ ses[s].job.got \in Versions /\ u["tools"] \in Versions /\ u["lists"] \in Versions
          /\ upstream["tools"] \in Versions /\ upstream["lists"] \in Versions
          /\ upstream["tools"] <= u["tools"] /\ upstream["lists"] <= u["lists"]
      BY <1>4, SesNow DEF Items
    <3>2. /\ ses[s].snap <= upstream["tools"] /\ ses[s].tools <= ses[s].snap /\ ses[s].job.got <= upstream["lists"]
          /\ current = s => row["tools"] <= ses[s].snap /\ ~ ses[s].ended
          /\ current = s /\ ses[s].job.at = "write" => row["lists"] <= ses[s].job.got
      BY DEF CatInv, CopiesInv
    <3> QED
      BY <1>2, <1>5, <3>1, <3>2 DEF Versions
  <2> QED
    BY <1>1, <1>3, <2>1, <2>2 DEF CopiesInv
<1>9. EarlyInv'
  BY <1>1, <1>5 DEF CatInv, EarlyInv, NoJob
<1>10. NewsInv'
  <2>1. ASSUME NEW s \in Sessions, current = s, ses'[s].up, ses'[s].watch
        PROVE  row["lists"] = u["lists"] \/ "lists" \in ses'[s].notice \cup ses'[s].pending
               \/ /\ ses'[s].job.of = "worker" /\ "lists" \in ses'[s].job.items
                  /\ ses'[s].job.at \in {"tools", "fetch"} \/ (ses'[s].job.at = "write" /\ ses'[s].job.got = u["lists"])
    <3>1. CASE i = "lists"
      BY <1>5, <2>1, <3>1
    <3>2. CASE i # "lists"
      <4>1. u["lists"] = upstream["lists"]
        BY <1>3, <3>2 DEF Items
      <4>2. row["lists"] = upstream["lists"] \/ OnItsWay(ses[s])
        BY <1>5, <2>1 DEF CatInv, NewsInv
      <4> QED
        BY <1>5, <4>1, <4>2 DEF OnItsWay
    <3> QED
      BY <3>1, <3>2
  <2> QED
    BY <1>1, <1>3, <2>1 DEF NewsInv, OnItsWay
<1> QED
  BY <1>7, <1>8, <1>9, <1>10 DEF CatInv

\* Every step keeps the invariant.
LEMMA CatStep == CatInv /\ [CatalogNext]_catalogVars => CatInv'
<1> SUFFICES ASSUME CatInv, [CatalogNext]_catalogVars PROVE CatInv'
  OBVIOUS
<1>1. CASE UNCHANGED catalogVars
  BY <1>1 DEF catalogVars, CatInv, CatType, CopiesInv, EarlyInv, NewsInv, OnItsWay
<1>2. ASSUME NEW s \in Sessions,
             \/ Dial(s) \/ Lose(s) \/ (\E i \in Items : Receive(s, i))
             \/ LoopTakes(s) \/ LoopLists(s) \/ LoopTells(s)
             \/ NewSession(s) \/ PublishSession(s) \/ CatalogRefused(s) \/ CacheRow(s) \/ Observe(s)
             \/ Leave(s) \/ Watch(s) \/ TakePending(s) \/ UserRefresh(s)
             \/ SyncTools(s) \/ Fetch(s) \/ WriteLists(s)
      PROVE  CatInv'
  <2>1. CASE \/ Lose(s) \/ (\E i \in Items : Receive(s, i)) \/ LoopTakes(s) \/ LoopLists(s) \/ LoopTells(s)
             \/ Watch(s)
    BY <2>1, ConnectionStep
  <2>2. CASE Dial(s) \/ NewSession(s) \/ CatalogRefused(s) \/ CacheRow(s) \/ Observe(s) \/ Leave(s)
    BY <2>2, AttachStep
  <2>3. CASE TakePending(s) \/ UserRefresh(s) \/ SyncTools(s) \/ Fetch(s)
    BY <2>3, RefreshStep
  <2>4. CASE PublishSession(s) \/ WriteLists(s)
    BY <2>4, PublicationStep, ListsWritten
  <2> QED
    BY <1>2, <2>1, <2>2, <2>3, <2>4
<1>3. ASSUME NEW i \in Items, Change(i) PROVE CatInv'
  BY <1>3, ChangeStep
<1> QED
  BY <1>1, <1>2, <1>3 DEF CatalogNext

\* Before the first connection it holds.
LEMMA CatStart == CatalogInit => CatInv
<1> SUFFICES ASSUME CatalogInit PROVE CatInv
  OBVIOUS
<1>1. /\ upstream = [i \in Items |-> 0] /\ row = [i \in Items |-> 0] /\ current = NoSession /\ holder = NoSession
      /\ ses = [s \in Sessions |-> NewSes] /\ catFaults = 0 /\ passive \in BOOLEAN
  BY DEF CatalogInit
<1>2. 0 \in Versions /\ 0 \in 0 .. MaxFailures /\ NoSession \notin Sessions
  BY CatalogAssumption DEF Versions
<1>3. /\ NewSes \in SesRows /\ NewSes.at = "free" /\ NewSes.job = NoJob /\ ~ NewSes.ended /\ ~ NewSes.watch
      /\ NewSes.snap = 0 /\ NewSes.tools = 0 /\ NoJob.got = 0
  BY <1>2, NoJobRow DEF NewSes, SesRows, NoJob
<1>4. upstream["tools"] = 0 /\ upstream["lists"] = 0
  BY <1>1 DEF Items
<1>5. \A s \in Sessions : ses[s] = NewSes /\ current # s
  BY <1>1, <1>2
<1> HIDE DEF NewSes
<1>6. CatType
  BY <1>1, <1>2, <1>3 DEF CatType
<1>7. CopiesInv
  BY <1>1, <1>3, <1>4, <1>5 DEF CopiesInv
<1>8. EarlyInv
  BY <1>3, <1>5 DEF EarlyInv
<1>9. NewsInv
  BY <1>5 DEF NewsInv
<1> QED
  BY <1>6, <1>7, <1>8, <1>9 DEF CatInv

\* A change of the resources or prompts is never forgotten, however connections
\* come and go, requests fail and refreshes cross.
THEOREM ListsKept == CatalogSpec => []ListsSettled
<1>1. CatInv => ListsSettled
  BY DEF CatInv, NewsInv, ListsSettled, Settled, OnItsWay, NoJob
<1> QED
  BY <1>1, CatStart, CatStep, PTL DEF CatalogSpec

\* What a step may take back from the row.
LEMMA BackStep ==
  ASSUME CatInv, CatalogNext, NEW i \in Items, row'[i] < row[i]
  PROVE  passive /\ i = "tools" /\ current' # current
<1>1. row \in [Items -> Versions] /\ MaxChanges \in Nat /\ row' # row
  BY CatalogAssumption DEF CatInv, CatType, Versions
<1>2. PICK s \in Sessions : PublishSession(s) \/ CacheRow(s) \/ SyncTools(s) \/ WriteLists(s)
  BY <1>1 DEF CatalogNext, Change, Dial, Lose, Receive, LoopTakes, LoopLists, LoopTells, NewSession, CatalogRefused,
     Observe, Leave, Watch, TakePending, UserRefresh, Fetch
<1>3. /\ ses[s].snap \in Versions /\ ses[s].tools \in Versions /\ ses[s].job.got \in Versions
      /\ row["tools"] \in Versions /\ row["lists"] \in Versions /\ Fits(ses[s], s, row, holder, current)
  BY SesNow
<1>4. CASE PublishSession(s)
  <2>1. passive /\ row' = [row EXCEPT !["tools"] = ses[s].tools] /\ current' = s /\ ses[s].at = "publish"
    BY <1>1, <1>4 DEF PublishSession
  <2>2. i = "tools"
    BY <1>1, <2>1 DEF Versions
  <2> QED
    BY <1>3, <2>1, <2>2 DEF Fits
<1>5. CASE CacheRow(s)
  <2>1. row' = [row EXCEPT !["tools"] = ses[s].tools] /\ ses[s].at = "rows"
    BY <1>1, <1>5 DEF CacheRow
  <2>2. ~ passive
    BY <1>3, <2>1 DEF Fits
  <2>3. row["tools"] <= ses[s].tools
    BY <1>3, <2>1, <2>2 DEF Fits
  <2> QED
    BY <1>1, <1>3, <2>1, <2>3 DEF Versions
<1>6. CASE SyncTools(s)
  <2>1. row' = [row EXCEPT !["tools"] = ses[s].snap] /\ current = s
    BY <1>1, <1>6 DEF SyncTools, MayWrite
  <2>2. row["tools"] <= ses[s].snap
    BY <1>3, <2>1 DEF Fits
  <2> QED
    BY <1>1, <1>3, <2>1, <2>2 DEF Versions
<1>7. CASE WriteLists(s)
  <2>1. row' = [row EXCEPT !["lists"] = ses[s].job.got] /\ current = s /\ ses[s].job.at = "write"
    BY <1>1, <1>7 DEF WriteLists, MayWrite
  <2>2. row["lists"] <= ses[s].job.got
    BY <1>3, <2>1 DEF Fits
  <2> QED
    BY <1>1, <1>3, <2>1, <2>2 DEF Versions
<1> QED
  BY <1>2, <1>4, <1>5, <1>6, <1>7

\* A refresh that was overtaken never puts an older list back.
THEOREM NeverBack == CatalogSpec => CatalogNeverGoesBack
<1>1. CatInv /\ [CatalogNext]_catalogVars =>
        [\A i \in Items : row'[i] < row[i] => passive /\ i = "tools" /\ current' # current]_catalogVars
  BY BackStep
<1> QED
  BY <1>1, CatStart, CatStep, PTL DEF CatalogSpec, CatalogNeverGoesBack
===============================================================================

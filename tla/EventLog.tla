------------------------------ MODULE EventLog ------------------------------
(***************************************************************************)
(* The events of a run, from the thread that writes them to the page that  *)
(* shows them: the writer of event_envelopes and its transactions          *)
(* (app/infrastructure/database/run_store.py), the SSE stream that replays *)
(* them from a cursor (app/api/v1/router.py), the browser's connection     *)
(* with its reconnects (frontend/src/composables/useRunStream.ts), and the *)
(* two pages built on it: the chat thread (useChatThread.ts) and the       *)
(* details of a run (stores/runs.ts, views/RunDetailView.vue).             *)
(*                                                                         *)
(* Any number of threads write, each in a transaction of its own that may  *)
(* hold several events and may be rolled back.  One browser shows one page *)
(* at a time; it switches between runs, and its requests are answered late *)
(* and in any order.  Connections break, requests fail, the server crashes.*)
(* What an event says is left out: an event is its place in the table.     *)
(***************************************************************************)
EXTENDS Integers, Sequences, FiniteSets, Functions

CONSTANTS
    Writers,        \* threads that write events
    Runs,           \* runs
    Keys,           \* idempotency keys
    MaxEvents,      \* bound: events written
    MaxBatch,       \* bound: events of one transaction about a run
    HistoryPage,    \* rows of one answer to listEvents (2 000)
    HistoryCap,     \* rows listAllEvents asks for (20 000)
    StreamPage,     \* rows of one read of the stream (200)
    MaxWire,        \* bound: the stream reads on below this many events in transit
    TrimAt,         \* events the store of the details keeps (20 000)
    TrimBy,         \* events it drops beyond that (2 000)
    MaxSwitches,    \* bound: other runs looked at
    MaxRefreshes,   \* bound: refreshes of the details
    MaxFailures     \* bound: connections broken, requests failed, crashes

ASSUME EventLogAssumption ==
    /\ Runs # {} /\ IsFiniteSet(Runs) /\ "none" \notin Keys
    /\ {HistoryPage, HistoryCap, StreamPage, MaxWire, TrimAt, TrimBy, MaxBatch}
          \subseteq Nat \ {0}
    /\ TrimBy <= TrimAt
    /\ {MaxEvents, MaxSwitches, MaxRefreshes, MaxFailures} \subseteq Nat

VARIABLES
    log,        \* committed rows of event_envelopes, in order of their commits
    open,       \* writers in a transaction
    buffer,     \* rows of each open transaction
    view,       \* the page: "chat" or "detail"
    shown,      \* the run it shows
    generation, \* loadGeneration, loadRunGeneration
    activation, \* the generation that opened the run (detailLoadGeneration)
    loads,      \* requests for the history that are under way
    loaded,     \* the details have the run (current.run)
    ready,      \* historyReady, streamReadyRunId: the stream may be used
    events,     \* the events on the page, in its order
    cursor,     \* the sequence number a connection would start after
    source,     \* the EventSource is open
    position,   \* cursor of the server's generator
    wire,       \* events it has sent that have not arrived
    timer,      \* a reconnect is scheduled
    trimmed,    \* events dropped from the details (history)
    written, switches, refreshes, failures

table == <<log, open, buffer>>
page == <<view, shown, generation, activation, loads, loaded, ready, events, cursor, trimmed>>
connection == <<source, position, wire, timer>>
logVars == <<table, page, connection, written, switches, refreshes, failures>>

-----------------------------------------------------------------------------
(* Types *)

Row == [seq : Nat, key : Keys \cup {"none"}]

\* A request of listAllEvents: what it has got, and whether that is all.
Load == [generation : Nat, run : Runs, first : BOOLEAN, from : Nat,
         got : Seq(Nat), done : BOOLEAN]

LogTypes ==
    /\ log \in [Runs -> Seq(Row)]
    /\ open \in SUBSET Writers
    /\ buffer \in [Writers -> [Runs -> Seq(Row)]]
    /\ view \in {"chat", "detail"} /\ shown \in Runs
    /\ {generation, activation} \subseteq Nat /\ loads \in SUBSET Load
    /\ {loaded, ready, source, timer} \subseteq BOOLEAN
    /\ events \in Seq(Nat) /\ cursor \in Nat
    /\ position \in Nat /\ wire \in Seq(Nat) /\ trimmed \in SUBSET Nat
    /\ {written, switches, refreshes, failures} \subseteq Nat

\* No row of any run.
Nothing == [r \in Runs |-> << >>]

Request(g, r, f) ==
    [generation |-> g, run |-> r, first |-> f, from |-> 0, got |-> << >>, done |-> FALSE]

LogInit ==
    /\ log = Nothing
    /\ open = {}
    /\ buffer = [w \in Writers |-> Nothing]
    /\ view \in {"chat", "detail"}
    /\ shown \in Runs
    /\ generation = 1 /\ activation = 1 /\ loads = {Request(1, shown, TRUE)}
    /\ loaded = FALSE /\ ready = FALSE
    /\ events = << >> /\ cursor = 0
    /\ source = FALSE /\ position = 0 /\ wire = << >> /\ timer = FALSE
    /\ trimmed = {}
    /\ written = 0 /\ switches = 0 /\ refreshes = 0 /\ failures = 0

Least(a, b) == IF a < b THEN a ELSE b

Greatest(S) == IF S = {} THEN 0 ELSE CHOOSE n \in S : \A m \in S : m <= n

-----------------------------------------------------------------------------
(* Writing *)

\* (Mutant: BEGIN without IMMEDIATE takes no lock.)
BeginDeferred(w) ==
    /\ w \notin open
    /\ written < MaxEvents
    /\ open' = open \cup {w}
    /\ UNCHANGED <<log, buffer, page, connection, written, switches, refreshes, failures>>

\* BEGIN IMMEDIATE waits for SQLite's write lock.
Begin(w) ==
    /\ open = {}
    /\ written < MaxEvents
    /\ open' = {w}
    /\ UNCHANGED <<log, buffer, page, connection, written, switches, refreshes, failures>>

\* The table as a transaction sees it: the committed rows and its own.
Visible(w) == [r \in Runs |-> log[r] \o buffer[w][r]]

\* SELECT 1 ... WHERE idempotency_key = k.
HasKey(records, k) == \E r \in Runs : \E p \in DOMAIN records[r] : records[r][p].key = k

\* SELECT COALESCE(MAX(sequence), 0) + 1.
NextNumber(s) == Greatest({s[p].seq : p \in DOMAIN s}) + 1

\* _append_event_envelope: an event with a known key is not written again.
AppendEvent(w, r, k) ==
    /\ w \in open
    /\ Len(buffer[w][r]) < MaxBatch
    /\ written < MaxEvents
    /\ written' = written + 1
    /\ IF k # "none" /\ HasKey(Visible(w), k)
         THEN UNCHANGED buffer
         ELSE buffer' = [buffer EXCEPT ![w][r] =
                            Append(@, [seq |-> NextNumber(Visible(w)[r]), key |-> k])]
    /\ UNCHANGED <<log, open, page, connection, switches, refreshes, failures>>

Commit(w) ==
    /\ w \in open
    /\ log' = Visible(w)
    /\ buffer' = [buffer EXCEPT ![w] = Nothing]
    /\ open' = open \ {w}
    /\ UNCHANGED <<page, connection, written, switches, refreshes, failures>>

\* The state change that the events belong to fails.
Rollback(w) ==
    /\ w \in open
    /\ buffer' = [buffer EXCEPT ![w] = Nothing]
    /\ open' = open \ {w}
    /\ UNCHANGED <<log, page, connection, written, switches, refreshes, failures>>

-----------------------------------------------------------------------------
(* The server's side of the stream *)

\* Places S of the log of r, ordered by sequence number.
InSequence(r, S) ==
    LET before(p, q) == log[r][p].seq < log[r][q].seq \/ (log[r][p].seq = log[r][q].seq /\ p < q)
    IN  [i \in 1 .. Cardinality(S) |->
            CHOOSE p \in S : Cardinality({q \in S : before(q, p)}) = i - 1]

\* SELECT ... WHERE sequence > after ORDER BY sequence LIMIT n.
After(r, after, n) ==
    LET new == InSequence(r, {p \in DOMAIN log[r] : log[r][p].seq > after})
    IN  SubSeq(new, 1, Least(n, Len(new)))

\* The last sequence number of a list of events, and `from' if it is empty.
LastSeq(r, s, from) == IF s = << >> THEN from ELSE log[r][s[Len(s)]].seq

\* The generator reads the next rows and sends them, and moves its cursor.
Poll ==
    /\ source
    /\ Len(wire) < MaxWire
    /\ LET new == After(shown, position, StreamPage)
       IN  /\ new # << >>
           /\ wire' = wire \o new
           /\ position' = LastSeq(shown, new, position)
    /\ UNCHANGED <<table, page, source, timer, written, switches, refreshes, failures>>

-----------------------------------------------------------------------------
(* The browser's connection *)

\* connect: a new EventSource asks for what comes after the cursor.
Opened(after) ==
    /\ source' = TRUE
    /\ position' = after
    /\ wire' = << >>
    /\ timer' = FALSE

\* disconnect: the source is closed, and a scheduled reconnect is forgotten.
Closed ==
    /\ source' = FALSE
    /\ wire' = << >>
    /\ timer' = FALSE
    /\ UNCHANGED position

\* (Mutant: a broken connection is given up.)
BrokenForGood ==
    /\ source
    /\ failures < MaxFailures
    /\ failures' = failures + 1
    /\ source' = FALSE /\ wire' = << >> /\ timer' = FALSE
    /\ UNCHANGED <<table, page, position, written, switches, refreshes>>

\* onerror: the network fails, or the stream has been idle and ended.
Broken ==
    /\ source
    /\ failures < MaxFailures
    /\ failures' = failures + 1
    /\ source' = FALSE /\ wire' = << >> /\ timer' = TRUE
    /\ UNCHANGED <<table, page, position, written, switches, refreshes>>

Reconnect ==
    /\ timer
    /\ Opened(cursor)
    /\ UNCHANGED <<table, page, written, switches, refreshes, failures>>

\* The browser is online again: the stream is opened anew, open or not.
Online ==
    /\ ready
    /\ failures < MaxFailures
    /\ failures' = failures + 1
    /\ Opened(cursor)
    /\ UNCHANGED <<table, page, written, switches, refreshes>>

-----------------------------------------------------------------------------
(* The pages *)

\* The events that arrive once: applyOne of the chat appends, applyEvent of the
\* store of the details inserts by sequence number and keeps the newest ones.
Applied(e) ==
    IF e \in Range(events) THEN events
    ELSE IF view = "chat" THEN Append(events, e)
    ELSE LET all == InSequence(shown, Range(events) \cup {e})
         IN  IF Len(all) > TrimAt THEN SubSeq(all, TrimBy + 1, Len(all)) ELSE all

\* afterSequence of the chat is the largest number met, lastSequence of the
\* details is that of the last event.
NextCursor(list) ==
    IF view = "chat" THEN Greatest({cursor} \cup {log[shown][p].seq : p \in Range(list)})
    ELSE LastSeq(shown, list, 0)

\* onmessage.
OnMessage ==
    /\ source /\ wire # << >>
    /\ events' = Applied(Head(wire))
    /\ cursor' = NextCursor(events')
    /\ trimmed' = (trimmed \cup Range(events)) \ Range(events')
    /\ wire' = Tail(wire)
    /\ UNCHANGED <<table, view, shown, generation, activation, loads, loaded, ready, source,
                   position, timer, written, switches, refreshes, failures>>

\* Another run is shown: loadHistory, or activateRun.
Switch(r) ==
    /\ r # shown
    /\ switches < MaxSwitches
    /\ switches' = switches + 1
    /\ shown' = r
    /\ generation' = generation + 1 /\ activation' = generation + 1
    /\ loads' = loads \cup {Request(generation + 1, r, TRUE)}
    /\ loaded' = FALSE /\ ready' = FALSE
    /\ events' = << >> /\ cursor' = 0 /\ trimmed' = {}
    /\ Closed
    /\ UNCHANGED <<table, view, written, refreshes, failures>>

\* refresh of the details, by a button or after a control of the run.
Refresh ==
    /\ view = "detail"
    /\ refreshes < MaxRefreshes
    /\ refreshes' = refreshes + 1
    /\ generation' = generation + 1
    /\ loads' = loads \cup {Request(generation + 1, shown, FALSE)}
    /\ UNCHANGED <<table, view, shown, activation, loaded, ready, events, cursor, trimmed,
                   connection, written, switches, failures>>

\* One page of listAllEvents; a short one is the last.
FetchPage(l) ==
    /\ ~l.done
    /\ LET new == After(l.run, l.from, Least(HistoryPage, HistoryCap - Len(l.got)))
           got == l.got \o new
       IN  loads' = (loads \ {l}) \cup
                {[l EXCEPT !.from = LastSeq(l.run, new, l.from), !.got = got,
                           !.done = Len(new) < HistoryPage \/ Len(got) >= HistoryCap]}
    /\ UNCHANGED <<table, view, shown, generation, activation, loaded, ready, events, cursor,
                   trimmed, connection, written, switches, refreshes, failures>>

\* The request has not been overtaken by another one.
Current(l) == l.generation = generation

\* The stream is used once the history is known; it was closed before.
Readied(on) ==
    /\ ready' = on
    /\ IF on /\ ~ready THEN Opened(cursor') ELSE UNCHANGED connection

\* activateRun goes on after a load that was overtaken, if the run is there.
Overtaken(l) ==
    /\ ~Current(l)
    /\ UNCHANGED <<loaded, events, cursor, trimmed>>
    /\ Readied(ready \/ (view = "detail" /\ l.generation = activation /\ loaded))

\* (Mutant: what the stream brought meanwhile is not merged.)
LoadedAnew(l) ==
    /\ Current(l)
    /\ events' = l.got
    /\ cursor' = NextCursor(events')
    /\ trimmed' = trimmed \ Range(events')
    /\ loaded' = TRUE
    /\ Readied(ready \/ l.first)

\* The history is shown, in the details together with what the stream brought.
Loaded(l) ==
    /\ Current(l)
    /\ events' = IF view = "chat" THEN l.got
                                  ELSE InSequence(shown, Range(l.got) \cup Range(events))
    /\ cursor' = NextCursor(events')
    /\ trimmed' = trimmed \ Range(events')
    /\ loaded' = TRUE
    /\ Readied(ready \/ l.first)

Arrive(l) ==
    /\ l.done
    /\ Overtaken(l) \/ Loaded(l)
    /\ loads' = loads \ {l}
    /\ UNCHANGED <<table, view, shown, generation, activation, written, switches, refreshes,
                   failures>>

\* A request fails: the chat streams all events, the details have no stream.
Fail(l) ==
    /\ failures < MaxFailures
    /\ failures' = failures + 1
    /\ loads' = loads \ {l}
    /\ \/ Overtaken(l)
       \/ /\ Current(l)
          /\ UNCHANGED <<loaded, events, cursor, trimmed>>
          /\ Readied(ready \/ view = "chat")
    /\ UNCHANGED <<table, view, shown, generation, activation, written, switches, refreshes>>

\* The server dies: its transactions are rolled back, its streams break.
ServerDies ==
    /\ failures < MaxFailures
    /\ failures' = failures + 1
    /\ open' = {} /\ buffer' = [w \in Writers |-> Nothing]
    /\ source' = FALSE /\ wire' = << >> /\ timer' = (timer \/ source)
    /\ UNCHANGED <<log, page, position, written, switches, refreshes>>

-----------------------------------------------------------------------------
WriteStep ==
    \E w \in Writers :
        \/ Begin(w) \/ Commit(w) \/ Rollback(w)
        \/ \E r \in Runs, k \in Keys \cup {"none"} : AppendEvent(w, r, k)

LoadStep == \E l \in loads : FetchPage(l) \/ Arrive(l) \/ Fail(l)

StreamStep == Poll \/ OnMessage \/ Broken \/ Reconnect \/ Online

UserStep == (\E r \in Runs : Switch(r)) \/ Refresh

LogNext == WriteStep \/ LoadStep \/ StreamStep \/ UserStep \/ ServerDies

LogSpec == LogInit /\ [][LogNext]_logVars

\* Transactions end, requests are answered, and the stream, the browser and its
\* timer go on.
LogFairness ==
    /\ \A w \in Writers : WF_logVars(Commit(w) \/ Rollback(w))
    /\ WF_logVars(\E l \in loads : FetchPage(l) \/ Arrive(l))
    /\ WF_logVars(Poll) /\ WF_logVars(OnMessage) /\ WF_logVars(Reconnect)

LogFairSpec == LogSpec /\ LogFairness

-----------------------------------------------------------------------------
(* Properties *)

\* The numbers of a run's rows are their places, and a key is used once.
Sound(records) ==
    /\ \A r \in Runs : \A p \in DOMAIN records[r] : records[r][p].seq = p
    /\ \A r, s \in Runs : \A p \in DOMAIN records[r], q \in DOMAIN records[s] :
          records[r][p].key = records[s][q].key /\ records[r][p].key # "none" => r = s /\ p = q

\* The sequence numbers of a run are 1, 2, 3 ... in the order of the commits, so
\* a reader that has seen number n will never find a smaller one, and a key is
\* used once.  (_append_event_envelope under BEGIN IMMEDIATE.)
LogIsSound == Sound(log)

\* The page shows every committed event of its run up to its cursor, each once
\* and in order, whatever was late, repeated or overtaken; the details may have
\* dropped old ones.  (listAllEvents, stream_events, useRunStream, applyOne,
\* applyEvent, mergeEvents.)
PageIsComplete ==
    /\ \A p \in DOMAIN log[shown] :
          log[shown][p].seq <= cursor => p \in Range(events) \cup trimmed
    /\ Range(events) \subseteq DOMAIN log[shown]
    /\ \A i, j \in DOMAIN events :
          i < j => log[shown][events[i]].seq < log[shown][events[j]].seq

\* The page is complete, and everything has its type.
PageSafety == LogTypes /\ PageIsComplete

\* However often connections break, the chat comes to show all that is stored.
\* (scheduleReconnect and the replay of the stream.)
ChatCatchesUp == view = "chat" => []<>(Range(events) = DOMAIN log[shown])
=============================================================================

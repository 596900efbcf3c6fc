------------------------------- MODULE Visual -------------------------------
(***************************************************************************)
(* The web view's live page (src/visual/event_router.rs,                   *)
(* src/visual/file_watcher.rs, serve_sse and serve_workgraph of            *)
(* src/visual/http_server.rs).  Events of the daemon and of the watcher of *)
(* the graph's file reach every connected page through a router, which     *)
(* keeps the latest of them for a page that connects: the page registers   *)
(* first and is then sent the kept ones.  The page (static/index.html)     *)
(* fetches the graph over other connections: once when it is loaded, when  *)
(* its tab is opened and for each live notice of a change, but not for one *)
(* it is sent to catch up, nor when it reconnects.                         *)
(***************************************************************************)
EXTENDS Naturals, Sequences, SequencesExt

CONSTANTS MaxVersions, MaxEvents,   \* bounds: of the file, of the router
          MaxFetches,               \* bound: fetches not served yet
          CatchUpCount, BufferMax   \* CATCH_UP_COUNT, BUFFER_MAX

VisualAssumption ==
  /\ {MaxVersions, MaxEvents, MaxFetches} \subseteq Nat
  /\ CatchUpCount \in Nat \ {0} /\ BufferMax \in Nat \ {0}

VARIABLES
  disk, notified,          \* version of the graph's file, changes to be seen
  lastRead, quiet,         \* of the watcher: last content, debounce elapsed
  ingested,                \* events the router has taken
  buffer, page, queue,     \* kept events; "off", "registered", "live", "closed"
  seen, known,             \* sent over the connection; version shown, 0 for none
  asked, older, latest,    \* fetches not served yet; served and not shown yet:
                           \* all but the last one, the last one (0 for none)
  since, window, swallowed,\* observed: ingested before and while registering;
                           \* a change the debounce dropped,
  missed, overtaken        \* one announced to no connection of the page; an
                           \* answer shown after the answer to a later fetch

watcherVars == <<disk, notified, lastRead, quiet, swallowed>>
routerVars == <<ingested, buffer, queue, window>>
connectionVars == <<page, seen, since>>
fetchVars == <<known, asked, older, latest, overtaken>>
visualVars == <<watcherVars, routerVars, connectionVars, fetchVars, missed>>

Init ==
  /\ disk = 1 /\ notified = 0 /\ lastRead = 1 /\ quiet = FALSE
  /\ ingested = 0 /\ buffer = <<>> /\ page = "off" /\ queue = <<>>
  /\ seen = <<>> /\ since = 0 /\ window = {} /\ swallowed = FALSE
  /\ known = 0 /\ asked = 1 /\ older = {} /\ latest = 0   \* the page is loaded
  /\ missed = FALSE /\ overtaken = FALSE

Connected == page \in {"registered", "live"}

LastOf(s, n) == IF Len(s) <= n THEN s ELSE SubSeq(s, Len(s) - n + 1, Len(s))

Ingest(kind) ==
  LET ev == [n |-> ingested + 1, kind |-> kind]
  IN  /\ ingested' = ingested + 1
      /\ buffer' = LastOf(Append(buffer, ev), BufferMax)
      /\ queue' = IF page = "off" THEN queue ELSE Append(queue, ev)
      /\ window' = IF page = "registered" THEN window \cup {ev.n} ELSE window
      /\ missed' = (missed \/ (kind = "graph" /\ ~Connected))

DaemonEvent ==
  /\ ingested < MaxEvents                                    \* bound
  /\ Ingest("event")
  /\ UNCHANGED <<watcherVars, connectionVars, fetchVars>>

-----------------------------------------------------------------------------
(* The watcher of workgraph.json. *)

Change ==
  /\ disk < MaxVersions                                      \* bound
  /\ disk' = disk + 1 /\ notified' = notified + 1
  /\ UNCHANGED <<lastRead, quiet, swallowed, routerVars, connectionVars, fetchVars, missed>>

\* One notification: within the debounce it is dropped unread.
Notified ==
  /\ notified > 0 /\ ingested < MaxEvents                    \* bound
  /\ notified' = notified - 1
  /\ IF quiet /\ disk # lastRead
     THEN /\ lastRead' = disk /\ quiet' = FALSE /\ swallowed' = FALSE
          /\ Ingest("graph")
     ELSE /\ swallowed' = (swallowed \/ (~quiet /\ disk # lastRead))
          /\ UNCHANGED <<lastRead, quiet, routerVars, missed>>
  /\ UNCHANGED <<disk, connectionVars, fetchVars>>

DebounceEnds ==
  /\ ~quiet /\ quiet' = TRUE
  /\ UNCHANGED <<disk, notified, lastRead, swallowed, routerVars, connectionVars, fetchVars, missed>>

-----------------------------------------------------------------------------
(* The page's event stream and the thread that serves it. *)

\* The browser connects again by itself; its old registration, if the router
\* has not dropped it yet, only feeds a dead socket.
Register ==
  /\ ~Connected
  /\ page' = "registered" /\ queue' = <<>> /\ since' = ingested /\ window' = {}
  /\ seen' = <<>>
  /\ UNCHANGED <<watcherVars, ingested, buffer, fetchVars, missed>>

CatchUp ==
  /\ page = "registered" /\ page' = "live"
  /\ seen' = [i \in 1 .. Len(LastOf(buffer, CatchUpCount)) |->
                LastOf(buffer, CatchUpCount)[i].n]
  /\ UNCHANGED <<watcherVars, routerVars, since, fetchVars, missed>>

Ask == asked < MaxFetches /\ asked' = asked + 1                \* bound

Forward ==
  /\ page = "live" /\ queue # <<>>
  /\ queue' = Tail(queue)
  /\ seen' = Append(seen, Head(queue).n)
  /\ IF Head(queue).kind = "graph" THEN Ask ELSE UNCHANGED asked
  /\ UNCHANGED <<watcherVars, ingested, buffer, window, page, since, known, older, latest,
                 overtaken, missed>>

\* The connection breaks; what was queued for it is never read.
Close ==
  /\ Connected /\ page' = "closed"
  /\ missed' = (missed \/ \E i \in DOMAIN queue : queue[i].kind = "graph")
  /\ UNCHANGED <<watcherVars, routerVars, seen, since, fetchVars>>

\* The next write, of an event or of the keepalive, fails.
Drop ==
  /\ page = "closed"
  /\ page' = "off" /\ queue' = <<>> /\ seen' = <<>> /\ since' = 0 /\ window' = {}
  /\ UNCHANGED <<watcherVars, ingested, buffer, fetchVars, missed>>

-----------------------------------------------------------------------------
(* The page's fetches of the graph, each over a connection of its own. *)

\* Loaded anew, over a new event stream.
Load ==
  /\ page' = "off" /\ queue' = <<>> /\ seen' = <<>> /\ since' = 0 /\ window' = {}
  /\ known' = 0 /\ asked' = 1 /\ older' = {} /\ latest' = 0
  /\ overtaken' = FALSE /\ missed' = FALSE
  /\ UNCHANGED <<watcherVars, ingested, buffer>>

OpenTab ==
  /\ Ask
  /\ UNCHANGED <<watcherVars, routerVars, connectionVars, known, older, latest, overtaken, missed>>

\* A fetch is served: the file is read.
ServeWorkgraph ==
  /\ asked > 0 /\ asked' = asked - 1
  /\ latest' = disk /\ older' = (older \cup {latest}) \ {0}
  /\ overtaken' = FALSE /\ missed' = FALSE
  /\ UNCHANGED <<watcherVars, routerVars, connectionVars, known>>

\* The answers arrive in any order.
RenderLatest ==
  /\ latest # 0 /\ known' = latest /\ latest' = 0
  /\ UNCHANGED <<watcherVars, routerVars, connectionVars, asked, older, overtaken, missed>>

RenderOlder(v) ==
  /\ known' = v /\ older' = older \ {v}
  /\ overtaken' = (overtaken \/ latest = 0)
  /\ UNCHANGED <<watcherVars, routerVars, connectionVars, asked, latest, missed>>

Next ==
  \/ DaemonEvent \/ Change \/ Notified \/ DebounceEnds
  \/ Register \/ CatchUp \/ Forward \/ Close \/ Drop
  \/ Load \/ OpenTab \/ ServeWorkgraph \/ RenderLatest
  \/ \E v \in older : RenderOlder(v)

Spec == Init /\ [][Next]_visualVars

-----------------------------------------------------------------------------
(***************************************************************************)
(* A live page misses no event taken since it connected, and is sent one   *)
(* twice over a connection only if it was taken while it registered.  Once *)
(* it has read everything it shows the graph on disk, unless the debounce  *)
(* dropped the notification of the last change, the change was announced   *)
(* while the page was not connected, after its last fetch was served, or   *)
(* the answer to that fetch came before the answer to an earlier one.      *)
(***************************************************************************)
VisualSound ==
  page = "live" =>
    /\ \A n \in since + 1 .. ingested :
         n \in ToSet(seen) \/ \E i \in DOMAIN queue : queue[i].n = n
    /\ \A i, j \in DOMAIN seen : i < j /\ seen[j] <= seen[i] => seen[j] \in window
    /\ notified = 0 /\ queue = <<>> /\ asked = 0 /\ latest = 0 /\ older = {}
         => known = disk \/ swallowed \/ missed \/ overtaken
=============================================================================

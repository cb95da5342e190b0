----------------------------- MODULE Dashboard ------------------------------
(***************************************************************************)
(* What gmode dev shows of a running application: the gateway posts an     *)
(* event per request to the collector (packages/cli/src/dev/collector.ts), *)
(* the command polls the gateway's health (commands/dev.ts), and a page    *)
(* (packages/dashboard/src/App.tsx) fetches what the collector has and     *)
(* follows its event stream.                                               *)
(*                                                                         *)
(* The page starts its fetches and its stream together: the answers, the   *)
(* stream and new events overtake one another.  The page is reloaded, and  *)
(* gmode dev is stopped and started again under an open page.              *)
(*                                                                         *)
(* Requests and health share no state, so a behaviour follows one of them. *)
(***************************************************************************)
EXTENDS Naturals, Sequences, FiniteSets

CONSTANTS
  Services,    \* resources of the application
  RingSize,    \* RING_SIZE of the collector
  MaxRows,     \* MAX_ROWS of the page
  MaxRequests, \* bound on the requests to the gateway
  MaxRestarts, \* bound on reloads of the page and restarts of gmode dev
  MaxFrames    \* bound on the frames of health in the stream

\* RING_SIZE and MAX_ROWS are positive.
ASSUME SizesAssumption == RingSize \in Nat \ {0} /\ MaxRows \in Nat \ {0}
ASSUME MaxRequestsAssumption == MaxRequests \in Nat

VARIABLES
  world,    \* what the health path of each resource would answer
  sent,     \* the number of requests so far
  posting,  \* events on their way to the collector
  arrived,  \* history: the events the collector recorded, in order
  ring,     \* the collector's requests
  health,   \* the collector's health
  stream,   \* frames on their way to the page
  open,     \* the collector has the page's stream
  page,     \* the page
  restarts, \* reloads and restarts so far
  subject   \* what the behaviour is about: "requests" or "state" (health)

boardVars == <<subject, world, sent, posting, arrived, ring, health, stream, open, page, restarts>>
collector == <<arrived, ring, health>>

Last(list, n) == SubSeq(list, (IF Len(list) > n THEN Len(list) - n ELSE 0) + 1, Len(list))
Answers == {"ok", "error", "forbidden"}
Worlds  == {w \in [Services \union {"gateway"} -> Answers] : w["gateway"] # "forbidden"}
\* The collector's health is null.
Waiting == [known |-> FALSE, ok |-> FALSE, services |-> <<>>]

-----------------------------------------------------------------------------
(* Health. *)

\* checkServiceHealth(): a Vite server may refuse the probe and still serve.
CheckServiceHealth(answer) == answer # "error"

\* gatewayHealth(), or what the timer of gmode dev says of a gateway that does
\* not answer.
HealthReport(w) ==
  IF w["gateway"] # "ok" THEN [known |-> TRUE, ok |-> FALSE, services |-> <<>>]
  ELSE [known    |-> TRUE,
        ok       |-> \A s \in Services : CheckServiceHealth(w[s]),
        services |-> [s \in Services |-> CheckServiceHealth(w[s])]]

\* healthFor() of the page.
HealthFor(report, s) ==
  IF s \notin DOMAIN report.services THEN "unknown"
  ELSE IF report.services[s] THEN "healthy" ELSE "unhealthy"

-----------------------------------------------------------------------------
(* The page. *)

\* A page that has just been opened: its fetch is on its way.
\* "openedAt" and "liveFrom" are history: how many events were recorded when
\* the stream first opened, and when the page had its lists and its stream.
NewPage ==
  [requests |-> <<>>, health |-> Waiting,
   fetch    |-> "asked", answer |-> [requests |-> <<>>, state |-> Waiting],
   openedAt |-> MaxRequests, liveFrom |-> 0, live |-> FALSE]

BoardInit ==
  /\ subject \in {"requests", "state"}
  /\ world \in Worlds
  /\ sent = 0 /\ posting = {}
  /\ arrived = <<>> /\ ring = <<>> /\ health = Waiting
  /\ stream = <<>> /\ open = FALSE /\ page = NewPage
  /\ restarts = 0

\* Marks the moment from which the page is up to date.
Mark(p, isOpen) ==
  IF isOpen /\ p.fetch \in {"applied", "failed"} /\ ~p.live
  THEN [p EXCEPT !.live = TRUE, !.liveFrom = Len(arrived)] ELSE p

Broadcast(type, data) ==
  stream' = IF open THEN Append(stream, [type |-> type, data |-> data]) ELSE stream

\* GET /api/stream.  EventSource connects again after an error.
OpenStream ==
  /\ ~open
  /\ open' = TRUE
  /\ page' = Mark([page EXCEPT !.openedAt = IF @ < Len(arrived) THEN @ ELSE Len(arrived)], TRUE)
  /\ UNCHANGED <<subject, world, sent, posting, collector, stream, restarts>>

\* GET /api/requests and GET /api/state, answered with what there is now.
AnswerFetch ==
  /\ page.fetch = "asked"
  /\ page' = [page EXCEPT !.fetch = "answered",
                          !.answer = [requests |-> ring, state |-> health]]
  /\ UNCHANGED <<subject, world, sent, posting, collector, stream, open, restarts>>

\* The answer replaces what the stream brought meanwhile.
ApplyFetch ==
  /\ page.fetch = "answered"
  /\ page' = Mark([page EXCEPT !.requests = Last(page.answer.requests, MaxRows),
                               !.health = page.answer.state,
                               !.fetch = "applied", !.answer = NewPage.answer], open)
  /\ UNCHANGED <<subject, world, sent, posting, collector, stream, open, restarts>>

ReceiveInFront ==
  /\ stream # <<>>
  /\ stream' = Tail(stream)
  /\ LET frame == Head(stream) IN
     page' = IF frame.type = "request"
             THEN [page EXCEPT !.requests = <<frame.data>> \o Last(@, MaxRows - 1)]
             ELSE [page EXCEPT !.health = frame.data]
  /\ UNCHANGED <<subject, world, sent, posting, collector, open, restarts>>

\* The listeners of the EventSource.
Receive ==
  /\ stream # <<>>
  /\ stream' = Tail(stream)
  /\ LET frame == Head(stream) IN
     page' = IF frame.type = "request"
             THEN [page EXCEPT !.requests = Append(Last(@, MaxRows - 1), frame.data)]
             ELSE [page EXCEPT !.health = frame.data]
  /\ UNCHANGED <<subject, world, sent, posting, collector, open, restarts>>

-----------------------------------------------------------------------------
(* The gateway and the collector. *)

\* emitInspectorEvent(): the POST is not awaited.
EmitInspectorEvent ==
  /\ subject = "requests" /\ sent < MaxRequests
  /\ sent' = sent + 1
  /\ posting' = posting \union {sent + 1}
  /\ UNCHANGED <<subject, world, collector, stream, open, page, restarts>>

\* POST /events.
RecordEvent(e) ==
  /\ e \in posting
  /\ posting' = posting \ {e}
  /\ ring' = Last(Append(ring, e), RingSize)
  /\ arrived' = Append(arrived, e)
  /\ Broadcast("request", e)
  /\ UNCHANGED <<subject, world, sent, health, open, page, restarts>>

LoseEvent(e) ==
  /\ e \in posting
  /\ posting' = posting \ {e}
  /\ UNCHANGED <<subject, world, sent, collector, stream, open, page, restarts>>

BroadcastChangesOnly ==
  /\ subject = "state"
  /\ Cardinality({i \in DOMAIN stream : stream[i].type = "health"}) < MaxFrames
  /\ health' = HealthReport(world)
  /\ IF health' = health THEN UNCHANGED stream ELSE Broadcast("health", health')
  /\ UNCHANGED <<subject, world, sent, posting, arrived, ring, open, page, restarts>>

\* The health timer of gmode dev.
SetHealth ==
  /\ subject = "state"
  /\ Cardinality({i \in DOMAIN stream : stream[i].type = "health"}) < MaxFrames
  /\ health' = HealthReport(world)
  /\ Broadcast("health", health')
  /\ UNCHANGED <<subject, world, sent, posting, arrived, ring, open, page, restarts>>

-----------------------------------------------------------------------------
(* The surroundings. *)

WorldChanges(w) ==
  /\ subject = "state"
  /\ world' = w
  /\ UNCHANGED <<subject, sent, posting, collector, stream, open, page, restarts>>

Reload ==
  /\ restarts < MaxRestarts
  /\ restarts' = restarts + 1
  /\ page' = NewPage /\ open' = FALSE /\ stream' = <<>>
  /\ UNCHANGED <<subject, world, sent, posting, collector>>

\* gmode dev is started again: the rings are empty, the page stays.
Restart ==
  /\ restarts < MaxRestarts
  /\ restarts' = restarts + 1
  /\ ring' = <<>> /\ health' = Waiting
  /\ posting' = {} /\ stream' = <<>> /\ open' = FALSE
  /\ page' = [page EXCEPT !.live = FALSE, !.answer = NewPage.answer,
                          !.fetch = IF @ = "applied" THEN "applied" ELSE "failed"]
  /\ UNCHANGED <<subject, world, sent, arrived>>

BoardNext ==
  \/ OpenStream \/ Receive
  \/ AnswerFetch \/ ApplyFetch
  \/ EmitInspectorEvent \/ SetHealth \/ Reload \/ Restart
  \/ \E e \in posting : RecordEvent(e) \/ LoseEvent(e)
  \/ \E w \in Worlds : WorldChanges(w)

\* The browser connects, fetches and reads, and the timer of gmode dev ticks.
BoardFairness ==
  /\ WF_boardVars(OpenStream) /\ WF_boardVars(Receive) /\ WF_boardVars(SetHealth)
  /\ WF_boardVars(AnswerFetch) /\ WF_boardVars(ApplyFetch)

BoardSpec == BoardInit /\ [][BoardNext]_boardVars /\ BoardFairness

-----------------------------------------------------------------------------
(* Properties. *)

\* Events the collector recorded since the page was up to date, less those
\* still on their way to it.
Shown == SubSeq(arrived, page.liveFrom + 1, Len(arrived) - Len(stream))

\* Whatever overtook what while the page loaded: from then on it ends with the
\* events delivered since, each once and in the order the collector has them,
\* and it never grows beyond its window.
LiveView ==
  /\ Len(page.requests) <= MaxRows
  /\ page.live /\ subject = "requests" =>
       LET recent == Last(Shown, MaxRows) IN
       /\ Last(page.requests, Len(recent)) = recent
       /\ \A n \in DOMAIN Shown :
            Cardinality({i \in DOMAIN page.requests : page.requests[i] = Shown[n]}) <= 1

\* A request is listed twice only if it was recorded while the page was
\* loading, after its stream had opened.
DoubledWhileLoading ==
  \A i, j \in DOMAIN page.requests :
    (i < j /\ page.requests[i] = page.requests[j]) =>
      \E n \in DOMAIN arrived :
        /\ arrived[n] = page.requests[i]
        /\ page.openedAt < n /\ (page.live => n <= page.liveFrom)

\* When the state of the application stays as it is, the page comes to show
\* it for each resource and goes on showing it, whichever of the fetched and
\* the streamed report was applied last.
HealthConverges ==
  \A w \in Worlds :
    <>[](subject = "state" /\ world = w) =>
      <>[](/\ page.health.known /\ page.health.ok = HealthReport(w).ok
           /\ \A s \in Services : HealthFor(page.health, s) = HealthFor(HealthReport(w), s))

\* The page's list is the recent past: complete and in order once it has
\* loaded, with no request twice but what overtook the loading.
ListIsRecent == LiveView /\ DoubledWhileLoading

=============================================================================

-------------------------------- MODULE Console --------------------------------
(***************************************************************************)
(* The recovery drill as the web console runs and shows it: DrillRunner    *)
(* (src/drill.ts) keeps the events of one run at a time, the routes of     *)
(* src/web.ts start it and open event streams, Broadcaster (src/sse.ts)    *)
(* fans the events out, and any number of pages (src/web/index.html)       *)
(* follow the stream, reconnect when it breaks, and offer the button.      *)
(*                                                                         *)
(* A page is told apart by its connection: what the server has written and *)
(* the page has not read yet is its wire, in order, and is lost with the   *)
(* connection.  Answers to its requests come over another connection, so   *)
(* they and the events reach the page in any order.                        *)
(***************************************************************************)
EXTENDS Integers, Sequences, FiniteSets, SequencesExt

CONSTANTS
    Page,        \* the pages that are open
    MaxClients,  \* the cap on stream clients
    MaxBuffered, \* how many events may be unread before a client counts as slow
    MaxLines,    \* how many output lines of a run are kept
    MaxOutput,   \* bound: lines a drill prints
    MaxRun,      \* bound: runs that are started
    MaxRefused,  \* bound: requests for a run that docker's absence refuses
    MaxBreak     \* bound: connections that break

ASSUME ConsoleAssumption ==
    /\ MaxClients \in Nat \ {0} /\ MaxBuffered \in Nat \ {0} /\ MaxLines \in Nat /\ MaxOutput \in Nat
    /\ MaxRun \in Nat /\ MaxRefused \in Nat /\ MaxBreak \in Nat

VARIABLES
    isBusy, evs, lines,     \* DrillRunner
    running, cleaning,      \* how many drills are running, and cleaning up
    output, runs,           \* lines printed by this drill; runs started so far
    clients, wire,          \* Broadcaster: its clients, and what they have not read yet
    request,                \* page -> where its POST /api/run is
    page,                   \* page -> [load, busy, disabled, shown]
    misled,                 \* history: pages told "busy" by a claim that no run stands behind, or
                            \* that docker is down, until the start of a run
    breaks, refusals        \* bounds used

runner == <<isBusy, evs, lines, running, cleaning, output, runs>>
sse    == <<clients, wire>>
vars   == <<runner, sse, request, page, misled, breaks, refusals>>

Event == [type : {"start", "line", "end", "idle"}, run : 1..MaxRun]

\* load: "config" until the status is asked for, "status" until it is answered, then the
\* stream is "closed" and (re)connecting, "open", or "refused" for good.
\* shown: the events since the last start, which is what the page displays.
NewPage == [load |-> "config", busy |-> FALSE, disabled |-> TRUE, shown |-> <<>>]

Init ==
    /\ isBusy = FALSE /\ evs = <<>> /\ lines = 0
    /\ running = 0 /\ cleaning = 0 /\ output = 0 /\ runs = 0
    /\ clients = {} /\ wire = [p \in Page |-> <<>>]
    /\ request = [p \in Page |-> "none"]
    /\ page = [p \in Page |-> NewPage]
    /\ misled = {} /\ breaks = 0 /\ refusals = 0

-----------------------------------------------------------------------------
(* Broadcaster *)

Slow(p) == Len(wire[p]) > MaxBuffered

\* broadcast: a client that does not keep up is dropped and its connection destroyed.
Broadcast(es) ==
    LET gone == {p \in clients : es # <<>> /\ Slow(p)} IN
    /\ clients' = clients \ gone
    /\ wire' = [p \in Page |-> IF p \in gone \/ p \notin clients THEN <<>> ELSE wire[p] \o es]
    /\ page' = [p \in Page |-> IF p \in gone THEN [page[p] EXCEPT !.load = "closed"] ELSE page[p]]

\* Mutation: a client starts with what comes next.
AddWithoutReplay(p) ==
    /\ clients' = clients \cup {p}
    /\ wire' = [wire EXCEPT ![p] = <<>>]

\* add: the events of the run so far are written before the client joins.
Add(p) ==
    /\ clients' = clients \cup {p}
    /\ wire' = [wire EXCEPT ![p] = evs]

-----------------------------------------------------------------------------
(* DrillRunner *)

Of(type) == [type |-> type, run |-> runs]

\* push: keeps the event and hands it to the subscribers, but for lines beyond the cap.
Push(kept, type) == evs' = Append(kept, Of(type)) /\ Broadcast(<<Of(type)>>)

\* Mutation: the new run goes on in the events of the last one.
RunAppending ==
    /\ lines' = 0 /\ output' = 0
    /\ runs' = runs + 1 /\ running' = running + 1
    /\ LET start == [type |-> "start", run |-> runs + 1] IN
       evs' = Append(evs, start) /\ Broadcast(<<start>>)
    /\ UNCHANGED <<isBusy, cleaning>>

\* run() until the drill is spawned.
Run ==
    /\ lines' = 0 /\ output' = 0
    /\ runs' = runs + 1 /\ running' = running + 1
    /\ LET start == [type |-> "start", run |-> runs + 1] IN
       evs' = <<start>> /\ Broadcast(<<start>>)
    /\ UNCHANGED <<isBusy, cleaning>>

\* A line of output, or the one that reports a crash.  The stages and metrics that some lines
\* bring along are left out.
Output ==
    /\ running > 0 /\ output < MaxOutput
    /\ output' = output + 1 /\ lines' = lines + 1
    /\ IF lines < MaxLines THEN Push(evs, "line") ELSE UNCHANGED <<evs, sse, page>>
    /\ UNCHANGED <<isBusy, running, cleaning, runs, request, misled, breaks, refusals>>

\* The drill has exited or crashed, and the cleanup begins.
Exited ==
    /\ running > 0
    /\ running' = running - 1 /\ cleaning' = cleaning + 1
    /\ Push(evs, "end")
    /\ UNCHANGED <<isBusy, lines, output, runs, request, misled, breaks, refusals>>

\* The cleanup has ended, or failed, which is ignored.
CleanedUp ==
    /\ cleaning > 0
    /\ cleaning' = cleaning - 1
    /\ isBusy' = FALSE
    /\ Push(evs, "idle")
    /\ UNCHANGED <<lines, running, output, runs, request, misled, breaks, refusals>>

-----------------------------------------------------------------------------
(* Routes *)

\* GET /api/status: busy is read before docker is asked.
Status(p) ==
    /\ page[p].load = "config"
    /\ page' = [page EXCEPT ![p].load = "status", ![p].busy = isBusy]
    /\ misled' = IF isBusy /\ running + cleaning = 0 THEN misled \cup {p} ELSE misled
    /\ UNCHANGED <<runner, sse, request, breaks, refusals>>

\* GET /api/stream
Stream(p) ==
    /\ page[p].load = "closed" /\ p \notin clients
    /\ IF Cardinality(clients) >= MaxClients
       THEN page' = [page EXCEPT ![p].load = "refused"] /\ UNCHANGED sse
       ELSE Add(p) /\ page' = [page EXCEPT ![p].load = "open"]
    /\ UNCHANGED <<runner, request, misled, breaks, refusals>>

\* Mutation: the claim is made once docker has answered.
PostRunUnclaimed(p) ==
    /\ request[p] = "sent"
    /\ request' = [request EXCEPT ![p] = IF isBusy THEN "busy" ELSE "docker"]
    /\ UNCHANGED <<runner, sse, page, misled, breaks, refusals>>

\* POST /api/run: tryClaim, and docker is asked.
PostRun(p) ==
    /\ request[p] = "sent"
    /\ request' = [request EXCEPT ![p] = IF isBusy THEN "busy" ELSE "docker"]
    /\ isBusy' = TRUE
    /\ UNCHANGED <<evs, lines, running, cleaning, output, runs, sse, page, misled, breaks, refusals>>

DockerUp(p) ==
    /\ request[p] = "docker"
    /\ request' = [request EXCEPT ![p] = "started"]
    /\ Run
    /\ UNCHANGED <<misled, breaks, refusals>>

\* The claim is given back without a word to anybody else.
DockerDown(p) ==
    /\ request[p] = "docker"
    /\ refusals < MaxRefused /\ refusals' = refusals + 1
    /\ request' = [request EXCEPT ![p] = "no docker"]
    /\ isBusy' = FALSE
    /\ UNCHANGED <<evs, lines, running, cleaning, output, runs, sse, page, misled, breaks>>

-----------------------------------------------------------------------------
(* The page *)

\* The status is shown and the stream is opened.  Without docker the button stays disabled and
\* the page asks to be reloaded.
StatusShown(p) ==
    /\ page[p].load = "status"
    /\ \E dockerOk \in BOOLEAN :
        /\ page' = [page EXCEPT ![p].load = "closed", ![p].disabled = ~dockerOk \/ page[p].busy]
        /\ misled' = IF dockerOk THEN misled ELSE misled \cup {p}
    /\ UNCHANGED <<runner, sse, request, breaks, refusals>>

Asked == {p \in Page : request[p] \in {"sent", "docker"}}

\* The button, as long as a run may be left within the bound.
Click(p) ==
    /\ ~page[p].disabled /\ request[p] = "none"
    /\ runs + Cardinality(Asked) < MaxRun
    /\ page' = [page EXCEPT ![p].disabled = TRUE]
    /\ request' = [request EXCEPT ![p] = "sent"]
    /\ UNCHANGED <<runner, sse, misled, breaks, refusals>>

\* Mutation: a refusal leaves the button as it is.
AnsweredSilently(p) ==
    /\ request[p] \in {"busy", "started", "no docker"}
    /\ request' = [request EXCEPT ![p] = "none"]
    /\ UNCHANGED <<runner, sse, page, misled, breaks, refusals>>

\* The answer to it: any but 202 is shown and gives the button back.
Answered(p) ==
    /\ request[p] \in {"busy", "started", "no docker"}
    /\ request' = [request EXCEPT ![p] = "none"]
    /\ page' = IF request[p] = "started" THEN page ELSE [page EXCEPT ![p].disabled = FALSE]
    /\ UNCHANGED <<runner, sse, misled, breaks, refusals>>

\* handle(e)
Handled(pg, e) ==
    [pg EXCEPT !.shown = IF e.type = "start" THEN <<e>> ELSE Append(pg.shown, e),
               !.disabled = CASE e.type = "start" -> TRUE [] e.type = "idle" -> FALSE
                              [] OTHER -> pg.disabled]

Read(p) ==
    /\ wire[p] # <<>>
    /\ wire' = [wire EXCEPT ![p] = Tail(@)]
    /\ page' = [page EXCEPT ![p] = Handled(@, Head(wire[p]))]
    /\ misled' = IF Head(wire[p]).type = "start" THEN misled \ {p} ELSE misled
    /\ UNCHANGED <<runner, clients, request, breaks, refusals>>

\* External: the connection breaks, and the page's EventSource will reconnect.
Break(p) ==
    /\ p \in clients /\ breaks < MaxBreak /\ breaks' = breaks + 1
    /\ clients' = clients \ {p}
    /\ wire' = [wire EXCEPT ![p] = <<>>]
    /\ page' = [page EXCEPT ![p].load = "closed"]
    /\ UNCHANGED <<runner, request, misled, refusals>>

-----------------------------------------------------------------------------
Next ==
    \/ Output \/ Exited \/ CleanedUp
    \/ \E p \in Page :
        \/ Status(p) \/ Stream(p) \/ PostRun(p) \/ DockerUp(p) \/ DockerDown(p)
        \/ StatusShown(p) \/ Click(p) \/ Answered(p) \/ Read(p) \/ Break(p)

Spec == Init /\ [][Next]_vars

\* The drill ends by itself, docker is given up after 60 s, requests are answered, and a page
\* reads its stream; nobody has to click.
Fairness ==
    /\ WF_vars(Exited) /\ WF_vars(CleanedUp)
    /\ \A p \in Page :
        /\ WF_vars(Status(p)) /\ WF_vars(StatusShown(p)) /\ WF_vars(Stream(p))
        /\ WF_vars(PostRun(p)) /\ WF_vars(DockerUp(p) \/ DockerDown(p))
        /\ WF_vars(Answered(p)) /\ WF_vars(Read(p))

FairSpec == Spec /\ Fairness

-----------------------------------------------------------------------------
(* Properties *)

\* "Claim before any await so two simultaneous requests can't both start a run": the claim stands
\* for exactly one request that waits for docker, drill that runs or cleanup that wipes its
\* network, so that no two of them ever meet.
OneDrill ==
    running + cleaning + Cardinality({p \in Page : request[p] = "docker"})
        = IF isBusy THEN 1 ELSE 0

\* What is kept of a run, and replayed, is that run alone: its start, at most maxLines lines,
\* its end and, once the claim is free, idle.
RunIsWellFormed ==
    evs # <<>> =>
        /\ evs[1].type = "start"
        /\ \A i \in DOMAIN evs : evs[i].run = runs /\ (evs[i].type = "start" => i = 1)
        /\ Cardinality({i \in DOMAIN evs : evs[i].type = "line"}) <= MaxLines
        /\ running + cleaning = 0 =>
              Len(evs) >= 3 /\ evs[Len(evs) - 1].type = "end" /\ Last(evs).type = "idle"

\* What a page displays when it has read what is on its way.
Displayed(p) ==
    LET after[i \in 0..Len(wire[p])] == IF i = 0 THEN page[p] ELSE Handled(after[i - 1], wire[p][i])
    IN  after[Len(wire[p])].shown

\* A page that is connected displays, once it has read what is on its way, exactly the events of
\* the current run: replay and live events meet without gap or repetition, whenever it connected
\* and however often its connection broke or was dropped for being slow.
PagesFollowTheRun ==
    \A p \in clients : evs # <<>> => Displayed(p) = evs

\* No button is lost: where one is disabled something is still to come that gives it back, which
\* is an answer that does, the replay of a run or, to a page that is connected, the end of the
\* one that goes on, if its idle is not already the last that the page has to read.  Excepted is
\* a page whose status told it of docker's absence or of a claim that came to nothing: it has to
\* be reloaded, or waits for the next run.
NoButtonIsLost ==
    \A p \in Page : page[p].disabled /\ p \notin misled =>
        \/ page[p].load \in {"config", "status", "refused"}
        \/ request[p] \in {"sent", "docker", "busy", "no docker"}
        \/ page[p].load = "closed" /\ evs # <<>>
        \/ running + cleaning > 0
        \/ wire[p] # <<>> /\ Last(wire[p]).type = "idle"

\* Whatever happens to its requests and its stream, a page gets its button back, unless the
\* stream was refused or its status told it of docker's absence or of a claim that came to
\* nothing.
ButtonReturns ==
    \A p \in Page :
        page[p].disabled ~> ~page[p].disabled \/ page[p].load = "refused" \/ p \in misled
=============================================================================

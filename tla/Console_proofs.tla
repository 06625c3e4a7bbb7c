----------------------------- MODULE Console_proofs -----------------------------
(***************************************************************************)
(* What holds of the drill for any number of pages, clients, lines, runs,  *)
(* refusals and broken connections.                                        *)
(***************************************************************************)
EXTENDS Console, FiniteSetTheorems, TLAPS

\* For its induction over numbers.
Numbers == INSTANCE Selection_proofs

Claimants == {p \in Page : request[p] = "docker"}

\* Who has the claim: a request that waits for docker, a drill that runs, a cleanup, or nobody.
Claimed ==
    /\ request \in [Page -> {"none", "sent", "docker", "started", "busy", "no docker"}]
    /\ isBusy \in BOOLEAN
    /\ \/ isBusy /\ running = 1 /\ cleaning = 0 /\ Claimants = {}
       \/ isBusy /\ running = 0 /\ cleaning = 1 /\ Claimants = {}
       \/ isBusy /\ running = 0 /\ cleaning = 0 /\ \E p \in Page : Claimants = {p}
       \/ ~isBusy /\ running = 0 /\ cleaning = 0 /\ Claimants = {}

\* Requests that move otherwise than to docker and from it leave the claimants as they are.
LEMMA ClaimantsKept ==
    ASSUME Claimed, NEW p \in Page, request[p] # "docker",
           NEW to \in {"none", "sent", "started", "busy", "no docker"},
           request' = [request EXCEPT ![p] = to], UNCHANGED <<running, cleaning, isBusy>>
    PROVE  Claimed'
<1>1. \A q \in Page : request'[q] = "docker" <=> request[q] = "docker"
  BY DEF Claimed
<1>2. Claimants' = Claimants BY <1>1 DEF Claimants
<1>3. request' \in [Page -> {"none", "sent", "docker", "started", "busy", "no docker"}]
  BY DEF Claimed
<1> QED BY <1>2, <1>3, Zenon DEF Claimed

\* The claim passes from the request to the drill, to the cleanup and back, in no other way
\* (tryClaim, release, run).
LEMMA ClaimedStep == ASSUME Claimed, [Next]_vars PROVE Claimed'
<1> DEFINE Types == request \in [Page -> {"none", "sent", "docker", "started", "busy", "no docker"}]
<1>0. Types BY DEF Claimed
<1>1. CASE UNCHANGED <<request, running, cleaning, isBusy>>
  BY <1>1, Zenon DEF Claimed, Claimants
<1>2. CASE Exited
  <2>1. running > 0 /\ running' = running - 1 /\ cleaning' = cleaning + 1 /\ UNCHANGED <<isBusy, request>>
    BY <1>2, Zenon DEF Exited
  <2>2. running = 1 /\ cleaning = 0 /\ isBusy /\ Claimants = {}
    <3>1. running # 0 BY <2>1
    <3> QED BY <3>1, Zenon DEF Claimed
  <2>3. running' = 0 /\ cleaning' = 1 BY <2>1, <2>2
  <2>4. Claimants' = {} BY <2>1, <2>2, Zenon DEF Claimants
  <2> QED BY <1>0, <2>1, <2>2, <2>3, <2>4, Zenon DEF Claimed
<1>3. CASE CleanedUp
  <2>1. cleaning > 0 /\ cleaning' = cleaning - 1 /\ isBusy' = FALSE /\ UNCHANGED <<running, request>>
    BY <1>3, Zenon DEF CleanedUp
  <2>2. running = 0 /\ cleaning = 1 /\ isBusy /\ Claimants = {}
    <3>1. cleaning # 0 BY <2>1
    <3> QED BY <3>1, Zenon DEF Claimed
  <2>3. cleaning' = 0 BY <2>1, <2>2
  <2>4. Claimants' = {} BY <2>1, <2>2, Zenon DEF Claimants
  <2>5. isBusy' \in BOOLEAN BY <2>1
  <2> QED BY <1>0, <2>1, <2>2, <2>3, <2>4, <2>5, Zenon DEF Claimed
<1>4. ASSUME NEW p \in Page, PostRun(p) PROVE Claimed'
  <2>1. /\ request[p] = "sent" /\ isBusy' = TRUE /\ UNCHANGED <<running, cleaning>>
        /\ request' = [request EXCEPT ![p] = IF isBusy THEN "busy" ELSE "docker"]
    BY <1>4, Zenon DEF PostRun
  <2>2. CASE isBusy
    <3>1. request' = [request EXCEPT ![p] = "busy"] /\ isBusy' = isBusy BY <2>1, <2>2 DEF Claimed
    <3> QED BY <2>1, <3>1, ClaimantsKept
  <2>3. CASE ~isBusy
    <3>1. request' = [request EXCEPT ![p] = "docker"] BY <2>1, <2>3
    <3>2. running = 0 /\ cleaning = 0 /\ Claimants = {} BY <2>3 DEF Claimed
    <3>3. Claimants' = {p} BY <1>0, <3>1, <3>2 DEF Claimants
    <3>4. request' \in [Page -> {"none", "sent", "docker", "started", "busy", "no docker"}]
      BY <1>0, <3>1
    <3> QED BY <2>1, <3>2, <3>3, <3>4 DEF Claimed
  <2> QED BY <2>2, <2>3
<1>5. ASSUME NEW p \in Page, DockerUp(p) \/ DockerDown(p) PROVE Claimed'
  <2>1. PICK to \in {"started", "no docker"} :
            /\ request[p] = "docker" /\ request' = [request EXCEPT ![p] = to]
            /\ UNCHANGED cleaning
            /\ IF to = "started" THEN running' = running + 1 /\ isBusy' = isBusy
                                 ELSE running' = running /\ isBusy' = FALSE
    BY <1>5 DEF DockerUp, DockerDown, Run
  <2>2. p \in Claimants BY <2>1 DEF Claimants
  <2>3. isBusy /\ running = 0 /\ cleaning = 0 /\ Claimants = {p} BY <2>2 DEF Claimed
  <2>4. Claimants' = {} BY <1>0, <2>1, <2>3 DEF Claimants
  <2>5. request' \in [Page -> {"none", "sent", "docker", "started", "busy", "no docker"}]
    BY <1>0, <2>1
  <2>6. CASE to = "started"
    <3>1. running' = 1 /\ cleaning' = 0 BY <2>1, <2>3, <2>6
    <3>2. isBusy' = isBusy BY <2>1, <2>6, Zenon
    <3> QED BY <2>3, <2>4, <2>5, <3>1, <3>2, Zenon DEF Claimed
  <2>7. CASE to = "no docker"
    <3>1. running' = 0 /\ cleaning' = 0 BY <2>1, <2>3, <2>7
    <3>2. isBusy' = FALSE BY <2>1, <2>7
    <3> QED BY <2>4, <2>5, <3>1, <3>2, Zenon DEF Claimed
  <2> QED BY <2>1, <2>6, <2>7
<1>6. ASSUME NEW p \in Page, Click(p) \/ Answered(p) PROVE Claimed'
  <2>1. UNCHANGED <<running, cleaning, isBusy>> BY <1>6, Zenon DEF Click, Answered, runner
  <2>2. PICK to \in {"sent", "none"} : request[p] # "docker" /\ request' = [request EXCEPT ![p] = to]
    BY <1>6 DEF Click, Answered
  <2> QED BY <2>1, <2>2, ClaimantsKept
<1> QED BY <1>1, <1>2, <1>3, <1>4, <1>5, <1>6, Zenon
        DEF Next, Output, Status, Stream, StatusShown, Read, Break, runner, vars

\* At most one drill runs or is cleaned up after, and only for the claim that tryClaim gave
\* (DrillRunner, POST /api/run).
THEOREM OneDrillAtATime == Spec => []OneDrill
<1>1. Init => Claimed
  BY DEF Init, Claimed, Claimants
<1>2. Claimed /\ [Next]_vars => Claimed'
  BY ClaimedStep
<1>3. Claimed => OneDrill
  <2> SUFFICES ASSUME Claimed PROVE OneDrill OBVIOUS
  <2>1. Cardinality({}) = 0 /\ \A p : Cardinality({p}) = 1 BY FS_EmptySet, FS_Singleton
  <2> DEFINE C == Cardinality(Claimants)
  <2>2. \/ running = 1 /\ cleaning = 0 /\ C = 0 /\ isBusy
        \/ running = 0 /\ cleaning = 1 /\ C = 0 /\ isBusy
        \/ running = 0 /\ cleaning = 0 /\ C = 1 /\ isBusy
        \/ running = 0 /\ cleaning = 0 /\ C = 0 /\ ~isBusy
    BY <2>1, Zenon DEF Claimed
  <2> HIDE DEF C
  <2>3. running + cleaning + C = IF isBusy THEN 1 ELSE 0 BY <2>2
  <2> QED BY <2>3, Zenon DEF Claimants, OneDrill, C
<1> QED BY <1>1, <1>2, <1>3, PTL DEF Spec

-----------------------------------------------------------------------------
(* What is kept of a run *)

Types == evs \in Seq([type : {"start", "line", "end", "idle"}, run : Nat]) /\ lines \in Nat /\ runs \in Nat

LinesOf(es) == {i \in DOMAIN es : es[i].type = "line"}

\* The events are one run's, with no more lines than were printed, and end as far as it has come.
Headed  == evs # <<>> =>
    evs[1].type = "start" /\ \A i \in DOMAIN evs : evs[i].run = runs /\ (evs[i].type = "start" => i = 1)
Counted == IsFiniteSet(LinesOf(evs)) /\ Cardinality(LinesOf(evs)) <= lines /\ Cardinality(LinesOf(evs)) <= MaxLines
Ends    ==
    /\ running = 1 => evs # <<>>
    /\ cleaning = 1 => evs # <<>> /\ Last(evs).type = "end"
    /\ running = 0 /\ cleaning = 0 /\ evs # <<>> =>
          Len(evs) >= 3 /\ evs[Len(evs) - 1].type = "end" /\ Last(evs).type = "idle"
Kept == Claimed /\ Types /\ Headed /\ Counted /\ Ends

\* One more event of the run than before: the head stays, and a line is counted as one.
LEMMA Appended ==
    ASSUME Types, Headed, Counted, evs # <<>>, NEW type \in {"line", "end", "idle"},
           evs' = Append(evs, Of(type)), runs' = runs
    PROVE  /\ evs' \in Seq([type : {"start", "line", "end", "idle"}, run : Nat])
           /\ Headed' /\ evs' # <<>> /\ Last(evs') = Of(type) /\ Len(evs') = Len(evs) + 1
           /\ evs'[Len(evs)] = Last(evs)
           /\ IsFiniteSet(LinesOf(evs)')
           /\ Cardinality(LinesOf(evs)') = Cardinality(LinesOf(evs)) + (IF type = "line" THEN 1 ELSE 0)
<1> DEFINE E == [type : {"start", "line", "end", "idle"}, run : Nat]
<1>1. Of(type) \in E /\ Of(type).type = type /\ Of(type).run = runs BY DEF Of, Types
<1>2. evs \in Seq(E) /\ Len(evs) \in Nat \ {0} BY DEF Types
<1>3. /\ evs' \in Seq(E) /\ Len(evs') = Len(evs) + 1 /\ evs' # <<>>
      /\ evs'[Len(evs) + 1] = Of(type) /\ \A i \in 1..Len(evs) : evs'[i] = evs[i]
  <2> HIDE DEF E
  <2> QED BY <1>1, <1>2
<1>4. DOMAIN evs = 1..Len(evs) /\ DOMAIN evs' = 1..(Len(evs) + 1) BY <1>2, <1>3
<1>5. Headed'
  <2>1. evs'[1] = evs[1] BY <1>2, <1>3
  <2>2. ASSUME NEW i \in DOMAIN evs' PROVE evs'[i].run = runs /\ (evs'[i].type = "start" => i = 1)
    <3>1. CASE i \in 1..Len(evs) BY <1>3, <1>4, <3>1 DEF Headed
    <3>2. CASE i = Len(evs) + 1 BY <1>1, <1>3, <3>2
    <3> QED BY <1>2, <1>4, <2>2, <3>1, <3>2
  <2> QED BY <2>1, <2>2 DEF Headed
<1>6. Last(evs') = Of(type) /\ evs'[Len(evs)] = Last(evs) BY <1>2, <1>3 DEF Last
<1>7. LinesOf(evs)' = IF type = "line" THEN LinesOf(evs) \cup {Len(evs) + 1} ELSE LinesOf(evs)
  BY <1>1, <1>2, <1>3, <1>4 DEF LinesOf
<1>8. (Len(evs) + 1) \notin LinesOf(evs) BY <1>2, <1>4 DEF LinesOf
<1>9. /\ IsFiniteSet(LinesOf(evs)')
      /\ Cardinality(LinesOf(evs)') = Cardinality(LinesOf(evs)) + (IF type = "line" THEN 1 ELSE 0)
  <2>1. IsFiniteSet(LinesOf(evs)) /\ Cardinality(LinesOf(evs)) \in Nat BY FS_CardinalityType DEF Counted
  <2>2. CASE type = "line" BY <1>7, <1>8, <2>1, <2>2, FS_AddElement
  <2>3. CASE type # "line" BY <1>7, <2>1, <2>3
  <2> QED BY <2>2, <2>3
<1> QED BY <1>3, <1>5, <1>6, <1>9

\* Every step of the run adds the event that is due, and a new run starts over.
LEMMA KeptStep == ASSUME Kept, [Next]_vars PROVE Kept'
<1>0. Claimed /\ Types /\ Headed /\ Counted /\ Ends BY DEF Kept
<1>1. Claimed' BY <1>0, ClaimedStep
<1>2. CASE UNCHANGED <<evs, lines, runs, running, cleaning>>
  BY <1>0, <1>1, <1>2 DEF Kept, Types, Headed, Counted, Ends, LinesOf
<1>3. CASE Output
  <2>1. /\ running > 0 /\ lines' = lines + 1 /\ UNCHANGED <<running, cleaning, runs>>
        /\ IF lines < MaxLines THEN evs' = Append(evs, Of("line")) ELSE evs' = evs
    BY <1>3 DEF Output, Push
  <2>2. running = 1 /\ cleaning = 0
    <3>1. running # 0 BY <2>1
    <3> QED BY <1>0, <3>1, Zenon DEF Claimed
  <2>3. evs # <<>> BY <1>0, <2>2 DEF Ends
  <2>4. Cardinality(LinesOf(evs)) \in Nat BY <1>0, FS_CardinalityType DEF Counted
  <2>5. CASE lines < MaxLines
    <3>1. evs' = Append(evs, Of("line")) BY <2>1, <2>5
    <3>2. /\ evs' \in Seq([type : {"start", "line", "end", "idle"}, run : Nat]) /\ Headed' /\ evs' # <<>>
          /\ IsFiniteSet(LinesOf(evs)') /\ Cardinality(LinesOf(evs)') = Cardinality(LinesOf(evs)) + 1
      BY <1>0, <2>1, <2>3, <3>1, Appended
    <3>3. Types' BY <1>0, <2>1, <3>2 DEF Types
    <3>4. Counted' BY <1>0, <2>1, <2>4, <2>5, <3>2, ConsoleAssumption DEF Counted, Types
    <3>5. Ends' BY <2>1, <2>2, <3>2 DEF Ends
    <3> QED BY <1>1, <3>2, <3>3, <3>4, <3>5 DEF Kept
  <2>6. CASE ~(lines < MaxLines)
    <3>1. evs' = evs BY <2>1, <2>6
    <3>2. Types' /\ Headed' BY <1>0, <2>1, <3>1 DEF Types, Headed
    <3>3. Counted' BY <1>0, <2>1, <2>4, <3>1 DEF Counted, LinesOf, Types
    <3>4. Ends' BY <2>1, <2>2, <2>3, <3>1 DEF Ends
    <3> QED BY <1>1, <3>2, <3>3, <3>4 DEF Kept
  <2> QED BY <2>5, <2>6
<1>4. CASE Exited
  <2>1. /\ running > 0 /\ running' = running - 1 /\ cleaning' = cleaning + 1 /\ UNCHANGED <<lines, runs>>
        /\ evs' = Append(evs, Of("end"))
    BY <1>4 DEF Exited, Push
  <2>2. running = 1 /\ cleaning = 0
    <3>1. running # 0 BY <2>1
    <3> QED BY <1>0, <3>1, Zenon DEF Claimed
  <2>3. evs # <<>> BY <1>0, <2>2 DEF Ends
  <2>4. /\ evs' \in Seq([type : {"start", "line", "end", "idle"}, run : Nat]) /\ Headed' /\ evs' # <<>>
        /\ Last(evs') = Of("end")
        /\ IsFiniteSet(LinesOf(evs)') /\ Cardinality(LinesOf(evs)') = Cardinality(LinesOf(evs)) + 0
    BY <1>0, <2>1, <2>3, Appended
  <2>5. Types' BY <1>0, <2>1, <2>4 DEF Types
  <2>6. Cardinality(LinesOf(evs)) \in Nat BY <1>0, FS_CardinalityType DEF Counted
  <2>7. Counted' BY <1>0, <2>1, <2>4, <2>6 DEF Counted
  <2>8. running' = 0 /\ cleaning' = 1 BY <2>1, <2>2
  <2>9. Ends' BY <2>4, <2>8 DEF Ends, Of
  <2> QED BY <1>1, <2>4, <2>5, <2>7, <2>9 DEF Kept
<1>5. CASE CleanedUp
  <2>1. /\ cleaning > 0 /\ cleaning' = cleaning - 1 /\ UNCHANGED <<lines, running, runs>>
        /\ evs' = Append(evs, Of("idle"))
    BY <1>5 DEF CleanedUp, Push
  <2>2. running = 0 /\ cleaning = 1
    <3>1. cleaning # 0 BY <2>1
    <3> QED BY <1>0, <3>1, Zenon DEF Claimed
  <2>3. evs # <<>> /\ Last(evs).type = "end" BY <1>0, <2>2 DEF Ends
  <2>4. /\ evs' \in Seq([type : {"start", "line", "end", "idle"}, run : Nat]) /\ Headed' /\ evs' # <<>>
        /\ Last(evs') = Of("idle") /\ Len(evs') = Len(evs) + 1 /\ evs'[Len(evs)] = Last(evs)
        /\ IsFiniteSet(LinesOf(evs)') /\ Cardinality(LinesOf(evs)') = Cardinality(LinesOf(evs)) + 0
    BY <1>0, <2>1, <2>3, Appended
  <2>5. Types' BY <1>0, <2>1, <2>4 DEF Types
  <2>6. Cardinality(LinesOf(evs)) \in Nat BY <1>0, FS_CardinalityType DEF Counted
  <2>7. Counted' BY <1>0, <2>1, <2>4, <2>6 DEF Counted
  <2>8. running' = 0 /\ cleaning' = 0 BY <2>1, <2>2
  <2>9. Len(evs) \in Nat /\ Len(evs) >= 2
    <3>1. evs[1].type = "start" /\ Len(evs) \in Nat /\ Len(evs) # 0 BY <1>0, <2>3 DEF Headed, Types
    <3> QED BY <2>3, <3>1 DEF Last
  <2>10. Len(evs') >= 3 /\ evs'[Len(evs') - 1].type = "end" /\ Last(evs').type = "idle"
    BY <2>3, <2>4, <2>9 DEF Of
  <2>11. Ends' BY <2>8, <2>10 DEF Ends
  <2> QED BY <1>1, <2>4, <2>5, <2>7, <2>11 DEF Kept
<1>6. ASSUME NEW p \in Page, DockerUp(p) PROVE Kept'
  <2>1. /\ request[p] = "docker" /\ lines' = 0 /\ runs' = runs + 1 /\ running' = running + 1
        /\ cleaning' = cleaning /\ evs' = <<[type |-> "start", run |-> runs + 1]>>
    BY <1>6 DEF DockerUp, Run
  <2>2. p \in Claimants BY <2>1 DEF Claimants
  <2>3. running = 0 /\ cleaning = 0 BY <1>0, <2>2 DEF Claimed
  <2>4. running' = 1 /\ cleaning' = 0 BY <2>1, <2>3
  <2>5. Types' BY <1>0, <2>1 DEF Types
  <2>6. Headed' BY <2>1 DEF Headed
  <2>7. LinesOf(evs)' = {} BY <2>1 DEF LinesOf
  <2>8. Counted' BY <2>1, <2>7, FS_EmptySet, ConsoleAssumption DEF Counted
  <2>9. Ends' BY <2>1, <2>4 DEF Ends
  <2> QED BY <1>1, <2>5, <2>6, <2>8, <2>9 DEF Kept
<1>7. ASSUME NEW p \in Page,
             Status(p) \/ Stream(p) \/ PostRun(p) \/ DockerDown(p) \/ StatusShown(p) \/ Click(p)
                \/ Answered(p) \/ Read(p) \/ Break(p)
      PROVE  UNCHANGED <<evs, lines, runs, running, cleaning>>
  BY <1>7, Zenon DEF Status, Stream, PostRun, DockerDown, StatusShown, Click, Answered, Read, Break, runner
<1>8. CASE vars' = vars BY <1>2, <1>8, Zenon DEF vars, runner
<1> QED BY <1>2, <1>3, <1>4, <1>5, <1>6, <1>7, <1>8, Zenon DEF Next

\* At the start nobody has the claim and nothing is kept.
LEMMA KeptInit == Init => Kept
<1> SUFFICES ASSUME Init PROVE Kept OBVIOUS
<1>1. evs = <<>> /\ lines = 0 /\ runs = 0 /\ running = 0 /\ cleaning = 0 BY DEF Init
<1>2. Claimed BY DEF Init, Claimed, Claimants
<1>3. LinesOf(evs) = {} BY <1>1 DEF LinesOf
<1>4. Counted BY <1>1, <1>3, FS_EmptySet, ConsoleAssumption DEF Counted
<1> QED BY <1>1, <1>2, <1>4 DEF Kept, Types, Headed, Ends

\* What is kept of a run, and replayed to whoever connects, is that run alone: its start, at most
\* MaxLines lines, its end and, once the claim is free, idle (DrillRunner.push, run).
THEOREM RunsAreWhole == Spec => []RunIsWellFormed
<1>1. Init => Kept
  BY KeptInit
<1>2. Kept /\ [Next]_vars => Kept'
  BY KeptStep
<1>3. Kept => RunIsWellFormed
  <2> SUFFICES ASSUME Kept, evs # <<>> PROVE RunIsWellFormed BY DEF RunIsWellFormed
  <2>1. running + cleaning = 0 => running = 0 /\ cleaning = 0
    <3>1. running \in {0, 1} /\ cleaning \in {0, 1} BY Zenon DEF Kept, Claimed
    <3> QED BY <3>1
  <2>2. evs[1].type = "start" /\ \A i \in DOMAIN evs : evs[i].run = runs /\ (evs[i].type = "start" => i = 1)
    BY DEF Kept, Headed
  <2>3. Cardinality({i \in DOMAIN evs : evs[i].type = "line"}) <= MaxLines
    BY Zenon DEF Kept, Counted, LinesOf
  <2>4. running + cleaning = 0 => Len(evs) >= 3 /\ evs[Len(evs) - 1].type = "end" /\ Last(evs).type = "idle"
    BY <2>1, Zenon DEF Kept, Ends
  <2> QED BY <2>2, <2>3, <2>4, Zenon DEF RunIsWellFormed
<1> QED BY <1>1, <1>2, <1>3, PTL DEF Spec

-----------------------------------------------------------------------------
(* What pages display *)

Events == [type : {"start", "line", "end", "idle"}, run : Nat]

Loads == {"config", "status", "closed", "open", "refused"}

Displays == [load : Loads, busy : BOOLEAN, disabled : BOOLEAN, shown : Seq(Events)]

PagesOK == wire \in [Page -> Seq(Events)] /\ page \in [Page -> Displays] /\ clients \subseteq Page

\* Of the events on its way, ws, a page that shows s has read all but the last m: these are the end
\* of the run es, and the page shows what comes before them.
Follows(es, s, ws, m) ==
    /\ \A i \in 1..Len(es) :
          es[i] = IF Len(es) - i < m THEN ws[Len(ws) - (Len(es) - i)] ELSE s[i]
    /\ m < Len(es) => Len(s) = Len(es) - m

Following == PagesOK /\ \A p \in clients : Follows(evs, page[p].shown, wire[p], Len(wire[p]))

\* handle(e) shows one event more, or starts over.
LEMMA HandledShows ==
    ASSUME NEW pg \in Displays, NEW e \in Events
    PROVE  /\ Handled(pg, e) \in Displays
           /\ Handled(pg, e).shown = IF e.type = "start" THEN <<e>> ELSE Append(pg.shown, e)
           /\ Handled(pg, e).load = pg.load
<1>. DEFINE s == IF e.type = "start" THEN <<e>> ELSE Append(pg.shown, e)
            d == CASE e.type = "start" -> TRUE [] e.type = "idle" -> FALSE [] OTHER -> pg.disabled
<1>1. s \in Seq(Events)
  BY DEF Displays
<1>2. d \in BOOLEAN
  <2>1. pg.disabled \in BOOLEAN
    BY DEF Displays
  <2>. QED
    BY <2>1
<1>3. Handled(pg, e) = [pg EXCEPT !.shown = s, !.disabled = d]
  BY Zenon DEF Handled
<1>. HIDE DEF s, d
<1>4. Handled(pg, e) \in Displays /\ Handled(pg, e).shown = s /\ Handled(pg, e).load = pg.load
  BY <1>1, <1>2, <1>3 DEF Displays
<1>. QED
  BY <1>4 DEF s

\* Append adds one.
LEMMA AppendAddsOne ==
    ASSUME NEW S, NEW s \in Seq(S), NEW e \in S
    PROVE  /\ Len(Append(s, e)) = Len(s) + 1 /\ Append(s, e)[Len(s) + 1] = e
           /\ \A i \in 1..Len(s) : Append(s, e)[i] = s[i]
  OBVIOUS

\* A page that follows still does when it has handled the next event.
LEMMA OneMoreRead ==
    ASSUME Types, Headed, NEW s \in Seq(Events), NEW ws \in Seq(Events),
           NEW m \in 1..Len(ws), Follows(evs, s, ws, m),
           NEW t, t = IF ws[Len(ws) - m + 1].type = "start" THEN <<ws[Len(ws) - m + 1]>>
                      ELSE Append(s, ws[Len(ws) - m + 1])
    PROVE  Follows(evs, t, ws, m - 1)
<1>. DEFINE n == Len(evs)
            e == ws[Len(ws) - m + 1]
<1>1. n \in Nat /\ Len(ws) \in Nat /\ m \in Nat \ {0}
  BY DEF Types
<1>2. e \in Events
  OBVIOUS
<1>3. CASE n < m
  <2>1. \A i \in 1..n : n - i < m /\ n - i < m - 1
    BY <1>1, <1>3
  <2>2. \A i \in 1..n : evs[i] = IF n - i < m - 1 THEN ws[Len(ws) - (n - i)] ELSE t[i]
    BY <2>1, Zenon DEF Follows
  <2>3. ~(m - 1 < n)
    BY <1>1, <1>3
  <2>. QED
    BY <2>2, <2>3, Zenon DEF Follows
<1>4. CASE m <= n
  <2>1. n - m + 1 \in 1..n /\ n - (n - m + 1) = m - 1 /\ Len(ws) - (m - 1) = Len(ws) - m + 1
    BY <1>1, <1>4
  <2>2. evs[n - m + 1] = e
    <3>1. m - 1 < m
      BY <1>1
    <3>. QED
      BY <2>1, <3>1 DEF Follows
  <2>3. Len(t) = n - (m - 1) /\ t[n - m + 1] = e /\ \A i \in 1..(n - m) : t[i] = s[i]
    <3>1. CASE n = m
      <4>1. e.type = "start"
        <5>1. evs # <<>> /\ n - m + 1 = 1
          BY <1>1, <3>1
        <5>. QED
          BY <2>2, <5>1 DEF Headed
      <4>2. t = <<e>>
        BY <4>1
      <4>3. n - (m - 1) = 1 /\ n - m + 1 = 1 /\ 1..(n - m) = {}
        BY <1>1, <3>1
      <4>. HIDE DEF e, n
      <4>4. Len(t) = 1 /\ t[1] = e
        BY <4>2
      <4>. QED
        BY <4>3, <4>4, Zenon
    <3>2. CASE n # m
      <4>1. e.type # "start"
        <5>1. evs # <<>> /\ n - m + 1 # 1 /\ n - m + 1 \in DOMAIN evs
          BY <1>1, <1>4, <3>2 DEF Types
        <5>. QED
          BY <2>2, <5>1 DEF Headed
      <4>2. t = Append(s, e)
        BY <4>1
      <4>3. Len(s) = n - m
        <5>1. m < n
          BY <1>1, <1>4, <3>2
        <5>. QED
          BY <5>1 DEF Follows
      <4>. HIDE DEF e, n
      <4>4. Len(t) = Len(s) + 1 /\ t[Len(s) + 1] = e /\ \A i \in 1..Len(s) : t[i] = s[i]
        <5>1. s \in Seq(Events)
          OBVIOUS
        <5>2. Len(Append(s, e)) = Len(s) + 1
          BY <1>2, <5>1, AppendAddsOne, Zenon
        <5>3. Append(s, e)[Len(s) + 1] = e
          BY <1>2, <5>1, AppendAddsOne, Zenon
        <5>4. ASSUME NEW i \in 1..Len(s) PROVE Append(s, e)[i] = s[i]
          BY <1>2, <5>1, AppendAddsOne
        <5>. QED
          BY <4>2, <5>2, <5>3, <5>4, Zenon
      <4>5. Len(s) + 1 = n - (m - 1) /\ Len(s) + 1 = n - m + 1
        BY <1>1, <4>3
      <4>. QED
        BY <4>3, <4>4, <4>5, Zenon
    <3>. QED
      BY <3>1, <3>2
  <2>4. ASSUME NEW i \in 1..n
        PROVE  evs[i] = IF n - i < m - 1 THEN ws[Len(ws) - (n - i)] ELSE t[i]
    <3>1. CASE n - i < m - 1
      <4>1. n - i < m
        BY <1>1, <3>1
      <4>. QED
        BY <3>1, <4>1, Zenon DEF Follows
    <3>2. CASE n - i = m - 1
      <4>1. i = n - m + 1 /\ ~(n - i < m - 1)
        BY <1>1, <3>2
      <4>. QED
        BY <2>2, <2>3, <4>1, Zenon
    <3>3. CASE ~(n - i < m)
      <4>1. i \in 1..(n - m) /\ ~(n - i < m - 1)
        BY <1>1, <3>3
      <4>2. evs[i] = s[i]
        BY <3>3, Zenon DEF Follows
      <4>. QED
        BY <2>3, <4>1, <4>2, Zenon
    <3>4. n - i < m - 1 \/ n - i = m - 1 \/ ~(n - i < m)
      <4>1. i \in Int
        OBVIOUS
      <4>. HIDE DEF n
      <4>. QED
        BY <1>1, <4>1
    <3>. QED
      BY <3>1, <3>2, <3>3, <3>4, Zenon
  <2>. QED
    BY <2>3, <2>4, Zenon DEF Follows
<1>5. n < m \/ m <= n
  BY <1>1
<1>. QED
  BY <1>3, <1>4, <1>5, Zenon

\* The fold of Displayed has a solution, and it ends with what the page shows when all is read.
LEMMA AllRead ==
    ASSUME Types, Headed, PagesOK, NEW p \in clients, Follows(evs, page[p].shown, wire[p], Len(wire[p])),
           evs # <<>>
    PROVE  Displayed(p) = evs
<1>. DEFINE pg == page[p]
            ws == wire[p]
            After(f, m) == f = [i \in 0..m |-> IF i = 0 THEN pg ELSE Handled(f[i - 1], ws[i])]
<1>0. p \in Page /\ pg \in Displays /\ ws \in Seq(Events) /\ Len(ws) \in Nat
  BY DEF PagesOK
<1>1. ASSUME NEW f, NEW m \in Nat, After(f, m)
      PROVE  f[0] = pg /\ \A i \in 1..m : f[i] = Handled(f[i - 1], ws[i])
  <2>. DEFINE F(i) == IF i = 0 THEN pg ELSE Handled(f[i - 1], ws[i])
  <2>1. \A i \in 0..m : f[i] = F(i)
    BY <1>1
  <2>. QED
    BY <2>1
<1>2. \E f : After(f, Len(ws))
  <2>. DEFINE T == {m \in Nat : \E f : After(f, m)}
  <2>1. 0 \in T
    <3>1. After([i \in 0..0 |-> pg], 0)
      OBVIOUS
    <3>. QED
      BY <3>1
  <2>2. ASSUME NEW m \in Nat, m \in T PROVE m + 1 \in T
    <3>1. PICK f : After(f, m)
      BY <2>2
    <3>. DEFINE g == [i \in 0..(m + 1) |-> IF i <= m THEN f[i] ELSE Handled(f[m], ws[m + 1])]
                G(i) == IF i = 0 THEN pg ELSE Handled(g[i - 1], ws[i])
    <3>2. \A i \in 1..m : f[i] = Handled(f[i - 1], ws[i])
      BY <1>1, <3>1
    <3>3. f[0] = pg
      BY <1>1, <3>1
    <3>4. ASSUME NEW i \in 0..(m + 1) PROVE g[i] = G(i)
      <4>1. CASE i = 0
        BY <3>3, <4>1
      <4>2. CASE i \in 1..m
        <5>1. i # 0 /\ i <= m /\ i - 1 \in 0..(m + 1) /\ i - 1 <= m
          BY <4>2
        <5>2. g[i] = f[i] /\ g[i - 1] = f[i - 1]
          BY <5>1
        <5>. QED
          BY <3>2, <4>2, <5>1, <5>2, Zenon
      <4>3. CASE i = m + 1
        <5>1. i # 0 /\ ~(i <= m) /\ i - 1 = m /\ m \in 0..(m + 1) /\ m <= m
          BY <4>3
        <5>2. g[m] = f[m] /\ g[i] = Handled(f[m], ws[m + 1])
          BY <5>1
        <5>. QED
          BY <4>3, <5>1, <5>2, Zenon
      <4>4. i = 0 \/ i \in 1..m \/ i = m + 1
        OBVIOUS
      <4>. QED
        BY <4>1, <4>2, <4>3, <4>4, Zenon
    <3>5. g = [i \in 0..(m + 1) |-> G(i)]
      <4>1. g = [i \in 0..(m + 1) |-> g[i]]
        <5>. DEFINE V(i) == IF i <= m THEN f[i] ELSE Handled(f[m], ws[m + 1])
        <5>1. g = [i \in 0..(m + 1) |-> V(i)] /\ \A i \in 0..(m + 1) : g[i] = V(i)
          OBVIOUS
        <5>. HIDE DEF V, g
        <5>. QED
          BY <5>1
      <4>. HIDE DEF g, G
      <4>. QED
        BY <3>4, <4>1
    <3>6. \E h : After(h, m + 1)
      <4>. HIDE DEF g
      <4>. QED
        BY <3>5, Zenon
    <3>7. m + 1 \in Nat
      OBVIOUS
    <3>. QED
      BY <3>6, <3>7, Zenon
  <2>. HIDE DEF T
  <2>3. Len(ws) \in T
    BY <1>0, <2>1, <2>2, Numbers!Induction
  <2>. QED
    BY <2>3 DEF T
<1>. DEFINE after == CHOOSE f : After(f, Len(ws))
<1>3. After(after, Len(ws))
  <2>. HIDE DEF After
  <2>. QED
    BY <1>2, Zenon
<1>4. Displayed(p) = after[Len(ws)].shown
  BY Zenon DEF Displayed
<1>. HIDE DEF after
<1>5. after[0] = pg /\ \A i \in 1..Len(ws) : after[i] = Handled(after[i - 1], ws[i])
  <2>. HIDE DEF After
  <2>. QED
    BY <1>0, <1>1, <1>3, Zenon
<1>. HIDE DEF After
<1>. DEFINE R(i) == after[i] \in Displays /\ Follows(evs, after[i].shown, ws, Len(ws) - i)
            T == {i \in Nat : i <= Len(ws) => R(i)}
<1>6. 0 \in T
  <2>1. Len(ws) - 0 = Len(ws)
    BY <1>0
  <2>2. R(0)
    BY <1>0, <1>5, <2>1, Zenon
  <2>. QED
    BY <2>2, Zenon
<1>7. ASSUME NEW i \in Nat, i \in T PROVE i + 1 \in T
  <2>. SUFFICES ASSUME i + 1 <= Len(ws) PROVE R(i + 1)
    OBVIOUS
  <2>. DEFINE m == Len(ws) - i
              e == ws[i + 1]
  <2>1. /\ m \in 1..Len(ws) /\ i + 1 \in 1..Len(ws) /\ (i + 1) - 1 = i /\ i <= Len(ws)
        /\ Len(ws) - m + 1 = i + 1 /\ m - 1 = Len(ws) - (i + 1)
    BY <1>0
  <2>2. after[i] \in Displays /\ Follows(evs, after[i].shown, ws, m)
    BY <1>7, <2>1, Zenon
  <2>3. e \in Events
    BY <1>0, <2>1
  <2>4. after[i + 1] = Handled(after[i], e)
    BY <1>5, <2>1, Zenon
  <2>5. after[i + 1] \in Displays
    BY <2>2, <2>3, <2>4, HandledShows, Zenon
  <2>6. after[i + 1].shown = IF e.type = "start" THEN <<e>> ELSE Append(after[i].shown, e)
    BY <2>2, <2>3, <2>4, HandledShows, Zenon
  <2>7. after[i].shown \in Seq(Events)
    BY <2>2 DEF Displays
  <2>8. after[i + 1].shown = IF ws[Len(ws) - m + 1].type = "start" THEN <<ws[Len(ws) - m + 1]>>
                             ELSE Append(after[i].shown, ws[Len(ws) - m + 1])
    BY <2>1, <2>6, Zenon
  <2>9. Follows(evs, after[i + 1].shown, ws, m - 1)
    <3>. HIDE DEF m
    <3>. QED
      BY <1>0, <2>1, <2>2, <2>7, <2>8, OneMoreRead, Zenon
  <2>. QED
    BY <2>1, <2>5, <2>9, Zenon
<1>8. R(Len(ws))
  <2>1. Len(ws) <= Len(ws)
    BY <1>0
  <2>2. Len(ws) \in T
    <3>. HIDE DEF T
    <3>. QED
      BY <1>0, <1>6, <1>7, Numbers!Induction
  <2>. QED
    BY <2>1, <2>2, Zenon
<1>. DEFINE s == after[Len(ws)].shown
<1>9. s \in Seq(Events) /\ Follows(evs, s, ws, 0)
  <2>1. Len(ws) - Len(ws) = 0
    BY <1>0
  <2>2. s \in Seq(Events)
    BY <1>8 DEF Displays
  <2>. QED
    BY <1>8, <2>1, <2>2, Zenon
<1>10. s = evs
  <2>. HIDE DEF s
  <2>1. evs \in Seq(Events) /\ Len(evs) \in Nat \ {0}
    BY DEF Types, Events
  <2>2. Len(s) = Len(evs)
    BY <1>9, <2>1 DEF Follows
  <2>3. ASSUME NEW i \in 1..Len(evs) PROVE evs[i] = s[i]
    <3>1. ~(Len(evs) - i < 0)
      BY <2>1
    <3>. QED
      BY <1>9, <3>1, Zenon DEF Follows
  <2>. QED
    BY <1>9, <2>1, <2>2, <2>3
<1>. QED
  BY <1>4, <1>10, Zenon

\* A page that connects or loses its connection shows what it showed.
LEMMA Reloaded ==
    ASSUME NEW pg \in Displays, NEW to \in Loads
    PROVE  [pg EXCEPT !.load = to] \in Displays /\ [pg EXCEPT !.load = to].shown = pg.shown
  BY DEF Displays

\* The same of one page among all.
LEMMA PagesReloaded ==
    ASSUME PagesOK, NEW p \in Page,
           page' = [page EXCEPT ![p].load = "closed"] \/ page' = [page EXCEPT ![p].load = "open"]
    PROVE  page' \in [Page -> Displays] /\ \A q \in Page : page'[q].shown = page[q].shown
<1>1. page \in [Page -> Displays] /\ "closed" \in Loads /\ "open" \in Loads
  BY DEF PagesOK, Loads
<1>2. PICK to \in Loads : page' = [page EXCEPT ![p].load = to]
  BY <1>1, Zenon
<1>. DEFINE pg == [page[p] EXCEPT !.load = to]
<1>3. page' = [page EXCEPT ![p] = pg]
  BY <1>1, <1>2
<1>4. pg \in Displays /\ pg.shown = page[p].shown
  BY <1>1, Reloaded, Zenon
<1>. HIDE DEF pg
<1>. QED
  BY <1>1, <1>3, <1>4

\* So does one whose status or button changes.
LEMMA Redrawn ==
    ASSUME NEW pg \in Displays, NEW b \in BOOLEAN
    PROVE  /\ [pg EXCEPT !.busy = b] \in Displays /\ [pg EXCEPT !.busy = b].shown = pg.shown
           /\ [pg EXCEPT !.disabled = b] \in Displays /\ [pg EXCEPT !.disabled = b].shown = pg.shown
  BY DEF Displays

\* A client that a broadcast does not drop has one event more on its way, and no page shows another
\* thing than before.
LEMMA BroadcastFollows ==
    ASSUME PagesOK, NEW e \in Events, Broadcast(<<e>>)
    PROVE  /\ PagesOK' /\ clients' \subseteq clients
           /\ \A p \in clients' : page'[p].shown = page[p].shown /\ wire'[p] = Append(wire[p], e)
<1>. DEFINE gone == {p \in clients : <<e>> # <<>> /\ Slow(p)}
<1>1. /\ clients' = clients \ gone
      /\ wire' = [p \in Page |-> IF p \in gone \/ p \notin clients THEN <<>> ELSE wire[p] \o <<e>>]
      /\ page' = [p \in Page |-> IF p \in gone THEN [page[p] EXCEPT !.load = "closed"] ELSE page[p]]
  BY Zenon DEF Broadcast
<1>. HIDE DEF gone
<1>2. \A p \in Page : wire[p] \in Seq(Events) /\ page[p] \in Displays
  BY DEF PagesOK
<1>3. \A p \in Page : wire[p] \o <<e>> = Append(wire[p], e) /\ wire[p] \o <<e>> \in Seq(Events)
  <2>. SUFFICES ASSUME NEW p \in Page
                PROVE  wire[p] \o <<e>> = Append(wire[p], e) /\ wire[p] \o <<e>> \in Seq(Events)
    OBVIOUS
  <2>1. wire[p] \in Seq(Events)
    BY <1>2
  <2>. HIDE DEF Events
  <2>. QED
    BY <2>1
<1>4. \A p \in Page : [page[p] EXCEPT !.load = "closed"] \in Displays
  <2>1. "closed" \in Loads
    BY DEF Loads
  <2>. QED
    BY <1>2, <2>1, Reloaded, Zenon
<1>5. wire' \in [Page -> Seq(Events)]
  <2>1. <<>> \in Seq(Events)
    OBVIOUS
  <2>. QED
    BY <1>1, <1>3, <2>1
<1>6. page' \in [Page -> Displays]
  BY <1>1, <1>2, <1>4
<1>7. clients' \subseteq clients /\ clients \subseteq Page
  BY <1>1 DEF PagesOK
<1>8. ASSUME NEW p \in clients'
      PROVE  page'[p].shown = page[p].shown /\ wire'[p] = Append(wire[p], e)
  <2>1. p \in Page /\ p \in clients /\ p \notin gone
    BY <1>1, <1>7
  <2>2. page'[p] = page[p] /\ wire'[p] = wire[p] \o <<e>>
    BY <1>1, <2>1
  <2>. QED
    BY <1>3, <2>1, <2>2
<1>. QED
  BY <1>5, <1>6, <1>7, <1>8, Zenon DEF PagesOK

\* One event more of the run, for the page and for what is kept.
LEMMA FollowsOneMore ==
    ASSUME NEW es \in Seq(Events), NEW e \in Events, NEW s, NEW ws \in Seq(Events),
           Follows(es, s, ws, Len(ws))
    PROVE  Follows(Append(es, e), s, Append(ws, e), Len(Append(ws, e)))
<1>. DEFINE n  == Len(es)
            m  == Len(ws)
            fs == Append(es, e)
            xs == Append(ws, e)
<1>1. n \in Nat /\ m \in Nat /\ Len(fs) = n + 1 /\ Len(xs) = m + 1
  OBVIOUS
<1>2. /\ fs[n + 1] = e /\ \A i \in 1..n : fs[i] = es[i]
      /\ xs[m + 1] = e /\ \A i \in 1..m : xs[i] = ws[i]
  OBVIOUS
<1>3. \A i \in 1..n : es[i] = IF n - i < m THEN ws[m - (n - i)] ELSE s[i]
  BY Zenon DEF Follows
<1>4. m < n => Len(s) = n - m
  BY Zenon DEF Follows
<1>. HIDE DEF n, m, fs, xs
<1>5. ASSUME NEW i \in 1..Len(fs)
      PROVE  fs[i] = IF Len(fs) - i < Len(xs) THEN xs[Len(xs) - (Len(fs) - i)] ELSE s[i]
  <2>1. CASE i = n + 1
    <3>1. Len(fs) - i < Len(xs) /\ Len(xs) - (Len(fs) - i) = m + 1
      BY <1>1, <2>1
    <3>. QED
      BY <1>2, <2>1, <3>1, Zenon
  <2>2. CASE i \in 1..n
    <3>1. CASE n - i < m
      <4>1. /\ Len(fs) - i < Len(xs) /\ Len(xs) - (Len(fs) - i) = m - (n - i)
            /\ m - (n - i) \in 1..m
        BY <1>1, <2>2, <3>1
      <4>. QED
        BY <1>2, <1>3, <2>2, <3>1, <4>1, Zenon
    <3>2. CASE ~(n - i < m)
      <4>1. ~(Len(fs) - i < Len(xs))
        BY <1>1, <2>2, <3>2
      <4>. QED
        BY <1>2, <1>3, <2>2, <3>2, <4>1, Zenon
    <3>. QED
      BY <3>1, <3>2, Zenon
  <2>3. i = n + 1 \/ i \in 1..n
    BY <1>1
  <2>. QED
    BY <2>1, <2>2, <2>3, Zenon
<1>6. Len(xs) < Len(fs) => Len(s) = Len(fs) - Len(xs)
  BY <1>1, <1>4
<1>7. Follows(fs, s, xs, Len(xs))
  BY <1>5, <1>6, Zenon DEF Follows
<1>. QED
  BY <1>7 DEF fs, xs

\* A run that begins is shown from its start, whatever a page shows or has on its way.
LEMMA FollowsStart ==
    ASSUME NEW e \in Events, NEW s, NEW ws \in Seq(Events)
    PROVE  Follows(<<e>>, s, Append(ws, e), Len(Append(ws, e)))
<1>. DEFINE es == <<e>>
            xs == Append(ws, e)
<1>1. Len(es) = 1 /\ es[1] = e /\ Len(xs) \in Nat \ {0} /\ xs[Len(xs)] = e
  OBVIOUS
<1>. HIDE DEF es, xs
<1>2. ~(Len(xs) < 1) /\ 1 - 1 < Len(xs) /\ Len(xs) - (1 - 1) = Len(xs) /\ \A i \in 1..1 : i = 1
  BY <1>1
<1>3. Follows(es, s, xs, Len(xs))
  BY <1>1, <1>2, Zenon DEF Follows
<1>. QED
  BY <1>3 DEF es, xs

\* A page that joins is sent the run so far.
LEMMA FollowsReplay ==
    ASSUME NEW es \in Seq(Events), NEW s
    PROVE  Follows(es, s, es, Len(es))
<1>. DEFINE n == Len(es)
<1>1. n \in Nat
  OBVIOUS
<1>2. \A i \in 1..n : n - i < n /\ n - (n - i) = i
  BY <1>1
<1>3. ~(n < n)
  BY <1>1
<1>. QED
  BY <1>2, <1>3, Zenon DEF Follows

\* What is on its way goes on being the end of the run, whoever reads, joins, is dropped or starts
\* a run.
LEMMA FollowingStep == ASSUME Kept, Following, [Next]_vars PROVE Following'
<1>0. Types /\ Headed /\ PagesOK /\ runs \in Nat /\ evs \in Seq(Events)
  BY DEF Kept, Following, Types, Events
<1>1. ASSUME NEW e \in Events, Broadcast(<<e>>), evs' = Append(evs, e) \/ evs' = <<e>>
      PROVE  Following'
  <2>1. /\ PagesOK' /\ clients' \subseteq clients
        /\ \A p \in clients' : page'[p].shown = page[p].shown /\ wire'[p] = Append(wire[p], e)
    BY <1>0, <1>1, BroadcastFollows
  <2>2. ASSUME NEW p \in clients' PROVE Follows(evs', page'[p].shown, wire'[p], Len(wire'[p]))
    <3>1. p \in clients /\ wire[p] \in Seq(Events) /\ Follows(evs, page[p].shown, wire[p], Len(wire[p]))
      BY <1>0, <2>1 DEF PagesOK, Following
    <3>2. page'[p].shown = page[p].shown /\ wire'[p] = Append(wire[p], e)
      BY <2>1
    <3>3. CASE evs' = Append(evs, e)
      BY <1>0, <3>1, <3>2, <3>3, FollowsOneMore, Zenon
    <3>4. CASE evs' = <<e>>
      BY <3>1, <3>2, <3>4, FollowsStart, Zenon
    <3>. QED
      BY <1>1, <3>3, <3>4, Zenon
  <2>. QED
    BY <2>1, <2>2, Zenon DEF Following
<1>2. CASE Output \/ Exited \/ CleanedUp
  <2>1. \/ \E type \in {"line", "end", "idle"} : Push(evs, type)
        \/ UNCHANGED <<evs, sse, page>>
    BY <1>2, Zenon DEF Output, Exited, CleanedUp
  <2>2. ASSUME NEW type \in {"line", "end", "idle"}, Push(evs, type) PROVE Following'
    <3>1. Of(type) \in Events
      BY <1>0 DEF Of, Events
    <3>2. Broadcast(<<Of(type)>>) /\ evs' = Append(evs, Of(type))
      BY <2>2, Zenon DEF Push
    <3>. QED
      BY <1>1, <3>1, <3>2, Zenon
  <2>3. CASE UNCHANGED <<evs, sse, page>>
    BY <2>3, Zenon DEF Following, PagesOK, Follows, sse
  <2>. QED
    BY <2>1, <2>2, <2>3, Zenon
<1>3. ASSUME NEW p \in Page, DockerUp(p) PROVE Following'
  <2>. DEFINE start == [type |-> "start", run |-> runs + 1]
  <2>1. start \in Events
    BY <1>0 DEF Events
  <2>2. evs' = <<start>> /\ Broadcast(<<start>>)
    BY <1>3, Zenon DEF DockerUp, Run
  <2>. HIDE DEF start
  <2>. QED
    BY <1>1, <2>1, <2>2, Zenon
<1>4. ASSUME NEW p \in Page, NEW pg \in Displays, pg.shown = page[p].shown,
             page' = [page EXCEPT ![p] = pg], UNCHANGED <<evs, sse>>
      PROVE  Following'
  <2>1. PagesOK'
    BY <1>0, <1>4 DEF PagesOK, sse
  <2>2. \A q \in Page : page'[q].shown = page[q].shown
    BY <1>0, <1>4 DEF PagesOK
  <2>3. clients' \subseteq Page /\ clients' = clients /\ wire' = wire /\ evs' = evs
    BY <1>4, <2>1 DEF PagesOK, sse
  <2>4. \A q \in clients : Follows(evs, page'[q].shown, wire[q], Len(wire[q]))
    <3>. SUFFICES ASSUME NEW q \in clients
                  PROVE  Follows(evs, page'[q].shown, wire[q], Len(wire[q]))
      OBVIOUS
    <3>1. q \in Page
      BY <1>0 DEF PagesOK
    <3>. QED
      BY <2>2, <3>1, Zenon DEF Following
  <2>. QED
    BY <2>1, <2>3, <2>4, Zenon DEF Following
<1>5. ASSUME NEW p \in Page, Status(p) \/ StatusShown(p) \/ Click(p) \/ Answered(p) PROVE Following'
  <2>1. page[p] \in Displays /\ isBusy \in BOOLEAN
    BY <1>0 DEF PagesOK, Kept, Claimed
  <2>2. UNCHANGED <<evs, sse>>
    BY <1>5, Zenon DEF Status, StatusShown, Click, Answered, runner
  <2>3. \E pg \in Displays : pg.shown = page[p].shown /\ page' = [page EXCEPT ![p] = pg]
    <3>1. CASE Status(p)
      <4>. DEFINE pg == [page[p] EXCEPT !.load = "status"]
                  qg == [pg EXCEPT !.busy = isBusy]
      <4>1. page' = [page EXCEPT ![p] = qg]
        BY <1>0, <3>1 DEF Status, PagesOK, Displays
      <4>2. "status" \in Loads
        BY DEF Loads
      <4>3. pg \in Displays /\ pg.shown = page[p].shown
        BY <2>1, <4>2, Reloaded, Zenon
      <4>. HIDE DEF pg
      <4>4. qg \in Displays /\ qg.shown = pg.shown
        BY <2>1, <4>3, Redrawn, Zenon
      <4>. QED
        BY <4>1, <4>3, <4>4, Zenon
    <3>2. CASE StatusShown(p)
      <4>0. PICK dockerOk \in BOOLEAN :
                page' = [page EXCEPT ![p].load = "closed", ![p].disabled = ~dockerOk \/ page[p].busy]
        BY <3>2, Zenon DEF StatusShown
      <4>. DEFINE b  == ~dockerOk \/ page[p].busy
                  pg == [page[p] EXCEPT !.load = "closed"]
                  qg == [pg EXCEPT !.disabled = b]
      <4>1. page' = [page EXCEPT ![p] = qg]
        BY <1>0, <4>0 DEF PagesOK, Displays
      <4>2. "closed" \in Loads /\ b \in BOOLEAN
        BY <2>1 DEF Displays, Loads
      <4>3. pg \in Displays /\ pg.shown = page[p].shown
        BY <2>1, <4>2, Reloaded, Zenon
      <4>. HIDE DEF b, pg
      <4>4. qg \in Displays /\ qg.shown = pg.shown
        BY <4>2, <4>3, Redrawn, Zenon
      <4>. QED
        BY <4>1, <4>3, <4>4, Zenon
    <3>3. CASE Click(p)
      <4>1. page' = [page EXCEPT ![p] = [page[p] EXCEPT !.disabled = TRUE]]
        BY <1>0, <3>3 DEF Click, PagesOK
      <4>. QED
        BY <2>1, <4>1 DEF Displays
    <3>4. CASE Answered(p)
      <4>1. \/ page' = [page EXCEPT ![p] = page[p]]
            \/ page' = [page EXCEPT ![p] = [page[p] EXCEPT !.disabled = FALSE]]
        BY <1>0, <3>4 DEF Answered, PagesOK
      <4>. QED
        BY <2>1, <4>1 DEF Displays
    <3>. QED
      BY <1>5, <3>1, <3>2, <3>3, <3>4, Zenon
  <2>. QED
    BY <1>4, <2>2, <2>3, Zenon
<1>6. ASSUME NEW p \in Page, PostRun(p) \/ DockerDown(p) PROVE Following'
  <2>1. UNCHANGED <<evs, sse, page>>
    BY <1>6, Zenon DEF PostRun, DockerDown
  <2>. QED
    BY <2>1, Zenon DEF Following, PagesOK, Follows, sse
<1>7. ASSUME NEW p \in Page, Stream(p) PROVE Following'
  <2>1. page[p] \in Displays /\ UNCHANGED evs
    BY <1>0, <1>7, Zenon DEF PagesOK, Stream, runner
  <2>2. CASE UNCHANGED sse
    <3>1. \E to \in Loads : page' = [page EXCEPT ![p].load = to]
      <4>1. "refused" \in Loads /\ "open" \in Loads
        BY DEF Loads
      <4>. QED
        BY <1>7, <4>1, Zenon DEF Stream
    <3>2. PICK to \in Loads : page' = [page EXCEPT ![p].load = to]
      BY <3>1
    <3>3. page' = [page EXCEPT ![p] = [page[p] EXCEPT !.load = to]]
      BY <1>0, <3>2 DEF PagesOK
    <3>4. [page[p] EXCEPT !.load = to] \in Displays /\ [page[p] EXCEPT !.load = to].shown = page[p].shown
      BY <2>1 DEF Displays
    <3>. QED
      BY <1>4, <2>1, <2>2, <3>3, <3>4, Zenon
  <2>3. CASE Add(p) /\ page' = [page EXCEPT ![p].load = "open"]
    <3>1. clients' = clients \cup {p} /\ wire' = [wire EXCEPT ![p] = evs]
      BY <2>3, Zenon DEF Add
    <3>2. evs \in Seq(Events)
      BY <1>0 DEF Types, Events
    <3>3. wire' \in [Page -> Seq(Events)] /\ wire'[p] = evs /\ \A q \in Page \ {p} : wire'[q] = wire[q]
      BY <1>0, <3>1, <3>2 DEF PagesOK
    <3>4. page' \in [Page -> Displays] /\ \A q \in Page : page'[q].shown = page[q].shown
      BY <1>0, <2>3, PagesReloaded, Zenon
    <3>5. clients' \subseteq Page
      BY <1>0, <3>1 DEF PagesOK
    <3>6. ASSUME NEW q \in clients' PROVE Follows(evs, page'[q].shown, wire'[q], Len(wire'[q]))
      <4>1. CASE q = p
        BY <1>0, <3>3, <4>1, FollowsReplay
      <4>2. CASE q # p
        <5>1. q \in clients /\ wire'[q] = wire[q] /\ page'[q].shown = page[q].shown
          BY <3>1, <3>3, <3>4, <3>5, <3>6, <4>2
        <5>. QED
          BY <5>1, Zenon DEF Following
      <4>. QED
        BY <4>1, <4>2
    <3>. QED
      BY <2>1, <3>3, <3>4, <3>5, <3>6, Zenon DEF Following, PagesOK, Follows
  <2>. QED
    BY <1>7, <2>2, <2>3, Zenon DEF Stream
<1>8. ASSUME NEW p \in Page, Read(p) PROVE Following'
  <2>. DEFINE ws == wire[p]
              e == Head(ws)
  <2>1. /\ ws # <<>> /\ wire' = [wire EXCEPT ![p] = Tail(ws)] /\ page' = [page EXCEPT ![p] = Handled(page[p], e)]
        /\ clients' = clients /\ evs' = evs
    BY <1>0, <1>8 DEF Read, PagesOK, runner
  <2>2. ws \in Seq(Events) /\ page[p] \in Displays /\ page[p].shown \in Seq(Events)
    BY <1>0 DEF PagesOK, Displays
  <2>3. e \in Events /\ e = ws[1] /\ Tail(ws) \in Seq(Events)
    <3>. HIDE DEF Events
    <3>. QED
      BY <2>1, <2>2
  <2>4. Handled(page[p], e) \in Displays
    BY <2>2, <2>3, HandledShows, Zenon
  <2>5. Handled(page[p], e).shown = IF e.type = "start" THEN <<e>> ELSE Append(page[p].shown, e)
    BY <2>2, <2>3, HandledShows, Zenon
  <2>6. PagesOK'
    <3>. HIDE DEF ws, e
    <3>. QED
      BY <1>0, <2>1, <2>3, <2>4 DEF PagesOK
  <2>7. /\ \A q \in Page \ {p} : wire'[q] = wire[q] /\ page'[q] = page[q]
        /\ wire'[p] = Tail(ws) /\ page'[p] = Handled(page[p], e)
    <3>. HIDE DEF e
    <3>. QED
      BY <1>0, <2>1 DEF PagesOK
  <2>. HIDE DEF e
  <2>8. ASSUME NEW q \in clients PROVE Follows(evs, page'[q].shown, wire'[q], Len(wire'[q]))
    <3>1. CASE q = p
      <4>. DEFINE m == Len(ws)
                  t == page'[p].shown
      <4>1. m \in Nat \ {0} /\ m \in 1..m /\ m - m + 1 = 1 /\ Len(Tail(ws)) = m - 1
        BY <2>1, <2>2
      <4>2. t = IF ws[m - m + 1].type = "start" THEN <<ws[m - m + 1]>>
                ELSE Append(page[p].shown, ws[m - m + 1])
        BY <2>3, <2>5, <2>7, <4>1, Zenon
      <4>3. Follows(evs, page[p].shown, ws, m)
        BY <2>8, <3>1, Zenon DEF Following
      <4>. HIDE DEF t, ws
      <4>4. Follows(evs, t, ws, m - 1)
        BY <1>0, <2>2, <4>1, <4>2, <4>3, OneMoreRead, Zenon
      <4>5. \A i \in 1..(m - 1) : Tail(ws)[i] = ws[i + 1]
        BY <2>1, <2>2
      <4>6. Follows(evs, t, Tail(ws), m - 1)
        <5>1. Len(evs) \in Nat
          BY <1>0 DEF Types
        <5>2. ASSUME NEW i \in 1..Len(evs), Len(evs) - i < m - 1
              PROVE  Tail(ws)[m - 1 - (Len(evs) - i)] = ws[m - (Len(evs) - i)]
          <6>. DEFINE k == m - 1 - (Len(evs) - i)
          <6>1. k \in 1..(m - 1) /\ k + 1 = m - (Len(evs) - i)
            <7>. HIDE DEF m
            <7>. QED
              BY <4>1, <5>1, <5>2
          <6>. HIDE DEF k
          <6>. QED
            BY <4>5, <6>1, Zenon DEF k
        <5>. QED
          BY <4>1, <4>4, <5>2, Zenon DEF Follows
      <4>. QED
        BY <2>7, <3>1, <4>1, <4>6, Zenon DEF t
    <3>2. CASE q # p
      <4>1. q \in Page \ {p}
        BY <1>0, <2>8, <3>2 DEF PagesOK
      <4>2. wire'[q] = wire[q] /\ page'[q] = page[q]
        BY <2>7, <4>1
      <4>. QED
        BY <2>8, <4>2, Zenon DEF Following
    <3>. QED
      BY <3>1, <3>2
  <2>. QED
    BY <2>1, <2>6, <2>8, Zenon DEF Following
<1>9. ASSUME NEW p \in Page, Break(p) PROVE Following'
  <2>1. /\ clients' = clients \ {p} /\ wire' = [wire EXCEPT ![p] = <<>>] /\ evs' = evs
        /\ page' = [page EXCEPT ![p].load = "closed"]
    BY <1>9, Zenon DEF Break, runner
  <2>2. page' \in [Page -> Displays] /\ \A q \in Page : page'[q].shown = page[q].shown
    BY <1>0, <2>1, PagesReloaded, Zenon
  <2>3. wire' \in [Page -> Seq(Events)] /\ \A q \in Page \ {p} : wire'[q] = wire[q]
    BY <1>0, <2>1 DEF PagesOK
  <2>4. clients' \subseteq Page /\ \A q \in clients' : q \in clients /\ q \in Page \ {p}
    BY <1>0, <2>1 DEF PagesOK
  <2>5. ASSUME NEW q \in clients' PROVE Follows(evs, page'[q].shown, wire'[q], Len(wire'[q]))
    <3>1. q \in clients /\ q \in Page /\ wire'[q] = wire[q] /\ page'[q].shown = page[q].shown
      BY <2>2, <2>3, <2>4
    <3>. QED
      BY <3>1, Zenon DEF Following
  <2>. QED
    BY <2>1, <2>2, <2>3, <2>4, <2>5, Zenon DEF Following, PagesOK, Follows
<1>10. CASE UNCHANGED vars
  BY <1>10, Zenon DEF vars, runner, sse, Following, PagesOK, Follows
<1>. QED
  BY <1>2, <1>3, <1>5, <1>6, <1>7, <1>8, <1>9, <1>10, Zenon DEF Next

\* At the start nobody is connected.
LEMMA FollowingInit == Init => Following
<1>. SUFFICES ASSUME Init PROVE Following
  OBVIOUS
<1>1. wire \in [Page -> Seq(Events)]
  BY DEF Init
<1>2. page \in [Page -> Displays]
  <2>1. <<>> \in Seq(Events) /\ "config" \in Loads
    BY DEF Loads
  <2>2. NewPage \in Displays
    BY <2>1 DEF NewPage, Displays
  <2>. QED
    BY <2>2 DEF Init
<1>3. clients = {}
  BY DEF Init
<1>. QED
  BY <1>1, <1>2, <1>3 DEF Following, PagesOK

\* A page that is connected displays, once it has read what is on its way, exactly the events of the
\* current run, whenever it connected, was dropped or reconnected (Broadcaster.add, push, handle).
THEOREM PagesShowTheRun == Spec => []PagesFollowTheRun
<1>1. Init => Kept
  BY KeptInit
<1>2. Init => Following
  BY FollowingInit
<1>3. Kept /\ [Next]_vars => Kept'
  BY KeptStep
<1>4. Kept /\ Following /\ [Next]_vars => Following'
  BY FollowingStep
<1>5. Kept /\ Following => PagesFollowTheRun
  <2>. SUFFICES ASSUME Kept, Following, NEW p \in clients, evs # <<>>
                PROVE  Displayed(p) = evs
    BY DEF PagesFollowTheRun
  <2>1. Types /\ Headed /\ PagesOK /\ Follows(evs, page[p].shown, wire[p], Len(wire[p]))
    BY Zenon DEF Kept, Following
  <2>. QED
    BY <2>1, AllRead, Zenon
<1>. QED
  BY <1>1, <1>2, <1>3, <1>4, <1>5, PTL DEF Spec

-----------------------------------------------------------------------------
(* The button *)

\* A page is connected by its client's stream, and nothing is on its way to one that is not.
Wired(p) == IF p \in clients THEN page[p].load = "open" ELSE page[p].load # "open" /\ wire[p] = <<>>

\* A page that was told of a run, and not misled, has events of it to be replayed.
Noted(p) == page[p].load = "status" /\ page[p].busy /\ p \notin misled => evs # <<>>

\* A page to which no answer will give the button back has the end of a run to come.
Waiting(p) ==
    page[p].disabled /\ p \notin misled /\ request[p] \in {"none", "started"} =>
        \/ page[p].load \in {"config", "status", "refused"}
        \/ page[p].load = "closed" /\ evs # <<>>
        \/ running = 1 \/ cleaning = 1
        \/ wire[p] # <<>> /\ Last(wire[p]).type = "idle"

Unlost == \A p \in Page : (evs = <<>> => wire[p] = <<>>) /\ Wired(p) /\ Noted(p) /\ Waiting(p)

\* Whoever acts, a page that is not concerned has what it had to come.
LEMMA OthersUnlost ==
    ASSUME Unlost, NEW p \in Page, page'[p] = page[p], wire'[p] = wire[p], p \in clients' <=> p \in clients,
           request'[p] \in {"none", "started"} => request'[p] = request[p],
           p \in misled => p \in misled', UNCHANGED <<evs, running, cleaning>>
    PROVE  ((evs = <<>> => wire[p] = <<>>) /\ Wired(p) /\ Noted(p) /\ Waiting(p))'
<1>1. (evs = <<>> => wire[p] = <<>>) /\ Wired(p) /\ Noted(p) /\ Waiting(p)
  BY Zenon DEF Unlost
<1>2. p \notin misled' => p \notin misled
  OBVIOUS
<1>3. Noted(p)'
  BY <1>1, <1>2, Zenon DEF Noted
<1>4. Waiting(p)'
  BY <1>1, <1>2, Zenon DEF Waiting
<1>5. Wired(p)'
  BY <1>1, Zenon DEF Wired
<1>. QED
  BY <1>1, <1>3, <1>4, <1>5, Zenon

\* The last event on its way to a page is the last one of the run.
LEMMA LastOnItsWay ==
    ASSUME Kept, Following, Unlost, NEW p \in Page, wire[p] # <<>>
    PROVE  p \in clients /\ evs # <<>> /\ Last(wire[p]) = Last(evs) /\ wire[p] \in Seq(Events)
<1>1. p \in clients /\ evs # <<>>
  BY Zenon DEF Unlost, Wired
<1>2. Types /\ wire[p] \in Seq(Events) /\ Follows(evs, page[p].shown, wire[p], Len(wire[p]))
  BY <1>1 DEF Kept, Following, PagesOK
<1>. DEFINE n == Len(evs)
            m == Len(wire[p])
<1>3. n \in Nat \ {0} /\ m \in Nat \ {0}
  BY <1>1, <1>2 DEF Types
<1>4. n \in 1..n /\ n - n < m /\ m - (n - n) = m
  <2>. HIDE DEF n, m
  <2>. QED
    BY <1>3
<1>5. evs[n] = wire[p][m]
  BY <1>2, <1>4, Zenon DEF Follows
<1>. QED
  BY <1>1, <1>2, <1>5, Zenon DEF Last

\* A run that is neither under way nor being cleaned up after is over, to its idle.
LEMMA OverToItsIdle ==
    ASSUME Kept, evs # <<>>, ~(running = 1 \/ cleaning = 1)
    PROVE  Last(evs).type = "idle"
<1>1. running = 0 /\ cleaning = 0
  BY Zenon DEF Kept, Claimed
<1>. QED
  BY <1>1, Zenon DEF Kept, Ends

\* A broadcast drops a client, which then reconnects, or adds to what is on its way; it changes
\* nothing else of any page.
LEMMA BroadcastTo ==
    ASSUME PagesOK, Unlost, NEW e \in Events, Broadcast(<<e>>), NEW p \in Page
    PROVE  /\ page'[p].disabled = page[p].disabled /\ page'[p].busy = page[p].busy
           /\ \/ p \notin clients' /\ page'[p].load = "closed" /\ wire'[p] = <<>>
              \/ p \notin clients /\ p \notin clients' /\ page'[p] = page[p] /\ wire'[p] = <<>>
              \/ p \in clients /\ p \in clients' /\ page'[p] = page[p] /\ wire'[p] = Append(wire[p], e)
<1>. DEFINE gone == {q \in clients : <<e>> # <<>> /\ Slow(q)}
<1>1. /\ clients' = clients \ gone
      /\ wire' = [q \in Page |-> IF q \in gone \/ q \notin clients THEN <<>> ELSE wire[q] \o <<e>>]
      /\ page' = [q \in Page |-> IF q \in gone THEN [page[q] EXCEPT !.load = "closed"] ELSE page[q]]
  BY Zenon DEF Broadcast
<1>. HIDE DEF gone
<1>2. page[p] \in Displays /\ wire[p] \in Seq(Events)
  BY DEF PagesOK
<1>3. CASE p \in gone
  <2>1. page'[p] = [page[p] EXCEPT !.load = "closed"] /\ wire'[p] = <<>> /\ p \notin clients'
    BY <1>1, <1>3
  <2>2. page'[p].disabled = page[p].disabled /\ page'[p].busy = page[p].busy /\ page'[p].load = "closed"
    BY <1>2, <2>1 DEF Displays
  <2>. QED
    BY <2>1, <2>2, Zenon
<1>4. CASE p \notin gone /\ p \notin clients
  <2>1. page'[p] = page[p] /\ wire'[p] = <<>> /\ p \notin clients'
    BY <1>1, <1>4
  <2>. QED
    BY <1>4, <2>1, Zenon
<1>5. CASE p \notin gone /\ p \in clients
  <2>1. page'[p] = page[p] /\ wire'[p] = wire[p] \o <<e>> /\ p \in clients'
    BY <1>1, <1>5
  <2>2. wire[p] \o <<e>> = Append(wire[p], e)
    <3>. HIDE DEF Events
    <3>. QED
      BY <1>2
  <2>. QED
    BY <1>5, <2>1, <2>2, Zenon
<1>. QED
  BY <1>3, <1>4, <1>5, Zenon

\* An event of the run takes no button away for good: either more of the run is to come, or it is
\* the idle that gives it back.
LEMMA PushedUnlost ==
    ASSUME Kept, Following, Unlost, NEW e \in Events, Broadcast(<<e>>), evs' # <<>>,
           UNCHANGED misled, \A p \in Page : request'[p] \in {"none", "started"} =>
                                 request'[p] = request[p] \/ running' = 1,
           running' = 1 \/ cleaning' = 1 \/ e.type = "idle"
    PROVE  Unlost'
<1>. SUFFICES ASSUME NEW p \in Page
              PROVE  Wired(p)' /\ Noted(p)' /\ Waiting(p)'
  BY Zenon DEF Unlost
<1>1. PagesOK /\ Wired(p) /\ Noted(p) /\ Waiting(p)
  BY Zenon DEF Following, Unlost
<1>2. wire[p] \in Seq(Events)
  BY <1>1 DEF PagesOK
<1>3. Append(wire[p], e) # <<>> /\ Last(Append(wire[p], e)) = e
  <2>. HIDE DEF Events
  <2>. QED
    BY <1>2 DEF Last
<1>4. /\ page'[p].disabled = page[p].disabled /\ page'[p].busy = page[p].busy
      /\ \/ p \notin clients' /\ page'[p].load = "closed" /\ wire'[p] = <<>>
         \/ p \notin clients /\ p \notin clients' /\ page'[p] = page[p] /\ wire'[p] = <<>>
         \/ p \in clients /\ p \in clients' /\ page'[p] = page[p] /\ wire'[p] = Append(wire[p], e)
  BY <1>1, BroadcastTo, Zenon
<1>5. Wired(p)'
  BY <1>1, <1>4, Zenon DEF Wired
<1>6. Noted(p)'
  BY Zenon DEF Noted
<1>7. CASE p \notin clients' /\ page'[p].load = "closed"
  BY <1>5, <1>6, <1>7, Zenon DEF Waiting
<1>8. CASE p \notin clients /\ page'[p] = page[p]
  <2>1. page[p].load \in Loads /\ page[p].load # "open"
    BY <1>1, <1>8 DEF PagesOK, Displays, Wired
  <2>2. page'[p].load \in {"config", "status", "refused"} \/ page'[p].load = "closed"
    BY <1>8, <2>1 DEF Loads
  <2>. QED
    BY <1>5, <1>6, <2>2, Zenon DEF Waiting
<1>9. CASE p \in clients' /\ wire'[p] = Append(wire[p], e)
  BY <1>3, <1>5, <1>6, <1>9, Zenon DEF Waiting
<1>. QED
  BY <1>4, <1>5, <1>6, <1>7, <1>8, <1>9, Zenon

\* To read an event leaves the last one last, unless it was that.
LEMMA LastOfTail ==
    ASSUME NEW S, NEW s \in Seq(S), s # <<>>
    PROVE  \/ s = <<Head(s)>>
           \/ Tail(s) # <<>> /\ Last(Tail(s)) = Last(s)
<1>1. Len(s) \in Nat \ {0} /\ Len(Tail(s)) = Len(s) - 1 /\ Tail(s) \in Seq(S)
  OBVIOUS
<1>2. CASE Len(s) = 1
  <2>1. /\ Len(<<Head(s)>>) = Len(s) /\ <<Head(s)>> \in Seq(S)
        /\ \A i \in 1..Len(s) : <<Head(s)>>[i] = s[i]
    BY <1>2
  <2>2. s = <<Head(s)>>
    BY <2>1
  <2>. QED
    BY <2>2, Zenon
<1>3. CASE Len(s) # 1
  <2>1. Len(Tail(s)) \in Nat \ {0} /\ Len(Tail(s)) + 1 = Len(s)
    BY <1>1, <1>3
  <2>2. Tail(s)[Len(Tail(s))] = s[Len(Tail(s)) + 1]
    BY <1>1, <2>1
  <2>3. Tail(s) # <<>>
    BY <2>1
  <2>. QED
    BY <2>1, <2>2, <2>3 DEF Last
<1>. QED
  BY <1>2, <1>3

\* Nobody's step takes away what is to come for a page, without the button being given back.
LEMMA UnlostStep == ASSUME Kept, Following, Unlost, [Next]_vars PROVE Unlost'
<1>0. /\ Types /\ Ends /\ Claimed /\ PagesOK /\ runs \in Nat /\ evs \in Seq(Events)
      /\ \A p \in Page : page[p] \in Displays /\ wire[p] \in Seq(Events)
  BY DEF Kept, Following, Types, Events, PagesOK
<1>1. CASE Output \/ Exited \/ CleanedUp
  <2>1. evs # <<>>
    <3>1. running > 0 \/ cleaning > 0
      BY <1>1, Zenon DEF Output, Exited, CleanedUp
    <3>2. running # 0 \/ cleaning # 0
      BY <3>1
    <3>. QED
      BY <1>0, <3>2, Zenon DEF Claimed, Ends
  <2>2. UNCHANGED <<misled, request>>
    BY <1>1, Zenon DEF Output, Exited, CleanedUp
  <2>3. CASE UNCHANGED <<evs, sse, page>> /\ Output
    <3>1. UNCHANGED <<running, cleaning, clients, wire>>
      BY <2>3, Zenon DEF Output, sse
    <3>2. ASSUME NEW p \in Page
          PROVE  ((evs = <<>> => wire[p] = <<>>) /\ Wired(p) /\ Noted(p) /\ Waiting(p))'
      BY <2>2, <2>3, <3>1, OthersUnlost
    <3>. QED
      BY <3>2, Zenon DEF Unlost
  <2>4. ASSUME NEW type \in {"line", "end", "idle"}, Push(evs, type),
               running' = 1 \/ cleaning' = 1 \/ type = "idle"
        PROVE  Unlost'
    <3>1. Of(type) \in Events /\ Of(type).type = type
      BY <1>0 DEF Of, Events
    <3>2. Broadcast(<<Of(type)>>) /\ evs' = Append(evs, Of(type))
      BY <2>4, Zenon DEF Push
    <3>3. evs' # <<>>
      <4>. HIDE DEF Events
      <4>. QED
        BY <1>0, <3>1, <3>2
    <3>. QED
      BY <2>2, <2>4, <3>1, <3>2, <3>3, PushedUnlost, Zenon
  <2>5. CASE Output
    <3>1. running' = running /\ running > 0
      BY <2>5, Zenon DEF Output
    <3>2. running # 0
      BY <3>1
    <3>3. running' = 1
      BY <1>0, <3>1, <3>2, Zenon DEF Claimed
    <3>4. Push(evs, "line") \/ UNCHANGED <<evs, sse, page>>
      BY <2>5, Zenon DEF Output
    <3>. QED
      BY <2>3, <2>4, <2>5, <3>3, <3>4, Zenon
  <2>6. CASE Exited
    <3>1. running > 0 /\ cleaning' = cleaning + 1 /\ Push(evs, "end")
      BY <2>6, Zenon DEF Exited
    <3>2. running # 0
      BY <3>1
    <3>3. cleaning = 0
      BY <1>0, <3>2, Zenon DEF Claimed
    <3>4. cleaning' = 1
      BY <3>1, <3>3
    <3>. QED
      BY <2>4, <3>1, <3>4, Zenon
  <2>7. CASE CleanedUp
    BY <2>4, <2>7, Zenon DEF CleanedUp
  <2>. QED
    BY <1>1, <2>5, <2>6, <2>7, Zenon
<1>2. ASSUME NEW p \in Page, DockerUp(p) PROVE Unlost'
  <2>. DEFINE start == [type |-> "start", run |-> runs + 1]
  <2>1. start \in Events
    BY <1>0 DEF Events
  <2>2. evs' = <<start>> /\ Broadcast(<<start>>) /\ UNCHANGED misled /\ running' = running + 1
    BY <1>2, Zenon DEF DockerUp, Run
  <2>3. running' = 1
    <3>1. p \in Claimants
      BY <1>2 DEF DockerUp, Claimants
    <3>2. running = 0
      BY <1>0, <3>1 DEF Claimed
    <3>. QED
      BY <2>2, <3>2
  <2>4. evs' # <<>>
    BY <2>2
  <2>. HIDE DEF start
  <2>. QED
    BY <2>1, <2>2, <2>3, <2>4, PushedUnlost, Zenon
<1>3. ASSUME NEW p \in Page,
             ((evs = <<>> => wire[p] = <<>>) /\ Wired(p) /\ Noted(p) /\ Waiting(p))',
             \A q \in Page \ {p} : /\ page'[q] = page[q] /\ wire'[q] = wire[q] /\ request'[q] = request[q]
                                   /\ (q \in clients' <=> q \in clients)
                                   /\ (q \in misled => q \in misled'),
             UNCHANGED <<evs, running, cleaning>>
      PROVE  Unlost'
  <2>1. ASSUME NEW q \in Page \ {p}
        PROVE  ((evs = <<>> => wire[q] = <<>>) /\ Wired(q) /\ Noted(q) /\ Waiting(q))'
    <3>1. /\ page'[q] = page[q] /\ wire'[q] = wire[q] /\ request'[q] = request[q]
          /\ (q \in clients' <=> q \in clients) /\ (q \in misled => q \in misled') /\ q \in Page
      BY <1>3
    <3>. QED
      BY <1>3, <3>1, OthersUnlost
  <2>. QED
    BY <1>3, <2>1, Zenon DEF Unlost
<1>4. ASSUME NEW p \in Page, Status(p) PROVE Unlost'
  <2>1. /\ page[p].load = "config" /\ page' = [page EXCEPT ![p].load = "status", ![p].busy = isBusy]
        /\ misled' = IF isBusy /\ running + cleaning = 0 THEN misled \cup {p} ELSE misled
        /\ UNCHANGED <<evs, running, cleaning, clients, wire, request>>
    BY <1>4, Zenon DEF Status, runner, sse
  <2>2. /\ page'[p].load = "status" /\ page'[p].busy = isBusy
        /\ \A q \in Page \ {p} : page'[q] = page[q]
    BY <1>0, <2>1 DEF PagesOK, Displays
  <2>3. (evs = <<>> => wire[p] = <<>>) /\ Wired(p)
    BY Zenon DEF Unlost
  <2>4. Wired(p)'
    BY <2>1, <2>2, <2>3, Zenon DEF Wired
  <2>5. Noted(p)'
    <3>. SUFFICES ASSUME isBusy, p \notin misled' PROVE evs' # <<>>
      BY <2>2, Zenon DEF Noted
    <3>1. ~(running + cleaning = 0)
      BY <2>1
    <3>2. running # 0 \/ cleaning # 0
      BY <3>1
    <3>. QED
      BY <1>0, <2>1, <3>2, Zenon DEF Claimed, Ends
  <2>6. Waiting(p)'
    BY <2>2 DEF Waiting
  <2>7. \A q \in Page \ {p} : q \in misled => q \in misled'
    BY <2>1
  <2>. QED
    BY <1>3, <2>1, <2>2, <2>3, <2>4, <2>5, <2>6, <2>7, Zenon
<1>5. ASSUME NEW p \in Page, StatusShown(p) PROVE Unlost'
  <2>1. PICK dockerOk \in BOOLEAN :
          /\ page' = [page EXCEPT ![p].load = "closed", ![p].disabled = ~dockerOk \/ page[p].busy]
          /\ misled' = IF dockerOk THEN misled ELSE misled \cup {p}
    BY <1>5, Zenon DEF StatusShown
  <2>2. page[p].load = "status" /\ UNCHANGED <<evs, running, cleaning, clients, wire, request>>
    BY <1>5, Zenon DEF StatusShown, runner, sse
  <2>3. /\ page'[p].load = "closed" /\ page'[p].disabled = (~dockerOk \/ page[p].busy)
        /\ \A q \in Page \ {p} : page'[q] = page[q]
    BY <1>0, <2>1 DEF PagesOK, Displays
  <2>4. misled \subseteq misled' /\ (p \notin misled' => dockerOk /\ p \notin misled)
    BY <2>1
  <2>5. (evs = <<>> => wire[p] = <<>>) /\ Wired(p) /\ Noted(p)
    BY Zenon DEF Unlost
  <2>6. Wired(p)'
    BY <2>2, <2>3, <2>5 DEF Wired
  <2>7. Noted(p)'
    BY <2>3 DEF Noted
  <2>8. Waiting(p)'
    <3>. SUFFICES ASSUME page'[p].disabled, p \notin misled' PROVE evs' # <<>>
      BY <2>3, Zenon DEF Waiting
    <3>1. page[p].busy /\ p \notin misled
      BY <2>3, <2>4
    <3>. QED
      BY <2>2, <2>5, <3>1, Zenon DEF Noted
  <2>9. \A q \in Page \ {p} : q \in misled => q \in misled'
    BY <2>4
  <2>. QED
    BY <1>3, <2>2, <2>3, <2>5, <2>6, <2>7, <2>8, <2>9, Zenon
<1>6. ASSUME NEW p \in Page, Stream(p) PROVE Unlost'
  <2>1. /\ page[p].load = "closed" /\ UNCHANGED <<evs, running, cleaning, request, misled>>
        /\ \/ page' = [page EXCEPT ![p].load = "refused"] /\ UNCHANGED <<clients, wire>>
           \/ /\ page' = [page EXCEPT ![p].load = "open"]
              /\ clients' = clients \cup {p} /\ wire' = [wire EXCEPT ![p] = evs]
    BY <1>6, Zenon DEF Stream, Add, runner, sse
  <2>2. /\ (evs = <<>> => wire[p] = <<>>) /\ Wired(p) /\ Waiting(p)
        /\ page'[p].disabled = page[p].disabled /\ \A q \in Page \ {p} : page'[q] = page[q]
    <3>1. PICK to \in {"refused", "open"} : page' = [page EXCEPT ![p].load = to]
      BY <2>1
    <3>2. page'[p].disabled = page[p].disabled /\ \A q \in Page \ {p} : page'[q] = page[q]
      BY <1>0, <3>1 DEF PagesOK, Displays
    <3>. QED
      BY <3>2, Zenon DEF Unlost
  <2>3. p \notin clients /\ wire[p] = <<>>
    BY <2>1, <2>2 DEF Wired
  <2>4. CASE page' = [page EXCEPT ![p].load = "refused"] /\ UNCHANGED <<clients, wire>>
    <3>1. page'[p].load = "refused"
      BY <1>0, <2>4 DEF PagesOK, Displays
    <3>2. Wired(p)' /\ Noted(p)' /\ Waiting(p)'
      BY <2>3, <2>4, <3>1 DEF Wired, Noted, Waiting
    <3>. QED
      BY <1>3, <2>1, <2>2, <2>4, <3>2, Zenon
  <2>5. CASE /\ page' = [page EXCEPT ![p].load = "open"]
             /\ clients' = clients \cup {p} /\ wire' = [wire EXCEPT ![p] = evs]
    <3>1. page'[p].load = "open"
      BY <1>0, <2>5 DEF PagesOK, Displays
    <3>2. wire'[p] = evs /\ p \in clients'
          /\ \A q \in Page \ {p} : wire'[q] = wire[q] /\ (q \in clients' <=> q \in clients)
      BY <1>0, <2>5 DEF PagesOK
    <3>3. Wired(p)' /\ Noted(p)'
      BY <3>1, <3>2 DEF Wired, Noted
    <3>4. Waiting(p)'
      <4>1. page[p].disabled /\ p \notin misled /\ request[p] \in {"none", "started"} =>
              evs # <<>> \/ running = 1 \/ cleaning = 1
        BY <2>1, <2>2, <2>3 DEF Waiting
      <4>2. evs # <<>> => running = 1 \/ cleaning = 1 \/ Last(evs).type = "idle"
        BY OverToItsIdle
      <4>. QED
        BY <2>1, <2>2, <3>2, <4>1, <4>2, Zenon DEF Waiting
    <3>. QED
      BY <1>3, <2>1, <2>2, <3>2, <3>3, <3>4, Zenon
  <2>. QED
    BY <2>1, <2>4, <2>5, Zenon
<1>7. ASSUME NEW p \in Page, PostRun(p) \/ DockerDown(p) PROVE Unlost'
  <2>1. PICK to \in {"busy", "docker", "no docker"} :
            /\ request' = [request EXCEPT ![p] = to]
            /\ UNCHANGED <<evs, running, cleaning, clients, wire, page, misled>>
    BY <1>7 DEF PostRun, DockerDown, sse
  <2>2. request'[p] = to /\ \A q \in Page \ {p} : request'[q] = request[q]
    BY <1>0, <2>1 DEF Claimed
  <2>3. ~(request'[p] \in {"none", "started"})
    BY <2>2
  <2>4. (evs = <<>> => wire[p] = <<>>) /\ Wired(p) /\ Noted(p)
    BY Zenon DEF Unlost
  <2>5. Wired(p)' /\ Noted(p)'
    BY <2>1, <2>4, Zenon DEF Wired, Noted
  <2>6. Waiting(p)'
    BY <2>3, Zenon DEF Waiting
  <2>. QED
    BY <1>3, <2>1, <2>2, <2>4, <2>5, <2>6, Zenon
<1>8. ASSUME NEW p \in Page, Click(p) \/ Answered(p) PROVE Unlost'
  <2>1. PICK to \in {"sent", "none"} :
            /\ request' = [request EXCEPT ![p] = to]
            /\ UNCHANGED <<evs, running, cleaning, clients, wire, misled>>
            /\ \/ to = "sent" /\ page' = [page EXCEPT ![p].disabled = TRUE]
               \/ request[p] = "started" /\ page' = page
               \/ page' = [page EXCEPT ![p].disabled = FALSE]
    BY <1>8 DEF Click, Answered, runner, sse
  <2>2. request'[p] = to /\ \A q \in Page \ {p} : request'[q] = request[q]
    BY <1>0, <2>1 DEF Claimed
  <2>3. (evs = <<>> => wire[p] = <<>>) /\ Wired(p) /\ Noted(p) /\ Waiting(p)
    BY Zenon DEF Unlost
  <2>4. /\ page'[p].load = page[p].load /\ page'[p].busy = page[p].busy
        /\ \A q \in Page \ {p} : page'[q] = page[q]
    BY <1>0, <2>1 DEF PagesOK, Displays
  <2>5. Wired(p)' /\ Noted(p)'
    BY <2>1, <2>3, <2>4, Zenon DEF Wired, Noted
  <2>6. Waiting(p)'
    <3>1. CASE to = "sent"
      BY <2>2, <3>1 DEF Waiting
    <3>2. CASE request[p] = "started" /\ page' = page
      BY <2>1, <2>3, <3>2 DEF Waiting
    <3>3. CASE page' = [page EXCEPT ![p].disabled = FALSE]
      <4>1. page'[p].disabled = FALSE
        BY <1>0, <3>3 DEF PagesOK, Displays
      <4>. QED
        BY <4>1 DEF Waiting
    <3>. QED
      BY <2>1, <3>1, <3>2, <3>3, Zenon
  <2>. QED
    BY <1>3, <2>1, <2>2, <2>3, <2>4, <2>5, <2>6, Zenon
<1>9. ASSUME NEW p \in Page, Read(p) PROVE Unlost'
  <2>. DEFINE e == Head(wire[p])
  <2>1. /\ wire[p] # <<>> /\ wire' = [wire EXCEPT ![p] = Tail(@)]
        /\ page' = [page EXCEPT ![p] = Handled(@, e)]
        /\ UNCHANGED <<evs, running, cleaning, clients, request>>
    BY <1>9, Zenon DEF Read, runner
  <2>2. p \in clients /\ evs # <<>> /\ Last(wire[p]) = Last(evs) /\ wire[p] \in Seq(Events)
    BY <2>1, LastOnItsWay, Zenon
  <2>3. e \in Events
    <3>. HIDE DEF Events
    <3>. QED
      BY <2>1, <2>2
  <2>4. /\ wire'[p] = Tail(wire[p]) /\ page'[p] = Handled(page[p], e)
        /\ \A q \in Page \ {p} : wire'[q] = wire[q] /\ page'[q] = page[q]
    <3>. HIDE DEF e
    <3>. QED
      BY <1>0, <2>1 DEF PagesOK
  <2>. HIDE DEF e
  <2>5. page'[p].load = "open"
    <3>1. page[p].load = "open"
      BY <2>2, Zenon DEF Unlost, Wired
    <3>2. page[p] \in Displays
      BY <1>0
    <3>3. Handled(page[p], e).load = page[p].load
      BY <2>3, <3>2, HandledShows, Zenon
    <3>. QED
      BY <2>4, <3>1, <3>3, Zenon
  <2>6. Wired(p)' /\ Noted(p)'
    BY <2>1, <2>2, <2>5, Zenon DEF Wired, Noted
  <2>7. Waiting(p)'
    <3>. SUFFICES ASSUME page'[p].disabled, ~(running = 1 \/ cleaning = 1)
                  PROVE  wire'[p] # <<>> /\ Last(wire'[p]).type = "idle"
      BY <2>1, Zenon DEF Waiting
    <3>1. Last(wire[p]).type = "idle"
      BY <2>2, OverToItsIdle, Zenon
    <3>2. e.type # "idle"
      <4>. SUFFICES ASSUME e.type = "idle" PROVE FALSE
        OBVIOUS
      <4>1. Handled(page[p], e).disabled = FALSE
        BY <1>0 DEF Handled, Displays
      <4>. QED
        BY <2>4, <4>1
    <3>3. \/ wire[p] = <<e>>
          \/ Tail(wire[p]) # <<>> /\ Last(Tail(wire[p])) = Last(wire[p])
      BY <2>1, <2>2, LastOfTail DEF e
    <3>4. Last(<<e>>) = e
      BY DEF Last
    <3>. QED
      BY <2>4, <3>1, <3>2, <3>3, <3>4, Zenon
  <2>8. \A q \in Page \ {p} : q \in misled => q \in misled'
    <3>1. misled' = misled \/ misled' = misled \ {p}
      BY <1>9, Zenon DEF Read
    <3>. QED
      BY <3>1
  <2>. QED
    BY <1>3, <2>1, <2>2, <2>4, <2>6, <2>7, <2>8, Zenon
<1>10. ASSUME NEW p \in Page, Break(p) PROVE Unlost'
  <2>1. /\ p \in clients /\ clients' = clients \ {p} /\ wire' = [wire EXCEPT ![p] = <<>>]
        /\ page' = [page EXCEPT ![p].load = "closed"]
        /\ UNCHANGED <<evs, running, cleaning, request, misled>>
    BY <1>10, Zenon DEF Break, runner
  <2>2. (evs = <<>> => wire[p] = <<>>) /\ Wired(p) /\ Waiting(p)
    BY Zenon DEF Unlost
  <2>3. /\ page'[p].load = "closed" /\ page'[p].disabled = page[p].disabled
        /\ \A q \in Page \ {p} : page'[q] = page[q]
    BY <1>0, <2>1 DEF PagesOK, Displays
  <2>4. /\ p \notin clients' /\ wire'[p] = <<>>
        /\ \A q \in Page \ {p} : wire'[q] = wire[q] /\ (q \in clients' <=> q \in clients)
    BY <1>0, <2>1 DEF PagesOK
  <2>5. Wired(p)' /\ Noted(p)'
    BY <2>3, <2>4 DEF Wired, Noted
  <2>6. page[p].load = "open"
    BY <2>1, <2>2, Zenon DEF Wired
  <2>7. Waiting(p)'
    BY <2>1, <2>2, <2>3, <2>6 DEF Waiting
  <2>. QED
    BY <1>3, <2>1, <2>3, <2>4, <2>5, <2>7, Zenon
<1>11. CASE UNCHANGED vars
  BY <1>11, Zenon DEF vars, runner, sse, Unlost, Wired, Noted, Waiting
<1>. QED
  BY <1>1, <1>2, <1>4, <1>5, <1>6, <1>7, <1>8, <1>9, <1>10, <1>11, Zenon DEF Next

\* Of one drill that runs or is cleaned up after, the numbers say so.
LEMMA UnderWay == ASSUME Kept PROVE running = 1 \/ cleaning = 1 => running + cleaning > 0
<1>1. running \in {0, 1} /\ cleaning \in {0, 1}
  BY Zenon DEF Kept, Claimed
<1>. QED
  BY <1>1

\* Where a button is disabled something is still to come that gives it back, whatever the order of
\* answers, events, drops and reconnections (handle, the POST's answer, Broadcaster.add).
THEOREM ButtonsComeBack == Spec => []NoButtonIsLost
<1>1. Init => Kept /\ Following
  BY KeptInit, FollowingInit
<1>2. Init => Unlost
  <2>. SUFFICES ASSUME Init, NEW p \in Page
                PROVE  wire[p] = <<>> /\ Wired(p) /\ Noted(p) /\ Waiting(p)
    BY DEF Unlost
  <2>1. wire[p] = <<>> /\ clients = {} /\ page[p].load = "config"
    BY DEF Init, NewPage
  <2>. QED
    BY <2>1 DEF Wired, Noted, Waiting
<1>3. Kept /\ [Next]_vars => Kept'
  BY KeptStep
<1>4. Kept /\ Following /\ [Next]_vars => Following'
  BY FollowingStep
<1>5. Kept /\ Following /\ Unlost /\ [Next]_vars => Unlost'
  BY UnlostStep
<1>6. Kept /\ Unlost => NoButtonIsLost
  <2>. SUFFICES ASSUME Kept, Unlost, NEW p \in Page, page[p].disabled, p \notin misled,
                       ~(request[p] \in {"sent", "docker", "busy", "no docker"})
                PROVE  \/ page[p].load \in {"config", "status", "refused"}
                       \/ page[p].load = "closed" /\ evs # <<>>
                       \/ running + cleaning > 0
                       \/ wire[p] # <<>> /\ Last(wire[p]).type = "idle"
    BY Zenon DEF NoButtonIsLost
  <2>1. request[p] \in {"none", "started"}
    BY DEF Kept, Claimed
  <2>2. running = 1 \/ cleaning = 1 => running + cleaning > 0
    BY UnderWay
  <2>. QED
    BY <2>1, <2>2, Zenon DEF Unlost, Waiting
<1>. QED
  BY <1>1, <1>2, <1>3, <1>4, <1>5, <1>6, PTL DEF Spec
=============================================================================

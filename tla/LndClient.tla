------------------------------- MODULE LndClient -------------------------------
(***************************************************************************)
(* One request of the lnd client, src/lnd.ts: a call, whose promise has to *)
(* settle, or a stream, which hands on the messages of its lines and has   *)
(* to report its end once.                                                 *)
(*                                                                         *)
(* The server and node's http module are external: a body arrives in       *)
(* chunks of any size, and a connection may fail before the answer, end    *)
(* with it, or break half way, with an error on the request (a reset) or   *)
(* without one (a close).  A stream's text is a sequence of tokens, where  *)
(* a line is its content and a newline.                                    *)
(***************************************************************************)
EXTENDS Integers, Sequences, FiniteSetsExt, SequencesExt

CONSTANTS
    Messages,  \* contents of lines that are messages
    Rejects,   \* contents that are malformed, or lnd's report of an error
    MaxLines   \* bound: lines the server writes

NL == "newline"

ASSUME LinesAssumption ==
    /\ MaxLines \in Nat
    /\ Messages \cap Rejects = {} /\ NL \notin Messages \cup Rejects

Tokens == Messages \cup Rejects \cup {NL}

VARIABLES
    kind,       \* "call" or "stream"
    phase,      \* of the connection: no answer yet, a body that is "ok" or "refused", closed
    wire,       \* external: what the server has still to send
    heard,      \* history: what has been received
    buf, got,   \* a stream's buffer, and the messages it has handed on
    ended,      \* a stream's flag
    reports,    \* history: how often onEnd was called
    quit,       \* history: the caller closed the stream before its end was reported
    outcome     \* of a call's promise

body == <<wire, heard, buf, got>>
end  == <<ended, reports, quit, outcome>>
vars == <<kind, phase, body, end>>

\* Lines with content and empty ones; a server that dies may leave the last one open.
Texts ==
    {FlattenSeq(lines) : lines \in BoundedSeq({<<m, NL>> : m \in Messages \cup Rejects} \cup {<<NL>>},
                                              MaxLines)}

Init ==
    /\ kind \in {"call", "stream"}
    /\ phase = "sent"
    /\ wire \in Texts /\ heard = <<>> /\ buf = <<>> /\ got = <<>>
    /\ ended = FALSE /\ reports = 0 /\ quit = FALSE
    /\ outcome = "pending"

-----------------------------------------------------------------------------
(* How a call settles and a stream reports its end. *)

\* A promise keeps its first outcome.
Settle(how) ==
    /\ outcome' = IF outcome = "pending" THEN how ELSE outcome
    /\ UNCHANGED <<ended, reports, quit>>

\* Mutation: every handler reports the end.
ReportEveryEnd ==
    /\ ended' = TRUE
    /\ reports' = reports + 1
    /\ UNCHANGED <<quit, outcome>>

\* end(): onEnd once.
ReportEnd ==
    /\ ended' = TRUE
    /\ reports' = IF ended THEN reports ELSE reports + 1
    /\ UNCHANGED <<quit, outcome>>

Fails == IF kind = "call" THEN Settle("rejected") ELSE ReportEnd

-----------------------------------------------------------------------------
(* What the connection does. *)

\* The head of the answer has arrived; a status of 400 and above refuses the request.
Answered ==
    /\ phase = "sent"
    /\ phase' \in {"ok", "refused"}
    /\ UNCHANGED <<kind, body, end>>

LastNewline(text) == Max({0} \cup {i \in DOMAIN text : text[i] = NL})

\* Of a text, the contents that are among some, in their order.
Only(text, contents) ==
    LET only[i \in 0..Len(text)] ==
          IF i = 0 THEN <<>>
          ELSE IF text[i] \in contents THEN Append(only[i - 1], text[i])
          ELSE only[i - 1]
    IN  only[Len(text)]

\* The contents of the lines that are complete; an empty line has none.
Lines(text) == Only(SubSeq(text, 1, LastNewline(text)), Messages \cup Rejects)

\* What is left of the text after them.
Rest(text) == SubSeq(text, LastNewline(text) + 1, Len(text))

\* Mutation: each chunk is taken for whole lines.
ReadChunkAlone(chunk) ==
    /\ buf' = <<>>
    /\ got' = got \o Only(Lines(chunk), Messages)
    /\ IF Only(Lines(chunk), Rejects) # <<>> THEN ReportEnd ELSE UNCHANGED end

\* The loop over the lines of the buffer: messages are handed on, and what is none ends the
\* stream, which goes on reading all the same.
ReadLines(chunk) ==
    LET lines == Lines(buf \o chunk) IN
    /\ buf' = Rest(buf \o chunk)
    /\ got' = got \o Only(lines, Messages)
    /\ IF Only(lines, Rejects) # <<>> THEN ReportEnd ELSE UNCHANGED end

Data ==
    /\ phase \in {"ok", "refused"}
    /\ \E n \in 1..Len(wire) :
        LET chunk == SubSeq(wire, 1, n) IN
        /\ wire' = SubSeq(wire, n + 1, Len(wire))
        /\ heard' = heard \o chunk
        /\ IF kind = "stream" /\ phase = "ok"
           THEN ReadLines(chunk)
           ELSE UNCHANGED <<buf, got, end>>
    /\ UNCHANGED <<kind, phase>>

\* The body is complete; that of a call is JSON or not.
BodyEnds ==
    /\ phase \in {"ok", "refused"} /\ wire = <<>>
    /\ phase' = "closed"
    /\ IF kind = "stream" THEN ReportEnd
       ELSE Settle("rejected") \/ (phase = "ok" /\ Settle("resolved"))
    /\ UNCHANGED <<kind, body>>

\* Mutation: a body that breaks off is only noticed when the connection is reset.
BreaksOffUnheard ==
    /\ phase \in {"ok", "refused"}
    /\ phase' = "closed"
    /\ \E reset \in BOOLEAN : IF reset THEN Fails ELSE UNCHANGED end
    /\ UNCHANGED <<kind, body>>

\* The body breaks off: an error on the answer, which a stream that was refused does not listen
\* for, and, if the connection was reset, one on the request too.
BreaksOff ==
    /\ phase \in {"ok", "refused"}
    /\ phase' = "closed"
    /\ \E reset \in BOOLEAN :
        IF kind = "stream" /\ phase = "refused" /\ ~reset THEN UNCHANGED end ELSE Fails
    /\ UNCHANGED <<kind, body>>

\* No connection, or one that breaks before the answer.
RequestFails ==
    /\ phase = "sent"
    /\ phase' = "closed"
    /\ Fails
    /\ UNCHANGED <<kind, body>>

\* Mutation: only the wait for the answer is limited.
TimeoutBeforeAnswer ==
    /\ kind = "call" /\ phase = "sent"
    /\ phase' = "closed"
    /\ Fails
    /\ UNCHANGED <<kind, body>>

\* A call whose connection is idle for too long is destroyed; a stream's never is.
Timeout ==
    /\ kind = "call" /\ phase # "closed"
    /\ phase' = "closed"
    /\ Fails
    /\ UNCHANGED <<kind, body>>

\* The function stream() returns: whatever its destroy() causes is not reported.
Close ==
    /\ kind = "stream" /\ ~quit
    /\ phase' = "closed"
    /\ quit' = (reports = 0)
    /\ ended' = TRUE
    /\ UNCHANGED <<kind, body, reports, outcome>>

-----------------------------------------------------------------------------
Next ==
    \/ Answered \/ Data \/ BodyEnds \/ BreaksOff \/ RequestFails
    \/ Timeout \/ Close

\* Nothing of the server is fair; the timer of a call fires unless data comes.
Spec == Init /\ [][Next]_vars /\ WF_vars(Timeout)

-----------------------------------------------------------------------------
(* The subscription that a stream is for its caller *)

\* What is still to be handed on, if nothing breaks.
ToCome ==
    IF kind = "stream" /\ phase \in {"sent", "ok"} THEN Only(Lines(buf \o wire), Messages) ELSE <<>>

Subscribed == INSTANCE Subscription WITH
    Message <- Messages, toCome <- ToCome, handed <- got,
    state <- IF quit THEN "closed" ELSE IF ended THEN "ended" ELSE "open"

\* After a line that is no message the stream goes on reading although it has reported its end;
\* without one it is a subscription.
NoLineIsRejected == kind = "stream" /\ phase = "ok" => Only(Lines(heard), Rejects) = <<>>

-----------------------------------------------------------------------------
(* Properties *)

\* However the body is cut into chunks, a stream has at every moment handed on exactly the
\* messages of the lines that have arrived whole, in their order; and it has ended if one of
\* the lines was none ("streams deliver messages, report a malformed line once").
LinesAreHandledAtOnce ==
    kind = "stream" /\ phase = "ok" =>
        /\ got = Only(Lines(heard), Messages)
        /\ Only(Lines(heard), Rejects) # <<>> => ended

\* The end of a stream is reported once, and not to a caller who closed it before: BackupService
\* would subscribe a second time (end, and the function that stream() returns).
EndIsReportedOnce == reports <= IF quit THEN 0 ELSE 1

\* A stream that lnd accepted, or has not answered, does not die unheard: BackupService takes
\* itself to be subscribed until it is told otherwise.
DeathIsReported ==
    [][kind = "stream" /\ phase \in {"sent", "ok"} /\ phase' = "closed"
        => reports' = 1 \/ quit']_vars

\* "without this the promise would never settle": every call settles, whether lnd answers,
\* refuses, breaks off or falls silent at any point of its answer.
CallSettles == kind = "call" ~> outcome # "pending"
=============================================================================

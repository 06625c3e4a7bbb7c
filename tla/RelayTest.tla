------------------------------- MODULE RelayTest -------------------------------
(***************************************************************************)
(* The public relay test, publicRelayTest of src/relay-test.ts: a dummy    *)
(* event of a throwaway key is published, read back and checked, its       *)
(* deletion is requested, and a last look tells whether it is gone.        *)
(*                                                                         *)
(* The relay is external and may do anything: take the event without a     *)
(* word or acknowledge it without keeping it, not answer, send back a copy *)
(* whose signature is broken, ignore the deletion.                         *)
(* What it keeps is what src/relay.ts keeps, if it is well-behaved.  It    *)
(* cannot make up an event of a key it does not have.                      *)
(***************************************************************************)
EXTENDS Integers

CONSTANT Tester  \* whoever may be running a test

VARIABLE test    \* tester -> its test

\* at: the await the test is in; kept (external): the relay has the event; answer: what the
\* relay sent when asked for it; honored: deletionHonored; errors: there are some;
\* blind (history): the last look was not answered.
NoTest == [at |-> "none", kept |-> FALSE, published |-> FALSE, answer |-> "none",
           requested |-> FALSE, honored |-> "unchecked", errors |-> FALSE, blind |-> FALSE]

Answers == {"none", "intact", "unsigned"}

Test == [at : {"none", "publish", "retrieve", "delete", "recheck", "done"}, kept : BOOLEAN,
         published : BOOLEAN, answer : Answers, requested : BOOLEAN,
         honored : {"unchecked", "yes", "no"}, errors : BOOLEAN, blind : BOOLEAN]

TestInit == test = [t \in Tester |-> NoTest]

SignatureValid(t) == test[t].answer = "intact"
Retrieved(t)      == test[t].answer # "none"

-----------------------------------------------------------------------------
Steps(t, from, to) == test[t].at = from /\ test' = [test EXCEPT ![t] = to]

BeginTest(t) == Steps(t, "none", [NoTest EXCEPT !.at = "publish"])

\* The relay accepts the event, or refuses it or lets the time run out: the test returns.
TestPublished(t) ==
    \E kept \in BOOLEAN :
        \/ Steps(t, "publish", [test[t] EXCEPT !.at = "retrieve", !.kept = kept,
                                               !.published = TRUE])
        \/ Steps(t, "publish", [test[t] EXCEPT !.at = "done", !.kept = kept, !.errors = TRUE])

\* The probe for the event: what has its id is examined.
TestRetrieved(t) ==
    \E answer \in IF test[t].kept THEN Answers ELSE {"none"} :
        Steps(t, "retrieve", [test[t] EXCEPT !.at = "delete", !.answer = answer,
                                             !.errors = answer = "none"])

\* The deletion request is acknowledged, or the test ends with an error of the cleanup; in
\* either case it may have had its effect.
TestDeleted(t) ==
    \E kept \in {test[t].kept, FALSE} :
        \/ Steps(t, "delete", [test[t] EXCEPT !.at = "recheck", !.kept = kept,
                                              !.requested = TRUE])
        \/ Steps(t, "delete", [test[t] EXCEPT !.at = "done", !.kept = kept, !.errors = TRUE])

\* Mutation: the last look is taken for an answer to the request.
TestRecheckedBlindly(t) ==
    \E blind \in BOOLEAN :
        Steps(t, "recheck", [test[t] EXCEPT !.at = "done", !.blind = blind, !.honored = "yes"])

\* The last look: what is not served, also for want of an answer, counts as deleted.
TestRechecked(t) ==
    \E blind \in BOOLEAN :
        Steps(t, "recheck", [test[t] EXCEPT !.at = "done", !.blind = blind,
                                !.honored = IF test[t].kept /\ ~blind THEN "no" ELSE "yes"])

TestStep(t) == TestPublished(t) \/ TestRetrieved(t) \/ TestDeleted(t) \/ TestRechecked(t)

\* The result is handed over.
TestOver(t) == Steps(t, "done", NoTest)

-----------------------------------------------------------------------------
(* Properties *)

\* "reported honestly": a test that leaves its event on the relay says so, by an error or by
\* deletionHonored, wherever it broke off; unless the relay did not answer the last look.
LeftoverIsReported ==
    \A t \in Tester :
        test[t].at = "done" /\ test[t].kept =>
            test[t].errors \/ test[t].honored = "no" \/ test[t].blind
=============================================================================

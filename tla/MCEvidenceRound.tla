--------------------------- MODULE MCEvidenceRound ---------------------------
(***************************************************************************)
(* Three questions put to the rounds of a run: what reading leaves behind, *)
(* what a chain of redrafts may shed, and what a claim check may conclude. *)
(* Each has its drafts and pages, and what the others are about rests      *)
(* meanwhile, so that none multiplies the states of another.               *)
(***************************************************************************)
EXTENDS EvidenceRound

VARIABLE question

Says(k, cites) == [para |-> 1, claim |-> k, cites |-> cites, history |-> FALSE]
Entry(url) == [number |-> 0, url |-> url, text |-> "t"]

Whole(n) == Body(n, 3, FALSE)
Cut(n) == Body(n, 3, TRUE)

-----------------------------------------------------------------------------
(* Reading: a draft that rests on two addresses, and one that drops the    *)
(* second and keeps its claim.  One of the pages may turn out to be walled. *)
Both == [body |-> <<Says("k1", {1}), Says("k2", {1, 2})>>, entries |-> <<Entry("a"), Entry("b")>>]
Bare == [body |-> <<Says("k1", {1}), Says("k2", {})>>, entries |-> <<Entry("a")>>]
ReadingPages == {[u \in Urls |-> IF u = "a" THEN Whole(2) ELSE Whole(1)],
                 [u \in Urls |-> IF u = "a" THEN Failed("paywalled") ELSE Whole(1)]}
OneRange == {<<[at |-> 0, len |-> 2, located |-> TRUE]>>}

(* Redrafting: drafts that rest on three addresses, two of them and one,   *)
(* each with a source fewer and the claim it was for gone.                 *)
Three == [body    |-> <<Says("k1", {1}), Says("k2", {2}), Says("k3", {3})>>,
          entries |-> <<Entry("a"), Entry("b"), Entry("c")>>]
Two == [body    |-> <<Says("k1", {1}), Says("k2", {2})>>,
        entries |-> <<Entry("a"), Entry("b")>>]
One == [body |-> <<Says("k1", {1})>>, entries |-> <<Entry("a")>>]
RedraftPages == {[u \in Urls |-> Whole(1)]}

(* Checking: a page that fits one question, one that fits the questions a  *)
(* citation may cost, one that does not, one whose end was cut off, and    *)
(* one that is no document at all.                                         *)
Twice == [body |-> <<Says("k2", {1, 2})>>, entries |-> <<Entry("a"), Entry("b")>>]
CheckedPages ==
  {[u \in Urls |-> IF u = "a" THEN p ELSE q] :
     p \in {Whole(1), Whole(2), Whole(3), Cut(1), Cut(2), Failed("paywalled")},
     q \in {Whole(1), Failed("blocked")}}

MCReports == {Both, Bare, Three, Two, One, Twice}
MCPages == ReadingPages \cup RedraftPages \cup CheckedPages

-----------------------------------------------------------------------------
Drafted(reports) == draft \in reports /\ \A h \in ToSet(attempt.held) : h.report \in reports
Answers(verdicts) == \A q \in DOMAIN memo : memo[q] \in verdicts

(* No claim check gets an answer.                                          *)
Reading ==
  /\ pages \in ReadingPages /\ Drafted({NoDraft, Both, Bare})
  /\ count.round <= 2 /\ count.pass <= 1 /\ Answers({})

(* One process, whose evidence reader is of no use; the first writer finds *)
(* what it searches for, and every claim check gets an answer.             *)
Redrafting ==
  /\ pages \in RedraftPages /\ Drafted({NoDraft, Three, Two, One})
  /\ count.boot = 1 /\ reader.cards = <<>>
  /\ count.round = 0 => (session.at = "open" /\ used.queries = 1 => session.offered = Urls)
  /\ count.round > 0 => used.queries = 1
  /\ Answers({"supported", "contradicted"}) /\ (check.at # "none" => check.streak = 0)

(* One draft, written by a writer that looks nothing up.                   *)
Checking ==
  /\ pages \in CheckedPages /\ Drafted({NoDraft, Both, Twice})
  /\ count.round <= 1 /\ count.boot = 1 /\ used.queries = 0
  /\ Answers({"supported", "absent", "quoted"})

Asking == CASE question = "reading" -> Reading
            [] question = "redrafting" -> Redrafting
            [] question = "checking" -> Checking

MCInit == Init /\ question \in {"reading", "redrafting", "checking"} /\ Asking
MCNext == Next /\ UNCHANGED question /\ Asking'
MCSpec == MCInit /\ [][MCNext]_<<vars, question>>
=============================================================================

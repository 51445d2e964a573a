--------------------------- MODULE MCSourceReview ---------------------------
(***************************************************************************)
(* Two evidence critics, a draft with a DOI, an address that names nothing *)
(* and a line without one, critiqued twice.                                *)
(***************************************************************************)
EXTENDS SourceReview

doi == [kind |-> "doi", value |-> "d"]
MCCarries == [u \in Urls |-> IF u = "u1" THEN {doi} ELSE {}]
MCRegistries == <<"crossref">>
MCArchives == <<"openalex">>
MCLimits == [identifier |-> 1, open_access |-> 1, extraction |-> 1]

Respond(status, kind, size, wall) ==
    [status |-> status, hops |-> 0, kind |-> kind, size |-> size, cut |-> FALSE, wall |-> wall,
     dropped |-> FALSE]
(* A page, a file that turns out to be one or to be closed, a missing page *)
(* and a server's error.                                                   *)
MCPages == {Respond(200, "text", 1, FALSE), Respond(200, "pdf", 1, FALSE),
            Respond(404, "text", 0, FALSE), Respond(500, "text", 0, FALSE)}
MCPdfs == {Respond(200, "pdf", 1, FALSE), Respond(403, "text", 0, FALSE)}

Line(indent, urls) == [indent |-> indent, label |-> FALSE, urls |-> urls]
MCDrafts == [d1 |-> <<Line(0, <<"u1">>), Line(2, <<"u2">>), Line(0, <<>>)>>]
MCPasses == <<"d1", "d1">>

(* The address that names nothing is a page or a server's error; closed    *)
(* and missing pages are met at the one that names something.              *)
Plain == \A r \in Readers : call[r].at \in {"extract", "store"} /\ call[r].url = "u2" =>
                              call[r].direct.outcome \in {"full_text", "error"}

MCNext == Next /\ Plain'
MCSpec == Init /\ [][MCNext]_vars

Critics == Permutations(Readers)

(* What is still used of a fetch that has its result: that, and what the   *)
(* page itself said; of a review that has its tally, the tally; of a draft *)
(* that has had its passes, what is recorded.  The trail is never read.    *)
Settling(c) == [at |-> c.at, url |-> c.url, result |-> c.result, said |-> c.direct.outcome]
Tallied(w) == [at |-> w.at, tally |-> w.tally]
MCView ==
  IF ~ Running THEN <<pass, sink, saved>>
  ELSE <<[r \in Readers |-> IF call[r].at \in {"extract", "store"} THEN Settling(call[r]) ELSE call[r]],
         [r \in Readers |-> IF work[r].at = "fetching" THEN work[r] ELSE Tallied(work[r])],
         cache, known, copies, spent, pass, sink, saved, boots>>
=============================================================================

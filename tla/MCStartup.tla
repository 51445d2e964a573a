----------------------------- MODULE MCStartup -----------------------------
(***************************************************************************)
(* Two lenses, four critic aliases of three models, a writer that is also  *)
(* a critic's model, two audition processes.                               *)
(***************************************************************************)
EXTENDS Startup

MCWriters == <<"w", "a">>
MCCritics == [l \in {"logic", "evidence"} |-> IF l = "logic" THEN <<"a", "a2", "b">> ELSE <<"b2">>]
MCIdentityOf == [x \in {"w", "a", "a2", "b", "b2", "o"} |->
  CASE x = "w" -> "mw" [] x \in {"a", "a2"} -> "ma" [] x \in {"b", "b2"} -> "mb" [] x = "o" -> "mo"]
MCFamilyOf == [x \in {"mw", "ma", "mb", "mo"} |-> x]

MCTier == [o |-> "obvious", m |-> "moderate", k |-> "control"]
Issue(near, category, severity) == [near |-> near, category |-> category, severity |-> severity]
Failed == [failed |-> TRUE, issues |-> {}]
Review(issues) == [failed |-> FALSE, issues |-> issues]
Nitpick == Review({Issue(TRUE, "stylistic", "major")})
Caught == Review({Issue(TRUE, "planted", "minor")})
Elsewhere == Review({Issue(FALSE, "planted", "major")})
Noisy == Review({Issue(TRUE, "sibling", "major"), Issue(FALSE, "planted", "minor")})
Exam(o, m, k) == [c \in Calls |-> (CASE c[1] = "o" -> o [] c[1] = "m" -> m [] c[1] = "k" -> k)[c[2]]]

(* Every way to review a planted fixture twice, and a sound one; and an    *)
(* exam that passes and one that fails.                                    *)
Twice(reviews) == reviews \X reviews
MCExams == {Exam(o, m, k) : o \in Twice({Failed, Caught, Nitpick, Elsewhere}),
                            m \in Twice({Failed, Caught, Nitpick, Elsewhere}),
                            k \in Twice({Failed, Nitpick, Noisy})}
MCPassAndFail == {Exam(<<Caught, Caught>>, <<Caught, Caught>>, <<Nitpick, Nitpick>>),
                  Exam(<<Nitpick, Nitpick>>, <<Caught, Caught>>, <<Nitpick, Nitpick>>)}

MCModesOf == [x \in Aliases |-> IF x = "b" THEN {"strict", "prompt"} ELSE {"strict"}]
MCEvidenceOnly == {{s \in Slots : s[2] = "evidence"}}
MCScopes == {Slots, {s \in Slots : s[2] = "evidence"}}
MCOutages == {{}, {"a"}, {"b"}, {"b2"}, {"w"}, {"o"}, {"a", "w"}, {"a", "a2"}, {"w", "o"}}
MCNoOutage == {{}}
MCPlain == {[search |-> FALSE, verify |-> TRUE, read |-> FALSE, cards |-> FALSE, pdf |-> FALSE,
             tiers |-> {}]}
MCSettings == {[search |-> s, verify |-> v, read |-> r, cards |-> TRUE, pdf |-> p, tiers |-> t] :
                 s \in BOOLEAN, v \in BOOLEAN, r \in BOOLEAN, p \in BOOLEAN,
                 t \in {{}, Tiers}} \ {c \in [search : {FALSE}, verify : BOOLEAN, read : {TRUE},
                                              cards : {TRUE}, pdf : BOOLEAN, tiers : SUBSET Tiers] : TRUE}

MCSymmetry == Permutations(Auditioners)

(* After the gate the cache cannot matter any more. *)
MCView == IF start.at = "queued" THEN vars ELSE <<start>>
=============================================================================

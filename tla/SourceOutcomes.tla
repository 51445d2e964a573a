--------------------------- MODULE SourceOutcomes ---------------------------
(***************************************************************************)
(* What one request for a source can come to.  A cited page, a registry, an *)
(* archive and a rendering service each answer in a few ways that matter;  *)
(* everything else about an answer is data.  Lengths are counted in units  *)
(* small enough for the caps below to be told apart.                       *)
(***************************************************************************)
EXTENDS Naturals, Sequences, SequencesExt, FiniteSets, FiniteSetsExt

CONSTANTS
    MaxRedirects,   \* hops a cited page may redirect
    WallMaxChars,   \* a page longer than this is not an access wall
    BodyCap,        \* characters of a body the fetcher keeps
    ReadPdfs        \* sources.pdf is enabled

ASSUME SourceConstants ==
    /\ MaxRedirects \in Nat /\ WallMaxChars \in Nat /\ BodyCap \in Nat \ {0}
    /\ ReadPdfs \in BOOLEAN

Outcomes == {"full_text", "metadata_only", "paywalled", "blocked", "not_found",
             "unreadable", "empty", "error", "budget_exhausted", "not_retrieved"}
Tiers == {"direct", "identifier", "open_access", "extraction"}

NotFoundStatuses == {404, 410}
BlockedStatuses == {401, 402, 403, 405, 406, 423, 429, 451, 999}

ClassifyStatus(status) ==
    CASE status \in NotFoundStatuses -> "not_found"
      [] status \in BlockedStatuses -> "blocked"
      [] OTHER -> "error"

(* A result: how the fetch went, which rung of the ladder answered, how    *)
(* much of the body was kept, whether that is all of it, and whether it is *)
(* the body of another address than the one cited.                         *)
FetchedSource ==
    [outcome: Outcomes, tier: Tiers, size: Nat, whole: BOOLEAN, mirror: BOOLEAN]
Failed(outcome) ==
    [outcome |-> outcome, tier |-> "direct", size |-> 0, whole |-> FALSE, mirror |-> FALSE]
Body(size, cap, cut) ==
    [outcome |-> "full_text", tier |-> "direct", size |-> Min({size, cap}),
     whole |-> ~ cut /\ size <= cap, mirror |-> FALSE]
Readable(s) == s.outcome = "full_text"

(* A table with one entry set.                                             *)
With(table, key, value) ==
    [k \in DOMAIN table \cup {key} |-> IF k = key THEN value ELSE table[k]]

ClipBody(s, cap) ==
    IF Readable(s) /\ s.size > cap THEN [s EXCEPT !.size = cap, !.whole = FALSE] ELSE s

-----------------------------------------------------------------------------
(* An HTTP answer: a status (0 for no answer at all), the redirects taken  *)
(* on the way, the kind of content, its length, whether the byte cap cut   *)
(* it, whether it words itself as a refusal, and whether it is a document  *)
(* of more pages than are converted.                                       *)
Answer == [status: Nat, hops: Nat, kind: {"text", "pdf", "other"}, size: Nat,
           cut: BOOLEAN, wall: BOOLEAN, dropped: BOOLEAN]

(* A redirect past the limit surfaces as the status of the redirect.       *)
StatusOf(a, limit) == IF a.hops > limit THEN 302 ELSE a.status

AccessWall(a) == a.wall /\ a.size <= WallMaxChars

(* The second request for the same address, under the cap for PDFs: a file *)
(* that was cut cannot be converted, pages past the limit are dropped.     *)
FetchPdf(b) ==
    LET status == StatusOf(b, MaxRedirects)
    IN CASE status # 200 -> Failed(ClassifyStatus(status))
         [] status = 200 /\ (b.cut \/ b.size = 0) -> Failed("unreadable")
         [] OTHER -> Body(b.size, BodyCap, b.dropped)

FetchPage(a) ==
    CASE a.size = 0 -> Failed("empty")
      [] a.size > 0 /\ AccessWall(a) -> Failed("blocked")
      [] OTHER -> Body(a.size, BodyCap, a.cut)

FetchUncached(a, b) ==
    LET status == StatusOf(a, MaxRedirects)
    IN CASE status # 200 -> Failed(ClassifyStatus(status))
         [] status = 200 /\ a.kind = "text" -> FetchPage(a)
         [] status = 200 /\ a.kind = "pdf" /\ ReadPdfs -> FetchPdf(b)
         [] OTHER -> Failed("unreadable")

-----------------------------------------------------------------------------
(* Identifiers and who may be asked about them.                            *)

IdKinds == <<"doi", "arxiv", "pmcid", "pmid">>

(* Of the identifiers an address carries, the one of the first kind.       *)
Extract(carried) ==
    LET first == SelectInSeq(IdKinds, LAMBDA k : \E d \in carried : d.kind = k)
    IN {d \in carried : first > 0 /\ d.kind = IdKinds[first]}

Supports(p, kind) ==
    kind \in CASE p \in {"crossref", "unpaywall", "core"} -> {"doi"}
               [] p = "openalex" -> {"doi", "pmid"}
               [] p = "europe_pmc" -> {"pmid", "pmcid", "doi"}
               [] p = "arxiv" -> {"arxiv"}

(* Europe PMC does not hold every DOI, so its silence about one is nothing. *)
Authoritative(p, kind) == Supports(p, kind) /\ ~ (p = "europe_pmc" /\ kind = "doi")

(* What a provider's server can answer: a record, one with no free copy, a *)
(* well-formed answer that holds nothing, one that holds something else, a *)
(* text that cannot be parsed, a 404, or no usable answer.                 *)
ProviderAnswers == {"record", "closed", "empty", "bare", "garbled", "gone", "down"}

JsonGet(c) == CASE c = "gone" -> "none"
                [] c \in {"garbled", "down"} -> "unavailable"
                [] OTHER -> c
TextGet(c) == CASE c = "gone" -> "none" [] c = "down" -> "unavailable" [] OTHER -> c
JsonPost(c) == CASE c = "gone" -> "none"
                 [] c \in {"garbled", "down"} -> "unavailable"
                 [] OTHER -> c

Records == {"record", "closed"}

Crossref(c) == CASE JsonGet(c) \in Records -> "record"
                 [] JsonGet(c) \in {"empty", "bare"} -> "unavailable"
                 [] OTHER -> JsonGet(c)
OpenAlex(c) == IF JsonGet(c) \in {"none", "unavailable"} THEN JsonGet(c) ELSE "record"
EuropePmcRecord(c) == CASE JsonGet(c) \in Records -> JsonGet(c)
                        [] JsonGet(c) = "unavailable" -> "unavailable"
                        [] OTHER -> "none"
ArxivEntry(c) == CASE TextGet(c) \in Records -> "record"
                   [] TextGet(c) = "unavailable" -> "unavailable"
                   [] OTHER -> "none"

(* Tier 0: "record", "none" or "unavailable".                              *)
Metadata(p, c) ==
    CASE p = "crossref" -> Crossref(c)
      [] p = "openalex" -> OpenAlex(c)
      [] p = "europe_pmc" -> IF EuropePmcRecord(c) = "closed" THEN "record" ELSE EuropePmcRecord(c)
      [] p = "arxiv" -> ArxivEntry(c)

(* Tier 1: "copy", "none" or "unavailable".                                *)
Location(c) == CASE c = "record" -> "copy" [] c = "unavailable" -> c [] OTHER -> "none"
OpenAccessUrl(p, c) ==
    CASE p = "openalex" -> Location(JsonGet(c))
      [] p = "unpaywall" -> Location(JsonGet(c))
      [] p = "europe_pmc" -> Location(EuropePmcRecord(c))
      [] p = "arxiv" -> Location(ArxivEntry(c))
      [] p = "core" -> Location(JsonPost(c))

(* Only a 404, or a well-formed answer that holds nothing, denies a record. *)
Denies(c) == c \in {"gone", "empty"}

(* The rendering service: "page", "wall", nothing, or no answer.           *)
RendererAnswers == {"page", "wall", "blank", "failed", "gone", "down"}
Rendered(c) == CASE c \in {"failed", "down"} -> "unavailable"
                 [] c \in {"gone", "blank"} -> "none"
                 [] OTHER -> c
=============================================================================

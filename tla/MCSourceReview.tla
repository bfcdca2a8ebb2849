----------------------------- MODULE MCSourceReview -----------------------------
(* SourceReview with a plain, an advisory and a two-location category, and *)
(* the submissions of up to two citations of what they turn on.            *)
EXTENDS SourceReview

MCDelays == <<1, 1>>
MCDeadlines == {NoDeadline, 2}

At(place, written, category) ==
  [place |-> place, written |-> written, category |-> category]

MCCitations ==
  {At("code", "plain", "mirror"), At("code", "dotted", "mirror"),
   At("comment", "plain", "mirror"), At("code", "plain", "malicious"),
   At("comment", "plain", "malicious"), At("missing", "plain", "malicious")}

MCEvidence ==
  {e \in SUBSET MCCitations : Cardinality(e) <= 2}
    \cup {{At("code", "plain", "mirror"), At("comment", "plain", "mirror"), c} :
            c \in {At("code", "plain", "malicious"),
                   At("comment", "plain", "malicious")}}
    \cup {{At("comment", "plain", "build")}}

MCSubmissions ==
  [risk : {"low", "high"},
   categories : {{"none"}, {"build"}, {"malicious"}, {"mirror"},
                 {"mirror", "malicious"}},
   evidence : MCEvidence]
=============================================================================

----------------------------- MODULE ReviewFinding -----------------------------
(***************************************************************************)
(* _parse_review (ditto_screener/source_review.py): what becomes of a      *)
(* review the model submitted.  Citations of places that do not exist are  *)
(* dropped, a review that contradicts itself is refused, and citations of  *)
(* lines that cannot execute are then filtered out of what is kept.        *)
(*                                                                         *)
(* A place is a line of a member; a path may be written with "./" before   *)
(* it, which every look-up strips and the count of locations does not.     *)
(***************************************************************************)
EXTENDS Naturals, FiniteSets

CONSTANTS
  Categories,      \* _ALLOWED_CATEGORIES, without "none"
  Advisory,        \* _ADVISORY_CATEGORIES
  MultiLocation,   \* _MULTI_LOCATION_CATEGORIES
  Places,          \* what a review may cite
  Existing,        \* has_member, and within line_count where that is known
  Executable       \* citation_admissibility admits them as evidence

ASSUME FindingAssumption ==
  /\ "none" \notin Categories
  /\ Advisory \subseteq Categories /\ MultiLocation \subseteq Categories
  /\ Advisory \cap MultiLocation = {}
  /\ Existing \subseteq Places /\ Executable \subseteq Places

Risks == {"low", "medium", "high"}
Claims == Categories \cup {"none"}
Citations == [place : Places, written : {"plain", "dotted"}, category : Claims]
SubmittedReviews == [risk : Risks, categories : (SUBSET Claims) \ {{}},
                     evidence : SUBSET Citations]

Elevated(risk) == risk \in {"medium", "high"}

Cited(review) == {c \in review.evidence : c.place \in Existing}

Under(citations, category) == {c \in citations : c.category = category}

Locations(citations) == {<<c.place, c.written>> : c \in citations}

(* The invariants that police the model.                                   *)
Consistent(review) ==
  /\ "none" \in review.categories => review.categories = {"none"}
  /\ review.risk = "low" => review.categories \subseteq Advisory \cup {"none"}
  /\ Elevated(review.risk) =>
       /\ review.categories # {"none"}
       /\ \A k \in review.categories : Under(Cited(review), k) # {}
  /\ \A k \in review.categories \cap MultiLocation :
       Cardinality(Locations(Under(Cited(review), k))) >= 2

Admitted(review) == {c \in Cited(review) : c.place \in Executable}

(* Slip: the bar on locations is applied to what the filter left, too.     *)
SurvivingTwice(review) ==
  {k \in review.categories :
     Cardinality(Locations(Under(Admitted(review), k)))
       >= (IF k \in MultiLocation THEN 2 ELSE 1)}

(* The categories with an admissible citation left.                        *)
Surviving(review) ==
  {k \in review.categories : Under(Admitted(review), k) # {}}

Finding(risk, categories, evidence) ==
  [risk |-> risk, categories |-> categories, evidence |-> evidence]

(* Slip: only a review that lost all its evidence is changed.              *)
FilteredWhenStarved(review) ==
  IF Elevated(review.risk) /\ Surviving(review) = {}
  THEN Finding("low", {"none"}, {})
  ELSE Finding(review.risk, review.categories, Cited(review))

(* The inadmissible-citation filter, which never raises.                   *)
Filtered(review) ==
  IF Admitted(review) = Cited(review)
  THEN Finding(review.risk, review.categories, Cited(review))
  ELSE IF Elevated(review.risk) /\ Surviving(review) = {}
  THEN Finding("low", {"none"}, {})
  ELSE Finding(review.risk,
               IF Surviving(review) = {} THEN review.categories
               ELSE Surviving(review),
               {c \in Admitted(review) : c.category \in Surviving(review)})
=============================================================================

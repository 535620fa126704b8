-------------------------- MODULE TwoPartyAgreement --------------------------
(* The ruleset of the two-party agreement: what a record may do to the view  *)
(* of a document.  A view keeps the number and the stage; that the content   *)
(* is "current" or, once anchored, "freight" is left out, as everything that *)
(* reads the content takes whichever is there.  The patch of an update is    *)
(* abstracted to the content it leads to: two updates with the same parent   *)
(* and the same patch are one record.                                        *)
(*                                                                           *)
(* Whether a party's signature fits is asked of a DID resolver each time an  *)
(* update is applied, and every error on the way is taken for "it does not   *)
(* fit": a signature that was made may be found not to fit, here and now,    *)
(* and so one record be a draft on one node and an agreement on another.     *)
EXTENDS Integers

CONSTANTS
    Updates,    \* the update records that may ever be written
    Content     \* the content each leads to: the number, and which of the
                \* two parties have signed it

Parties == {"partyA", "partyB"}

ASSUME ContentAssumption ==
    Content \in [Updates -> [num : Nat, signed : SUBSET Parties]]

View == [num : Nat, stage : {"draft", "agreement"}]

\* A genesis record opens a draft; its number is 0 here, the least.
Knead == [num |-> 0, stage |-> "draft"]

\* Which parties' signatures may be found to fit when u is applied: of those
\* that signed any, as each lookup may fail or meet other keys by now.
Checks(u) == SUBSET Content[u].signed

\* Mistake: the stage of the present content is not looked at.
CanApplyAgain(view, u, fits) ==
    /\ fits # {}
    /\ Content[u].num >= view.num

\* Mistake: the number is not looked at.
CanDecrease(view, u, fits) ==
    /\ view.stage # "agreement"
    /\ fits # {}

CanApply(view, u, fits) ==
    /\ view.stage # "agreement"
    /\ fits # {}
    /\ Content[u].num >= view.num

Stage(fits) == IF fits = Parties THEN "agreement" ELSE "draft"

Applied(u, fits) == [num |-> Content[u].num, stage |-> Stage(fits)]
=============================================================================

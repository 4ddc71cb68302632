------------------------------- MODULE Intake -------------------------------
(***************************************************************************)
(* From a file to the document that soffice is given: the detection, and   *)
(* for a file found to be a web archive the extraction of its parts, whose *)
(* page goes through the attribute injector before it is written.          *)
(*                                                                         *)
(* The stages run one after the other; of the verdict only the label is    *)
(* carried on.                                                             *)
(***************************************************************************)
EXTENDS Detector, MhtUnpack, LegacyAttrs

CONSTANT ShortArchive   \* bound: tag streams are explored for archives of so many parts

ASSUME IntakeAssumption == ShortArchive \in Nat

vars == <<detVars, mhtVars, attrVars>>

Init == DetInit /\ MhtInit /\ AttrInit

Detect == DetNext /\ UNCHANGED <<mhtVars, attrVars>>

\* detect() has returned: its locals are gone, the label decides.
Archive == det = "accepted" /\ verdict.label = "mht"

ForgetDetection ==
    /\ det' = "forgotten"
    /\ file' = [body |-> "flat", head |-> "mime", ext |-> "", textMime |-> FALSE]
    /\ raw' = Silent /\ label' = "mht"
    /\ verdict' = [NoVerdict EXCEPT !.label = "mht"]

Unpack ==
    /\ Archive
    /\ BeginWalk \/ Unreadable
    /\ ForgetDetection
    /\ UNCHANGED attrVars

Extract ==
    /\ \/ SkipPart \/ TakeRoot \/ CapReached \/ EndWalk
       \/ \E part \in Part : StorePart(part) \/ StoreFails(part)
       \/ NoPage \/ RewriteLinks
    /\ UNCHANGED <<detVars, attrVars>>

\* _boost_legacy_attrs: an exception in the parser leaves the page as it is.
Boost ==
    /\ mht = "rewritten"
    /\ \/ parts <= ShortArchive /\ BeginPage
       \/ injector = "idle" /\ injector' = "done"
          /\ UNCHANGED <<element, frames, output, crossed, inStyle>>
    /\ UNCHANGED <<detVars, mhtVars>>

Inject ==
    /\ EndTag \/ StartStyle \/ EndStyle \/ EndPage
       \/ \E tag \in Tags, own \in Styles : StartTag(tag, own)
    /\ UNCHANGED <<detVars, mhtVars>>

Write ==
    /\ injector = "done"
    /\ WritePage
    /\ UNCHANGED <<detVars, attrVars>>

Next == Detect \/ Unpack \/ Extract \/ Boost \/ Inject \/ Write

Spec == Init /\ [][Next]_vars
=============================================================================
